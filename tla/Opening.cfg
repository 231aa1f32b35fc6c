CONSTANTS
  Processes = {p1, p2, p3}
  Tables <- MCTables
  Columns = {"next_attempt_at", "provider"}
  OldJobs <- MCOldJobs
  MaxWrites = 1  MaxCrashes = 1
SPECIFICATION FairSpec
INVARIANT OpenMeansCurrent
PROPERTIES NothingLost EveryoneOpens
CHECK_DEADLOCK FALSE
