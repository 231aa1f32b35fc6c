SPECIFICATION FairLockSpec
CONSTANTS
  Pids = {p1, p2, p3}
  Overlap = FALSE
  MaxKills = 2
INVARIANTS
  AtMostOneWorker
PROPERTIES
  LockIsTaken
