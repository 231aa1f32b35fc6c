SPECIFICATION FairSpec
CONSTANTS
  MaxRows = 2
  Inlined = {1}
  Gateable = {1}
  MaxBatches = 1
  MaxCrashes = 1
  MaxAttempts = 1
  FlushSize = 2
  CollectBudget = 2
  LateFailures = FALSE
CHECK_DEADLOCK FALSE
INVARIANTS
  InFlightRowsWait
  DoneHasAnnotations
PROPERTIES
  RowsSettle
