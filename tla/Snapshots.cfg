SPECIFICATION Spec
CONSTANTS
  Externals = {"x", "y"}
  Pasted = {"x"}
  Target = "y"
  Procs = {p1, p2}
  Pages = {"A"}
  Ttl = 2
  StaleTimeout = 2
  MaxAttempts = 2
  MaxTime = 4
  MaxJobs = 2
  MaxEdges = 2
  MaxEvents = 2
SYMMETRY Symmetry
CHECK_DEADLOCK FALSE
INVARIANTS
  CitedResolves
  OkHeadIndexed
PROPERTIES
  LateSuccessKeptUnlessReturned
