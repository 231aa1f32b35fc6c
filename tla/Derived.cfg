SPECIFICATION FairSpec
CONSTANTS
  Tags = {"t"}
  Links = {"l"}
  Workers = {w1}
  Releases = 2
  MaxVersions = 2
  MaxEvents = 3
CHECK_DEADLOCK FALSE
INVARIANTS
  FreshFollowsHead
  PurgeSweepsDerived
PROPERTIES
  NoResurrection
  HeadsGetEnriched
