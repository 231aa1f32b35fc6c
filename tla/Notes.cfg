SPECIFICATION FairSpec
CONSTANTS
  Users = {u1, u2}
  Texts = {"A", "secret"}
  Marker = "purged"
  Clean <- MCClean
  NoText = "none"
  Drafts = {1, 2}
  MaxVersions = 4
  MaxEvents = 3
CHECK_DEADLOCK FALSE
INVARIANTS
  SearchIsCurrent
PROPERTIES
  NoLostUpdate
  DraftsKept
  HeadsStaySearchable
  ImplementsHistory
