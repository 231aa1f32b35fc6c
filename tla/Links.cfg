SPECIFICATION FairSpec
CONSTANTS
  Notes = {"n"}
  Refs = {"j", "c", "b"}
  Kind <- MCKind
  Key <- MCKey
  Page <- MCPage
  Landing = "login"
  MaxAttempts = 1
  MaxEvents = 3
CHECK_DEADLOCK FALSE
INVARIANTS
  LinksResolve
PROPERTIES
  LinksGetFetched
