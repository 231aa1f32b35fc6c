CONSTANTS
  n1 = n1  n2 = n2  page = page
  Notes = {n1, n2}
  Externals = {page}
  Places <- MCPlaces
  Edges <- MCEdges
  TopK = 2  KeepN = 1  RrfK = 60  Hops = 2  Limit = 2
  MaxVersions = 2  MaxChanges = 3
SPECIFICATION RetrievalSpec
INVARIANTS OnlyLiveSinceAsked KeptOnce TierIsEarned
CHECK_DEADLOCK FALSE
