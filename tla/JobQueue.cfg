SPECIFICATION FairSpec
CONSTANTS
  Workers = {w1}
  Adders = {a1}
  Keys <- MCKeys
  HookKeys <- MCHookKeys
  InlineKeys <- MCInlineKeys
  KeyRank <- MCKeyRank
  MaxAttempts = 2
  Delay <- MCDelay
  StaleTimeout = 1
  Suspends = FALSE
  MaxRows = 2
  MaxCrashes = 1
  MaxAuthErrors = 1
CHECK_DEADLOCK FALSE
INVARIANTS
  OneLiveRowPerKey
PROPERTIES
  OnlyClaimantReleases
  ImplementsLifecycle
  EveryRowSettles
