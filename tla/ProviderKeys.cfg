CONSTANTS
  p1 = p1
  k1 = k1
  k2 = k2
  u1 = u1
  u2 = u2
  c1 = c1
  c2 = c2
  Providers <- OneProvider
  Calls <- TwoCalls
  Urls <- TwoUrls
  Keys <- TwoKeys
  NoKey = NoKey
  NoProvider = NoProvider
SPECIFICATION Spec
SYMMETRY Symmetry
INVARIANTS
  KeysFollowProviders
  ActiveProvidersHaveTheirKey
PROPERTIES
  FailedCallChangesNothing
CHECK_DEADLOCK FALSE
