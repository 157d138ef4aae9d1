SPECIFICATION Spec
CONSTANTS
  Browsers = {b1}
  Reqs = {r1}
  Clients = {c1, c2}
  Uris <- UriKinds
  LoopbackHosts <- Localhost
  Challenges = {v1, v2}
  Handles = {h1, h2}
  Binders = {x1}
  Codes = {k1}
  AllowLists <- TighterList
  None = None
  MaxTime = 1
  PendingAuthTTL = 1
  AuthCodeTTL = 1
  UnusedClientTTL = 1
  ClientTTL = 2
  PurgeInterval = 1
  maxBinders = 2
  Tabs = FALSE
  MayFail = FALSE
SYMMETRY Symmetry
INVARIANTS GrantMatchesConsent CodeLeavesForSafeURI
