SPECIFICATION Spec
CONSTANTS
  Browsers = {b1, b2}
  Reqs = {r1, r2}
  Clients = {c1}
  Uris <- OneUri
  LoopbackHosts <- Localhost
  Challenges = {v1}
  Handles = {h1, h2, h3}
  Binders = {x1, x2}
  Codes = {k1, k2}
  AllowLists <- NoAllowList
  None = None
  MaxTime = 1
  PendingAuthTTL = 1
  AuthCodeTTL = 1
  UnusedClientTTL = 1
  ClientTTL = 2
  PurgeInterval = 1
  maxBinders = 2
  Tabs = TRUE
  MayFail = TRUE
SYMMETRY Symmetry
INVARIANTS CodeStaysWithItsBrowser OneLoginPerConsent
PROPERTY ImplementsConsent
