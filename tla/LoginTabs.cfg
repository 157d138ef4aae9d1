SPECIFICATION Spec
CONSTANTS
  Browsers = {b1}
  Reqs = {r1}
  Clients = {c1}
  Uris <- OneUri
  LoopbackHosts <- Localhost
  Challenges = {v1}
  Handles = {h1, h2, h3}
  Binders = {x1, x2, x3}
  Codes = {k1}
  AllowLists <- NoAllowList
  None = None
  MaxTime = 3
  PendingAuthTTL = 2
  AuthCodeTTL = 1
  UnusedClientTTL = 1
  ClientTTL = 2
  PurgeInterval = 3
  maxBinders = 2
  Tabs = FALSE
  MayFail = FALSE
SYMMETRY Symmetry
INVARIANTS TypeOK FlowsKeepTheirBinders
