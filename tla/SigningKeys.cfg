SPECIFICATION Spec
CONSTANTS
  Reqs = {r1, r2}
  Kids = {k1, k2}
  MaxAges <- Ages
  None = None
  MaxTime = 5
  minTTL = 1
  fallback = 2
  maxTTL = 2
  maxStaleJWKS = 1
  DurationLimit = 8
  FetchTimeout = 1
SYMMETRY Symmetry
INVARIANTS TypeOK WithdrawnKeysDie RefusalsAreJustified
