SPECIFICATION Spec
CONSTANTS
    Nodes = {1, 2}
    Reqs = {r1, r2}
    Clients = {c1, c2}
    Users = {u1}
    Leavers = {u1}
    Tokens = {t1, t2, t3}
    Families = {f1}
    LegacyTokens = {}
    MaxTime = 2
    GracePeriod = 1
    RefreshTTL = 2
    AbsoluteTTL = 2
    MaxGraceEntries = 2
    Faults = {"save"}
    MayCrash = TRUE
    AtomicRevoke = TRUE
    None = None
    Skew <- SecondAhead
SYMMETRY Symmetry
INVARIANTS RevocationNeedsEvidence AbsoluteCap
PROPERTIES SpentByOwner
