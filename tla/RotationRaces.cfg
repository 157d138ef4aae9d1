SPECIFICATION Spec
CONSTANTS
    Nodes = {1}
    Reqs = {r1, r2}
    Clients = {c1}
    Users = {u1}
    Leavers = {u1}
    Tokens = {t1, t2, t3}
    Families = {f1}
    LegacyTokens = {}
    MaxTime = 5
    GracePeriod = 1
    RefreshTTL = 2
    AbsoluteTTL = 3
    MaxGraceEntries = 1
    Faults = {"consume", "save", "revoke", "undo"}
    MayCrash = TRUE
    AtomicRevoke = TRUE
    None = None
    Skew <- NoSkew
SYMMETRY Symmetry
INVARIANTS SingleLiveToken NoFork RevokedStaysDead LedgerComplete GraceIsNarrow GraceBounded RevocationNeedsEvidence
PROPERTIES ImplementsSession
