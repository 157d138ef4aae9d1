SPECIFICATION Spec
CONSTANTS
    Nodes = {1}
    Reqs = {r1, r2}
    Clients = {c1}
    Users = {u1}
    Leavers = {}
    Tokens = {t1, t2, t3}
    Families = {f1}
    LegacyTokens = {}
    MaxTime = 4
    GracePeriod = 1
    RefreshTTL = 2
    AbsoluteTTL = 3
    MaxGraceEntries = 2
    Faults = {}
    MayCrash = FALSE
    AtomicRevoke = FALSE
    None = None
    Skew <- NoSkew
SYMMETRY Symmetry
INVARIANTS RevokedStaysDead
