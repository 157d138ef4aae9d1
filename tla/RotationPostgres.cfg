SPECIFICATION FairSpec
CONSTANTS
    Nodes = {1}
    Reqs = {r1, r2}
    Clients = {c1}
    Users = {u1}
    Leavers = {u1}
    Tokens = {t1, t2}
    Families = {}
    LegacyTokens = {t1}
    MaxTime = 4
    GracePeriod = 1
    RefreshTTL = 3
    AbsoluteTTL = 3
    MaxGraceEntries = 2
    Faults = {}
    MayCrash = FALSE
    AtomicRevoke = FALSE
    None = None
    Skew <- NoSkew
INVARIANTS TypeOK FamilylessFailsClosed
PROPERTIES RequestsAreAnswered
