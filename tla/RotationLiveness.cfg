SPECIFICATION FairSpec
CONSTANTS
    Nodes = {1}
    Reqs = {r1, r2}
    Clients = {c1}
    Users = {u1}
    Leavers = {u1}
    Tokens = {t1, t2, t3}
    Families = {f1}
    LegacyTokens = {}
    MaxTime = 3
    GracePeriod = 1
    RefreshTTL = 2
    AbsoluteTTL = 3
    MaxGraceEntries = 2
    Faults = {"get", "undo"}
    MayCrash = FALSE
    AtomicRevoke = TRUE
    None = None
    Skew <- NoSkew
PROPERTIES ReuseKillsFamily
