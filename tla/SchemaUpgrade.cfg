SPECIFICATION FairSpec
CONSTANTS
    Callers = {1, 2, 3}
    Release <- RollingDeploy
    Tables = {"tokens", "others", "version"}
    RefreshTable = "tokens"
    None = None
    MayFail = TRUE
INVARIANTS TypeOK VersionTellsTruth OverlapIsHarmless OkMeansUpgraded
PROPERTIES NeverDowngraded CallsReturn
