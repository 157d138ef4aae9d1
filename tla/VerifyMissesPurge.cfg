SPECIFICATION Spec
CONSTANTS
    Verifiers = {v1}
    App = App
    Racers = {g1, g2}
    Defects <- SkipsTokens
    InsertOnly = {TRUE, FALSE}
    Fragile <- NoFailures
    Minute = 2
    Hour = 3
    MaxTime = 8
    None = None
INVARIANTS PurgeDefectsReported
