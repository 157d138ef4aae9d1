SPECIFICATION Spec
CONSTANTS
    Verifiers = {v1, v2}
    App = App
    Racers = {g1, g2}
    Defects <- EveryStore
    InsertOnly = {TRUE, FALSE}
    Fragile <- FailsOnPgstore
    Minute = 2
    Hour = 3
    MaxTime = 5
    None = None
SYMMETRY Symmetry
INVARIANTS TypeOK CompliantNeverReported ProbedDefectsReported AppRowsUntouched CleansUp LeftoversLapse
