SPECIFICATION Spec
CONSTANTS
    Deliveries = {d1, d2}
    RetentionDays = 2
    PreCreateDays = 1
    SendAhead = {0, 1}
    Horizon = 1
    LastDay = 5
SYMMETRY Symmetry
INVARIANTS
    TypeOK
    NoneLost
    AgedAreDropped
    CreatedAhead
CHECK_DEADLOCK FALSE
