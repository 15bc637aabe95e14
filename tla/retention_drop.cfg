SPECIFICATION Spec
CONSTANTS
    Deliveries = {d1}
    RetentionDays = 2
    PreCreateDays = 1
    SendAhead = {0, 4}
    Horizon = 1
    LastDay = 6
INVARIANTS
    DroppedAreTerminal
CHECK_DEADLOCK FALSE
