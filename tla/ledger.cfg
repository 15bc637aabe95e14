SPECIFICATION Spec
CONSTANTS
    Deliveries = {d1, d2}
    Workers = {w1, w2}
    Cancels = {c1, c2}
    Scheduler = scheduler
    Nobody = Nobody
SYMMETRY Symmetry
INVARIANTS
    TypeOK
    CountersAgree
    DeadlocksAreCrossed
    CancelDecides
    AggregateFollowsRules
PROPERTIES
    AppearsAtomic
CHECK_DEADLOCK FALSE
