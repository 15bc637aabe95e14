SPECIFICATION Spec
CONSTANTS
    Users = {u1, u2}
    Ids = {1, 2, 3}
    Times = {2, 3}
    BatchOwner = u1
    Filters <- SomeFilters
    Limits = {0, 2, 5}
    DefaultLimit = 1
    MaxLimit = 2
    TickNanos = 1000
    SecondTicks = 2
    MaxLag = 1
INVARIANTS
    TypeOK
    PagesComplete
    NewestFirst
    ViewCoherent
    OwnersOnly
CHECK_DEADLOCK FALSE
