SPECIFICATION Spec
CONSTANTS
    Deliveries = {d1}
    Batches = {b1}
    NoBatch = NoBatch
    Workers = {w1, w2}
    Relays = {r1}
    RowIds = {1, 2}
    OutboxBatchSize = 2
    PromoteBatch = 2
    MaxStream = 2
    MaxFaults = 0
    MaxRefusals = 1
    MaxCalls = 0
    LeaseTTL = 3
    ProviderTimeout = 2
    RateWaitStep = 1
    DbMax = 0
    MaxSkew = 0
    ReconcileAfter = 1
    MaxAttempts = 2
    Backoff <- MCBackoff
    JitterPercent = 0
    DefaultBackoff = 1
    RetryAfterHeaders <- MCNoHeaders
    SendDelays = {0}
    MayFlush = FALSE
SYMMETRY Symmetry
INVARIANTS
    CountersAgree
    AttemptsBounded
