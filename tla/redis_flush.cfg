SPECIFICATION FairSpec
CONSTANTS
    Deliveries = {d1}
    Batches = {}
    NoBatch = NoBatch
    Workers = {w1}
    Relays = {r1}
    RowIds = {1, 2}
    OutboxBatchSize = 2
    PromoteBatch = 2
    MaxStream = 2
    MaxFaults = 1
    MaxRefusals = 0
    MaxCalls = 0
    LeaseTTL = 4
    ProviderTimeout = 1
    RateWaitStep = 1
    DbMax = 0
    MaxSkew = 0
    ReconcileAfter = 1
    MaxAttempts = 1
    Backoff <- MCBackoff
    JitterPercent = 0
    DefaultBackoff = 1
    RetryAfterHeaders <- MCNoHeaders
    SendDelays = {0}
    MayFlush = TRUE
PROPERTIES
    EventuallyTerminal
