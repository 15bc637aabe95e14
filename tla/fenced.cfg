SPECIFICATION Spec
CONSTANTS
    Deliveries = {d1}
    Batches = {}
    NoBatch = NoBatch
    Workers = {w1, w2}
    Relays = {r1}
    RowIds = {1, 2}
    OutboxBatchSize = 2
    PromoteBatch = 2
    MaxStream = 2
    MaxFaults = 2
    MaxRefusals = 1
    MaxCalls = 6
    LeaseTTL = 9
    ProviderTimeout = 1
    RateWaitStep = 1
    DbMax = 1
    MaxSkew = 1
    ReconcileAfter = 1
    MaxAttempts = 2
    Backoff <- MCBackoff
    JitterPercent = 200
    DefaultBackoff = 1
    RetryAfterHeaders <- MCHeaders
    SendDelays = {0, 1}
    MayFlush = TRUE
SYMMETRY Symmetry
INVARIANTS
    TypeOK
    NeverReclaimedInFlight
    SingleSender
    RequestAgrees
    AttemptsBounded
    SendsAccounted
    DeadLetterIsFailed
PROPERTIES
    TerminalIsFinal
    NoCallAfterTerminal
    ImplementsLifecycle
    RetryAfterHonoured
