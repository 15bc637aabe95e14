SPECIFICATION FairSpec
CONSTANTS
    Calls = {c1, c2, c3}
    NoUser = NoUser
    NoKey = NoKey
    NoTemplate = NoTemplate
    alice = alice
    bob = bob
    k1 = k1
    k2 = k2
    t1 = t1
    t2 = t2
    Template <- MCTemplate
    Inputs <- MCInputs
    MaxBatchSize = 2
    MaxErrors = 1
INVARIANTS
    TypeOK
    AnswersAgree
    ConflictFindsWinner
    RequestsComplete
    TotalsAgree
PROPERTIES
    EveryCallAnswered
CHECK_DEADLOCK FALSE
