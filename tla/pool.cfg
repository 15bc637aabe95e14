SPECIFICATION Spec
CONSTANTS
    m1 = m1
    m2 = m2
    m3 = m3
    m4 = m4
    m5 = m5
    Messages <- FiveMessages
    Poison = {m5}
    Streams <- TwoStreams
    StreamOf <- TwoInHigh
    Goroutines = {g1, g2}
    BatchSize = 2
INVARIANTS
    TypeOK
    Drained
    AckedAfterProcess
PROPERTIES
    FedIsProcessed
    StopExits
CHECK_DEADLOCK FALSE
