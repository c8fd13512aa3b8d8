CONSTANTS
    N = 3
    MaxFaults = 1
    MaxWrites <- TwoAndOne
SPECIFICATION FairSmallSpec
INVARIANTS
    TypeOK
    OneRequestPerSeq
    OneSeqPerRequest
    NoSkippedSeq
    SenderOrderKept
    SameDeliveryOrder
    HeardIsTrue
    WaiterFound
    MajorityOneBehind
PROPERTIES
    ImplementsTotalOrder
    WritesGetSequenced
    MissingSeqRepaired
\* the writes of the instance run out
CHECK_DEADLOCK FALSE
