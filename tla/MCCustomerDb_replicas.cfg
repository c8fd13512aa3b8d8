CONSTANTS
    N = 2
    MaxWrites <- OneEach
    Bodies <- Contended
    SESSION_TTL = 0
    MaxTime = 1
    MaxErrors = 1
SPECIFICATION FairSpec
INVARIANTS
    TypeOK
    ReplicasAgree
    AnswerExplained
PROPERTIES
    EachReplicaIsAServer
    DeliveredGetsAnswered
\* the writes of the instance run out
CHECK_DEADLOCK FALSE
