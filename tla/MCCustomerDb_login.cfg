CONSTANTS
    N = 2
    MaxWrites <- OneEach
    Bodies <- Contended
    SESSION_TTL = 1
    MaxTime = 0
    MaxErrors = 0
SPECIFICATION Spec
INVARIANT LoginUsable
\* the writes of the instance run out
CHECK_DEADLOCK FALSE
