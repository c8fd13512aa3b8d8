CONSTANTS
    N = 3
    MaxFaults = 0
    MaxWrites <- OneEach
SPECIFICATION Spec
INVARIANT MajorityReceived
\* the writes of the instance run out
CHECK_DEADLOCK FALSE
