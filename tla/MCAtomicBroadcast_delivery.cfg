CONSTANTS
    N = 3
    MaxFaults = 0
    MaxWrites <- Two
SPECIFICATION FairSpec
PROPERTY WritesGetDelivered
\* the writes of the instance run out
CHECK_DEADLOCK FALSE
