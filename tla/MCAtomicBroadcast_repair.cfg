CONSTANTS
    N = 2
    MaxFaults = 1
    MaxWrites <- Two
SPECIFICATION FairSpec
PROPERTY MissingRequestRepaired
\* the writes of the instance run out
CHECK_DEADLOCK FALSE
