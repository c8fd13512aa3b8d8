SPECIFICATION FairSpec
CONSTANTS
    n1 = n1
    n2 = n2
    n3 = n3
    w1 = w1
    r1 = r1
    Node = {n1, n2, n3}
    Call = {w1, r1}
    Write = {w1}
    Addr <- MCAddr
    Nobody = Nobody
    Blank = Blank
    Candidate = {n1, n2}
    Mortal = {n1}
    MaxTerm = 2
    MaxCrashes = 1
INVARIANTS
    TypeOK
    AcknowledgedKept
    AppliedAgree
PROPERTIES
    ImplementsProductDatabase
    CallsEnd
\* no term is left for another election
CHECK_DEADLOCK FALSE
