CONSTANTS
    n1 = n1
    n2 = n2
    n3 = n3
    c1 = c1
    c2 = c2
    Node = {n1, n2, n3}
    Candidate = {c1, c2}
    MaxLog = 2
    MaxTerm = 1
    MaxVoters = 1
    MaxSnapshots = 1
    MaxCrashes = 1
SYMMETRY Symmetry
SPECIFICATION Spec
INVARIANTS
    TypeOK
    NoSkippedEntry
    RepeatsExplained
    OneVotePerTerm
    CommittedKept
\* the entries of the instance run out
CHECK_DEADLOCK FALSE
