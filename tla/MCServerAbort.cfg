SPECIFICATION MCSpec
CHECK_DEADLOCK FALSE
SYMMETRY Symmetry
CONSTANTS
    r1 = r1
    r2 = r2
    o1 = o1
    o2 = o2
    NoId = NoId
    Requests = {r1, r2}
    Old = {o1, o2}
    Continued = {r1, r2, o2}
    MaxDeltas = 1
    MaxChainHops = 2
INVARIANTS
    NoCommitOnAbort
