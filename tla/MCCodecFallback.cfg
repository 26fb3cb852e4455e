SPECIFICATION Spec
CONSTANTS
    Calls = {c1, c2}
    Streams = {s1, s2}
    MaxSent = 2
SYMMETRY Symmetry
INVARIANTS
    FallbackOnlyWhenRefused
    WireInOrder
    OnlyOrphanLost
CHECK_DEADLOCK FALSE
