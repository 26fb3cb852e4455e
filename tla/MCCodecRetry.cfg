SPECIFICATION Spec
CONSTANTS
    Calls = {c1, c2}
    Streams = {s1}
    MaxSent = 2
INVARIANTS
    RefusedCallsRetried
CHECK_DEADLOCK FALSE
