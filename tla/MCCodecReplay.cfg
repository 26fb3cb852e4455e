SPECIFICATION Spec
CONSTANTS
    Calls = {c1, c2}
    Streams = {s1}
    MaxSent = 2
INVARIANTS
    FramesReplayed
CHECK_DEADLOCK FALSE
