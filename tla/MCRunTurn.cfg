SPECIFICATION Spec
CONSTANTS
    Execs = {e1, e2}
    Ids = {i1, i2}
    NoExec = NoExec
    NoId = NoId
    MaxFrames = 3
INVARIANTS
    NoStrayTimers
    ResultMatchesEvents
    IteratorAgrees
    RevokedExecsAborted
PROPERTIES
    AbortedTurnIsQuiet
    ImplementsPromise
CHECK_DEADLOCK FALSE
