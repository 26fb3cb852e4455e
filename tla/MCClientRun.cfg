SPECIFICATION FairClientSpec
CONSTANTS
    Execs = {e1, e2}
    Ids = {i1}
    NoExec = NoExec
    NoId = NoId
    MaxFrames = 2
INVARIANTS
    NoAnswerLost
    CleanTurnNotCancelled
PROPERTIES
    ConsumerTold
    AbortTearsDown
    WaitSettles
    IterationReleasesRpc
CHECK_DEADLOCK FALSE
