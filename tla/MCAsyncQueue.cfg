SPECIFICATION FairSpec
CONSTANTS
    Values = {a, b}
    Readers = {r1, r2}
    Errors = {boom}
    NoError = NoError
    NoValue = NoValue
    MaxPush = 3
INVARIANTS
    NoLostWakeup
PROPERTIES
    CloseReachesReaders
    ImplementsChannel
CHECK_DEADLOCK FALSE
