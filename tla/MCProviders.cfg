SPECIFICATION HostSpec
CHECK_DEADLOCK FALSE
CONSTANTS
    u1 = u1
    u2 = u2
    Uses = {u1, u2}
    Secrets = {s1, s2}
    None = None
    MaxEvents = 4
    MaxPiEvents <- PiEvents
INVARIANTS
    PartsWellFormed
    ContentFaithful
    MessageWhole
    OneOpenClient
PROPERTIES
    OpenCodeReaderTold
    ClientKept
