SPECIFICATION ServicesSpec
CHECK_DEADLOCK FALSE
CONSTANTS
    c1 = c1
    c2 = c2
    NoCall = NoCall
    Calls = {c1, c2}
    MaxAttempts = 5
    FailureBudget = 3
INVARIANTS
    OneFlight
    LoginVerdict
    SeedOrLive
PROPERTIES
    AbortIsPrivate
    NothingSentAfter
    NothingHangs
