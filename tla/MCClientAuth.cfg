SPECIFICATION FairSpec
CONSTANTS
    Calls = {c1, c2}
    Given = given
    Foreign = foreign
    NoToken = NoToken
    NoCall = NoCall
    MaxExchanges = 2
INVARIANTS
    PinnedIffRefused
PROPERTIES
    PinHolds
    CallsFinish
CHECK_DEADLOCK FALSE
