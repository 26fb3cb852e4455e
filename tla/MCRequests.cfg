SPECIFICATION RequestsSpec
CHECK_DEADLOCK FALSE
CONSTANTS
    m1 = m1
    m2 = m2
    t1 = t1
    Ids = {1, 2, 3}
    MaxTime = 2
    Models = {m1, m2}
    Tags = {t1}
    NoTag = NoTag
    DefaultLimit = 1
    MaxLimit = 2
    MaxChanges = 1
    MaxMessages = 5
INVARIANTS
    WalkComplete
    HistoryFaithful
