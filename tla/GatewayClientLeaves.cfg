CONSTANTS
    c1 = c1
    c2 = c2
    c3 = c3
    Clients = {c1, c2}
    RecordCount <- MCUploads
    Leavers = {c1}
    PoolSize = 3
    AnswerEarly = FALSE
    MaxStrays = 0
    Overflowing = {}
    Unpublished = {}
    NoResult = NoResult
SPECIFICATION FairSpec
PROPERTIES EveryClientServed
CHECK_DEADLOCK FALSE
