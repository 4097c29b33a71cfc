CONSTANTS
    c1 = c1
    c2 = c2
    c3 = c3
    Clients = {c1, c2, c3}
    RecordCount <- MCEmptyUpload
    Leavers = {c2}
    PoolSize = 2
    AnswerEarly = TRUE
    MaxStrays = 1
    Overflowing = {c2}
    Unpublished = {c3}
    NoResult = NoResult
SPECIFICATION FairSpec
INVARIANTS TypeOK ListedUntilServed TopIsOwn TakesTurns StopsForCause
PROPERTIES OnlyServedRemoved EveryUploadReturns EveryClientAnswered
CHECK_DEADLOCK FALSE
