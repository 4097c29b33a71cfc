CONSTANTS
    c1 = c1
    c2 = c2
    c3 = c3
    Clients = {c1, c2}
    RecordCount <- MCUploads
    Leavers = {}
    PoolSize = 3
    AnswerEarly = TRUE
    MaxStrays = 0
    Overflowing = {}
    Unpublished = {}
    NoResult = NoResult
SPECIFICATION Spec
INVARIANTS NoUnexpectedMessage
CHECK_DEADLOCK FALSE
