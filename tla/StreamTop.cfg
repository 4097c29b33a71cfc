CONSTANTS
    Fruits = {1, 2, 3}
    TopSize = 3
    Stream <- MCStream
    Uint32Size = 2
    Characters <- MCCharacters
    Amounts <- MCAmounts
    MaxTotal = 2
SPECIFICATION MCSpec
INVARIANTS TypeOK HeapIsTop RecordsCarried TopsCarried AcceptsExactTop
CHECK_DEADLOCK FALSE
