CONSTANTS
    Sums = {s1, s2}
    Clients = {c1}
    Records = {r1, r2, r3}
    c1 = c1
    r1 = r1
    r2 = r2
    r3 = r3
    NoSum = NoSum
    NoClient = NoClient
    ClientOf <- OneClient
    InitiallyListening = {s1, s2}
    MaxBroken = 0
    Aggregators = {0, 1}
    Fruits = {1, 2}
    TopSize = 1
    FruitOf <- MCFruitOf
    AmountOf <- MCAmountOf
    Route <- MCRoute
SPECIFICATION FairSystemSpec
INVARIANTS NoPrematureFlush ExactUnlessRepeated
PROPERTIES ImplementsBarrier EveryClientAnswered
CHECK_DEADLOCK FALSE
