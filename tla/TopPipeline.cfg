CONSTANTS
    s1 = s1
    s2 = s2
    c1 = c1
    c2 = c2
    Sums = {s1, s2}
    Aggregators = {0, 1}
    Clients = {c1, c2}
    Fruits = {1, 2, 3}
    TopSize = 2
    Inputs <- MCInputs
    MaxRetries = 1
SPECIFICATION FairSpec
INVARIANTS TypeOK ExactAnswers NothingLeftBehind
PROPERTIES ImplementsService EveryClientAnswered
CHECK_DEADLOCK FALSE
