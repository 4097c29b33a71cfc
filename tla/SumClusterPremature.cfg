CONSTANTS
    Sums = {s1, s2}
    Clients = {c1}
    Records = {r1, r2}
    c1 = c1
    r1 = r1
    r2 = r2
    r3 = r3
    NoSum = NoSum
    NoClient = NoClient
    ClientOf <- OneClient
    InitiallyListening = {s1, s2}
    MaxBroken = 0
SPECIFICATION Spec
INVARIANT NoPrematureFlush
SYMMETRY Symmetry
CHECK_DEADLOCK FALSE
