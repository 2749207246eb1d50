SPECIFICATION Spec
CONSTANTS
    k1 = k1
    k2 = k2
    a1 = a1
    a2 = a2
    w1 = w1
    w2 = w2
    NULL = NULL
    Keys = {k1, k2}
    Accounts = {a1, a2}
    AccountOf <- MCAccountOf
    Internal = {k2}
    Outboxed = {a2}
    Workers = {w1, w2}
    MaxCalls = 4
    MaxFaults = 1
SYMMETRY MCSymmetry
INVARIANTS WholeUnlessCollided CompletedIsLogged EventsMatch
PROPERTIES NothingTakenBack
CHECK_DEADLOCK FALSE
