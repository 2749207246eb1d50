SPECIFICATION FairSpec
CONSTANTS
    k1 = k1
    k2 = k2
    w1 = w1
    w2 = w2
    NULL = NULL
    Keys = {k1}
    Workers = {w1, w2}
    ClockAdvances = TRUE
    MaxFaults = 3
PROPERTIES EventuallyCompleted
