SPECIFICATION SignupSpec
CONSTANTS
    s1 = s1
    s2 = s2
    w1 = w1
    w2 = w2
    t = t
    acme = acme
    wayne = wayne
    NONE = NONE
    Servers = {s1, s2}
    Events <- MCEvents
    BooksRead <- MCBooks
    Personal = {"mail"}
    MaxCalls = 3
    MaxFaults = 1
SYMMETRY MCSymmetry
INVARIANTS OutreachIsWarranted FirstAndLastAreFound AnsweredIsRecorded
CHECK_DEADLOCK FALSE
