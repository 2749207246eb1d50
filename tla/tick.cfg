SPECIFICATION TickSpec
CONSTANTS
    a1 = a1
    a2 = a2
    r1 = r1
    r2 = r2
    BOOK = BOOK
    Days = {0, 1, 2}
    Accounts = {a1, a2}
    Triggers <- MCTriggers
    Rule <- MCRule
    Worlds <- MCWorlds
    Runners = {r1, r2}
    MaxTicks = 3
    MaxProposals = 2
    MaxFaults = 1
SYMMETRY MCSymmetry
INVARIANTS NoDoublePending FiresAreSpaced AccountedFor
PROPERTIES TerminatedRowsStay
CHECK_DEADLOCK FALSE
