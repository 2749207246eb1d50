SPECIFICATION Spec
CONSTANTS
    green = green
    red1 = red1
    red2 = red2
    NULL = NULL
    Books <- MCBooks
    Artifacts = {green, red1, red2}
    Red = {red1, red2}
    Costs = {1, 3}
    Estimate = 2
    MaxPerSweep = 4
    MaxPerDay = 5
    MaxSweeps = 2
    MaxDay = 1
    MaxFaults = 1
SYMMETRY MCSymmetry
INVARIANTS SpendIsBounded RedIsHeld ItemsMatchProposals
CHECK_DEADLOCK FALSE
