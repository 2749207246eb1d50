SPECIFICATION Spec
CONSTANTS
    p1 = p1
    p2 = p2
    p3 = p3
    p4 = p4
    c1 = c1
    c2 = c2
    NULL = NULL
    Proposals = {p1, p2, p3, p4}
    Callers = {c1, c2}
    MaxAutoReruns = 2
CHECK_DEADLOCK FALSE
SYMMETRY MCSymmetry
INVARIANTS IInv OneLivePerChain ChainsAreBounded
