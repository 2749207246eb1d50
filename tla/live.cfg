SPECIFICATION Spec
CONSTANTS
    gk = gk
    sk = sk
    w1 = w1
    w2 = w2
    NULL = NULL
    Keys = {gk, sk}
    GmailKeys = {gk}
    Workers = {w1, w2}
    MaxAttempts = 3
SYMMETRY MCSymmetry
INVARIANTS SecondNeedsMisread CompletedIsDelivered TasksHaveIntent ConfirmedIsDelivered
