SPECIFICATION Spec
CONSTANTS
    k1 = k1
    k2 = k2
    w1 = w1
    w2 = w2
    NULL = NULL
    Keys = {k1, k2}
    Workers = {w1, w2}
    ClockAdvances = TRUE
    MaxFaults = 3
SYMMETRY MCSymmetry
INVARIANTS IInv CompletedMeansRecorded RetriesNeverDuplicate OneCommittedReceipt
PROPERTIES CompletedIsFinal
