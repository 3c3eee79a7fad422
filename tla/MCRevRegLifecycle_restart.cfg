\* Line 169 corrected, one agent restart, endorser lookup may fail: store and record stay consistent.
CONSTANTS
    w1 = w1
    w2 = w2
    Workers <- MCWorkers
    MaxRecs = 3
    InitialRecs = {0, 1}
    MaxRestarts = 1
    EndorserMayFail = TRUE
    GetOrCreateAsIs = FALSE
SPECIFICATION Spec
INVARIANTS TypeOK RecordBackedByStore AtMostOneSuccessor
PROPERTY ImplementsSeries
