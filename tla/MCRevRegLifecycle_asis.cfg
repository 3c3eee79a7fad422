\* The code as written (line 169 raises, the endorser lookup may fail), no restarts: store-backed records and one successor per full registry.
CONSTANTS
    w1 = w1
    w2 = w2
    Workers <- MCWorkers
    MaxRecs = 3
    InitialRecs = {1}
    MaxRestarts = 0
    EndorserMayFail = TRUE
    GetOrCreateAsIs = TRUE
SPECIFICATION Spec
INVARIANTS TypeOK RecordBackedByStore AtMostOneSuccessor
