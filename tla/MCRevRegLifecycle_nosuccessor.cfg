\* A restart between handle_full_registry's commit and the successor's creation.
CONSTANTS
    w1 = w1
    w2 = w2
    Workers <- MCWorkers
    MaxRecs = 3
    InitialRecs = {1}
    MaxRestarts = 1
    EndorserMayFail = FALSE
    GetOrCreateAsIs = TRUE
SPECIFICATION Spec
INVARIANT SuccessorForEveryFull
