\* Line 1084 corrected: a torn session read makes a commit drop a revocation from the status list.
CONSTANTS
    MaxCredNum = 3
    Issuers = {i1, i2}
    Revokers = {r1, r2}
    RequestSets <- MCRequestSets
    MaxAttempt = 5
    InitialCurrIds = {0, 1}
    StatusListUpdateRaises = FALSE
    NoList = NoList
SPECIFICATION Spec
INVARIANT StatusListComplete
