\* Line 1084 corrected: a revoker loses four commit races to issuance and another revoker.
CONSTANTS
    MaxCredNum = 4
    Issuers = {i1}
    Revokers = {r1, r2}
    RequestSets <- MCConflictRequestSets
    MaxAttempt = 5
    InitialCurrIds = {1}
    StatusListUpdateRaises = FALSE
    NoList = NoList
SPECIFICATION Spec
INVARIANT ConflictOnlyAfterSpecAttempts
