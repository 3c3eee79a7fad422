\* Line 1084 corrected: two issuers and two revokers on a registry of 4.
CONSTANTS
    MaxCredNum = 4
    Issuers = {i1, i2}
    Revokers = {r1, r2}
    RequestSets <- MCRequestSets
    MaxAttempt = 5
    InitialCurrIds = {1}
    StatusListUpdateRaises = FALSE
    NoList = NoList
SPECIFICATION Spec
INVARIANT TypeOK
INVARIANT StatusListSound
INVARIANT RevokedWereReserved
INVARIANT RevokeAccountsForRequest
PROPERTY ImplementsIndexState
