\* The code as written: revoking an issued index leaves with AttributeError.
CONSTANTS
    MaxCredNum = 3
    Issuers = {i1}
    Revokers = {r1}
    RequestSets <- MCRequestSets
    MaxAttempt = 5
    InitialCurrIds = {0, 1}
    StatusListUpdateRaises = TRUE
    NoList = NoList
SPECIFICATION Spec
INVARIANT RevokeNeverCrashes
