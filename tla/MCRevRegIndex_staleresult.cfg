\* Line 1084 corrected: after a retry, nothing-to-do returns the list of an abandoned attempt.
CONSTANTS
    MaxCredNum = 3
    Issuers = {i1, i2}
    Revokers = {r1, r2}
    RequestSets <- MCRequestSets
    MaxAttempt = 5
    InitialCurrIds = {0, 1}
    StatusListUpdateRaises = FALSE
    NoList = NoList
SPECIFICATION Spec
INVARIANT RevokeResultCommitted
