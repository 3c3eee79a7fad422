\* The code as written (line 1084 raises): issuance and revocation on a registry of 3, up to and past its capacity.
CONSTANTS
    MaxCredNum = 3
    Issuers = {i1, i2}
    Revokers = {r1, r2}
    RequestSets <- MCRequestSets
    MaxAttempt = 5
    InitialCurrIds = {0, 1}
    StatusListUpdateRaises = TRUE
    NoList = NoList
SPECIFICATION Spec
INVARIANT TypeOK
INVARIANT IndexAccounting
INVARIANT FullOnlyWhenExhausted
PROPERTY ImplementsIndexState
