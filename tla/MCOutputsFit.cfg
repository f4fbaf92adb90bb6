SPECIFICATION Spec
CONSTANTS
    Types <- MCTypes
    Requests <- MCRequests
    Occurrences <- MCOccurrences
    Tests <- MCTests
    MaxAttempts = 2
    r1 = r1
    r2 = r2
    delivery = delivery
    test = test
CONSTRAINTS JobsApart AttemptsApart
INVARIANT CredentialsFitType
CHECK_DEADLOCK FALSE
