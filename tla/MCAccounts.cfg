SPECIFICATION Spec
CONSTANTS
    Users <- MCUsers
    Sessions <- MCSessions
    Tokens <- MCTokens
    Threads <- MCThreads
    MaxFailed = 1
    LockFor = 1
    SessionFor = 3
    IdleFor = 2
    SetupFor = 1
    MaxTime = 3
    MaxPasswords = 2
    MaxVersion = 2
    RestartLimit = 1
    Unissued = Unissued
    Deleted = Deleted
    Idle = Idle
    u1 = u1
    u2 = u2
    i1 = i1
    i2 = i2
    k1 = k1
    t1 = t1
    t2 = t2
CONSTRAINTS TokensApart TimeApart
SYMMETRY AccountsSymmetry
INVARIANTS
    SessionsInForce
    SetupOnce
PROPERTIES
    EndedStayEnded
    SpentTokensRefused
CHECK_DEADLOCK FALSE
