SPECIFICATION Spec
CONSTANTS
    Users <- MCUsers
    Sessions <- MCSessions
    Tokens <- MCTokens
    Threads <- MCThreads
    MaxFailed = 2
    LockFor = 1
    SessionFor = 1
    IdleFor = 1
    SetupFor = 1
    MaxTime = 1
    MaxPasswords = 2
    MaxVersion = 2
    RestartLimit = 0
    Unissued = Unissued
    Deleted = Deleted
    Idle = Idle
    u1 = u1
    u2 = u2
    i1 = i1
    i2 = i2
    k1 = k1
    t1 = t1
    t2 = t2
CONSTRAINT TokensApart
SYMMETRY AccountsSymmetry

PROPERTY LocksLast
CHECK_DEADLOCK FALSE
