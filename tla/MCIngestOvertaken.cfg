SPECIFICATION Spec
CONSTANTS
    Senders <- MCSenders
    Events <- MCEvents
    Batch <- MCBatch
    Kind <- MCKind
    Key <- MCKey
    NoKey = NoKey
    Never = Never
    RateLimit = 1
    Minute = 2
    Window = 2
    Attempts <- MCAttempts
    Callers <- MCCallers
    Caller <- MCCaller
    MaxTime = 2
    MaxStops = 1
    bmc1 = bmc1
    bmc2 = bmc2
    e1 = e1
    e2 = e2
    e3 = e3
    e4 = e4
    mta = mta
    k1 = k1
    k2 = k2
    caller = caller
CONSTRAINTS
    MailApart
    TwoAtOnce
INVARIANT DuplicatesNotRouted
CHECK_DEADLOCK FALSE
