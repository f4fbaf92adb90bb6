SPECIFICATION FairDeliverySpec
CONSTANTS
    Users <- MCUsers
    Destinations <- MCDestinations
    Routes <- MCRoutes
    Criteria <- MCCriteria
    Editors <- MCEditors
    Events <- MCEvents
    Source <- MCSource
    Seeds <- MCSeeds
    MaxAttempts = 2
    RequestLimit = 1
    CrashLimit = 1
    Wildcard = Wildcard
    Root = root
    Unissued = Unissued
    Deleted = Deleted
    Idle = Idle
    Nothing = Nothing
    root = root
    alice = alice
    d1 = d1
    d2 = d2
    r1 = r1
    r2 = r2
    r3 = r3
    e1 = e1
    n1 = n1
INVARIANTS
    AttemptsChained
    OnlyLastCallUnrecorded
PROPERTIES
    EventsEnd
    ImplementsContract
CHECK_DEADLOCK FALSE
