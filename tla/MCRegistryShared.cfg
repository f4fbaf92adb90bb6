SPECIFICATION Spec
CONSTANTS
    Users <- MCUsers
    Destinations <- MCDestinations
    Routes <- MCRoutes
    Criteria <- MCCriteria
    Editors <- MCEditors
    Wildcard = Wildcard
    Root = root
    Unissued = Unissued
    Deleted = Deleted
    Idle = Idle
    root = root
    alice = alice
    d1 = d1
    r1 = r1
    d2 = d2
    e1 = e1
    e2 = e2
PROPERTIES
    SharedByAdministrators
