SPECIFICATION Spec
CONSTANTS
    web = web
    router = router
    Services <- MCServices
    Web = web
    MaxEdits = 2
    MaxReplaces = 1
    MaxSaves = 2
INVARIANT LastKnownGood
CHECK_DEADLOCK FALSE
