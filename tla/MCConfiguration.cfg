SPECIFICATION Spec
CONSTANTS
    web = web
    router = router
    Services <- MCServices
    Web = web
    MaxEdits = 2
    MaxReplaces = 1
    MaxSaves = 2
CONSTRAINT SavedApart
PROPERTIES
    EditsTakeEffect
    SettingsTakeEffect
CHECK_DEADLOCK FALSE
