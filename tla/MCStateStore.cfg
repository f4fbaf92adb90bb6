SPECIFICATION StoreSpec
CONSTANTS
    Secrets <- MCSecrets
    Values <- MCValues
    Sessions <- MCSessions
    Periods = {}
    Retention = 2
    MaxVersion = 3
    MaxBackups = 3
    CrashLimit = 1
    Missing = Missing
    Torn = Torn
    NoRow = NoRow
    NoBackup = NoBackup
    NoDb = NoDb
    NoDir = NoDir
    Nothing = Nothing
    Free = Free
    s1 = s1
    v1 = v1
    v2 = v2
    i1 = i1
SYMMETRY ValueSymmetry
INVARIANTS
    SecretsReadable
    SnapshotsConsistent
    OnlyCurrentFiles
    SafetyCopyKept
    RevokedStayRevoked
PROPERTIES
    RestoreAllOrNothing
CHECK_DEADLOCK FALSE
