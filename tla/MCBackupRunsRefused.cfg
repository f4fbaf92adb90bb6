SPECIFICATION Spec
CONSTANTS
    Secrets = {}
    Values = {}
    Sessions = {}
    Callers <- MCCallers
    Days = 1
    Periods <- MCPeriods
    Retention = 1
    MaxVersion = 1
    MaxBackups = 2
    CrashLimit = 1
    Missing = Missing
    Torn = Torn
    NoRow = NoRow
    NoBackup = NoBackup
    NoDb = NoDb
    NoDir = NoDir
    Nothing = Nothing
    Free = Free
    c1 = c1
PROPERTIES
    RefusedWhileRunning
CHECK_DEADLOCK FALSE
