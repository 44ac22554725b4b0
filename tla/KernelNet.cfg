SPECIFICATION Spec
CONSTANTS
    NSlots = 1
    Period = 4
    Quiet = 1
    Cooldown = 2
    NwcTries = 1
    InitBudget = 1
    NetTimeout = 1
    Rounds = 2
    Timeout = 1
    FirstBackoff = 1
    LastBackoff = 2
    PushTime = 1
    ShutdownWait = 1
    MaxFaults = 2
CHECK_DEADLOCK FALSE
INVARIANTS
    TypeOK
    NoSocketLeaks
PROPERTIES
    ScansInTime
    Reconnects
