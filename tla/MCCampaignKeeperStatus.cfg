SPECIFICATION Spec
CONSTANTS
    END_AT = 3
    DAY = 2
    cadenceSeconds = 2
    maxBroadcastsPerDay = 2
    BURN_TTL = 1
    None = None
    Processes <- DaemonAndStatus
    MaxNow = 4
    MaxBlockCount = 1
    MaxMined = 2
INVARIANTS
    OneUnresolved
CHECK_DEADLOCK FALSE
