SPECIFICATION Spec
CONSTANTS
    END_AT = 3
    DAY = 2
    cadenceSeconds = 2
    maxBroadcastsPerDay = 2
    BURN_TTL = 1
    None = None
    Processes <- DaemonAlone
    MaxNow = 4
    MaxBlockCount = 1
    MaxMined = 2
INVARIANTS
    OneUnresolved
    DailyBudgetKept
    SettlementNeverRefuses
PROPERTIES
    NoWorkTwice
CHECK_DEADLOCK FALSE
