SPECIFICATION SpecAll
CONSTANTS
    Pids = {"d1", "d2", "d3"}
    NoFile = "none"
    Supervised = TRUE
    MaxAttempts = 3
    Intents = {"i1"}
    Conversions = {"convert"}
    MaxNonce = 1
    MaxFaults = 1
    MaxCrashes = 1
    StorageFaults = {"unsynced"}
    RelaysMayLose = FALSE
    MayReorg = TRUE
INVARIANTS
    SingleInstance
PROPERTIES
    LaneClears
