SPECIFICATION Spec
CONSTANTS
    Intents = {"i1", "i2"}
    Conversions = {"convert"}
    MaxNonce = 2
    MaxFaults = 2
    MaxCrashes = 1
    StorageFaults = {"unsynced"}
    RelaysMayLose = TRUE
    MayReorg = TRUE
INVARIANTS
    OneUnresolved
    NoSecondBroadcast
    EarningsHonest
PROPERTIES
    FirstDispatchJournaled
    CircuitStopsSigning
