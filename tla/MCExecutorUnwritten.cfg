SPECIFICATION Spec
CONSTANTS
    Intents = {"i1"}
    Conversions = {"convert"}
    MaxNonce = 2
    MaxFaults = 1
    MaxCrashes = 1
    StorageFaults = {"unsynced", "unwritten"}
    RelaysMayLose = TRUE
    MayReorg = TRUE
INVARIANT JournaledBeforeDispatch
