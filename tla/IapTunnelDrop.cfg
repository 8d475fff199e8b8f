\* A relay that keeps to the protocol, for what a dropped websocket does.
SPECIFICATION Spec
CONSTANTS
    MaxFrame = 2
    Budget = 2
    OpenTimeout = 1
    InitialSleep = 1
    MaxSleep = 2
    LocalTotal = 2
    RemoteTotal = 8
    RelaySizes = {2}
    RelayWindow = 6
    HighWater = 0
    Misbehaves = FALSE
INVARIANT DropIsResumed
CHECK_DEADLOCK FALSE
