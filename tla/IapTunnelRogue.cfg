\* The same connection with a relay that may also answer and send outside the
\* protocol, once.  Four bytes down: two full frames, or one behind the answer and
\* one after it.  A finished connection stops, hence no deadlock check.
SPECIFICATION Spec
CONSTANTS
    MaxFrame = 2
    Budget = 2
    OpenTimeout = 1
    InitialSleep = 1
    MaxSleep = 2
    LocalTotal = 2
    RemoteTotal = 4
    RelaySizes = {2}
    RelayWindow = 6
    HighWater = 0
    Misbehaves = TRUE
INVARIANTS
    TypeOK
    ResendBufferExact
PROPERTIES
    ImplementsPipe
CHECK_DEADLOCK FALSE
