\* One connection whose relay keeps to the protocol: two bytes up, and eight down
\* in full frames of two.  AckThreshold is 4, so the debt grows over three frames
\* before an ACK is due, and the fourth fits the relay's window of 6 only once
\* that ACK has arrived.  A frame of data may come in one message with the answer.
SPECIFICATION FairSpec
CONSTANTS
    MaxFrame = 2
    Budget = 2
    OpenTimeout = 1
    InitialSleep = 1
    MaxSleep = 2
    LocalTotal = 2
    RemoteTotal = 8
    RelaySizes = {2}
    RelayWindow = 6
    HighWater = 0
    Misbehaves = FALSE
INVARIANTS
    AckDebtBounded
    ConnectBounded
PROPERTIES
    EndsCleanly
    WindowNeverStalls
CHECK_DEADLOCK FALSE
