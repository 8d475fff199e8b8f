\* RDP: two input events and two paints, so that there are a move that is
\* replaced, a click behind it, and paints before, during and after the copy of
\* a frame.
SPECIFICATION DesktopSpec
CONSTANTS
    MaxInputs = 2
    MaxPaints = 2
INVARIANTS
    TypeOK
    InputsInOrder
    NoLostWakeup
    FrameHandover
    TabEndsHelper
PROPERTIES
    LatestFrameShown
    EndTogether
    EndReachesTheOther
CHECK_DEADLOCK FALSE
