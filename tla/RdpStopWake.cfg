\* A stop that arrives at the top of the pump loop.
SPECIFICATION Spec
CONSTANTS
    MaxInputs = 1
    MaxPaints = 1
INVARIANT StopInterruptsWait
CHECK_DEADLOCK FALSE
