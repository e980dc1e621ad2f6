SPECIFICATION Spec
CONSTANTS
    OtherWrites = {"heartbeat"}
    Lifetimes = {1, 3}
    RequestSeconds = 2
    MaxTime = 3
    MaxSequence = 2
    None = None
INVARIANTS ServedKeyHeld OneUncertainWrite
CHECK_DEADLOCK FALSE
