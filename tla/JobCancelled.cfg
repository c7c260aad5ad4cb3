SPECIFICATION Spec
CONSTANTS
    Modes = {"spawned"}
    Cancelled = {"spawned"}
    MaxInput = 0
    MaxOutput = 0
INVARIANT CompletedOnce
CHECK_DEADLOCK FALSE
