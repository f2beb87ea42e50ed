SPECIFICATION Spec
CONSTANTS
    Settings <- MCSettings
    MaxTimers = 2
INVARIANTS
    LoopUseIsSafe
    Armed
PROPERTIES
    SilentAfterCancel
    Fires
CHECK_DEADLOCK FALSE
