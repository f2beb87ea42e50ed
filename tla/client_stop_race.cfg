SPECIFICATION Spec
CONSTANTS
    Settings <- StopAnyTime
    MaxSockets = 3
    MaxTimers = 2
    MaxQueue = 3
INVARIANTS
    StopNeverThrows
CHECK_DEADLOCK FALSE
