SPECIFICATION Spec
CONSTANTS
    Settings <- CancelInThread
    MaxTimers = 1
INVARIANT
    CancelIsThreadSafe
CHECK_DEADLOCK FALSE
