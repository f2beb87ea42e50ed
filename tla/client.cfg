SPECIFICATION Spec
CONSTANTS
    Settings <- CarefulSettings
    MaxSockets = 3
    MaxTimers = 2
    MaxQueue = 3
INVARIANTS
    TypeOK
    NoFault
    OneAttempt
PROPERTIES
    Reconnects
    StopStops
CHECK_DEADLOCK FALSE
