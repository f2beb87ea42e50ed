SPECIFICATION Spec
CONSTANTS
    Base = 2
    kCheapPrepend = 1
    kInitialSize = 4
    Message <- MCMessage
    MaxInFlight = 2
    MaxSent = 3
INVARIANTS
    StreamIntegrity
CHECK_DEADLOCK FALSE
