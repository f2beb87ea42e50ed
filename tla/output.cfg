SPECIFICATION Spec
CONSTANTS
    Base = 2
    kCheapPrepend = 1
    kInitialSize = 2
    Message <- MCMessage
    MaxInFlight = 1
    MaxSent = 9
INVARIANTS
    TypeOK
    RetrieveAssertHolds
    StreamIntegrity
    Conservation
PROPERTIES
    LeftoversGoOut
CHECK_DEADLOCK FALSE
