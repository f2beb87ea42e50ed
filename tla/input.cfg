SPECIFICATION Spec
CONSTANTS
    Base = 3
    kCheapPrepend = 1
    kInitialSize = 2
    Settings <- MCSettings
    Backlog = 3
    MaxReads = 2
INVARIANTS
    TypeOK
    InputConservation
    ReadsFit
    InputBounded
PROPERTIES
    LinesDelivered
    ImplementsByteStream
CHECK_DEADLOCK FALSE
