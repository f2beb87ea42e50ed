SPECIFICATION Spec
CONSTANTS
    Base = 2
    kCheapPrepend = 2
    kInitialSize = 2
    Payload <- MCPayload
    Widths = {1, 2}
    MaxLen = 2
    MaxReadable = 4
INVARIANTS
    TypeOK
    SpaceAssertsHold
    MemoryBounded
    IntegersSurvive
PROPERTY
    ImplementsByteQueue
