SPECIFICATION Spec
CONSTANTS
    Settings <- CarefulSettings
    MaxReads = 2
    MaxWrites = 2
    MaxDowns = 2
    MaxTasks = 3
INVARIANTS
    NoFault
PROPERTIES
    KeepsContract
    Released
CHECK_DEADLOCK FALSE
