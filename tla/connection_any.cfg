SPECIFICATION Spec
CONSTANTS
    Settings <- AnySettings
    MaxReads = 2
    MaxWrites = 1
    MaxDowns = 2
    MaxTasks = 2
INVARIANTS
    OneRead
    
CHECK_DEADLOCK FALSE
