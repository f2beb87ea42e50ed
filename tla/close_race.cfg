SPECIFICATION Spec
CONSTANTS
    Settings <- ForceCloseInThread
    MaxReads = 2
    MaxWrites = 2
    MaxDowns = 2
    MaxTasks = 3
INVARIANTS
    RemoveAssertHolds
CHECK_DEADLOCK FALSE
