SPECIFICATION Spec
CONSTANTS
    Settings <- ServerSettings
    MaxThreads = 2
    MaxConns = 3
INVARIANTS
    TypeOK
    NoFault
    LoopsAgree
    RoundRobin
    ToldDown
PROPERTIES
    NeverHangs
    KeepsAccepting
    Forgets
CHECK_DEADLOCK FALSE
