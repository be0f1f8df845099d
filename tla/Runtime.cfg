SPECIFICATION Spec
CONSTANTS
    MaxTasks = 3
    MaxPolls = 1
INVARIANTS
    TypeOK
PROPERTIES
    RunWaitsForAll
    TickIsFair
    RunEnds
    BlockEnds
