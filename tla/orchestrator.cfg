SPECIFICATION Spec
CONSTANTS
    Plans <- SomePlans
    Finds <- Discoveries
    Deps <- Graph
    Fanout = 2
    MaxRepairs = 1
    MaxTasks = 6
    MaxPersisted = 4
    MaxChain = 2
    MaxCrashes = 1
INVARIANTS BuildsOnDone AcceptedKept
PROPERTIES TreeUndisturbed Ends
CHECK_DEADLOCK FALSE
