SPECIFICATION Spec
CONSTANTS
    Budget = 2
    Ceiling = 3
    IdleLimit = 2
    DeadLimit = 2
    StagnationLimit = 2
    FlatLimit = 2
    FlipLimit = 2
    Attempts = 2
    MaxLaunches = 2
    Modes <- PriorModes
INVARIANTS NoOpNeedsVerdict
CHECK_DEADLOCK FALSE
