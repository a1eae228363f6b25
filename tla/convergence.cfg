SPECIFICATION Spec
CONSTANTS
    Budget = 2
    Ceiling = 3
    IdleLimit = 2
    DeadLimit = 2
    StagnationLimit = 2
    FlatLimit = 2
    FlipLimit = 2
    Attempts = 2
    MaxLaunches = 2
    Modes <- MCModes
INVARIANTS StallJustified NoRiggedDelivery NoOpRefused OverrideEarned ResumeBuysNothing
PROPERTIES StallStops
CHECK_DEADLOCK FALSE
