\* Two epics, two attempts each, two levels of splitting; stops and deaths.
SPECIFICATION Spec
CONSTANTS
    a = a
    b = b
    Plans <- Dependent
    MaxAttempts = 2
    SplitDepth = 2
    MaxPieces = 2
    MaxTurns = 2
    MaxLaunches = 3
    MaxAsks = 1
    Budget = TRUE
INVARIANTS StoppedIsResumable FlagsRight AcceptedKept
PROPERTIES StopSticks StopsReachTheirRun Ends
CHECK_DEADLOCK FALSE
