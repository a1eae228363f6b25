\* Two processes that keep flushing and never die.
SPECIFICATION FairSpec
CONSTANTS
    p1 = p1
    p2 = p2
    Procs = {p1, p2}
    Requests <- Deploys
    MaxCalls = 2
    MaxBatch = 2
    Commands = {"flush"}
    MayCrash = FALSE
PROPERTIES EveryActionSettles
