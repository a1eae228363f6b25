\* One process at a time: queueing, batching, executing, dying and starting again.
SPECIFICATION Spec
CONSTANTS
    p1 = p1
    p2 = p2
    Procs = {p1}
    Requests <- Mixed
    MaxCalls = 3
    MaxBatch = 2
    Commands = {"flush", "batch", "execute"}
    MayCrash = TRUE
INVARIANTS ContributionsKept RunInOneBatch
PROPERTIES SettledIsFinal
