\* Two pollers whose cycles fit in one interval; faults, a replan and a pause.
SPECIFICATION FairSpec
CONSTANTS
    d1 = d1
    d2 = d2
    Pollers = {d1, d2}
    Claim = 1
    Grace = 2
    Step = 3
    MaxBackoff = 6
    MaxHold = 0
    MaxStart = 1
    MaxWork = 1
    MaxLaunches = 4
    MaxFaults = 1
    MaxReplans = 1
    MaxFlips = 1
    QuietReplan = TRUE
    CrashInSpawn = FALSE
INVARIANTS OneSpawn
PROPERTIES ClosedUnderCurrentCriteria MissionSettles
