\* Fair runs of two callers and their orphans; renewals may miss the ttl.
SPECIFICATION FairSpec
CONSTANTS
    p1 = p1
    p2 = p2
    p3 = p3
    i1 = i1
    i2 = i2
    i3 = i3
    NoLease = NoLease
    Procs = {p1, p2}
    Ids = {i1, i2, i3}
    Ceilings = {2}
    MaxCeiling = 2
    Ttl = 1
    RenewEvery = 1
    MaxLate = 1
    MaxMissed = 1
    Timeout = 1
    Cooldown = 0
PROPERTIES EveryCallProceeds OrphansExpire OnlyHolderRemoves
