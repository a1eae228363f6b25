\* Three callers and two slots; renewals on time: a missed renewal and the next fit in the ttl.
SPECIFICATION Spec
CONSTANTS
    p1 = p1
    p2 = p2
    p3 = p3
    i1 = i1
    i2 = i2
    i3 = i3
    NoLease = NoLease
    Procs = {p1, p2, p3}
    Ids = {i1, i2, i3}
    Ceilings = {1, 2}
    MaxCeiling = 2
    Ttl = 2
    RenewEvery = 1
    MaxLate = 0
    MaxMissed = 1
    Timeout = 0
    Cooldown = 0
SYMMETRY SafetySymmetry
INVARIANTS RowsWithinBudget CallersKeepRow
PROPERTIES Implements
