\* Two agents, a fan-in of three tasks.  Agents stop when they have no more
\* commands to give.
SPECIFICATION Spec
CONSTANTS
    t1 = t1
    t2 = t2
    t3 = t3
    Tasks = {t1, t2, t3}
    Agents = {a1, a2}
    Nobody = Nobody
    Unknown = Unknown
    Plan <- FanIn
    Budgets <- MCBudgets
SYMMETRY MCSymmetry
CHECK_DEADLOCK FALSE
INVARIANTS OneWinner UnblockTold ClaimsSound
