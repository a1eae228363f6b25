\* One sequence at a time besides the queue; admission, expiry and syncs at any time.
SPECIFICATION Spec
CONSTANTS
    Models = {"a", "b", "c"}
    Cost <- MCCost
    Capacity = 3
    AllowDisplace = {"a", "b"}
    AllowUnload = {"a"}
    Overlap = FALSE
    LateEffects = FALSE
    MaxRuns = 2
    MaxSends = 1
    Budgets <- MCBudgets
    Nothing = Nothing
INVARIANTS Fits
PROPERTIES RunsEnd 
CHECK_DEADLOCK FALSE
