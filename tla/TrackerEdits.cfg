SPECIFICATION Spec
CONSTANTS
    r1 = r1
    r2 = r2
    r3 = r3
    rep1 = rep1
    rep2 = rep2
    Requests = {r1, r2, r3}
    Admins = {a1}
    Replicas = {rep1, rep2}
    Balance <- Split
    Budgets = {1}
    InitBudgets <- NoneOrNarrow
    NewRows <- Strict
    Patches <- Widen
    Costs = {1}
    PeriodLength <- LongPeriod
    DbFails = FALSE
    TTL = 1
    QueryTime = 0
    MaxTime = 4
    None = None
    Gone = Gone
CHECK_DEADLOCK FALSE
SYMMETRY Symmetry
PROPERTIES HardLimitEnforced
