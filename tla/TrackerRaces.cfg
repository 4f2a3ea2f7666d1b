SPECIFICATION Spec
CONSTANTS
    r1 = r1
    r2 = r2
    r3 = r3
    rep1 = rep1
    rep2 = rep2
    Requests = {r1, r2}
    Admins = {}
    Replicas = {rep1}
    Balance <- AnyReplica
    Budgets = {1}
    InitBudgets <- OneHardBudget
    NewRows = {}
    Patches = {}
    Costs = {0, 1, 2}
    PeriodLength <- PeriodOfTwo
    DbFails = TRUE
    TTL = 1
    QueryTime = 1
    MaxTime = 4
    None = None
    Gone = Gone
CHECK_DEADLOCK FALSE
INVARIANTS TypeOK CountedAtMostTwice NothingForgotten
PROPERTIES BlockedByRealSpend
