SPECIFICATION Spec
CONSTANTS
    r1 = r1
    r2 = r2
    r3 = r3
    rep1 = rep1
    rep2 = rep2
    Requests = {r1, r2}
    Admins = {a1}
    Replicas = {rep1}
    Balance <- AnyReplica
    Budgets = {1}
    InitBudgets <- TightBudget
    NewRows = {}
    Patches <- Raise
    Costs = {1}
    PeriodLength <- LongPeriod
    DbFails = FALSE
    TTL = 1
    QueryTime = 1
    MaxTime = 4
    None = None
    Gone = Gone
CHECK_DEADLOCK FALSE
PROPERTIES RaisedLimitUnblocks
