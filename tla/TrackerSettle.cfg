SPECIFICATION FairSpec
CONSTANTS
    r1 = r1
    r2 = r2
    r3 = r3
    rep1 = rep1
    rep2 = rep2
    Requests = {r1, r2}
    Admins = {}
    Replicas = {rep1}
    Balance <- AnyReplica
    Budgets = {1, 2}
    InitBudgets <- TwoBudgets
    NewRows = {}
    Patches = {}
    Costs = {1}
    PeriodLength <- Staggered
    DbFails = TRUE
    TTL = 1
    QueryTime = 0
    MaxTime = 4
    None = None
    Gone = Gone
CHECK_DEADLOCK FALSE
PROPERTIES RequestsSettle 
