SPECIFICATION FairSpec
PROPERTIES
    AlertsSettle
CONSTANTS
    Managers = {m1}
    Evaluations = {e1, e2}
    UsageLists <- Fan
    Channels = {1, 2}
    MaxAttempts = 2
    FiredLimit = 0
    DbFails = FALSE
    Crashes = FALSE
    None = None
CHECK_DEADLOCK FALSE
