SPECIFICATION Spec
INVARIANTS
    TypeOK
    RecordsTruthful
    
    CrossingsRecorded
PROPERTIES
    QuietOnceAcked
    BookSpec
SYMMETRY Symmetry
CONSTANTS
    Managers = {m1, m2}
    Evaluations = {e1, e2}
    UsageLists <- Steps
    Channels = {1}
    MaxAttempts = 2
    FiredLimit = 1
    DbFails = TRUE
    Crashes = TRUE
    None = None
CHECK_DEADLOCK FALSE
