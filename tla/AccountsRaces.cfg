SPECIFICATION Spec
CONSTANTS
    ann = ann
    bob = bob
    home = home
    p = p
    q = q
    old1 = old1
    old2 = old2
    oldt = oldt
    c1 = c1
    c2 = c2
    c3 = c3
    Users = {ann, bob}
    Passwords = {p, q}
    Addresses = {home}
    Calls = {c1, c2, c3}
    Menu <- Mixed
    InitialUsers <- AnySetting
    OldSessions <- SessionOf
    OldTokens <- TokenOf
    SessionTTL = 2
    TouchInterval = 0
    PerEmail = 1
    PerAddress = 2
    Window = 1
    MaxTime = 2
    Faults = TRUE
    None = None
    Gone = Gone
CHECK_DEADLOCK FALSE
INVARIANTS TypeOK SetupOnce ChangesEndSessions GuessesBounded
PROPERTIES AdminRemains GoneForGood DisabledStayOut
