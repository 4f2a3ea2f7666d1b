SPECIFICATION Spec
CONSTANTS
    ann = ann
    bob = bob
    home = home
    p = p
    q = q
    old1 = old1
    old2 = old2
    oldt = oldt
    c1 = c1
    c2 = c2
    c3 = c3
    Users = {ann, bob}
    Passwords = {p, q}
    Addresses = {home}
    Calls = {c1, c2}
    Menu <- Demotions
    InitialUsers <- Administered
    OldSessions <- SessionOf
    OldTokens <- TokenOf
    SessionTTL = 2
    TouchInterval = 0
    PerEmail = 1
    PerAddress = 2
    Window = 1
    MaxTime = 1
    Faults = FALSE
    None = None
    Gone = Gone
CHECK_DEADLOCK FALSE
PROPERTY AdminStays
