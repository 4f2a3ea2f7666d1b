SPECIFICATION Spec
CONSTANTS
    r1 = r1
    r2 = r2
    k1 = k1
    oa = oa
    an = an
    old = old
    m = m
    CredentialNames = {oa, an, old}
    ProviderOf <- ProviderOfName
    Models = {m}
    Price <- Rate
    Unpriced = 9
    Requests = {r1}
    Keys = {k1}
    RouteNames = {"first", "cheap"}
    RouteOf <- BothRoutes
    Bodies <- EveryBody
    InitKeys <- NoKeys
    InitCredentials = {oa, old}
    Undecryptable = {old}
    Statuses = {200, 400, 503}
    PoolSize = 1
    MaxChunks = 2
    DbFails = TRUE
    Crashes = TRUE
    None = None
CHECK_DEADLOCK FALSE
INVARIANTS TypeOK RowPerRequest RowTruthful PaidOnce FallbackInOrder 
