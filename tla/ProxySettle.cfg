SPECIFICATION FairSpec
CONSTANTS
    r1 = r1
    r2 = r2
    k1 = k1
    oa = oa
    an = an
    old = old
    m = m
    CredentialNames = {oa, an, old}
    ProviderOf <- ProviderOfName
    Models = {m}
    Price <- Rate
    Unpriced = 9
    Requests = {r1, r2}
    Keys = {k1}
    RouteNames = {"first", "cheap"}
    RouteOf <- BothRoutes
    Bodies <- StreamBeside
    InitKeys <- OneKey
    InitCredentials = {oa, an, old}
    Undecryptable = {old}
    Statuses = {200, 503}
    PoolSize = 1
    MaxChunks = 1
    DbFails = FALSE
    Crashes = FALSE
    None = None
CHECK_DEADLOCK FALSE
PROPERTIES RequestsEnd GoneRequestsEnd
