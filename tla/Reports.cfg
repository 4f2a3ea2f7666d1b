SPECIFICATION Spec
CONSTANTS
    openai = openai
    azure = azure
    gpt = gpt
    gpt_dated = gpt_dated
    mini = mini
    mini_dated = mini_dated
    other = other
    r1 = r1
    r2 = r2
    c1 = c1
    c2 = c2
    web = web
    prod = prod
    spare = spare
    Providers = {openai}
    Models = {gpt, gpt_dated, mini, mini_dated, other}
    Undated <- UndatedOf
    Fine = 2
    NotANumber = NotANumber
    None = None
    Requests = {r1, r2}
    Changes = {c1, c2}
    Files <- AllFiles
    Replies <- SomeReplies
    Teams = {web}
    CredentialNames = {prod, spare}
    InitialCredentials <- TheCredential
    InitialKeys <- TheKey
    InitialLedger <- OldRows
    InitialAudit <- OldEvents
    Ids = {1, 2, 3, 4, 5}
    Cast <- Casts
    MaxTime = 2
    Queries <- SomeQueries
    Limits = {1, 2}
    Accounting <- SomeAccounting
    Size <- Sizes
    MaxBuckets <- Bounds
    BatchSize = 1
    Intruders <- Intruder
SYMMETRY Alike
CHECK_DEADLOCK FALSE
INVARIANTS TypeOK WalkWhole ReviewMissesOnlyTies ReportsAddUp CopyWhole RowsPriced
