------------------------------ MODULE Ledger ------------------------------
(***************************************************************************)
(* The records Tollbooth keeps (repositories/sql.py, repositories/         *)
(* sql_auth.py, proxy/metering.py, audit.py, api/admin_routes.py): keys    *)
(* and credentials, one ledger row per request and one audit event per     *)
(* change, while other processes commit to the same database.              *)
(*                                                                         *)
(* A statement takes effect in the step in which its caller resumes.  A    *)
(* row bears the time its request began and an event the time it was       *)
(* stamped, so either may be committed behind younger ones.  Ids are       *)
(* random.                                                                 *)
(***************************************************************************)
EXTENDS Pricing, FiniteSets

CONSTANTS
    Requests,     \* requests the proxy serves, each once
    Changes,      \* calls of the endpoints that create credentials and keys
    Files,        \* pricing files it may be started with
    Replies,      \* what providers may answer: model, outcome, usage
    Teams,        \* teams of keys
    CredentialNames,
    InitialCredentials,
    InitialKeys,
    InitialLedger,
    InitialAudit,
    Ids,          \* ids of ledger rows and audit events, drawn at random
    Cast,         \* who is at work: sets of requests and changes that happen
    MaxTime       \* bound: the clock stops here

VARIABLES
    file,         \* the pricing file
    ledger, audit_log, provider_credentials, virtual_keys,   \* tables
    request,      \* per request, its RequestMeter
    change,       \* per change, the audit event it has yet to write
    cast,         \* the requests and changes that happen
    now           \* the clock

storeVars ==
    <<file, ledger, audit_log, provider_credentials, virtual_keys, request, change, cast, now>>

UsageRecord ==
    [input : Nat, output : Nat, cache_read : Nat, cache_write : Nat, cache_write_1h : Nat]
Outcomes == {"success", "upstream_error", "upstream_unreachable", "client_disconnected",
             "proxy_error", "budget_exceeded"}

\* A credential is named by its unique name, a key by the change that made it.
CredentialRows == [id : Nat, name : CredentialNames, provider : Providers]
KeyRows == [id : Nat, team : Teams, credential : Nat]
LedgerRows ==
    [id : Ids, at : Nat, team : Teams, key : Nat, provider : Providers, model : Models,
     outcome : Outcomes, usage : UsageRecord, cost : Nat \cup {None}]
AuditRows == [id : Ids, at : Nat, action : {"credential.created", "key.created"}]

\* The constraints of the tables: primary keys, the unique name of a credential, the foreign key
\* of a key.
Keyed(table) == \A x, y \in table : x.id = y.id => x = y
Named(credentials) == \A x, y \in credentials : x.name = y.name => x = y
Linked(keys, credentials) == \A k \in keys : \E c \in credentials : c.id = k.credential

ASSUME LedgerAssumption ==
    /\ IsFiniteSet(Ids) /\ Ids \subseteq Nat
    /\ MaxTime \in Nat
    /\ \A r \in Replies : r.model \in Models /\ r.outcome \in Outcomes /\ r.usage \in UsageRecord
    /\ \A f \in Files : \A e \in f : e.rates \in [DOMAIN e.rates -> Int \cup {NotANumber}]
    /\ InitialCredentials \subseteq CredentialRows /\ InitialKeys \subseteq KeyRows
    /\ InitialLedger \subseteq LedgerRows /\ InitialAudit \subseteq AuditRows
    /\ \A table \in {InitialCredentials, InitialKeys, InitialLedger, InitialAudit} :
          IsFiniteSet(table) /\ Keyed(table)
    /\ Named(InitialCredentials) /\ Linked(InitialKeys, InitialCredentials)
    /\ None \notin Nat /\ \A f \in Files : \A e \in f : None # ModelPrice(e)
    /\ Cast \subseteq SUBSET (Requests \cup Changes)
    /\ Requests \cap Changes = {}

-----------------------------------------------------------------------------
StoreInit ==
    /\ file \in {f \in Files : Accepted(f)}
    /\ ledger = InitialLedger /\ audit_log = InitialAudit
    /\ provider_credentials = InitialCredentials /\ virtual_keys = InitialKeys
    /\ request = [r \in Requests |-> [pc |-> "idle"]]
    /\ change = [c \in Changes |-> [pc |-> "idle"]]
    /\ cast \in Cast
    /\ now = 0

FreeIds(table) == Ids \ {x.id : x \in table}

\* RequestMeter is created for a request that presents a key.
Begin(r) ==
    /\ r \in cast /\ request[r].pc = "idle"
    /\ \E k \in virtual_keys :
        request' = [request EXCEPT ![r] = [pc |-> "sent", at |-> now, key |-> k]]
    /\ UNCHANGED <<file, ledger, audit_log, provider_credentials, virtual_keys, change, cast, now>>

ProviderOf(key) == (CHOOSE c \in provider_credentials : c.id = key.credential).provider

\* The LedgerEntry of RequestMeter.record.
Entry(id, w, reply) ==
    LET provider == ProviderOf(w.key)
        price == Lookup(file, provider, reply.model)
    IN  [id |-> id, at |-> w.at, team |-> w.key.team, key |-> w.key.id, provider |-> provider,
         model |-> reply.model, outcome |-> reply.outcome, usage |-> reply.usage,
         cost |-> IF price = None THEN None ELSE CostNanousd(reply.usage, price)]

Raises(w, reply) ==
    LET price == Lookup(file, ProviderOf(w.key), reply.model)
    IN  price # None /\ ~IsWhole(reply.usage, price)

\* RequestMeter.record: the row is inserted, or the insert fails and is logged, or computing
\* the cost raises before it.
Record(r) ==
    /\ request[r].pc = "sent"
    /\ \E reply \in Replies :
        IF Raises(request[r], reply)
        THEN request' = [request EXCEPT ![r] = [pc |-> "raised"]] /\ UNCHANGED ledger
        ELSE \/ /\ \E id \in FreeIds(ledger) : ledger' = ledger \cup {Entry(id, request[r], reply)}
                /\ request' = [request EXCEPT ![r] = [pc |-> "recorded"]]
             \/ request' = [request EXCEPT ![r] = [pc |-> "unwritten"]] /\ UNCHANGED ledger
    /\ UNCHANGED <<file, audit_log, provider_credentials, virtual_keys, change, cast, now>>

NewId(table) == CHOOSE n \in 1 .. Cardinality(table) + 1 : \A x \in table : x.id # n

Auditing(action) == [pc |-> "auditing", at |-> now, action |-> action]

\* create_credential: a name that exists is refused.  The event is stamped when the insert
\* has committed.
CreateCredential(c) ==
    /\ c \in cast /\ change[c].pc = "idle"
    /\ \E name \in CredentialNames, provider \in Providers :
        IF \E x \in provider_credentials : x.name = name
        THEN change' = [change EXCEPT ![c] = [pc |-> "done"]] /\ UNCHANGED provider_credentials
        ELSE /\ provider_credentials' = provider_credentials \cup
                   {[id |-> NewId(provider_credentials), name |-> name, provider |-> provider]}
             /\ change' = [change EXCEPT ![c] = Auditing("credential.created")]
    /\ UNCHANGED <<file, ledger, audit_log, virtual_keys, request, cast, now>>

\* create_key, of a credential there is: none is ever removed.
CreateKey(c) ==
    /\ c \in cast /\ change[c].pc = "idle"
    /\ \E credential \in provider_credentials, team \in Teams :
        virtual_keys' = virtual_keys \cup
            {[id |-> NewId(virtual_keys), team |-> team, credential |-> credential.id]}
    /\ change' = [change EXCEPT ![c] = Auditing("key.created")]
    /\ UNCHANGED <<file, ledger, audit_log, provider_credentials, request, cast, now>>

\* audit.record: best effort.
Audit(c) ==
    /\ change[c].pc = "auditing"
    /\ \/ \E id \in FreeIds(audit_log) :
              audit_log' = audit_log \cup
                  {[id |-> id, at |-> change[c].at, action |-> change[c].action]}
       \/ UNCHANGED audit_log
    /\ change' = [change EXCEPT ![c] = [pc |-> "done"]]
    /\ UNCHANGED <<file, ledger, provider_credentials, virtual_keys, request, cast, now>>

Tick ==
    /\ now < MaxTime
    /\ now' = now + 1
    /\ UNCHANGED <<file, ledger, audit_log, provider_credentials, virtual_keys, request, change,
                   cast>>

Serve ==
    \/ \E r \in Requests : Begin(r) \/ Record(r)
    \/ \E c \in Changes : CreateCredential(c) \/ CreateKey(c) \/ Audit(c)
    \/ Tick

-----------------------------------------------------------------------------
StoreTypeOK ==
    /\ file \in Files
    /\ ledger \subseteq LedgerRows /\ audit_log \subseteq AuditRows
    /\ provider_credentials \subseteq CredentialRows /\ virtual_keys \subseteq KeyRows
    /\ \A r \in Requests : request[r].pc \in {"idle", "sent", "recorded", "unwritten", "raised"}
    /\ \A c \in Changes : change[c].pc \in {"idle", "auditing", "done"}
    /\ cast \in Cast
    /\ now \in 0 .. MaxTime

-----------------------------------------------------------------------------
\* A file that was accepted prices exactly: no request goes without its row because its cost is
\* no whole number of nanodollars (cost.py:27, "pricing validation was bypassed").  A row recorded
\* since the start has no cost only if no table of the file names its model, dated or not; and
\* no token of it is billed below or above every rate of the table that names it.
RowsPriced ==
    /\ \A r \in Requests : request[r].pc # "raised"
    /\ \A row \in ledger \ InitialLedger :
        LET naming(m) ==
                {e \in file : e.provider = row.provider /\ m \in Range(Names(e))}
            tokens == row.usage.input + row.usage.output + row.usage.cache_read
                        + row.usage.cache_write + row.usage.cache_write_1h
            entries ==
                IF naming(row.model) # {} THEN naming(row.model) ELSE naming(Undated[row.model])
        IN  /\ row.cost = None <=> entries = {}
            /\ \A e \in entries :
                  /\ \E f \in DOMAIN e.rates : row.cost * Fine >= tokens * e.rates[f]
                  /\ \E f \in DOMAIN e.rates : row.cost * Fine <= tokens * e.rates[f]
=============================================================================
