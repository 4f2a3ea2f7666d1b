------------------------------- MODULE Proxy -------------------------------
(***************************************************************************)
(* The proxy endpoint (proxy/handler.py, proxy/metering.py): a coroutine   *)
(* per request authenticates the key, plans the targets, checks the        *)
(* budgets, tries the targets, relays the answer and writes the ledger     *)
(* row, while clients disconnect, keys are revoked, upstreams fail, the    *)
(* connection pool is full, database calls raise and the process dies.     *)
(*                                                                         *)
(* Code between two awaits is one step.  Bodies are records of what the    *)
(* code branches on; a stream is the chunks it delivers, each with or      *)
(* without something to forward.                                           *)
(***************************************************************************)
EXTENDS Routing

CONSTANTS
    Requests,       \* requests
    Keys,           \* virtual keys clients present
    RouteNames,     \* names of the routes file
    RouteOf,        \* the route of each name
    Bodies,         \* what each request may carry
    InitKeys,       \* the keys table at the start
    InitCredentials,\* the credentials table at the start
    Undecryptable,  \* credentials encrypted under another key
    Statuses,       \* HTTP statuses upstreams answer with
    PoolSize,       \* max_connections of the httpx client
    MaxChunks,      \* bound: chunks of a stream
    DbFails,        \* whether database calls may fail
    Crashes,        \* whether the process may die
    None

VARIABLES
    keys,         \* virtual_keys: None or the row
    credentials,  \* provider_credentials: the names that exist
    ledger,       \* request_ledger: per request, the rows written for it
    req,          \* per request: its coroutine
    client,       \* per request: what its client does and has seen
    conns,        \* connections taken from the pool: <<request, attempt>>
    calls         \* history: statuses received, <<request, attempt, status>>

vars == <<keys, credentials, ledger, req, client, conns, calls>>

\* route: the name sent as `model` if it is a route's; translatable: plain text only;
\* options: stream_options, where present, is an object.
BodyRecords == [api : Providers, route : RouteNames \cup {None}, stream : BOOLEAN,
                translatable : BOOLEAN, options : BOOLEAN]
KeyRows == [credential : CredentialNames, active : BOOLEAN]
Outcomes == {"success", "upstream_error", "upstream_unreachable", "client_disconnected",
             "proxy_error", "budget_exceeded"}
LedgerRows == [outcome : Outcomes, status : Nat, attempts : Nat]

ASSUME ProxyAssumption ==
    /\ RouteOf \in [RouteNames -> Routes]
    /\ Bodies \in [Requests -> SUBSET BodyRecords]
    /\ InitKeys \in [Keys -> KeyRows \cup {None}]
    /\ InitCredentials \subseteq CredentialNames
    /\ Statuses \subseteq 200 .. 599
    /\ PoolSize \in Nat \ {0} /\ MaxChunks \in Nat
    /\ DbFails \in BOOLEAN /\ Crashes \in BOOLEAN
    /\ \A S \in {Keys, RouteNames, BodyRecords, KeyRows, CredentialNames} : None \notin S

-----------------------------------------------------------------------------
IsSuccess(status) == status \in 200 .. 299

Idle == [pc |-> "idle", body |-> None, key |-> None, revoked |-> FALSE, cred |-> None,
         known |-> {}, plan |-> <<>>, at |-> 0, recorded |-> FALSE, row |-> None, then |-> "answer",
         status |-> 0, read |-> 0, owed |-> 0, err |-> FALSE, broke |-> FALSE, lost |-> FALSE]

NewClient == [gone |-> FALSE, status |-> 0, got |-> 0, ended |-> "no"]

Init ==
    /\ keys = InitKeys
    /\ credentials = InitCredentials
    /\ ledger = [r \in Requests |-> <<>>]
    /\ req = [r \in Requests |-> Idle]
    /\ client = [r \in Requests |-> NewClient]
    /\ conns = {}
    /\ calls = {}

IsActive(k) == k # None /\ keys[k] # None /\ keys[k].active

\* The target of the attempt: position 0 stands for the request as the client sent it.
Credential(w) ==
    IF w.plan[w.at] = 0 THEN w.cred
    ELSE RouteOf[w.body.route].targets[w.plan[w.at]].credential
Translates(w) == ProviderOf[Credential(w)] # w.body.api
Last(w) == w.at = Len(w.plan)

-----------------------------------------------------------------------------
(* What the handler does between two awaits. *)

Become(r, w) == req' = [req EXCEPT ![r] = w]

\* A response of the proxy's own.
Answer(r, w, status) ==
    /\ Become(r, [w EXCEPT !.pc = "done"])
    /\ client' = [client EXCEPT ![r].status = status, ![r].ended = "whole"]

\* Mutant of Record: no _recorded flag.
RecordAgain(r, w, outcome, status, then) ==
    /\ Become(r, [w EXCEPT !.pc = "insert", !.recorded = TRUE, !.status = status,
                           !.then = then,
                           !.row = [outcome |-> outcome, status |-> status,
                                    attempts |-> w.at]])
    /\ UNCHANGED client

\* RequestMeter.record up to its first await; `then` is what its caller does next.
Record(r, w, outcome, status, then) ==
    IF w.recorded
    THEN Answer(r, w, status)
    ELSE /\ Become(r, [w EXCEPT !.pc = "insert", !.recorded = TRUE, !.status = status,
                                !.then = then,
                                !.row = [outcome |-> outcome, status |-> status,
                                         attempts |-> w.at]])
         /\ UNCHANGED client

\* `except Exception` of proxy().
ProxyError(r, w) == Record(r, w, "proxy_error", 500, "answer")

\* The attempt failed in a way the next target may not.
NextTarget(r, w) ==
    /\ Become(r, [w EXCEPT !.pc = "key", !.at = @ + 1, !.status = 0])
    /\ UNCHANGED client

\* The relay's `finally`, which closes the upstream first.  Nothing cancels it: it is shielded.
Finally(r, w, outcome, then) ==
    /\ Become(r, [w EXCEPT !.pc = "close", !.then = then,
                           !.row = [outcome |-> outcome, status |-> w.status,
                                    attempts |-> w.at]])
    /\ UNCHANGED client

-----------------------------------------------------------------------------
(* Before the first attempt. *)

\* A request arrives, with a key or without one.
Arrive(r) ==
    /\ req[r].pc = "idle"
    /\ \E body \in Bodies[r], k \in Keys \cup {None} :
          LET w == [Idle EXCEPT !.body = body, !.key = k,
                                   !.revoked = (k # None /\ keys[k] # None /\ ~IsActive(k))]
          IN  IF k = None
              THEN Answer(r, w, 401)
              ELSE Become(r, [w EXCEPT !.pc = "auth"]) /\ UNCHANGED client
    /\ UNCHANGED <<keys, credentials, ledger, conns, calls>>

\* _authenticate: the key must exist and be active.
Authenticate(r) ==
    LET w == req[r]
    IN  /\ w.pc = "auth"
        /\ \/ /\ IsActive(w.key)
              /\ Become(r, [w EXCEPT !.pc = "body", !.cred = keys[w.key].credential])
              /\ UNCHANGED client
           \/ ~IsActive(w.key) /\ Answer(r, w, 401)
           \/ DbFails /\ Answer(r, w, 500)
        /\ UNCHANGED <<keys, credentials, ledger, conns, calls>>

\* The body has been read: a route, or the key's own credential if it is on this API.
ReadBody(r) ==
    LET w == req[r]
    IN  /\ w.pc = "body"
        /\ \/ client[r].gone /\ Become(r, [w EXCEPT !.pc = "done"]) /\ UNCHANGED client
           \/ /\ w.body.route # None
              /\ Become(r, [w EXCEPT !.pc = "plan"]) /\ UNCHANGED client
           \/ /\ w.body.route = None /\ ProviderOf[w.cred] = w.body.api
              /\ Become(r, [w EXCEPT !.pc = "check", !.plan = <<0>>, !.at = 1])
              /\ UNCHANGED client
           \/ /\ w.body.route = None /\ ProviderOf[w.cred] # w.body.api
              /\ Answer(r, w, 400)
        /\ UNCHANGED <<keys, credentials, ledger, conns, calls>>

\* The credentials have been listed and the route planned.
PlanRoute(r) ==
    LET w == req[r]
        route == RouteOf[w.body.route]
    IN  /\ w.pc = "plan"
        /\ \/ \E p \in Plans(route, credentials, w.body.api, w.body.translatable) :
                IF p = <<>>
                THEN Answer(r, w, 400)
                ELSE /\ Become(r, [w EXCEPT !.pc = "check", !.known = credentials,
                                             !.plan = p, !.at = 1])
                     /\ UNCHANGED client
           \/ DbFails /\ Answer(r, w, 500)
        /\ UNCHANGED <<keys, credentials, ledger, conns, calls>>

\* BudgetTracker.blocking: it refuses the request or, also when it raises, lets it pass.
CheckBudgets(r) ==
    LET w == req[r]
    IN  /\ w.pc = "check"
        /\ \/ Become(r, [w EXCEPT !.pc = "key"]) /\ UNCHANGED client
           \/ Record(r, w, "budget_exceeded", 429, "answer")
        /\ UNCHANGED <<keys, credentials, ledger, conns, calls>>

-----------------------------------------------------------------------------
(* An attempt. *)

\* _provider_key, and the request to the upstream is built.
FetchKey(r) ==
    LET w == req[r]
    IN  /\ w.pc = "key"
        /\ \/ /\ Credential(w) \notin Undecryptable
              /\ Become(r, [w EXCEPT !.pc = "connect"]) /\ UNCHANGED client
           \/ /\ Credential(w) \in Undecryptable
              /\ IF Last(w) THEN ProxyError(r, w) ELSE NextTarget(r, w)
           \/ DbFails /\ ProxyError(r, w)
        /\ UNCHANGED <<keys, credentials, ledger, conns, calls>>

\* httpx takes a connection of the pool.
Connect(r) ==
    LET w == req[r]
    IN  /\ w.pc = "connect" /\ Cardinality(conns) < PoolSize
        /\ conns' = conns \cup {<<r, w.at>>}
        /\ Become(r, [w EXCEPT !.pc = "send"])
        /\ UNCHANGED <<keys, credentials, ledger, client, calls>>

\* Mutant of TransportError: the last target is not told from the others.
TransportErrorAlways(r, w, status) == NextTarget(r, w)

\* A TransportError: the next target, or 502, or 504 for a timeout.
TransportError(r, w, status) ==
    IF Last(w) THEN Record(r, w, "upstream_unreachable", status, "answer") ELSE NextTarget(r, w)

\* Mutant of PoolTimeout: requests wait for a connection for as long as it takes.
PoolTimeoutNever(r) == FALSE /\ UNCHANGED vars

\* No connection within the timeout.
PoolTimeout(r) ==
    LET w == req[r]
    IN  /\ w.pc = "connect" /\ Cardinality(conns) >= PoolSize
        /\ TransportError(r, w, 504)
        /\ UNCHANGED <<keys, credentials, ledger, conns, calls>>

\* The upstream cannot be reached, times out or drops the connection.
SendFails(r) ==
    LET w == req[r]
    IN  /\ w.pc = "send"
        /\ conns' = conns \ {<<r, w.at>>}
        /\ \E status \in {502, 504} : TransportError(r, w, status)
        /\ UNCHANGED <<keys, credentials, ledger, calls>>

\* Whether a failing answer is left for the next target.
MovesOn(w) == ~IsSuccess(w.status) /\ ~Last(w) /\ Retryable(w.status)
Streams(w) == w.body.stream /\ IsSuccess(w.status)

\* stream_translator reads stream_options of an OpenAI body without checking that it is one.
TranslatorRaises(w) == Translates(w) /\ w.body.api = "openai" /\ ~w.body.options

\* The status and headers of a response.
Respond(r) ==
    \E status \in Statuses :
        LET w == [req[r] EXCEPT !.status = status]
        IN  /\ w.pc = "send"
            /\ calls' = calls \cup {<<r, w.at, status>>}
            /\ \/ MovesOn(w) /\ Become(r, [w EXCEPT !.pc = "drop"]) /\ UNCHANGED client
               \/ /\ ~MovesOn(w) /\ ~Streams(w)
                  /\ Become(r, [w EXCEPT !.pc = "read"]) /\ UNCHANGED client
               \* the response stays open
               \/ Streams(w) /\ TranslatorRaises(w) /\ ProxyError(r, [w EXCEPT !.broke = TRUE])
               \/ /\ Streams(w) /\ ~TranslatorRaises(w)
                  /\ Become(r, [w EXCEPT !.pc = "relay"])
                  /\ client' = [client EXCEPT ![r].status = status]
            /\ UNCHANGED <<keys, credentials, ledger, conns>>

\* Mutant of Drop: the next target is tried while the response is still open.
DropOpen(r) ==
    LET w == req[r]
    IN  /\ w.pc = "drop"
        /\ NextTarget(r, w)
        /\ UNCHANGED <<keys, credentials, ledger, conns, calls>>

\* A retryable response is closed before the next target is tried.
Drop(r) ==
    LET w == req[r]
    IN  /\ w.pc = "drop"
        /\ conns' = conns \ {<<r, w.at>>}
        /\ NextTarget(r, w)
        /\ UNCHANGED <<keys, credentials, ledger, calls>>

\* Mutant of ReadAnswer: a body that breaks off is left for the next target too.
ReadAnswerRetries(r) ==
    LET w == req[r]
    IN  /\ w.pc = "read"
        /\ conns' = conns \ {<<r, w.at>>}
        /\ \/ IsSuccess(w.status) /\ Record(r, w, "success", w.status, "translate")
           \/ ~IsSuccess(w.status) /\ Record(r, w, "upstream_error", w.status, "answer")
           \/ TransportError(r, w, 502)
        /\ UNCHANGED <<keys, credentials, ledger, calls>>

\* aread, with aclose in its `finally`.
ReadAnswer(r) ==
    LET w == req[r]
    IN  /\ w.pc = "read"
        /\ conns' = conns \ {<<r, w.at>>}
        /\ \/ IsSuccess(w.status) /\ Record(r, w, "success", w.status, "translate")
           \/ ~IsSuccess(w.status) /\ Record(r, w, "upstream_error", w.status, "answer")
           \/ Record(r, w, "upstream_unreachable", 502, "answer")
        /\ UNCHANGED <<keys, credentials, ledger, calls>>

-----------------------------------------------------------------------------
(* The relay of a stream. *)

\* A chunk: the meter may see an error event in it, and there may be something to forward.
Chunk(r) ==
    LET w == req[r]
    IN  /\ w.pc = "relay" /\ w.read < MaxChunks
        /\ \E err \in BOOLEAN :
              LET u == [w EXCEPT !.read = @ + 1, !.err = @ \/ err]
              IN  Become(r, u) \/ Become(r, [u EXCEPT !.pc = "yield", !.owed = @ + 1])
        /\ UNCHANGED <<keys, credentials, ledger, client, conns, calls>>

\* The outcome of a stream that was relayed to its end.
StreamOutcome(w) == IF w.err THEN "upstream_error" ELSE "success"

\* The upstream has sent all: the rest of the parser's buffer or of the translation is next.
Complete(r) ==
    LET w == req[r]
    IN  /\ w.pc = "relay"
        /\ \/ Become(r, [w EXCEPT !.pc = "tail", !.owed = @ + 1]) /\ UNCHANGED client
           \/ Finally(r, w, StreamOutcome(w), "whole")
        /\ UNCHANGED <<keys, credentials, ledger, conns, calls>>

\* The client takes what is forwarded; for one that is gone the server drops it.
Take(r) ==
    LET w == req[r]
    IN  /\ w.pc \in {"yield", "tail"}
        /\ IF w.pc = "yield"
           THEN Become(r, [w EXCEPT !.pc = "relay"])
           ELSE Become(r, [w EXCEPT !.pc = "close", !.then = "whole",
                     !.row = [outcome |-> StreamOutcome(w), status |-> w.status,
                              attempts |-> w.at]])
        /\ client' = [client EXCEPT ![r].got = IF client[r].gone THEN @ ELSE @ + 1]
        /\ UNCHANGED <<keys, credentials, ledger, conns, calls>>

\* Mutant of Interrupted: the outcome is set before the last chunk was waited for.
InterruptedLate(r) ==
    LET w == req[r]
    IN  /\ w.pc = "relay"
        /\ Finally(r, w, StreamOutcome(w), "cut")
        /\ UNCHANGED <<keys, credentials, ledger, conns, calls>>

\* The connection to the upstream fails or times out: `except httpx.HTTPError`.
Interrupted(r) ==
    LET w == req[r]
    IN  /\ w.pc = "relay"
        /\ Finally(r, w, "upstream_error", "cut")
        /\ UNCHANGED <<keys, credentials, ledger, conns, calls>>

\* The translator raises on an event it does not expect: no `except` clause sets the outcome.
Breaks(r) ==
    LET w == [req[r] EXCEPT !.broke = TRUE]
    IN  /\ w.pc = "relay" /\ Translates(w)
        /\ Finally(r, w, "client_disconnected", "cut")
        /\ UNCHANGED <<keys, credentials, ledger, conns, calls>>

\* Mutant of Cancel: a relay suspended at a yield is not closed.
CancelRunning(r) ==
    LET w == req[r]
    IN  /\ w.pc = "relay" /\ client[r].gone
        /\ Finally(r, w, "client_disconnected", "cut")
        /\ UNCHANGED <<keys, credentials, ledger, conns, calls>>

\* The server cancels the response of a client that is gone, or closes the suspended relay.
Cancel(r) ==
    LET w == req[r]
    IN  /\ w.pc \in {"relay", "yield", "tail"} /\ client[r].gone
        /\ Finally(r, w, "client_disconnected", "cut")
        /\ UNCHANGED <<keys, credentials, ledger, conns, calls>>

\* The upstream is closed and RequestMeter.record called.
Close(r) ==
    LET w == req[r]
    IN  /\ w.pc = "close"
        /\ conns' = conns \ {<<r, w.at>>}
        /\ Record(r, w, w.row.outcome, w.row.status, w.then)
        /\ UNCHANGED <<keys, credentials, ledger, calls>>

-----------------------------------------------------------------------------
(* RequestMeter.record from its first await on, and the return to its caller. *)

\* What follows record: the answer, which may have to be translated, or the end of the relay.
Return(r, w) ==
    \/ w.then = "answer" /\ Answer(r, w, w.status)
    \/ w.then = "translate" /\ Answer(r, w, w.status)
    \/ w.then = "translate" /\ Translates(w) /\ ProxyError(r, [w EXCEPT !.broke = TRUE])
    \/ /\ w.then \in {"whole", "cut"}
       /\ Become(r, [w EXCEPT !.pc = "done"])
       /\ client' = [client EXCEPT ![r].ended = w.then]

\* The row is committed.
WriteRow(r) ==
    LET w == req[r]
    IN  /\ w.pc = "insert"
        /\ ledger' = [ledger EXCEPT ![r] = Append(@, w.row)]
        /\ Become(r, [w EXCEPT !.pc = "count"])
        /\ UNCHANGED <<keys, credentials, client, conns, calls>>

\* The insert raises: the row is lost and nothing is counted.
WriteFails(r) ==
    LET w == [req[r] EXCEPT !.lost = TRUE]
    IN  /\ w.pc = "insert" /\ DbFails
        /\ Return(r, w)
        /\ UNCHANGED <<keys, credentials, ledger, conns, calls>>

\* BudgetTracker.record and AlertManager.evaluate are over, or one of them raised.
Counted(r) ==
    LET w == req[r]
    IN  /\ w.pc = "count"
        /\ Return(r, w)
        /\ UNCHANGED <<keys, credentials, ledger, conns, calls>>

-----------------------------------------------------------------------------
(* Clients, the admin API, the process. *)

Disconnect(r) ==
    /\ req[r].pc \notin {"idle", "done", "killed"} /\ ~client[r].gone
    /\ client' = [client EXCEPT ![r].gone = TRUE]
    /\ UNCHANGED <<keys, credentials, ledger, req, conns, calls>>

\* create_credential; a name that is taken is refused.
CreateCredential(c) ==
    /\ c \notin credentials
    /\ credentials' = credentials \cup {c}
    /\ UNCHANGED <<keys, ledger, req, client, conns, calls>>

\* create_key, for a credential that exists.
CreateKey(k, c) ==
    /\ keys[k] = None /\ c \in credentials
    /\ keys' = [keys EXCEPT ![k] = [credential |-> c, active |-> TRUE]]
    /\ UNCHANGED <<credentials, ledger, req, client, conns, calls>>

\* revoke_key.
RevokeKey(k) ==
    /\ IsActive(k)
    /\ keys' = [keys EXCEPT ![k].active = FALSE]
    /\ UNCHANGED <<credentials, ledger, req, client, conns, calls>>

\* The process dies or is stopped, and another one is started.
Restart ==
    /\ Crashes
    /\ \E r \in Requests : req[r].pc \notin {"idle", "done", "killed"}
    /\ req' = [r \in Requests |->
                  IF req[r].pc \in {"idle", "done", "killed"} THEN req[r]
                  ELSE [req[r] EXCEPT !.pc = "killed"]]
    /\ client' = [r \in Requests |->
                  IF req[r].pc \in {"idle", "done", "killed"} THEN client[r]
                  ELSE [client[r] EXCEPT !.ended = "cut"]]
    /\ conns' = {}
    /\ UNCHANGED <<keys, credentials, ledger, calls>>

\* The coroutine of a request: what its awaits lead to within a bounded time.  Each await on
\* the database, the pool or the upstream ends with an answer, an error or a timeout.
Serve(r) ==
    \/ Authenticate(r) \/ ReadBody(r) \/ PlanRoute(r) \/ CheckBudgets(r) \/ FetchKey(r)
    \/ Connect(r) \/ PoolTimeout(r) \/ SendFails(r) \/ Respond(r) \/ Drop(r) \/ ReadAnswer(r)
    \/ Chunk(r) \/ Complete(r) \/ Interrupted(r) \/ Breaks(r) \/ Close(r)
    \/ WriteRow(r) \/ WriteFails(r) \/ Counted(r)

Admin ==
    \/ \E c \in CredentialNames : CreateCredential(c)
    \/ \E k \in Keys, c \in CredentialNames : CreateKey(k, c)
    \/ \E k \in Keys : RevokeKey(k)

Next ==
    \/ \E r \in Requests : Arrive(r) \/ Serve(r) \/ Take(r) \/ Cancel(r) \/ Disconnect(r)
    \/ Admin
    \/ Restart

Spec == Init /\ [][Next]_vars

\* Take is not fair: no timeout bounds how long a client may leave a chunk in the way.
FairSpec == Spec /\ \A r \in Requests : WF_vars(Serve(r)) /\ WF_vars(Cancel(r))

-----------------------------------------------------------------------------
(* Properties *)

RequestStates ==
    [pc : {"idle", "auth", "body", "plan", "check", "key", "connect", "send", "drop", "read",
           "relay", "yield", "tail", "close", "insert", "count", "done", "killed"},
     body : BodyRecords \cup {None}, key : Keys \cup {None}, revoked : BOOLEAN,
     cred : CredentialNames \cup {None}, known : SUBSET CredentialNames, plan : Seq(Nat),
     at : Nat, recorded : BOOLEAN, row : LedgerRows \cup {None},
     then : {"answer", "translate", "whole", "cut"}, status : Nat,
     read : 0 .. MaxChunks, owed : Nat, err : BOOLEAN, broke : BOOLEAN, lost : BOOLEAN]

\* Every variable has the values the code gives it; a request that has a meter is at one of
\* its targets.
TypeOK ==
    /\ keys \in [Keys -> KeyRows \cup {None}]
    /\ credentials \subseteq CredentialNames
    /\ ledger \in [Requests -> Seq(LedgerRows)]
    /\ req \in [Requests -> RequestStates]
    /\ client \in [Requests -> [gone : BOOLEAN, status : Nat, got : Nat,
                                ended : {"no", "whole", "cut"}]]
    /\ conns \subseteq Requests \X Nat
    /\ calls \subseteq Requests \X Nat \X Statuses
    /\ \A r \in Requests : req[r].at \in 0 .. Len(req[r].plan)

Metered(w) == w.at > 0

\* "writes exactly one ledger row": whatever its upstreams, its client and the database do, a
\* request never has two rows, and one that got as far as the budget check and whose handler
\* ended has one, unless the insert itself failed.
RowPerRequest ==
    \A r \in Requests :
        /\ Len(ledger[r]) <= 1
        /\ req[r].pc = "done" /\ Metered(req[r]) /\ ~req[r].lost => Len(ledger[r]) = 1
        /\ ~Metered(req[r]) => ledger[r] = <<>>

\* What a row claims is what happened.  A success was answered by the target of the last
\* attempt, and a client that is still there was handed all of it; an upstream error was
\* answered by an upstream; a disconnect was one, or the translator raised; a request over
\* budget reached no upstream; a failure another target may not share is the last target's;
\* and the client is given the status of the row, unless the answer could not be translated
\* afterwards.
RowTruthful ==
    \A r \in Requests : \A i \in DOMAIN ledger[r] :
        LET row == ledger[r][i]
            w == req[r]
            answered == <<r, row.attempts, row.status>> \in calls
            reached == \E c \in calls : c[1] = r /\ c[2] = row.attempts
        IN  /\ row.attempts = w.at
            /\ row.outcome = "success" =>
                  /\ answered /\ IsSuccess(row.status) /\ ~w.err
                  /\ client[r].gone \/ client[r].got = w.owed
                  /\ client[r].ended = "cut" => w.pc = "killed"
            /\ row.outcome = "upstream_error" =>
                  answered /\ (Retryable(row.status) => Last(w))
            /\ row.outcome = "client_disconnected" => answered /\ (client[r].gone \/ w.broke)
            /\ row.outcome = "upstream_unreachable" =>
                  row.status \in {502, 504} /\ (reached \/ Last(w))
            /\ row.outcome = "budget_exceeded" => \A c \in calls : c[1] # r
            /\ client[r].status \in {0, row.status} \/ w.broke

\* A request is charged for one answer at most, the one its row is about: once a target has
\* answered with success no other is contacted, and the row names that attempt.
PaidOnce ==
    \A c \in calls : IsSuccess(c[3]) =>
        /\ \A d \in calls : d[1] = c[1] => d = c \/ d[2] < c[2]
        /\ \A x \in conns : x[1] = c[1] => x[2] = c[2]
        /\ \A i \in DOMAIN ledger[c[1]] : ledger[c[1]][i].attempts = c[2]

\* A target is only contacted when every target that precedes it in the route's order, among
\* those that could serve the request, has been tried and failed in a way others may not.
FallbackInOrder ==
    \A c \in conns : req[c[1]].body.route # None =>
        LET w == req[c[1]]
            route == RouteOf[w.body.route]
        IN  \A i \in Eligible(route, w.known, w.body.api, w.body.translatable) :
                Before(route, i, w.plan[c[2]]) =>
                    \E m \in 1 .. c[2] - 1 :
                        /\ w.plan[m] = i
                        /\ \A d \in calls : d[1] = c[1] /\ d[2] = m => Retryable(d[3])

\* A connection is held only by the attempt a request is at, so every response is closed on
\* every path, but for a stream whose translator could not be built.
UpstreamsClosed ==
    \A c \in conns :
        /\ req[c[1]].at = c[2]
        /\ \/ req[c[1]].pc \in {"send", "drop", "read", "relay", "yield", "tail", "close"}
           \/ req[c[1]].broke

\* A request that arrives after its key was revoked reaches no upstream and leaves no row.
RevokedStops ==
    \A r \in Requests : req[r].revoked =>
        /\ \A c \in conns : c[1] # r
        /\ \A c \in calls : c[1] # r
        /\ ledger[r] = <<>>

Over(r) == req[r].pc \in {"done", "killed"}

\* A request ends, whatever others do with the connection pool, unless its own client leaves
\* a chunk in the way: every wait for a connection or an upstream has a timeout.
RequestsEnd ==
    \A r \in Requests : req[r].pc # "idle" ~> Over(r) \/ req[r].pc \in {"yield", "tail"}

\* The request of a client that is gone ends, with its row, even if it was blocked on it.
GoneRequestsEnd ==
    \A r \in Requests : client[r].gone ~> Over(r)
=============================================================================
