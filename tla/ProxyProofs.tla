---------------------------- MODULE ProxyProofs ----------------------------
(***************************************************************************)
(* Theorems about Proxy, for any requests, keys, routes, bodies, statuses, *)
(* pool and bounds that satisfy the assumptions, with failures, crashes    *)
(* and disconnects allowed.                                                *)
(***************************************************************************)
EXTENDS Proxy, FiniteSetTheorems, TLAPS

Early == {"idle", "auth", "body", "plan"}
Trying == {"check", "key", "connect", "send", "drop", "read", "relay", "yield", "tail", "close"}
Recording == {"insert", "count"}
Ended == {"done", "killed"}

\* What the locals of a request satisfy beyond their types.
Locals(w) ==
    /\ w.pc # "idle" => w.body \in BodyRecords
    /\ w.pc = "auth" => w.key \in Keys
    /\ w.pc = "plan" => w.body.route \in RouteNames
    /\ w.pc \in Early => w.at = 0
    /\ w.pc \in Trying \cup Recording => w.at > 0
    /\ w.pc = "drop" => w.at < Len(w.plan)
    /\ w.pc \in {"close"} \cup Recording => w.row \in LedgerRows

TypeInv == TypeOK /\ \A r \in Requests : Locals(req[r])

-----------------------------------------------------------------------------
\* A plan is a sequence of positions.
LEMMA PlansType ==
    ASSUME NEW route \in Routes, NEW known, NEW api, NEW translatable,
           NEW p \in Plans(route, known, api, translatable)
    PROVE  p \in Seq(Nat)
<1> DEFINE S == Eligible(route, known, api, translatable)
<1>1. S \subseteq 1 .. Len(route.targets)
  BY DEF Eligible, Routes
<1>2. Len(route.targets) \in Nat
  BY DEF Routes
<1>3. IsFiniteSet(S)
  <2>1. IsFiniteSet(1 .. Len(route.targets))
    BY <1>2, FS_Interval
  <2> HIDE DEF S
  <2> QED
    BY <1>1, <2>1, FS_Subset
<1>4. Cardinality(S) \in Nat
  BY <1>3, FS_CardinalityType
<1>5. p \in [1 .. Cardinality(S) -> S]
  BY DEF Plans
<1>6. S \subseteq Nat
  BY <1>1, <1>2
<1> HIDE DEF S
<1>7. p \in [1 .. Cardinality(S) -> Nat]
  BY <1>5, <1>6
<1> QED
  BY <1>4, <1>7

LEMMA RouteType == ASSUME NEW n \in RouteNames PROVE RouteOf[n] \in Routes
BY ProxyAssumption DEF ProxyAssumption

LEMMA StatusType == ASSUME NEW s \in Statuses PROVE s \in Nat
BY ProxyAssumption DEF ProxyAssumption

-----------------------------------------------------------------------------
\* The type invariant for one request is all a step of it has to establish.
OneType(r) ==
    /\ req' = [req EXCEPT ![r] = req'[r]] /\ req'[r] \in RequestStates
    /\ req'[r].at <= Len(req'[r].plan) /\ Locals(req'[r])
    /\ client' = [client EXCEPT ![r] = client'[r]]
    /\ client'[r] \in [gone : BOOLEAN, status : Nat, got : Nat, ended : {"no", "whole", "cut"}]

LEMMA AnswerType ==
    ASSUME TypeInv, NEW r \in Requests, NEW w \in RequestStates, NEW status \in Nat,
           w.at <= Len(w.plan), w.body \in BodyRecords, Answer(r, w, status)
    PROVE  OneType(r)
<1> DEFINE v == [w EXCEPT !.pc = "done"]
<1>1. req' = [req EXCEPT ![r] = v]
  BY DEF Answer, Become
<1>2. v \in RequestStates /\ v.pc = "done" /\ v.at = w.at /\ v.plan = w.plan /\ v.body = w.body
  BY DEF RequestStates
<1>3. req'[r] = v
  BY <1>1 DEF TypeInv, TypeOK
<1>4. /\ client' = [client EXCEPT ![r] = client'[r]]
      /\ client'[r] \in [gone : BOOLEAN, status : Nat, got : Nat, ended : {"no", "whole", "cut"}]
  BY DEF Answer, TypeInv, TypeOK
<1> HIDE DEF v
<1>5. Locals(v)
  BY <1>2 DEF Locals, Early, Trying, Recording
<1> QED
  BY <1>1, <1>2, <1>3, <1>4, <1>5 DEF OneType

LEMMA RecordType ==
    ASSUME TypeInv, NEW r \in Requests, NEW w \in RequestStates, NEW outcome \in Outcomes,
           NEW status \in Nat, NEW then \in {"answer", "translate", "whole", "cut"},
           w.at <= Len(w.plan), w.at > 0, w.body \in BodyRecords,
           Record(r, w, outcome, status, then)
    PROVE  OneType(r)
<1>1. CASE w.recorded
  BY <1>1, AnswerType DEF Record
<1>2. CASE ~w.recorded
  <2> DEFINE row == [outcome |-> outcome, status |-> status, attempts |-> w.at]
             v == [w EXCEPT !.pc = "insert", !.recorded = TRUE, !.status = status,
                            !.then = then, !.row = row]
  <2>1. row \in LedgerRows
    BY DEF LedgerRows, RequestStates
  <2>2. req' = [req EXCEPT ![r] = v] /\ client' = client
    BY <1>2 DEF Record, Become
  <2>3. v \in RequestStates /\ v.pc = "insert" /\ v.row = row /\ v.at = w.at /\ v.plan = w.plan
        /\ v.body = w.body
    BY <2>1 DEF RequestStates
  <2>4. req'[r] = v
    BY <2>2 DEF TypeInv, TypeOK
  <2> HIDE DEF v, row
  <2>5. Locals(v)
    BY <2>1, <2>3 DEF Locals, Early, Trying, Recording
  <2> QED
    BY <2>2, <2>3, <2>4, <2>5 DEF OneType, TypeInv, TypeOK
<1> QED
  BY <1>1, <1>2 DEF RequestStates

LEMMA NextTargetType ==
    ASSUME TypeInv, NEW r \in Requests, NEW w \in RequestStates,
           w.at < Len(w.plan), w.at > 0, w.body \in BodyRecords, NextTarget(r, w)
    PROVE  OneType(r)
<1> DEFINE v == [w EXCEPT !.pc = "key", !.at = @ + 1, !.status = 0]
<1>1. req' = [req EXCEPT ![r] = v] /\ client' = client
  BY DEF NextTarget, Become
<1>2. w.at \in Nat /\ w.at + 1 \in Nat /\ Len(w.plan) \in Nat
  BY DEF RequestStates
<1>3. v \in RequestStates
  BY <1>2 DEF RequestStates
<1>4. /\ v.pc = "key" /\ v.at = w.at + 1 /\ v.plan = w.plan /\ v.body = w.body
      /\ req'[r] = v
  BY <1>1 DEF RequestStates, TypeInv, TypeOK
<1> HIDE DEF v
<1>5. Locals(v) /\ v.at <= Len(v.plan)
  BY <1>2, <1>4 DEF Locals, Early, Trying, Recording
<1> QED
  BY <1>1, <1>3, <1>4, <1>5 DEF OneType, TypeInv, TypeOK

LEMMA FinallyType ==
    ASSUME TypeInv, NEW r \in Requests, NEW w \in RequestStates, NEW outcome \in Outcomes,
           NEW then \in {"whole", "cut"},
           w.at <= Len(w.plan), w.at > 0, w.body \in BodyRecords, Finally(r, w, outcome, then)
    PROVE  OneType(r)
<1> DEFINE row == [outcome |-> outcome, status |-> w.status, attempts |-> w.at]
           v == [w EXCEPT !.pc = "close", !.then = then, !.row = row]
<1>1. row \in LedgerRows
  BY DEF LedgerRows, RequestStates
<1>2. req' = [req EXCEPT ![r] = v] /\ client' = client
  BY DEF Finally, Become
<1>3. v \in RequestStates /\ v.pc = "close" /\ v.row = row /\ v.at = w.at /\ v.plan = w.plan
      /\ v.body = w.body
  BY <1>1 DEF RequestStates
<1>4. req'[r] = v
  BY <1>2 DEF TypeInv, TypeOK
<1> HIDE DEF v, row
<1>5. Locals(v)
  BY <1>1, <1>3 DEF Locals, Early, Trying, Recording
<1> QED
  BY <1>2, <1>3, <1>4, <1>5 DEF OneType, TypeInv, TypeOK

LEMMA TransportErrorType ==
    ASSUME TypeInv, NEW r \in Requests, NEW w \in RequestStates, NEW status \in Nat,
           w.at <= Len(w.plan), w.at > 0, w.body \in BodyRecords, TransportError(r, w, status)
    PROVE  OneType(r)
<1>1. w.at \in Nat /\ Len(w.plan) \in Nat
  BY DEF RequestStates
<1>2. CASE Last(w)
  BY <1>2, RecordType DEF TransportError, Outcomes
<1>3. CASE ~Last(w)
  <2>1. w.at < Len(w.plan)
    BY <1>1, <1>3 DEF Last
  <2> QED
    BY <1>3, <2>1, NextTargetType DEF TransportError
<1> QED
  BY <1>2, <1>3

LEMMA ReturnType ==
    ASSUME TypeInv, NEW r \in Requests, NEW w \in RequestStates,
           w.at <= Len(w.plan), w.at > 0, w.body \in BodyRecords, Return(r, w)
    PROVE  OneType(r)
<1>1. CASE Answer(r, w, w.status)
  BY <1>1, AnswerType DEF RequestStates
<1>2. CASE ProxyError(r, [w EXCEPT !.broke = TRUE])
  <2> DEFINE u == [w EXCEPT !.broke = TRUE]
  <2>1. u \in RequestStates /\ u.at = w.at /\ u.plan = w.plan /\ u.body = w.body
    BY DEF RequestStates
  <2>2. Record(r, u, "proxy_error", 500, "answer")
    BY <1>2 DEF ProxyError
  <2> HIDE DEF u
  <2> QED
    BY <2>1, <2>2, RecordType DEF Outcomes
<1>3. CASE /\ w.then \in {"whole", "cut"}
           /\ Become(r, [w EXCEPT !.pc = "done"])
           /\ client' = [client EXCEPT ![r].ended = w.then]
  <2> DEFINE v == [w EXCEPT !.pc = "done"]
  <2>1. req' = [req EXCEPT ![r] = v]
    BY <1>3 DEF Become
  <2>2. v \in RequestStates /\ v.pc = "done" /\ v.at = w.at /\ v.plan = w.plan
        /\ v.body = w.body
    BY DEF RequestStates
  <2>3. req'[r] = v
    BY <2>1 DEF TypeInv, TypeOK
  <2>4. /\ client' = [client EXCEPT ![r] = client'[r]]
        /\ client'[r] \in [gone : BOOLEAN, status : Nat, got : Nat,
                            ended : {"no", "whole", "cut"}]
    BY <1>3 DEF TypeInv, TypeOK
  <2> HIDE DEF v
  <2>5. Locals(v)
    BY <2>2 DEF Locals, Early, Trying, Recording
  <2> QED
    BY <2>1, <2>2, <2>3, <2>4, <2>5 DEF OneType
<1> QED
  BY <1>1, <1>2, <1>3 DEF Return

\* A step of a request's own coroutine or client.
OwnStep(r) == Arrive(r) \/ Serve(r) \/ Take(r) \/ Cancel(r) \/ Disconnect(r)

LEMMA BecomeType ==
    ASSUME TypeInv, NEW r \in Requests, NEW v \in RequestStates, v.at <= Len(v.plan),
           Locals(v), Become(r, v), UNCHANGED client
    PROVE  OneType(r)
BY DEF OneType, Become, TypeInv, TypeOK

LEMMA Here ==
    ASSUME TypeInv, NEW r \in Requests
    PROVE  /\ req[r] \in RequestStates /\ Locals(req[r])
           /\ req[r].at \in Nat /\ Len(req[r].plan) \in Nat /\ req[r].at <= Len(req[r].plan)
           /\ req[r].pc # "idle" => req[r].body \in BodyRecords
           /\ req[r].pc \in Trying \cup Recording => req[r].at > 0
           /\ client[r] \in [gone : BOOLEAN, status : Nat, got : Nat,
                              ended : {"no", "whole", "cut"}]
<1>1. req[r] \in RequestStates /\ Locals(req[r]) /\ req[r].at \in 0 .. Len(req[r].plan)
  BY DEF TypeInv, TypeOK
<1>2. Len(req[r].plan) \in Nat
  BY <1>1 DEF RequestStates
<1> QED
  BY <1>1, <1>2 DEF Locals, TypeInv, TypeOK

LEMMA ArriveType ==
    ASSUME TypeInv, NEW r \in Requests, Arrive(r) PROVE OneType(r)
<1>1. PICK body \in Bodies[r], k \in Keys \cup {None} :
          LET w == [Idle EXCEPT !.body = body, !.key = k,
                                !.revoked = (k # None /\ keys[k] # None /\ ~IsActive(k))]
          IN  IF k = None
              THEN Answer(r, w, 401)
              ELSE Become(r, [w EXCEPT !.pc = "auth"]) /\ UNCHANGED client
  BY DEF Arrive
<1> DEFINE w == [Idle EXCEPT !.body = body, !.key = k,
                             !.revoked = (k # None /\ keys[k] # None /\ ~IsActive(k))]
           v == [w EXCEPT !.pc = "auth"]
<1>2. body \in BodyRecords
  BY ProxyAssumption DEF ProxyAssumption
<1>3. w \in RequestStates /\ w.at = 0 /\ w.plan = <<>> /\ w.body = body /\ w.key = k
  <2> DEFINE b == k # None /\ keys[k] # None /\ ~IsActive(k)
             x == [Idle EXCEPT !.body = body, !.key = k, !.revoked = b]
  <2>1. b \in BOOLEAN
    OBVIOUS
  <2> HIDE DEF b
  <2>2. /\ Idle \in RequestStates /\ Idle.at = 0 /\ Idle.plan = <<>>
    <3>1. MaxChunks \in Nat
      BY ProxyAssumption DEF ProxyAssumption
    <3>2. <<>> \in Seq(Nat)
      OBVIOUS
    <3> QED
      BY <3>1, <3>2 DEF Idle, RequestStates
  <2>3. x \in RequestStates
    BY <1>2, <2>1, <2>2 DEF RequestStates
  <2>4. x.at = 0 /\ x.plan = <<>> /\ x.body = body /\ x.key = k
    BY <2>2 DEF RequestStates
  <2> QED
    BY <2>3, <2>4 DEF b
<1>4. v \in RequestStates /\ v.at = 0 /\ v.plan = <<>> /\ v.body = body /\ v.key = k
      /\ v.pc = "auth"
  <2> HIDE DEF w
  <2> QED
    BY <1>3 DEF RequestStates
<1>5. CASE k = None
  <2>1. Answer(r, w, 401)
    BY <1>1, <1>5
  <2> HIDE DEF w
  <2> QED
    BY <1>2, <1>3, <2>1, AnswerType
<1>6. CASE k # None
  <2>1. Become(r, v) /\ UNCHANGED client
    BY <1>1, <1>6
  <2> HIDE DEF v, w
  <2>2. Locals(v)
    BY <1>2, <1>4, <1>6 DEF Locals, Early, Trying, Recording
  <2> QED
    BY <1>4, <2>1, <2>2, BecomeType
<1> QED
  BY <1>5, <1>6

LEMMA AuthenticateType ==
    ASSUME TypeInv, NEW r \in Requests, Authenticate(r) PROVE OneType(r)
<1> DEFINE w == req[r]
<1>1. w.pc = "auth" /\ w \in RequestStates /\ w.at = 0 /\ w.at <= Len(w.plan)
      /\ w.body \in BodyRecords /\ w.key \in Keys
  BY Here DEF Authenticate, Locals, Early
<1>2. CASE /\ IsActive(w.key)
           /\ Become(r, [w EXCEPT !.pc = "body", !.cred = keys[w.key].credential])
           /\ UNCHANGED client
  <2> DEFINE v == [w EXCEPT !.pc = "body", !.cred = keys[w.key].credential]
  <2>1. keys[w.key].credential \in CredentialNames
    <3>1. keys[w.key] \in KeyRows \cup {None} /\ keys[w.key] # None
      BY <1>1, <1>2 DEF IsActive, TypeInv, TypeOK
    <3> QED
      BY <3>1 DEF KeyRows
  <2>2. v \in RequestStates /\ v.at = 0 /\ v.plan = w.plan /\ v.body = w.body /\ v.pc = "body"
    BY <1>1, <2>1 DEF RequestStates
  <2>3. Become(r, v) /\ UNCHANGED client
    BY <1>2
  <2> HIDE DEF v
  <2>4. Locals(v)
    BY <1>1, <2>2 DEF Locals, Early, Trying, Recording
  <2> QED
    BY <1>1, <2>2, <2>3, <2>4, BecomeType
<1>3. CASE Answer(r, w, 401) \/ Answer(r, w, 500)
  <2> HIDE DEF w
  <2> QED
    BY <1>1, <1>3, AnswerType
<1> QED
  BY <1>2, <1>3 DEF Authenticate

LEMMA ReadBodyType ==
    ASSUME TypeInv, NEW r \in Requests, ReadBody(r) PROVE OneType(r)
<1> DEFINE w == req[r]
<1>1. w.pc = "body" /\ w \in RequestStates /\ w.at = 0 /\ w.at <= Len(w.plan)
      /\ w.body \in BodyRecords
  BY Here DEF ReadBody, Locals, Early
<1>2. CASE Become(r, [w EXCEPT !.pc = "done"]) /\ UNCHANGED client
  <2> DEFINE v == [w EXCEPT !.pc = "done"]
  <2>1. v \in RequestStates /\ v.at = 0 /\ v.plan = w.plan /\ v.body = w.body /\ v.pc = "done"
    BY <1>1 DEF RequestStates
  <2>2. Become(r, v) /\ UNCHANGED client
    BY <1>2
  <2> HIDE DEF v
  <2>3. Locals(v)
    BY <1>1, <2>1 DEF Locals, Early, Trying, Recording
  <2> QED
    BY <1>1, <2>1, <2>2, <2>3, BecomeType
<1>3. CASE w.body.route # None /\ Become(r, [w EXCEPT !.pc = "plan"]) /\ UNCHANGED client
  <2> DEFINE v == [w EXCEPT !.pc = "plan"]
  <2>1. v \in RequestStates /\ v.at = 0 /\ v.plan = w.plan /\ v.body = w.body /\ v.pc = "plan"
    BY <1>1 DEF RequestStates
  <2>2. Become(r, v) /\ UNCHANGED client
    BY <1>3
  <2>3. w.body.route \in RouteNames
    BY <1>1, <1>3 DEF BodyRecords
  <2> HIDE DEF v
  <2>4. Locals(v)
    BY <1>1, <2>1, <2>3 DEF Locals, Early, Trying, Recording
  <2> QED
    BY <1>1, <2>1, <2>2, <2>4, BecomeType
<1>4. CASE /\ Become(r, [w EXCEPT !.pc = "check", !.plan = <<0>>, !.at = 1])
           /\ UNCHANGED client
  <2> DEFINE v == [w EXCEPT !.pc = "check", !.plan = <<0>>, !.at = 1]
  <2>1. v \in RequestStates /\ v.at = 1 /\ v.plan = <<0>> /\ v.body = w.body /\ v.pc = "check"
    <3>1. <<0>> \in Seq(Nat)
      OBVIOUS
    <3> HIDE DEF w
    <3> QED
      BY <1>1, <3>1 DEF RequestStates
  <2>2. Become(r, v) /\ UNCHANGED client
    BY <1>4
  <2> HIDE DEF v
  <2>3. Locals(v) /\ v.at <= Len(v.plan)
    BY <1>1, <2>1 DEF Locals, Early, Trying, Recording
  <2> QED
    BY <2>1, <2>2, <2>3, BecomeType
<1>5. CASE Answer(r, w, 400)
  <2> HIDE DEF w
  <2> QED
    BY <1>1, <1>5, AnswerType
<1> QED
  BY <1>2, <1>3, <1>4, <1>5 DEF ReadBody

LEMMA PlanRouteType ==
    ASSUME TypeInv, NEW r \in Requests, PlanRoute(r) PROVE OneType(r)
<1> DEFINE w == req[r]
           route == RouteOf[w.body.route]
<1>1. w.pc = "plan" /\ w \in RequestStates /\ w.at = 0 /\ w.at <= Len(w.plan)
      /\ w.body \in BodyRecords /\ w.body.route \in RouteNames
  BY Here DEF PlanRoute, Locals, Early
<1>2. ASSUME NEW p \in Plans(route, credentials, w.body.api, w.body.translatable), p # <<>>,
             Become(r, [w EXCEPT !.pc = "check", !.known = credentials, !.plan = p, !.at = 1]),
             UNCHANGED client
      PROVE  OneType(r)
  <2> DEFINE v == [w EXCEPT !.pc = "check", !.known = credentials, !.plan = p, !.at = 1]
  <2>1. p \in Seq(Nat)
    BY <1>1, PlansType, RouteType
  <2>2. v \in RequestStates /\ v.at = 1 /\ v.plan = p /\ v.body = w.body /\ v.pc = "check"
    BY <1>1, <2>1 DEF RequestStates, TypeInv, TypeOK
  <2>3. Become(r, v) /\ UNCHANGED client
    BY <1>2
  <2>4. Len(p) >= 1
    BY <1>2, <2>1
  <2> HIDE DEF v
  <2>5. Locals(v) /\ v.at <= Len(v.plan)
    BY <1>1, <2>2, <2>4 DEF Locals, Early, Trying, Recording
  <2> QED
    BY <2>2, <2>3, <2>5, BecomeType
<1>3. CASE Answer(r, w, 400) \/ Answer(r, w, 500)
  <2> HIDE DEF w
  <2> QED
    BY <1>1, <1>3, AnswerType
<1> QED
  BY <1>2, <1>3 DEF PlanRoute

\* A request that has a target: its locals suit the lemmas above.
LEMMA Metered1 ==
    ASSUME TypeInv, NEW r \in Requests, req[r].pc \in Trying \cup Recording
    PROVE  /\ req[r] \in RequestStates /\ req[r].at > 0 /\ req[r].at <= Len(req[r].plan)
           /\ req[r].body \in BodyRecords /\ req[r].at \in Nat /\ Len(req[r].plan) \in Nat
           /\ req[r].status \in Nat /\ req[r].read \in 0 .. MaxChunks /\ req[r].owed \in Nat
BY Here DEF Trying, Recording, RequestStates

\* Some fields of a record of the handler may differ without an effect on its type.
LEMMA Varied ==
    ASSUME TypeInv, NEW r \in Requests, NEW v \in RequestStates,
           req[r].pc \in Trying \cup Recording, v.pc \in (Trying \cup Recording) \ {"close"},
           v.pc \in Recording => v.row \in LedgerRows,
           v.pc = "drop" => req[r].at < Len(req[r].plan),
           v.at = req[r].at, v.plan = req[r].plan, v.body = req[r].body,
           Become(r, v), UNCHANGED client
    PROVE  OneType(r)
<1>1. Locals(v) /\ v.at <= Len(v.plan)
  BY Metered1 DEF Locals, Early, Trying, Recording
<1> QED
  BY <1>1, BecomeType

LEMMA CheckBudgetsType ==
    ASSUME TypeInv, NEW r \in Requests, CheckBudgets(r) PROVE OneType(r)
<1> DEFINE w == req[r]
           v == [w EXCEPT !.pc = "key"]
<1>1. w.pc = "check"
  BY DEF CheckBudgets
<1>2. CASE Become(r, v) /\ UNCHANGED client
  <2>1. v \in RequestStates /\ v.at = w.at /\ v.plan = w.plan /\ v.body = w.body /\ v.pc = "key"
    <3>1. w \in RequestStates
      BY Here
    <3> HIDE DEF w
    <3> QED
      BY <3>1 DEF RequestStates
  <2> HIDE DEF v
  <2> QED
    BY <1>1, <1>2, <2>1, Varied DEF Trying, Recording
<1>3. CASE Record(r, w, "budget_exceeded", 429, "answer")
  BY <1>1, <1>3, Metered1, RecordType DEF Outcomes, Trying
<1> QED
  BY <1>2, <1>3 DEF CheckBudgets

LEMMA FetchKeyType ==
    ASSUME TypeInv, NEW r \in Requests, FetchKey(r) PROVE OneType(r)
<1> DEFINE w == req[r]
           v == [w EXCEPT !.pc = "connect"]
<1>1. w.pc = "key"
  BY DEF FetchKey
<1>2. CASE Become(r, v) /\ UNCHANGED client
  <2>1. v \in RequestStates /\ v.at = w.at /\ v.plan = w.plan /\ v.body = w.body
        /\ v.pc = "connect"
    <3>1. w \in RequestStates
      BY Here
    <3> HIDE DEF w
    <3> QED
      BY <3>1 DEF RequestStates
  <2> HIDE DEF v
  <2> QED
    BY <1>1, <1>2, <2>1, Varied DEF Trying, Recording
<1>3. CASE ProxyError(r, w)
  BY <1>1, <1>3, Metered1, RecordType DEF Outcomes, Trying, ProxyError
<1>4. CASE ~Last(w) /\ NextTarget(r, w)
  <2>1. w.at < Len(w.plan)
    BY <1>1, <1>4, Metered1 DEF Last, Trying
  <2> QED
    BY <1>1, <1>4, <2>1, Metered1, NextTargetType DEF Trying
<1> QED
  BY <1>2, <1>3, <1>4 DEF FetchKey

LEMMA ConnectType ==
    ASSUME TypeInv, NEW r \in Requests, Connect(r)
    PROVE  OneType(r) /\ conns' \subseteq Requests \X Nat
<1> DEFINE w == req[r]
           v == [w EXCEPT !.pc = "send"]
<1>1. w.pc = "connect" /\ Become(r, v) /\ UNCHANGED client
  BY DEF Connect
<1>2. v \in RequestStates /\ v.at = w.at /\ v.plan = w.plan /\ v.body = w.body /\ v.pc = "send"
  BY Here DEF RequestStates
<1>3. conns' \subseteq Requests \X Nat
  BY Here DEF Connect, TypeInv, TypeOK
<1> HIDE DEF v
<1> QED
  BY <1>1, <1>2, <1>3, Varied DEF Trying, Recording

LEMMA PoolTimeoutType ==
    ASSUME TypeInv, NEW r \in Requests, PoolTimeout(r) PROVE OneType(r)
BY Metered1, TransportErrorType DEF PoolTimeout, Trying

LEMMA SendFailsType ==
    ASSUME TypeInv, NEW r \in Requests, SendFails(r)
    PROVE  OneType(r) /\ conns' \subseteq Requests \X Nat
<1>1. PICK status \in {502, 504} : TransportError(r, req[r], status)
  BY DEF SendFails
<1>2. OneType(r)
  BY <1>1, Metered1, TransportErrorType DEF SendFails, Trying
<1> QED
  BY <1>2 DEF SendFails, TypeInv, TypeOK

LEMMA RespondType ==
    ASSUME TypeInv, NEW r \in Requests, Respond(r)
    PROVE  OneType(r) /\ calls' \subseteq Requests \X Nat \X Statuses
<1>1. PICK status \in Statuses :
        LET w == [req[r] EXCEPT !.status = status]
        IN  /\ w.pc = "send"
            /\ calls' = calls \cup {<<r, w.at, status>>}
            /\ \/ MovesOn(w) /\ Become(r, [w EXCEPT !.pc = "drop"]) /\ UNCHANGED client
               \/ /\ ~MovesOn(w) /\ ~Streams(w)
                  /\ Become(r, [w EXCEPT !.pc = "read"]) /\ UNCHANGED client
               \/ Streams(w) /\ TranslatorRaises(w) /\ ProxyError(r, [w EXCEPT !.broke = TRUE])
               \/ /\ Streams(w) /\ ~TranslatorRaises(w)
                  /\ Become(r, [w EXCEPT !.pc = "relay"])
                  /\ client' = [client EXCEPT ![r].status = status]
  BY DEF Respond
<1> DEFINE w == [req[r] EXCEPT !.status = status]
<1>2. status \in Nat
  BY StatusType
<1>3. /\ w \in RequestStates /\ w.at = req[r].at /\ w.plan = req[r].plan
      /\ w.body = req[r].body /\ w.pc = req[r].pc
  <2> DEFINE x == req[r]
             y == [x EXCEPT !.status = status]
  <2>1. x \in RequestStates
    BY Here
  <2>2. y \in RequestStates /\ y.at = x.at /\ y.plan = x.plan /\ y.body = x.body /\ y.pc = x.pc
    <3> HIDE DEF x
    <3> QED
      BY <1>2, <2>1 DEF RequestStates
  <2> QED
    BY <2>2
<1>4. /\ w.pc = "send" /\ calls' = calls \cup {<<r, w.at, status>>}
      /\ \/ ~Last(w) /\ Become(r, [w EXCEPT !.pc = "drop"]) /\ UNCHANGED client
         \/ Become(r, [w EXCEPT !.pc = "read"]) /\ UNCHANGED client
         \/ ProxyError(r, [w EXCEPT !.broke = TRUE])
         \/ /\ Become(r, [w EXCEPT !.pc = "relay"])
            /\ client' = [client EXCEPT ![r].status = status]
  BY <1>1 DEF MovesOn
<1> HIDE DEF w
<1>5. req[r].pc = "send" /\ w.at > 0 /\ w.at <= Len(w.plan) /\ w.body \in BodyRecords
      /\ w.at \in Nat
  BY <1>3, <1>4, Metered1 DEF Trying
<1>6. calls' \subseteq Requests \X Nat \X Statuses
  BY <1>4, <1>5 DEF TypeInv, TypeOK
<1>7. ASSUME NEW pc \in {"drop", "read"}, pc = "drop" => ~Last(w),
             Become(r, [w EXCEPT !.pc = pc]), UNCHANGED client
      PROVE  OneType(r)
  <2> DEFINE v == [w EXCEPT !.pc = pc]
  <2>1. v \in RequestStates /\ v.at = w.at /\ v.plan = w.plan /\ v.body = w.body /\ v.pc = pc
    BY <1>3 DEF RequestStates
  <2>2. Become(r, v)
    BY <1>7
  <2> HIDE DEF v
  <2> QED
    BY <1>3, <1>5, <1>7, <2>1, <2>2, Varied, Metered1 DEF Trying, Recording, Last
<1>8. CASE ProxyError(r, [w EXCEPT !.broke = TRUE])
  <2> DEFINE u == [w EXCEPT !.broke = TRUE]
  <2>1. u \in RequestStates /\ u.at = w.at /\ u.plan = w.plan /\ u.body = w.body
    BY <1>3 DEF RequestStates
  <2>2. Record(r, u, "proxy_error", 500, "answer")
    BY <1>8 DEF ProxyError
  <2> HIDE DEF u
  <2> QED
    BY <1>5, <1>6, <2>1, <2>2, RecordType DEF Outcomes
<1>9. CASE /\ Become(r, [w EXCEPT !.pc = "relay"])
           /\ client' = [client EXCEPT ![r].status = status]
  <2> DEFINE v == [w EXCEPT !.pc = "relay"]
  <2>1. v \in RequestStates /\ v.at = w.at /\ v.plan = w.plan /\ v.body = w.body
        /\ v.pc = "relay"
    BY <1>3 DEF RequestStates
  <2>2. req' = [req EXCEPT ![r] = v] /\ req'[r] = v
    BY <1>9 DEF Become, TypeInv, TypeOK
  <2> HIDE DEF v
  <2>3. Locals(v)
    BY <1>5, <2>1 DEF Locals, Early, Trying, Recording
  <2>4. /\ client' = [client EXCEPT ![r] = client'[r]]
        /\ client'[r] \in [gone : BOOLEAN, status : Nat, got : Nat,
                            ended : {"no", "whole", "cut"}]
    BY <1>2, <1>9 DEF TypeInv, TypeOK
  <2> QED
    BY <1>5, <1>6, <2>1, <2>2, <2>3, <2>4 DEF OneType
<1> QED
  BY <1>4, <1>6, <1>7, <1>8, <1>9

LEMMA DropType ==
    ASSUME TypeInv, NEW r \in Requests, Drop(r)
    PROVE  OneType(r) /\ conns' \subseteq Requests \X Nat
<1>1. OneType(r)
  BY Here, Metered1, NextTargetType DEF Drop, Trying, Locals
<1> QED
  BY <1>1 DEF Drop, TypeInv, TypeOK

LEMMA ReadAnswerType ==
    ASSUME TypeInv, NEW r \in Requests, ReadAnswer(r)
    PROVE  OneType(r) /\ conns' \subseteq Requests \X Nat
<1>1. PICK outcome \in Outcomes, status \in Nat, then \in {"answer", "translate"} :
         Record(r, req[r], outcome, status, then)
  <2>1. req[r].status \in Nat
    BY Metered1 DEF ReadAnswer, Trying
  <2> QED
    BY <2>1 DEF ReadAnswer, Outcomes
<1>2. OneType(r)
  BY <1>1, Metered1, RecordType DEF ReadAnswer, Trying
<1> QED
  BY <1>2 DEF ReadAnswer, TypeInv, TypeOK

LEMMA ChunkType ==
    ASSUME TypeInv, NEW r \in Requests, Chunk(r) PROVE OneType(r)
<1> DEFINE w == req[r]
<1>1. w.pc = "relay" /\ w.read < MaxChunks /\ w \in RequestStates
      /\ w.read \in 0 .. MaxChunks /\ w.owed \in Nat /\ MaxChunks \in Nat
  BY Here, Metered1, ProxyAssumption DEF Chunk, Trying, ProxyAssumption
<1>2. w.read + 1 \in 0 .. MaxChunks
  BY <1>1
<1>3. PICK err \in BOOLEAN :
        LET u == [w EXCEPT !.read = @ + 1, !.err = @ \/ err]
        IN  Become(r, u) \/ Become(r, [u EXCEPT !.pc = "yield", !.owed = @ + 1])
  BY DEF Chunk
<1> DEFINE u == [w EXCEPT !.read = @ + 1, !.err = @ \/ err]
           v == [u EXCEPT !.pc = "yield", !.owed = @ + 1]
<1>4. UNCHANGED client
  BY DEF Chunk
<1>5. u \in RequestStates /\ u.at = w.at /\ u.plan = w.plan /\ u.body = w.body /\ u.pc = w.pc
      /\ u.owed \in Nat
  <2> HIDE DEF w
  <2>1. u.owed = w.owed /\ u.at = w.at /\ u.plan = w.plan /\ u.body = w.body /\ u.pc = w.pc
    BY <1>1 DEF RequestStates
  <2>2. (w.err \/ err) \in BOOLEAN
    OBVIOUS
  <2>3. u \in RequestStates
    BY <1>1, <1>2, <2>2 DEF RequestStates
  <2> QED
    BY <1>1, <2>1, <2>3
<1>6. v \in RequestStates /\ v.at = w.at /\ v.plan = w.plan /\ v.body = w.body
      /\ v.pc = "yield"
  <2> HIDE DEF u
  <2>1. u.owed + 1 \in Nat
    BY <1>5
  <2>2. v \in RequestStates
    BY <1>5, <2>1 DEF RequestStates
  <2> QED
    BY <1>5, <2>2 DEF RequestStates
<1>7. Become(r, u) \/ Become(r, v)
  BY <1>3
<1> HIDE DEF u, v
<1>8. CASE Become(r, u)
  BY <1>1, <1>4, <1>5, <1>8, Varied DEF Trying, Recording
<1>9. CASE Become(r, v)
  BY <1>1, <1>4, <1>6, <1>9, Varied DEF Trying, Recording
<1> QED
  BY <1>7, <1>8, <1>9

LEMMA CompleteType ==
    ASSUME TypeInv, NEW r \in Requests, Complete(r) PROVE OneType(r)
<1> DEFINE w == req[r]
           v == [w EXCEPT !.pc = "tail", !.owed = @ + 1]
<1>1. w.pc = "relay" /\ w \in RequestStates /\ w.owed \in Nat
  BY Here, Metered1 DEF Complete, Trying
<1>2. CASE Become(r, v) /\ UNCHANGED client
  <2>1. v \in RequestStates /\ v.at = w.at /\ v.plan = w.plan /\ v.body = w.body
        /\ v.pc = "tail"
    <3> HIDE DEF w
    <3>1. w.owed + 1 \in Nat
      BY <1>1
    <3>2. v \in RequestStates
      BY <1>1, <3>1 DEF RequestStates
    <3> QED
      BY <1>1, <3>2 DEF RequestStates
  <2> HIDE DEF v
  <2> QED
    BY <1>1, <1>2, <2>1, Varied DEF Trying, Recording
<1>3. CASE Finally(r, w, StreamOutcome(w), "whole")
  BY <1>1, <1>3, Metered1, FinallyType DEF StreamOutcome, Outcomes, Trying
<1> QED
  BY <1>2, <1>3 DEF Complete

LEMMA TakeType ==
    ASSUME TypeInv, NEW r \in Requests, Take(r) PROVE OneType(r)
<1> DEFINE w == req[r]
           row == [outcome |-> StreamOutcome(w), status |-> w.status, attempts |-> w.at]
           u == [w EXCEPT !.pc = "relay"]
           v == [w EXCEPT !.pc = "close", !.then = "whole", !.row = row]
<1>1. w.pc \in {"yield", "tail"} /\ w \in RequestStates /\ w.at \in Nat /\ w.status \in Nat
      /\ w.at > 0 /\ w.at <= Len(w.plan) /\ w.body \in BodyRecords
  BY Here, Metered1 DEF Take, Trying
<1>2. row \in LedgerRows
  BY <1>1 DEF LedgerRows, StreamOutcome, Outcomes
<1>3. u \in RequestStates /\ u.at = w.at /\ u.plan = w.plan /\ u.body = w.body
      /\ u.pc = "relay"
  <2> HIDE DEF w
  <2> QED
    BY <1>1 DEF RequestStates
<1>4. v \in RequestStates /\ v.at = w.at /\ v.plan = w.plan /\ v.body = w.body
      /\ v.pc = "close" /\ v.row = row
  <2> HIDE DEF w, row
  <2> QED
    BY <1>1, <1>2 DEF RequestStates
<1>5. Become(r, u) \/ Become(r, v)
  BY DEF Take
<1>6. /\ client' = [client EXCEPT ![r] = client'[r]]
      /\ client'[r] \in [gone : BOOLEAN, status : Nat, got : Nat, ended : {"no", "whole", "cut"}]
  <2> DEFINE n == IF client[r].gone THEN client[r].got ELSE client[r].got + 1
  <2>1. client' = [client EXCEPT ![r].got = n]
    BY DEF Take
  <2>2. n \in Nat
    BY Here
  <2> HIDE DEF n
  <2> QED
    BY <2>1, <2>2 DEF TypeInv, TypeOK
<1> HIDE DEF u, v, row
<1>7. Locals(u) /\ Locals(v)
  BY <1>1, <1>2, <1>3, <1>4 DEF Locals, Early, Trying, Recording
<1>8. \/ req' = [req EXCEPT ![r] = u] /\ req'[r] = u
      \/ req' = [req EXCEPT ![r] = v] /\ req'[r] = v
  BY <1>5 DEF Become, TypeInv, TypeOK
<1> QED
  BY <1>1, <1>3, <1>4, <1>6, <1>7, <1>8 DEF OneType

LEMMA StopType ==
    ASSUME TypeInv, NEW r \in Requests, Interrupted(r) \/ Cancel(r) PROVE OneType(r)
<1>1. PICK outcome \in {"upstream_error", "client_disconnected"} :
         Finally(r, req[r], outcome, "cut")
  BY DEF Interrupted, Cancel
<1> QED
  BY <1>1, Metered1, FinallyType DEF Interrupted, Cancel, Trying, Outcomes

LEMMA BreaksType ==
    ASSUME TypeInv, NEW r \in Requests, Breaks(r) PROVE OneType(r)
<1> DEFINE w == req[r]
           u == [w EXCEPT !.broke = TRUE]
<1>1. /\ w \in RequestStates /\ w.at > 0 /\ w.at <= Len(w.plan) /\ w.body \in BodyRecords
      /\ Finally(r, u, "client_disconnected", "cut")
  <2>1. u.pc = w.pc
    BY Here DEF RequestStates
  <2> QED
    BY <2>1, Here, Metered1 DEF Breaks, Trying
<1>2. u \in RequestStates /\ u.at = w.at /\ u.plan = w.plan /\ u.body = w.body
  <2> HIDE DEF w
  <2> QED
    BY <1>1 DEF RequestStates
<1> HIDE DEF u
<1> QED
  BY <1>1, <1>2, FinallyType DEF Outcomes

LEMMA CloseType ==
    ASSUME TypeInv, NEW r \in Requests, Close(r)
    PROVE  OneType(r) /\ conns' \subseteq Requests \X Nat
<1> DEFINE w == req[r]
<1>1. w.pc = "close" /\ w \in RequestStates /\ w.row \in LedgerRows
  BY Here DEF Close, Locals
<1>2. w.row.outcome \in Outcomes /\ w.row.status \in Nat
      /\ w.then \in {"answer", "translate", "whole", "cut"}
  BY <1>1 DEF RequestStates, LedgerRows
<1>3. OneType(r)
  BY <1>1, <1>2, Metered1, RecordType DEF Close, Trying
<1> QED
  BY <1>3 DEF Close, TypeInv, TypeOK

LEMMA WriteRowType ==
    ASSUME TypeInv, NEW r \in Requests, WriteRow(r)
    PROVE  /\ OneType(r) /\ ledger' \in [Requests -> Seq(LedgerRows)]
<1> DEFINE w == req[r]
           v == [w EXCEPT !.pc = "count"]
<1>1. w.pc = "insert" /\ w \in RequestStates /\ w.row \in LedgerRows
  BY Here DEF WriteRow, Locals, Recording
<1>2. v \in RequestStates /\ v.at = w.at /\ v.plan = w.plan /\ v.body = w.body
      /\ v.pc = "count" /\ v.row = w.row
  <2> HIDE DEF w
  <2> QED
    BY <1>1 DEF RequestStates
<1>3. Become(r, v) /\ UNCHANGED client
  BY DEF WriteRow
<1>4. ledger' \in [Requests -> Seq(LedgerRows)]
  <2>1. Append(ledger[r], w.row) \in Seq(LedgerRows)
    BY <1>1 DEF TypeInv, TypeOK
  <2> QED
    BY <2>1 DEF WriteRow, TypeInv, TypeOK
<1> HIDE DEF v
<1> QED
  BY <1>1, <1>2, <1>3, <1>4, Varied DEF Trying, Recording

LEMMA WriteFailsType ==
    ASSUME TypeInv, NEW r \in Requests, WriteFails(r) PROVE OneType(r)
<1> DEFINE w == req[r]
           u == [w EXCEPT !.lost = TRUE]
<1>1. w \in RequestStates
  BY Here
<1>2. u \in RequestStates /\ u.at = w.at /\ u.plan = w.plan /\ u.body = w.body /\ u.pc = w.pc
  <2> HIDE DEF w
  <2> QED
    BY <1>1 DEF RequestStates
<1>3. u.pc = "insert" /\ Return(r, u)
  BY DEF WriteFails
<1> HIDE DEF u
<1> QED
  BY <1>2, <1>3, Metered1, ReturnType DEF Recording

LEMMA CountedType ==
    ASSUME TypeInv, NEW r \in Requests, Counted(r) PROVE OneType(r)
BY Metered1, Here, ReturnType DEF Counted, Recording

LEMMA DisconnectType ==
    ASSUME TypeInv, NEW r \in Requests, Disconnect(r) PROVE OneType(r)
<1>1. req' = req /\ client' = [client EXCEPT ![r].gone = TRUE]
  BY DEF Disconnect
<1>2. /\ client' = [client EXCEPT ![r] = client'[r]]
      /\ client'[r] \in [gone : BOOLEAN, status : Nat, got : Nat, ended : {"no", "whole", "cut"}]
  BY <1>1 DEF TypeInv, TypeOK
<1>3. req' = [req EXCEPT ![r] = req[r]] /\ req'[r] = req[r]
  BY <1>1 DEF TypeInv, TypeOK
<1> QED
  BY <1>1, <1>2, <1>3, Here DEF OneType

\* What the steps of a request leave alone: the tables of the admin API always, and what is
\* another request's.
LEMMA OwnStepType ==
    ASSUME TypeInv, NEW r \in Requests, OwnStep(r)
    PROVE  /\ OneType(r) /\ keys' = keys /\ credentials' = credentials
           /\ ledger' \in [Requests -> Seq(LedgerRows)]
           /\ conns' \subseteq Requests \X Nat
           /\ calls' \subseteq Requests \X Nat \X Statuses
<1> USE DEF TypeInv, TypeOK
<1>1. CASE Arrive(r)
  BY <1>1, ArriveType DEF Arrive
<1>2. CASE Authenticate(r)
  BY <1>2, AuthenticateType DEF Authenticate
<1>3. CASE ReadBody(r)
  BY <1>3, ReadBodyType DEF ReadBody
<1>4. CASE PlanRoute(r)
  BY <1>4, PlanRouteType DEF PlanRoute
<1>5. CASE CheckBudgets(r)
  BY <1>5, CheckBudgetsType DEF CheckBudgets
<1>6. CASE FetchKey(r)
  BY <1>6, FetchKeyType DEF FetchKey
<1>7. CASE Connect(r)
  BY <1>7, ConnectType DEF Connect
<1>8. CASE PoolTimeout(r)
  BY <1>8, PoolTimeoutType DEF PoolTimeout
<1>9. CASE SendFails(r)
  BY <1>9, SendFailsType DEF SendFails
<1>10. CASE Respond(r)
  BY <1>10, RespondType DEF Respond
<1>11. CASE Drop(r)
  BY <1>11, DropType DEF Drop
<1>12. CASE ReadAnswer(r)
  BY <1>12, ReadAnswerType DEF ReadAnswer
<1>13. CASE Chunk(r)
  BY <1>13, ChunkType DEF Chunk
<1>14. CASE Complete(r)
  BY <1>14, CompleteType DEF Complete
<1>15. CASE Take(r)
  BY <1>15, TakeType DEF Take
<1>16. CASE Interrupted(r) \/ Cancel(r)
  BY <1>16, StopType DEF Interrupted, Cancel
<1>17. CASE Breaks(r)
  BY <1>17, BreaksType DEF Breaks
<1>18. CASE Close(r)
  BY <1>18, CloseType DEF Close
<1>19. CASE WriteRow(r)
  BY <1>19, WriteRowType DEF WriteRow
<1>20. CASE WriteFails(r)
  BY <1>20, WriteFailsType DEF WriteFails
<1>21. CASE Counted(r)
  BY <1>21, CountedType DEF Counted
<1>22. CASE Disconnect(r)
  BY <1>22, DisconnectType DEF Disconnect
<1> QED
  BY <1>1, <1>2, <1>3, <1>4, <1>5, <1>6, <1>7, <1>8, <1>9, <1>10, <1>11, <1>12, <1>13, <1>14,
     <1>15, <1>16, <1>17, <1>18, <1>19, <1>20, <1>21, <1>22 DEF OwnStep, Serve

LEMMA TypeInit == Init => TypeInv
<1> SUFFICES ASSUME Init PROVE TypeInv
  OBVIOUS
<1>1. Idle \in RequestStates /\ Idle.at = 0 /\ Idle.plan = <<>> /\ Idle.pc = "idle"
  <2>1. MaxChunks \in Nat
    BY ProxyAssumption DEF ProxyAssumption
  <2>2. <<>> \in Seq(Nat)
    OBVIOUS
  <2> QED
    BY <2>1, <2>2 DEF Idle, RequestStates
<1>2. TypeOK
  BY <1>1, ProxyAssumption DEF Init, TypeOK, NewClient, ProxyAssumption
<1>3. Locals(Idle)
  BY <1>1 DEF Locals, Early, Trying, Recording
<1> QED
  BY <1>2, <1>3 DEF TypeInv, Init

LEMMA TypeStep == ASSUME TypeInv, [Next]_vars PROVE TypeInv'
<1>1. CASE UNCHANGED vars
  BY <1>1 DEF vars, TypeInv, TypeOK
<1>2. ASSUME NEW r \in Requests, OwnStep(r) PROVE TypeInv'
  <2>1. /\ OneType(r) /\ keys' = keys /\ credentials' = credentials
        /\ ledger' \in [Requests -> Seq(LedgerRows)]
        /\ conns' \subseteq Requests \X Nat
        /\ calls' \subseteq Requests \X Nat \X Statuses
    BY <1>2, OwnStepType
  <2>2. /\ req' \in [Requests -> RequestStates]
        /\ client' \in [Requests -> [gone : BOOLEAN, status : Nat, got : Nat,
                                     ended : {"no", "whole", "cut"}]]
        /\ \A q \in Requests : q # r => req'[q] = req[q]
    BY <2>1, Zenon DEF OneType, TypeInv, TypeOK
  <2>3. ASSUME NEW q \in Requests PROVE req'[q].at \in 0 .. Len(req'[q].plan) /\ Locals(req'[q])
    <3>1. CASE q = r
      <4>1. req'[r].at \in Nat /\ Len(req'[r].plan) \in Nat
        BY <2>1 DEF OneType, RequestStates
      <4> QED
        BY <3>1, <2>1, <4>1 DEF OneType
    <3>2. CASE q # r
      BY <3>2, <2>2 DEF TypeInv, TypeOK
    <3> QED
      BY <3>1, <3>2
  <2> QED
    BY <2>1, <2>2, <2>3 DEF TypeInv, TypeOK
<1>3. CASE Admin
  <2>1. UNCHANGED <<ledger, req, client, conns, calls>>
    BY <1>3 DEF Admin, CreateCredential, CreateKey, RevokeKey
  <2>2. keys' \in [Keys -> KeyRows \cup {None}]
    <3>1. ASSUME NEW k \in Keys, RevokeKey(k) PROVE keys' \in [Keys -> KeyRows \cup {None}]
      <4>1. keys[k] \in KeyRows
        BY <3>1 DEF RevokeKey, IsActive, TypeInv, TypeOK
      <4>2. [keys[k] EXCEPT !.active = FALSE] \in KeyRows
        BY <4>1 DEF KeyRows
      <4> QED
        BY <3>1, <4>2 DEF RevokeKey, TypeInv, TypeOK
    <3>2. ASSUME NEW k \in Keys, NEW c \in CredentialNames, CreateKey(k, c)
          PROVE  keys' \in [Keys -> KeyRows \cup {None}]
      BY <3>2 DEF CreateKey, KeyRows, TypeInv, TypeOK
    <3>3. ASSUME NEW c \in CredentialNames, CreateCredential(c)
          PROVE  keys' \in [Keys -> KeyRows \cup {None}]
      BY <3>3 DEF CreateCredential, TypeInv, TypeOK
    <3> QED
      BY <1>3, <3>1, <3>2, <3>3 DEF Admin
  <2>3. credentials' \subseteq CredentialNames
    BY <1>3 DEF Admin, CreateCredential, CreateKey, RevokeKey, TypeInv, TypeOK
  <2> QED
    BY <2>1, <2>2, <2>3 DEF TypeInv, TypeOK
<1>4. CASE Restart
  <2>1. UNCHANGED <<keys, credentials, ledger, calls>> /\ conns' = {}
    BY <1>4 DEF Restart
  <2>2. ASSUME NEW q \in Requests
        PROVE  /\ req'[q] \in RequestStates /\ req'[q].at \in 0 .. Len(req'[q].plan)
               /\ Locals(req'[q])
               /\ client'[q] \in [gone : BOOLEAN, status : Nat, got : Nat,
                                   ended : {"no", "whole", "cut"}]
    <3> DEFINE w == req[q]
               v == [w EXCEPT !.pc = "killed"]
    <3>1. w \in RequestStates /\ Locals(w) /\ w.at \in 0 .. Len(w.plan)
      BY DEF TypeInv, TypeOK
    <3>2. v \in RequestStates /\ v.pc = "killed" /\ v.at = w.at /\ v.plan = w.plan
          /\ v.body = w.body
      <4> HIDE DEF w
      <4> QED
        BY <3>1 DEF RequestStates
    <3>3. req'[q] = w \/ (w.pc # "idle" /\ req'[q] = v)
      BY <1>4, Zenon DEF Restart
    <3>4. client'[q] \in [gone : BOOLEAN, status : Nat, got : Nat, ended : {"no", "whole", "cut"}]
      BY <1>4 DEF Restart, TypeInv, TypeOK
    <3> HIDE DEF v, w
    <3>5. w.pc # "idle" => Locals(v)
      BY <3>1, <3>2 DEF Locals, Early, Trying, Recording
    <3> QED
      BY <3>1, <3>2, <3>3, <3>4, <3>5
  <2>3. /\ req' \in [Requests -> RequestStates]
        /\ client' \in [Requests -> [gone : BOOLEAN, status : Nat, got : Nat,
                                     ended : {"no", "whole", "cut"}]]
    BY <1>4, <2>2 DEF Restart
  <2> QED
    BY <2>1, <2>2, <2>3 DEF TypeInv, TypeOK
<1> QED
  BY <1>1, <1>2, <1>3, <1>4 DEF Next, OwnStep

\* Tables, coroutines, clients, connections and calls keep their types, whatever fails.
THEOREM Typed == Spec => []TypeOK
<1>1. Spec => []TypeInv
  BY TypeInit, TypeStep, PTL DEF Spec
<1>2. TypeInv => TypeOK
  BY DEF TypeInv
<1> QED
  BY <1>1, <1>2, PTL

-----------------------------------------------------------------------------
(* What the helpers of a step do to a request, field by field. *)

Kept(v, w) ==
    /\ v.body = w.body /\ v.key = w.key /\ v.revoked = w.revoked
    /\ v.known = w.known /\ v.plan = w.plan
    /\ v.owed = w.owed /\ v.err = w.err

\* v is w at another await, for a client that has seen nothing new.
Moves(r, v, w, pc) ==
    /\ v.pc = pc /\ Kept(v, w) /\ v.at = w.at /\ v.status = w.status
    /\ v.recorded = w.recorded /\ v.row = w.row /\ v.broke = w.broke /\ v.lost = w.lost
    /\ client'[r] = client[r]

Answers(r, v, w, status) ==
    /\ v.pc = "done" /\ Kept(v, w) /\ v.at = w.at
    /\ v.recorded = w.recorded /\ v.row = w.row /\ v.broke = w.broke /\ v.lost = w.lost
    /\ client'[r].status = status /\ client'[r].ended = "whole"
    /\ client'[r].gone = client[r].gone /\ client'[r].got = client[r].got

Records(r, v, w, outcome, status, then) ==
    /\ v.pc = "insert" /\ Kept(v, w) /\ v.at = w.at
    /\ v.recorded /\ v.status = status /\ v.then = then
    /\ v.row.outcome = outcome /\ v.row.status = status /\ v.row.attempts = w.at
    /\ v.broke = w.broke /\ v.lost = w.lost
    /\ client'[r] = client[r]

Advances(r, v, w) ==
    /\ v.pc = "key" /\ Kept(v, w) /\ v.at = w.at + 1
    /\ v.recorded = w.recorded /\ v.broke = w.broke /\ v.lost = w.lost /\ v.row = w.row
    /\ client'[r] = client[r]

Closes(r, v, w, outcome, then) ==
    /\ v.pc = "close" /\ Kept(v, w) /\ v.at = w.at /\ v.status = w.status /\ v.then = then
    /\ v.row.outcome = outcome /\ v.row.status = w.status /\ v.row.attempts = w.at
    /\ v.recorded = w.recorded /\ v.lost = w.lost

LEMMA MovesEffect ==
    ASSUME TypeInv, NEW r \in Requests, NEW w \in RequestStates, NEW pc,
           Become(r, [w EXCEPT !.pc = pc]), UNCHANGED client
    PROVE  Moves(r, req'[r], w, pc) /\ req'[r].then = w.then
BY DEF Become, Moves, Kept, TypeInv, TypeOK, RequestStates

LEMMA AnswerEffect ==
    ASSUME TypeInv, NEW r \in Requests, NEW w \in RequestStates, NEW status,
           Answer(r, w, status)
    PROVE  Answers(r, req'[r], w, status)
BY DEF Answer, Become, Answers, Kept, TypeInv, TypeOK, RequestStates

LEMMA RecordEffect ==
    ASSUME TypeInv, NEW r \in Requests, NEW w \in RequestStates, NEW outcome, NEW status,
           NEW then, ~w.recorded, Record(r, w, outcome, status, then)
    PROVE  Records(r, req'[r], w, outcome, status, then)
<1> DEFINE row == [outcome |-> outcome, status |-> status, attempts |-> w.at]
           v == [w EXCEPT !.pc = "insert", !.recorded = TRUE, !.status = status,
                          !.then = then, !.row = row]
<1>1. req' = [req EXCEPT ![r] = v] /\ client' = client
  BY DEF Record, Become
<1>2. req'[r] = v
  BY <1>1 DEF TypeInv, TypeOK
<1>3. /\ v.pc = "insert" /\ Kept(v, w) /\ v.at = w.at /\ v.recorded /\ v.status = status
      /\ v.then = then /\ v.row = row /\ v.broke = w.broke /\ v.lost = w.lost
  BY DEF Kept, RequestStates
<1>4. row.outcome = outcome /\ row.status = status /\ row.attempts = w.at
  OBVIOUS
<1> HIDE DEF row, v
<1> QED
  BY <1>1, <1>2, <1>3, <1>4 DEF Records

LEMMA AdvanceEffect ==
    ASSUME TypeInv, NEW r \in Requests, NEW w \in RequestStates, NextTarget(r, w)
    PROVE  Advances(r, req'[r], w)
BY DEF NextTarget, Become, Advances, Kept, TypeInv, TypeOK, RequestStates

LEMMA FinallyEffect ==
    ASSUME TypeInv, NEW r \in Requests, NEW w \in RequestStates, NEW outcome, NEW then,
           Finally(r, w, outcome, then)
    PROVE  /\ Closes(r, req'[r], w, outcome, then) /\ req'[r].broke = w.broke
           /\ client'[r] = client[r]
BY DEF Finally, Become, Closes, Kept, TypeInv, TypeOK, RequestStates

\* The return of record to its caller, whose flag is set.
LEMMA ReturnEffect ==
    ASSUME TypeInv, NEW r \in Requests, NEW w \in RequestStates, w.recorded, Return(r, w)
    PROVE  LET v == req'[r] IN
           \/ w.then \in {"answer", "translate"} /\ Answers(r, v, w, w.status)
           \/ /\ w.then = "translate" /\ v.pc = "done" /\ Kept(v, w) /\ v.at = w.at /\ v.broke
              /\ v.recorded /\ v.row = w.row /\ v.lost = w.lost
              /\ client'[r].ended = "whole" /\ client'[r].gone = client[r].gone
              /\ client'[r].got = client[r].got
           \/ /\ w.then \in {"whole", "cut"} /\ v.pc = "done" /\ Kept(v, w) /\ v.at = w.at
              /\ v.recorded /\ v.row = w.row /\ v.broke = w.broke /\ v.lost = w.lost
              /\ client'[r].ended = w.then /\ client'[r].gone = client[r].gone
              /\ client'[r].got = client[r].got /\ client'[r].status = client[r].status
<1>1. CASE w.then \in {"answer", "translate"} /\ Answer(r, w, w.status)
  BY <1>1, AnswerEffect
<1>2. CASE w.then = "translate" /\ ProxyError(r, [w EXCEPT !.broke = TRUE])
  <2> DEFINE u == [w EXCEPT !.broke = TRUE]
  <2>1. u \in RequestStates /\ Kept(u, w) /\ u.at = w.at /\ u.recorded /\ u.row = w.row
        /\ u.lost = w.lost /\ u.broke
    BY DEF RequestStates, Kept
  <2>2. Answer(r, u, 500)
    BY <1>2, <2>1 DEF ProxyError, Record
  <2> HIDE DEF u
  <2>3. Answers(r, req'[r], u, 500)
    BY <2>1, <2>2, AnswerEffect
  <2> QED
    BY <1>2, <2>1, <2>3 DEF Answers, Kept
<1>3. CASE /\ w.then \in {"whole", "cut"}
           /\ Become(r, [w EXCEPT !.pc = "done"])
           /\ client' = [client EXCEPT ![r].ended = w.then]
  BY <1>3 DEF Become, Kept, TypeInv, TypeOK, RequestStates
<1> QED
  BY <1>1, <1>2, <1>3 DEF Return

-----------------------------------------------------------------------------
(* The row of a request. *)

RowInv(r) ==
    LET w == req[r]
    IN  /\ w.pc \in Early \cup Trying => ~w.recorded /\ ledger[r] = <<>>
        /\ w.pc = "insert" => w.recorded /\ ledger[r] = <<>>
        /\ w.pc = "count" => w.recorded /\ ledger[r] = <<w.row>>
        /\ w.pc \in Ended => ledger[r] \in {<<>>, <<w.row>>}
        /\ w.pc = "done" /\ w.at > 0 /\ ~w.lost => ledger[r] = <<w.row>>
        /\ w.at = 0 => ledger[r] = <<>>
        /\ w.pc \in {"close"} \cup Recording \/ ledger[r] # <<>> => w.row.attempts = w.at

(* The steps of a request, sorted by what they do to it. *)

Tables == <<ledger, conns, calls>>

\* The connection of the attempt is given back.
Released(r) == conns' = conns \ {<<r, req[r].at>>}

Arrives(r) ==
    LET w == req[r] v == req'[r]
    IN  /\ w.pc = "idle" /\ UNCHANGED Tables
        /\ v.at = 0 /\ ~v.recorded /\ ~v.broke /\ v.owed = 0 /\ ~v.err
        /\ v.revoked => v.key \in Keys /\ keys[v.key] # None /\ ~keys[v.key].active
        /\ \/ v.pc = "auth" /\ client'[r] = client[r]
           \/ v.pc = "done" /\ ~v.revoked

\* A routed request has a plan that was made for it.
Planned(w) ==
    w.body.route # None =>
        w.plan \in Plans(RouteOf[w.body.route], w.known, w.body.api, w.body.translatable)

Prepares(r) ==
    LET w == req[r] v == req'[r]
    IN  /\ w.pc \in {"auth", "body", "plan"} /\ UNCHANGED Tables
        /\ v.key = w.key /\ v.revoked = w.revoked /\ v.recorded = w.recorded
        /\ v.broke = w.broke /\ v.owed = w.owed /\ v.err = w.err
        /\ w.pc = "auth" /\ v.pc # "done" => IsActive(w.key)
        /\ \/ v.pc \in {"body", "plan"} /\ v.at = 0 /\ client'[r] = client[r]
           \/ /\ v.pc = "check" /\ v.at = 1 /\ w.pc # "auth" /\ Planned(v)
              /\ client'[r] = client[r]
           \/ v.pc = "done" /\ v.at = 0

Proceeds(r) ==
    /\ UNCHANGED Tables
    /\ \/ req[r].pc = "check" /\ Moves(r, req'[r], req[r], "key")
       \/ req[r].pc = "key" /\ Moves(r, req'[r], req[r], "connect")

Connects(r) ==
    /\ req[r].pc = "connect" /\ Moves(r, req'[r], req[r], "send")
    /\ conns' = conns \cup {<<r, req[r].at>>} /\ UNCHANGED <<ledger, calls>>

Responds(r) ==
    \E s \in Statuses :
        LET w == req[r] v == req'[r]
        IN  /\ w.pc = "send" /\ calls' = calls \cup {<<r, w.at, s>>} /\ UNCHANGED <<ledger, conns>>
            /\ Kept(v, w) /\ v.at = w.at /\ v.status = s
            /\ v.recorded = w.recorded /\ v.broke = w.broke /\ v.lost = w.lost /\ v.row = w.row
            /\ \/ v.pc = "drop" /\ Retryable(s) /\ ~IsSuccess(s) /\ client'[r] = client[r]
               \/ /\ v.pc = "read" /\ (IsSuccess(s) \/ Last(w) \/ ~Retryable(s))
                  /\ client'[r] = client[r]
               \/ /\ v.pc = "relay" /\ IsSuccess(s) /\ client'[r].status = s
                  /\ client'[r].gone = client[r].gone /\ client'[r].got = client[r].got
                  /\ client'[r].ended = client[r].ended

RespondsInVain(r) ==
    \E s \in Statuses :
        LET w == req[r] v == req'[r]
        IN  /\ w.pc = "send" /\ calls' = calls \cup {<<r, w.at, s>>} /\ UNCHANGED <<ledger, conns>>
            /\ IsSuccess(s) /\ v.pc = "insert" /\ Kept(v, w) /\ v.at = w.at /\ v.recorded
            /\ v.status = 500 /\ v.then = "answer" /\ v.broke /\ v.lost = w.lost
            /\ v.row.outcome = "proxy_error" /\ v.row.status = 500 /\ v.row.attempts = w.at
            /\ client'[r] = client[r]

Relays(r) ==
    LET w == req[r] v == req'[r]
    IN  /\ UNCHANGED Tables
        /\ v.body = w.body /\ v.key = w.key /\ v.revoked = w.revoked
        /\ v.known = w.known /\ v.plan = w.plan
        /\ v.at = w.at /\ v.status = w.status /\ v.row = w.row
        /\ v.recorded = w.recorded /\ v.broke = w.broke /\ v.lost = w.lost
        /\ \/ /\ w.pc = "relay" /\ v.pc = "relay" /\ v.owed = w.owed
              /\ client'[r] = client[r]
           \/ /\ w.pc = "relay" /\ v.pc \in {"yield", "tail"} /\ v.owed = w.owed + 1
              /\ client'[r] = client[r]
           \/ /\ w.pc = "yield" /\ v.pc = "relay" /\ v.owed = w.owed
              /\ client'[r].gone = client[r].gone /\ client'[r].status = client[r].status
              /\ client'[r].ended = client[r].ended
              /\ client[r].gone \/ client'[r].got = client[r].got + 1

FailsOver(r) ==
    LET w == req[r]
    IN  /\ w.pc \in {"key", "connect", "send", "drop"} /\ ~Last(w) /\ Advances(r, req'[r], w)
        /\ IF w.pc \in {"send", "drop"} THEN Released(r) ELSE UNCHANGED conns
        /\ UNCHANGED <<ledger, calls>>

RecordsRow(r) ==
    \E o \in Outcomes, s \in Nat, t \in {"answer", "translate", "whole", "cut"} :
        LET w == req[r]
        IN  /\ Records(r, req'[r], w, o, s, t) /\ UNCHANGED <<ledger, calls>>
            /\ IF w.pc \in {"check", "key", "connect"} THEN UNCHANGED conns ELSE Released(r)
            /\ \/ w.pc = "check" /\ o = "budget_exceeded" /\ t = "answer"
               \/ w.pc = "key" /\ o = "proxy_error" /\ t = "answer"
               \/ /\ w.pc \in {"connect", "send"} /\ Last(w)
                  /\ o = "upstream_unreachable" /\ s \in {502, 504} /\ t = "answer"
               \/ w.pc = "read" /\ o = "upstream_unreachable" /\ s = 502 /\ t = "answer"
               \/ /\ w.pc = "read" /\ IsSuccess(w.status) /\ o = "success" /\ s = w.status
                  /\ t = "translate"
               \/ /\ w.pc = "read" /\ ~IsSuccess(w.status) /\ o = "upstream_error" /\ s = w.status
                  /\ t = "answer"
               \/ w.pc = "close" /\ o = w.row.outcome /\ s = w.row.status /\ t = w.then

EndsRelay(r) ==
    LET w == req[r] v == req'[r]
    IN  /\ UNCHANGED Tables
        /\ \/ /\ w.pc = "relay" /\ Closes(r, v, w, StreamOutcome(w), "whole")
              /\ v.broke = w.broke /\ client'[r] = client[r]
           \/ /\ w.pc = "tail" /\ Closes(r, v, w, StreamOutcome(w), "whole")
              /\ v.broke = w.broke
              /\ client'[r].gone = client[r].gone /\ client'[r].status = client[r].status
              /\ client'[r].ended = client[r].ended
              /\ client[r].gone \/ client'[r].got = client[r].got + 1
           \/ /\ w.pc = "relay" /\ Closes(r, v, w, "upstream_error", "cut")
              /\ v.broke = w.broke /\ client'[r] = client[r]
           \/ /\ w.pc \in {"relay", "yield", "tail"}
              /\ Closes(r, v, w, "client_disconnected", "cut")
              /\ v.broke \/ client[r].gone
              /\ client'[r] = client[r]

Writes(r) ==
    /\ req[r].pc = "insert" /\ Moves(r, req'[r], req[r], "count") /\ req'[r].then = req[r].then
    /\ ledger' = [ledger EXCEPT ![r] = Append(@, req[r].row)] /\ UNCHANGED <<conns, calls>>

Returns(r) ==
    LET w == req[r] v == req'[r]
    IN  /\ w.pc \in Recording /\ UNCHANGED Tables
        /\ v.pc = "done" /\ Kept(v, w) /\ v.at = w.at /\ v.recorded /\ v.row = w.row
        /\ w.pc = "insert" => v.lost
        /\ client'[r].gone = client[r].gone /\ client'[r].got = client[r].got
        /\ \/ /\ w.then \in {"answer", "translate"} /\ v.broke = w.broke
              /\ client'[r].status = w.status /\ client'[r].ended = "whole"
           \/ /\ w.then = "translate" /\ v.broke /\ client'[r].ended = "whole"
           \/ /\ w.then \in {"whole", "cut"} /\ v.broke = w.broke
              /\ client'[r].status = client[r].status /\ client'[r].ended = w.then

Leaves(r) ==
    /\ req[r].pc \notin {"idle"} \cup Ended /\ req' = req /\ UNCHANGED Tables
    /\ client'[r].gone /\ client'[r].got = client[r].got
    /\ client'[r].status = client[r].status /\ client'[r].ended = client[r].ended

Effect(r) ==
    \/ Arrives(r) \/ Prepares(r) \/ Proceeds(r) \/ Connects(r) \/ Responds(r)
    \/ RespondsInVain(r) \/ Relays(r) \/ FailsOver(r) \/ RecordsRow(r) \/ EndsRelay(r)
    \/ Writes(r) \/ Returns(r) \/ Leaves(r)

LEMMA ArriveEffect ==
    ASSUME TypeInv, NEW r \in Requests, Arrive(r) PROVE Arrives(r)
<1>1. PICK body \in Bodies[r], k \in Keys \cup {None} :
          LET w == [Idle EXCEPT !.body = body, !.key = k,
                                !.revoked = (k # None /\ keys[k] # None /\ ~IsActive(k))]
          IN  IF k = None
              THEN Answer(r, w, 401)
              ELSE Become(r, [w EXCEPT !.pc = "auth"]) /\ UNCHANGED client
  BY DEF Arrive
<1> DEFINE b == k # None /\ keys[k] # None /\ ~IsActive(k)
           w == [Idle EXCEPT !.body = body, !.key = k, !.revoked = b]
           v == [w EXCEPT !.pc = "auth"]
<1>2. /\ w.at = 0 /\ ~w.recorded /\ ~w.broke /\ w.owed = 0 /\ ~w.err /\ w.key = k
      /\ w.revoked = b
  BY DEF Idle
<1>3. /\ v.at = 0 /\ ~v.recorded /\ ~v.broke /\ v.owed = 0 /\ ~v.err /\ v.key = k
      /\ v.revoked = b /\ v.pc = "auth"
  BY DEF Idle
<1>4. CASE k = None
  <2>1. Answer(r, w, 401) /\ ~b
    BY <1>1, <1>4
  <2> DEFINE x == [w EXCEPT !.pc = "done"]
  <2>2. /\ x.at = 0 /\ ~x.recorded /\ ~x.broke /\ x.owed = 0 /\ ~x.err /\ ~x.revoked
        /\ x.pc = "done"
    BY <2>1 DEF Idle
  <2>3. req'[r] = x
    BY <2>1 DEF Answer, Become, TypeInv, TypeOK
  <2> HIDE DEF x, w, b
  <2> QED
    BY <2>2, <2>3 DEF Arrives, Arrive, Tables
<1>5. CASE k # None
  <2>1. Become(r, v) /\ UNCHANGED client
    BY <1>1, <1>5
  <2>2. req'[r] = v /\ client'[r] = client[r]
    BY <2>1 DEF Become, TypeInv, TypeOK
  <2>3. b => k \in Keys /\ keys[k] # None /\ ~keys[k].active
    BY <1>5 DEF IsActive
  <2> HIDE DEF v, w, b
  <2> QED
    BY <1>3, <2>2, <2>3 DEF Arrives, Arrive, Tables
<1> QED
  BY <1>4, <1>5

LEMMA PrepareEffect ==
    ASSUME TypeInv, NEW r \in Requests, Authenticate(r) \/ ReadBody(r) \/ PlanRoute(r)
    PROVE  Prepares(r)
<1> DEFINE w == req[r]
<1>1. w.pc \in {"auth", "body", "plan"} /\ w \in RequestStates /\ w.at = 0 /\ UNCHANGED Tables
  BY Here DEF Authenticate, ReadBody, PlanRoute, Locals, Early, Tables
<1>2. ASSUME NEW pc \in {"plan", "done"}, w.pc = "body",
             Become(r, [w EXCEPT !.pc = pc]), UNCHANGED client
      PROVE  Prepares(r)
  <2>1. Moves(r, req'[r], w, pc)
    BY <1>1, <1>2, MovesEffect
  <2> QED
    BY <1>1, <1>2, <2>1 DEF Prepares, Moves, Kept
<1>3. ASSUME NEW s, Answer(r, w, s) PROVE Prepares(r)
  <2>1. Answers(r, req'[r], w, s)
    BY <1>1, <1>3, AnswerEffect
  <2> QED
    BY <1>1, <2>1 DEF Prepares, Answers, Kept
<1>4. ASSUME w.pc = "auth", IsActive(w.key), UNCHANGED client,
             Become(r, [w EXCEPT !.pc = "body", !.cred = keys[w.key].credential])
      PROVE  Prepares(r)
  <2> DEFINE v == [w EXCEPT !.pc = "body", !.cred = keys[w.key].credential]
  <2>1. req'[r] = v
    BY <1>4 DEF Become, TypeInv, TypeOK
  <2>2. /\ v.pc = "body" /\ v.at = w.at /\ v.key = w.key /\ v.revoked = w.revoked
        /\ v.recorded = w.recorded /\ v.broke = w.broke /\ v.owed = w.owed /\ v.err = w.err
    BY <1>1 DEF RequestStates
  <2> HIDE DEF v
  <2> QED
    BY <1>1, <1>4, <2>1, <2>2 DEF Prepares
<1>5. ASSUME w.pc \in {"body", "plan"}, UNCHANGED client, NEW known, NEW p,
             \/ /\ Become(r, [w EXCEPT !.pc = "check", !.known = known, !.plan = p, !.at = 1])
                /\ p \in Plans(RouteOf[w.body.route], known, w.body.api, w.body.translatable)
             \/ /\ Become(r, [w EXCEPT !.pc = "check", !.plan = p, !.at = 1])
                /\ w.body.route = None
      PROVE  Prepares(r)
  <2> DEFINE u == [w EXCEPT !.pc = "check", !.known = known, !.plan = p, !.at = 1]
             v == [w EXCEPT !.pc = "check", !.plan = p, !.at = 1]
  <2>1. /\ v.pc = "check" /\ v.at = 1 /\ v.key = w.key /\ v.revoked = w.revoked
        /\ v.recorded = w.recorded /\ v.broke = w.broke /\ v.owed = w.owed /\ v.err = w.err
        /\ v.body = w.body
    BY <1>1 DEF RequestStates
  <2>2. /\ u.pc = "check" /\ u.at = 1 /\ u.key = w.key /\ u.revoked = w.revoked
        /\ u.recorded = w.recorded /\ u.broke = w.broke /\ u.owed = w.owed /\ u.err = w.err
        /\ u.body = w.body /\ u.known = known /\ u.plan = p
    BY <1>1 DEF RequestStates
  <2> HIDE DEF u, v
  <2>3. \/ req'[r] = u /\ Planned(u)
        \/ req'[r] = v /\ Planned(v)
    BY <1>5, <2>1, <2>2 DEF Become, TypeInv, TypeOK, Planned, u, v
  <2> QED
    BY <1>1, <1>5, <2>1, <2>2, <2>3 DEF Prepares
<1>6. CASE Authenticate(r)
  BY <1>3, <1>4, <1>6 DEF Authenticate
<1>7. CASE ReadBody(r)
  BY <1>2, <1>3, <1>5, <1>7 DEF ReadBody
<1>8. CASE PlanRoute(r)
  BY <1>3, <1>5, <1>8 DEF PlanRoute
<1> QED
  BY <1>6, <1>7, <1>8

\* The flag of a request that has not recorded is clear.
LEMMA Unrecorded ==
    ASSUME TypeInv, NEW r \in Requests, RowInv(r), req[r].pc \in Trying
    PROVE  ~req[r].recorded /\ req[r] \in RequestStates /\ req[r].status \in Nat
BY Here DEF RowInv, RequestStates

LEMMA CheckBudgetsEffect ==
    ASSUME TypeInv, NEW r \in Requests, RowInv(r), CheckBudgets(r)
    PROVE  Proceeds(r) \/ RecordsRow(r)
<1> DEFINE w == req[r]
<1>1. w.pc = "check" /\ ~w.recorded /\ w \in RequestStates /\ UNCHANGED <<ledger, conns, calls>>
  BY Unrecorded DEF CheckBudgets, Trying
<1>2. CASE Become(r, [w EXCEPT !.pc = "key"]) /\ UNCHANGED client
  BY <1>1, <1>2, MovesEffect DEF Proceeds, Tables
<1>3. CASE Record(r, w, "budget_exceeded", 429, "answer")
  <2>1. Records(r, req'[r], w, "budget_exceeded", 429, "answer")
    BY <1>1, <1>3, RecordEffect
  <2> QED
    BY <1>1, <2>1 DEF RecordsRow, Outcomes
<1> QED
  BY <1>2, <1>3 DEF CheckBudgets

LEMMA FetchKeyEffect ==
    ASSUME TypeInv, NEW r \in Requests, RowInv(r), FetchKey(r)
    PROVE  Proceeds(r) \/ RecordsRow(r) \/ FailsOver(r)
<1> DEFINE w == req[r]
<1>1. w.pc = "key" /\ ~w.recorded /\ w \in RequestStates /\ UNCHANGED <<ledger, conns, calls>>
  BY Unrecorded DEF FetchKey, Trying
<1>2. CASE Become(r, [w EXCEPT !.pc = "connect"]) /\ UNCHANGED client
  BY <1>1, <1>2, MovesEffect DEF Proceeds, Tables
<1>3. CASE ProxyError(r, w)
  <2>1. Records(r, req'[r], w, "proxy_error", 500, "answer")
    BY <1>1, <1>3, RecordEffect DEF ProxyError
  <2> QED
    BY <1>1, <2>1 DEF RecordsRow, Outcomes
<1>4. CASE ~Last(w) /\ NextTarget(r, w)
  <2>1. Advances(r, req'[r], w)
    BY <1>1, <1>4, AdvanceEffect
  <2> QED
    BY <1>1, <1>4, <2>1 DEF FailsOver
<1> QED
  BY <1>2, <1>3, <1>4 DEF FetchKey

LEMMA TransportErrorEffect ==
    ASSUME TypeInv, NEW r \in Requests, RowInv(r), NEW s \in {502, 504},
           req[r].pc \in {"connect", "send"}, TransportError(r, req[r], s),
           UNCHANGED <<ledger, calls>>,
           IF req[r].pc = "connect" THEN UNCHANGED conns ELSE Released(r)
    PROVE  RecordsRow(r) \/ FailsOver(r)
<1> DEFINE w == req[r]
<1>1. ~w.recorded /\ w \in RequestStates
  BY Unrecorded DEF Trying
<1>2. CASE Last(w)
  <2>1. Records(r, req'[r], w, "upstream_unreachable", s, "answer")
    BY <1>1, <1>2, RecordEffect DEF TransportError
  <2>2. s \in Nat
    OBVIOUS
  <2> QED
    BY <1>2, <2>1, <2>2 DEF RecordsRow, Outcomes
<1>3. CASE ~Last(w)
  <2>1. Advances(r, req'[r], w)
    BY <1>1, <1>3, AdvanceEffect DEF TransportError
  <2> QED
    BY <1>3, <2>1 DEF FailsOver
<1> QED
  BY <1>2, <1>3

LEMMA SendEffect ==
    ASSUME TypeInv, NEW r \in Requests, RowInv(r),
           Connect(r) \/ PoolTimeout(r) \/ SendFails(r) \/ Drop(r)
    PROVE  Connects(r) \/ RecordsRow(r) \/ FailsOver(r)
<1> DEFINE w == req[r]
<1>1. CASE Connect(r)
  <2>1. w \in RequestStates
    BY Here
  <2>2. Moves(r, req'[r], w, "send")
    BY <1>1, <2>1, MovesEffect DEF Connect
  <2> QED
    BY <1>1, <2>2 DEF Connect, Connects
<1>2. CASE PoolTimeout(r)
  BY <1>2, TransportErrorEffect DEF PoolTimeout
<1>3. CASE SendFails(r)
  <2>1. PICK s \in {502, 504} : TransportError(r, w, s)
    BY <1>3 DEF SendFails
  <2> QED
    BY <1>3, <2>1, TransportErrorEffect DEF SendFails, Released
<1>4. CASE Drop(r)
  <2>1. w \in RequestStates /\ ~Last(w)
    BY <1>4, Here DEF Drop, Locals, Last
  <2>2. Advances(r, req'[r], w)
    BY <1>4, <2>1, AdvanceEffect DEF Drop
  <2> QED
    BY <1>4, <2>1, <2>2 DEF Drop, FailsOver, Released
<1> QED
  BY <1>1, <1>2, <1>3, <1>4

LEMMA RespondEffect ==
    ASSUME TypeInv, NEW r \in Requests, RowInv(r), Respond(r)
    PROVE  Responds(r) \/ RespondsInVain(r)
<1>1. PICK s \in Statuses :
        LET w == [req[r] EXCEPT !.status = s]
        IN  /\ w.pc = "send"
            /\ calls' = calls \cup {<<r, w.at, s>>}
            /\ \/ MovesOn(w) /\ Become(r, [w EXCEPT !.pc = "drop"]) /\ UNCHANGED client
               \/ /\ ~MovesOn(w) /\ ~Streams(w)
                  /\ Become(r, [w EXCEPT !.pc = "read"]) /\ UNCHANGED client
               \/ Streams(w) /\ TranslatorRaises(w) /\ ProxyError(r, [w EXCEPT !.broke = TRUE])
               \/ /\ Streams(w) /\ ~TranslatorRaises(w)
                  /\ Become(r, [w EXCEPT !.pc = "relay"])
                  /\ client' = [client EXCEPT ![r].status = s]
            /\ UNCHANGED <<keys, credentials, ledger, conns>>
  BY DEF Respond
<1> DEFINE x == req[r]
           w == [x EXCEPT !.status = s]
<1>2. x \in RequestStates /\ s \in Nat
  BY Here, StatusType
<1>3. /\ w \in RequestStates /\ Kept(w, x) /\ w.at = x.at /\ w.pc = x.pc /\ w.status = s
      /\ w.recorded = x.recorded /\ w.broke = x.broke /\ w.lost = x.lost /\ w.row = x.row
      /\ w.plan = x.plan
  <2> HIDE DEF x
  <2> QED
    BY <1>2 DEF RequestStates, Kept
<1>4. /\ w.pc = "send" /\ calls' = calls \cup {<<r, w.at, s>>} /\ UNCHANGED <<ledger, conns>>
      /\ \/ MovesOn(w) /\ Become(r, [w EXCEPT !.pc = "drop"]) /\ UNCHANGED client
         \/ ~MovesOn(w) /\ Become(r, [w EXCEPT !.pc = "read"]) /\ UNCHANGED client
         \/ Streams(w) /\ ProxyError(r, [w EXCEPT !.broke = TRUE])
         \/ /\ Streams(w) /\ Become(r, [w EXCEPT !.pc = "relay"])
            /\ client' = [client EXCEPT ![r].status = s]
  BY <1>1
<1> HIDE DEF w
<1>5. ~w.recorded
  BY <1>3, <1>4, Unrecorded DEF Trying
<1>6. CASE MovesOn(w) /\ Become(r, [w EXCEPT !.pc = "drop"]) /\ UNCHANGED client
  <2>1. Moves(r, req'[r], w, "drop")
    BY <1>3, <1>6, MovesEffect
  <2> QED
    BY <1>3, <1>4, <1>6, <2>1 DEF Responds, Moves, Kept, MovesOn
<1>7. CASE ~MovesOn(w) /\ Become(r, [w EXCEPT !.pc = "read"]) /\ UNCHANGED client
  <2>1. Moves(r, req'[r], w, "read")
    BY <1>3, <1>7, MovesEffect
  <2>2. IsSuccess(s) \/ Last(x) \/ ~Retryable(s)
    BY <1>3, <1>7 DEF MovesOn, Last
  <2> QED
    BY <1>3, <1>4, <1>7, <2>1, <2>2 DEF Responds, Moves, Kept
<1>8. CASE Streams(w) /\ ProxyError(r, [w EXCEPT !.broke = TRUE])
  <2> DEFINE u == [w EXCEPT !.broke = TRUE]
  <2>1. u \in RequestStates /\ Kept(u, w) /\ u.at = w.at /\ ~u.recorded /\ u.broke
        /\ u.lost = w.lost
    BY <1>3, <1>5 DEF RequestStates, Kept
  <2>2. Record(r, u, "proxy_error", 500, "answer")
    BY <1>8 DEF ProxyError
  <2> HIDE DEF u
  <2>3. Records(r, req'[r], u, "proxy_error", 500, "answer")
    BY <2>1, <2>2, RecordEffect
  <2>4. IsSuccess(s)
    BY <1>3, <1>8 DEF Streams
  <2> QED
    BY <1>3, <1>4, <2>1, <2>3, <2>4 DEF RespondsInVain, Records, Kept
<1>9. CASE /\ Streams(w) /\ Become(r, [w EXCEPT !.pc = "relay"])
           /\ client' = [client EXCEPT ![r].status = s]
  <2> DEFINE v == [w EXCEPT !.pc = "relay"]
  <2>1. req'[r] = v
    BY <1>9 DEF Become, TypeInv, TypeOK
  <2>2. /\ v.pc = "relay" /\ Kept(v, w) /\ v.at = w.at /\ v.status = s
        /\ v.recorded = w.recorded /\ v.broke = w.broke /\ v.lost = w.lost /\ v.row = w.row
    BY <1>3 DEF RequestStates, Kept
  <2>3. /\ client'[r].status = s /\ client'[r].gone = client[r].gone
        /\ client'[r].got = client[r].got /\ client'[r].ended = client[r].ended
    BY <1>9 DEF TypeInv, TypeOK
  <2>4. IsSuccess(s)
    BY <1>3, <1>9 DEF Streams
  <2> HIDE DEF v
  <2> QED
    BY <1>3, <1>4, <2>1, <2>2, <2>3, <2>4 DEF Responds, Kept
<1> QED
  BY <1>4, <1>6, <1>7, <1>8, <1>9

LEMMA ReadAnswerEffect ==
    ASSUME TypeInv, NEW r \in Requests, RowInv(r), ReadAnswer(r) PROVE RecordsRow(r)
<1> DEFINE w == req[r]
<1>1. w.pc = "read" /\ ~w.recorded /\ w \in RequestStates /\ w.status \in Nat
      /\ UNCHANGED <<ledger, calls>> /\ Released(r)
  BY Unrecorded DEF ReadAnswer, Trying, Released
<1>2. CASE IsSuccess(w.status) /\ Record(r, w, "success", w.status, "translate")
  <2>1. Records(r, req'[r], w, "success", w.status, "translate")
    BY <1>1, <1>2, RecordEffect
  <2> QED
    BY <1>1, <1>2, <2>1 DEF RecordsRow, Outcomes
<1>3. CASE ~IsSuccess(w.status) /\ Record(r, w, "upstream_error", w.status, "answer")
  <2>1. Records(r, req'[r], w, "upstream_error", w.status, "answer")
    BY <1>1, <1>3, RecordEffect
  <2> QED
    BY <1>1, <1>3, <2>1 DEF RecordsRow, Outcomes
<1>4. CASE Record(r, w, "upstream_unreachable", 502, "answer")
  <2>1. Records(r, req'[r], w, "upstream_unreachable", 502, "answer")
    BY <1>1, <1>4, RecordEffect
  <2> QED
    BY <1>1, <2>1 DEF RecordsRow, Outcomes
<1> QED
  BY <1>2, <1>3, <1>4 DEF ReadAnswer

LEMMA ChunkEffect ==
    ASSUME TypeInv, NEW r \in Requests, Chunk(r) PROVE Relays(r)
<1> DEFINE w == req[r]
<1>1. PICK err \in BOOLEAN :
          LET u == [w EXCEPT !.read = @ + 1, !.err = @ \/ err]
          IN  Become(r, u) \/ Become(r, [u EXCEPT !.pc = "yield", !.owed = @ + 1])
  BY DEF Chunk
<1> DEFINE u == [w EXCEPT !.read = @ + 1, !.err = @ \/ err]
           v == [u EXCEPT !.pc = "yield", !.owed = @ + 1]
<1>2. w \in RequestStates /\ w.pc = "relay" /\ UNCHANGED Tables /\ client' = client
  BY Here DEF Chunk, Tables
<1>3. req'[r] = u \/ req'[r] = v
  BY <1>1 DEF Become, TypeInv, TypeOK
<1>4. /\ u.pc = "relay" /\ u.body = w.body /\ u.key = w.key /\ u.revoked = w.revoked
      /\ u.plan = w.plan /\ u.at = w.at /\ u.status = w.status /\ u.row = w.row
      /\ u.known = w.known
      /\ u.recorded = w.recorded /\ u.broke = w.broke /\ u.lost = w.lost /\ u.owed = w.owed
  BY <1>2 DEF RequestStates
<1>5. /\ v.pc = "yield" /\ v.body = w.body /\ v.key = w.key /\ v.revoked = w.revoked
      /\ v.known = w.known /\ v.plan = w.plan /\ v.at = w.at
        /\ v.status = w.status /\ v.row = w.row
      /\ v.recorded = w.recorded /\ v.broke = w.broke /\ v.lost = w.lost /\ v.owed = w.owed + 1
  BY <1>2 DEF RequestStates
<1> HIDE DEF u, v
<1> QED
  BY <1>2, <1>3, <1>4, <1>5 DEF Relays

LEMMA CompleteEffect ==
    ASSUME TypeInv, NEW r \in Requests, Complete(r) PROVE Relays(r) \/ EndsRelay(r)
<1> DEFINE w == req[r]
<1>1. w \in RequestStates /\ w.pc = "relay" /\ UNCHANGED Tables
  BY Here DEF Complete, Tables
<1>2. CASE Become(r, [w EXCEPT !.pc = "tail", !.owed = @ + 1]) /\ UNCHANGED client
  <2> DEFINE v == [w EXCEPT !.pc = "tail", !.owed = @ + 1]
  <2>1. req'[r] = v
    BY <1>2 DEF Become, TypeInv, TypeOK
  <2>2. /\ v.pc = "tail" /\ v.body = w.body /\ v.key = w.key /\ v.revoked = w.revoked
        /\ v.known = w.known /\ v.plan = w.plan /\ v.at = w.at
        /\ v.status = w.status /\ v.row = w.row
        /\ v.recorded = w.recorded /\ v.broke = w.broke /\ v.lost = w.lost
        /\ v.owed = w.owed + 1
    BY <1>1 DEF RequestStates
  <2> HIDE DEF v
  <2> QED
    BY <1>1, <1>2, <2>1, <2>2 DEF Relays
<1>3. CASE Finally(r, w, StreamOutcome(w), "whole")
  BY <1>1, <1>3, FinallyEffect DEF EndsRelay
<1> QED
  BY <1>2, <1>3 DEF Complete

LEMMA TakeEffect ==
    ASSUME TypeInv, NEW r \in Requests, Take(r) PROVE Relays(r) \/ EndsRelay(r)
<1> DEFINE w == req[r]
<1>1. /\ w \in RequestStates /\ w.pc \in {"yield", "tail"} /\ UNCHANGED Tables
      /\ client'[r].gone = client[r].gone /\ client'[r].status = client[r].status
      /\ client'[r].ended = client[r].ended
      /\ client[r].gone \/ client'[r].got = client[r].got + 1
  BY Here DEF Take, Tables, TypeInv, TypeOK
<1>2. CASE w.pc = "yield"
  <2> DEFINE v == [w EXCEPT !.pc = "relay"]
  <2>1. req'[r] = v
    BY <1>2 DEF Take, Become, TypeInv, TypeOK
  <2>2. /\ v.pc = "relay" /\ v.body = w.body /\ v.key = w.key /\ v.revoked = w.revoked
        /\ v.known = w.known /\ v.plan = w.plan /\ v.at = w.at
        /\ v.status = w.status /\ v.row = w.row
        /\ v.recorded = w.recorded /\ v.broke = w.broke /\ v.lost = w.lost /\ v.owed = w.owed
    BY <1>1 DEF RequestStates
  <2> HIDE DEF v
  <2> QED
    BY <1>1, <1>2, <2>1, <2>2 DEF Relays
<1>3. CASE w.pc = "tail"
  <2> DEFINE row == [outcome |-> StreamOutcome(w), status |-> w.status, attempts |-> w.at]
             v == [w EXCEPT !.pc = "close", !.then = "whole", !.row = row]
  <2>1. req'[r] = v
    BY <1>3 DEF Take, Become, TypeInv, TypeOK
  <2>2. /\ v.pc = "close" /\ Kept(v, w) /\ v.at = w.at /\ v.status = w.status
        /\ v.then = "whole" /\ v.row = row /\ v.recorded = w.recorded /\ v.lost = w.lost
        /\ v.broke = w.broke
    BY <1>1 DEF RequestStates, Kept
  <2>3. row.outcome = StreamOutcome(w) /\ row.status = w.status /\ row.attempts = w.at
    OBVIOUS
  <2> HIDE DEF v, row
  <2> QED
    BY <1>1, <1>3, <2>1, <2>2, <2>3 DEF EndsRelay, Closes
<1> QED
  BY <1>1, <1>2, <1>3

LEMMA CutEffect ==
    ASSUME TypeInv, NEW r \in Requests, Interrupted(r) \/ Breaks(r) \/ Cancel(r)
    PROVE  EndsRelay(r)
<1> DEFINE x == req[r]
<1>1. x \in RequestStates /\ x.pc \in {"relay", "yield", "tail"} /\ UNCHANGED Tables
  <2>1. x \in RequestStates
    BY Here
  <2>2. CASE Breaks(r)
    BY <2>1, <2>2 DEF Breaks, Tables, RequestStates
  <2> QED
    BY <2>1, <2>2 DEF Interrupted, Cancel, Tables
<1>2. CASE Interrupted(r)
  BY <1>1, <1>2, FinallyEffect DEF Interrupted, EndsRelay
<1>3. CASE Breaks(r)
  <2> DEFINE w == [x EXCEPT !.broke = TRUE]
  <2>1. /\ w \in RequestStates /\ Kept(w, x) /\ w.at = x.at /\ w.pc = x.pc /\ w.status = x.status
        /\ w.recorded = x.recorded /\ w.lost = x.lost /\ w.broke
    BY <1>1 DEF RequestStates, Kept
  <2>2. Finally(r, w, "client_disconnected", "cut")
    BY <1>3 DEF Breaks
  <2> HIDE DEF w
  <2>3. /\ Closes(r, req'[r], w, "client_disconnected", "cut") /\ req'[r].broke
        /\ client'[r] = client[r]
    BY <2>1, <2>2, FinallyEffect
  <2>4. Closes(r, req'[r], x, "client_disconnected", "cut")
    BY <2>1, <2>3 DEF Closes, Kept
  <2> QED
    BY <1>1, <2>3, <2>4 DEF EndsRelay
<1>4. CASE Cancel(r)
  BY <1>1, <1>4, FinallyEffect DEF Cancel, EndsRelay
<1> QED
  BY <1>2, <1>3, <1>4

LEMMA CloseEffect ==
    ASSUME TypeInv, NEW r \in Requests, RowInv(r), Close(r) PROVE RecordsRow(r)
<1> DEFINE w == req[r]
<1>1. w.pc = "close" /\ ~w.recorded /\ w \in RequestStates /\ UNCHANGED <<ledger, calls>>
      /\ Released(r)
  BY Unrecorded DEF Close, Trying, Released
<1>2. w.row.outcome \in Outcomes /\ w.row.status \in Nat
  BY <1>1, Here DEF Locals, LedgerRows
<1>3. w.then \in {"answer", "translate", "whole", "cut"}
  BY <1>1 DEF RequestStates
<1>4. Records(r, req'[r], w, w.row.outcome, w.row.status, w.then)
  BY <1>1, RecordEffect DEF Close
<1> QED
  BY <1>1, <1>2, <1>3, <1>4 DEF RecordsRow

LEMMA WriteEffect ==
    ASSUME TypeInv, NEW r \in Requests, RowInv(r), WriteRow(r) \/ WriteFails(r) \/ Counted(r)
    PROVE  Writes(r) \/ Returns(r)
<1> DEFINE x == req[r]
<1>1. x \in RequestStates
  BY Here
<1>2. CASE WriteRow(r)
  BY <1>1, <1>2, MovesEffect DEF WriteRow, Writes
<1>3. CASE WriteFails(r)
  <2> DEFINE w == [x EXCEPT !.lost = TRUE]
  <2>1. /\ w \in RequestStates /\ Kept(w, x) /\ w.at = x.at /\ w.pc = x.pc /\ w.status = x.status
        /\ w.recorded = x.recorded /\ w.lost /\ w.broke = x.broke /\ w.row = x.row
        /\ w.then = x.then
    BY <1>1 DEF RequestStates, Kept
  <2>2. w.pc = "insert" /\ Return(r, w) /\ UNCHANGED <<ledger, conns, calls>>
    BY <1>3 DEF WriteFails
  <2> HIDE DEF w
  <2>3. w.recorded
    BY <2>1, <2>2 DEF RowInv
  <2> QED
    BY <2>1, <2>2, <2>3, ReturnEffect DEF Returns, Answers, Kept, Tables, Recording
<1>4. CASE Counted(r)
  <2>1. x.pc = "count" /\ Return(r, x) /\ UNCHANGED <<ledger, conns, calls>> /\ x.recorded
    BY <1>4 DEF Counted, RowInv
  <2> QED
    BY <1>1, <2>1, ReturnEffect DEF Returns, Answers, Kept, Tables, Recording
<1> QED
  BY <1>2, <1>3, <1>4

\* Every step of a request has one of the effects.
LEMMA OwnEffect ==
    ASSUME TypeInv, NEW r \in Requests, RowInv(r), OwnStep(r) PROVE Effect(r)
<1>1. CASE Disconnect(r)
  BY <1>1 DEF Disconnect, Leaves, Tables, Ended, Effect, TypeInv, TypeOK
<1>2. CASE Arrive(r)
  BY <1>2, ArriveEffect DEF Effect
<1>3. CASE Take(r) \/ Cancel(r)
  BY <1>3, TakeEffect, CutEffect DEF Effect
<1>4. CASE Serve(r)
  BY <1>4, PrepareEffect, CheckBudgetsEffect, FetchKeyEffect, SendEffect, RespondEffect,
     ReadAnswerEffect, ChunkEffect, CompleteEffect, CutEffect, CloseEffect, WriteEffect
     DEF Effect, Serve
<1> QED
  BY <1>1, <1>2, <1>3, <1>4 DEF OwnStep

-----------------------------------------------------------------------------
(* What the others do to a request. *)

\* A step that is not the request's own, nor a restart, leaves all of it alone.
Untouched(q) ==
    /\ req'[q] = req[q] /\ client'[q] = client[q] /\ ledger'[q] = ledger[q]
    /\ \A n \in Nat : <<q, n>> \in conns' <=> <<q, n>> \in conns
    /\ \A n \in Nat, s \in Statuses : <<q, n, s>> \in calls' <=> <<q, n, s>> \in calls

LEMMA OthersUntouched ==
    ASSUME TypeInv, NEW r \in Requests, NEW q \in Requests, q # r, OneType(r), Effect(r)
    PROVE  Untouched(q)
<1>1. req'[q] = req[q] /\ client'[q] = client[q]
  BY DEF OneType, TypeInv, TypeOK
<1>2. ledger'[q] = ledger[q]
  BY DEF Effect, Arrives, Prepares, Proceeds, Connects, Responds, RespondsInVain, Relays,
         FailsOver, RecordsRow, EndsRelay, Writes, Returns, Leaves, Tables, TypeInv, TypeOK
<1>3. conns' \in {conns, conns \cup {<<r, req[r].at>>}, conns \ {<<r, req[r].at>>}}
  BY DEF Effect, Arrives, Prepares, Proceeds, Connects, Responds, RespondsInVain, Relays,
         FailsOver, RecordsRow, EndsRelay, Writes, Returns, Leaves, Tables, Released
<1>4. calls' = calls \/ \E s \in Statuses : calls' = calls \cup {<<r, req[r].at, s>>}
  BY DEF Effect, Arrives, Prepares, Proceeds, Connects, Responds, RespondsInVain, Relays,
         FailsOver, RecordsRow, EndsRelay, Writes, Returns, Leaves, Tables
<1> QED
  BY <1>1, <1>2, <1>3, <1>4 DEF Untouched

LEMMA AdminUntouched ==
    ASSUME NEW q \in Requests, Admin \/ UNCHANGED vars PROVE Untouched(q)
BY DEF Admin, CreateCredential, CreateKey, RevokeKey, vars, Untouched

Restarts(q) ==
    /\ \/ req[q].pc \in {"idle"} \cup Ended /\ req'[q] = req[q] /\ client'[q] = client[q]
       \/ /\ req[q].pc \notin {"idle"} \cup Ended
          /\ req'[q].pc = "killed" /\ Kept(req'[q], req[q]) /\ req'[q].at = req[q].at
          /\ req'[q].recorded = req[q].recorded /\ req'[q].row = req[q].row
          /\ req'[q].broke = req[q].broke /\ req'[q].status = req[q].status
          /\ client'[q].gone = client[q].gone /\ client'[q].got = client[q].got
          /\ client'[q].status = client[q].status
    /\ conns' = {} /\ UNCHANGED <<ledger, calls>>

LEMMA RestartEffect ==
    ASSUME TypeInv, NEW q \in Requests, Restart PROVE Restarts(q)
<1>1. conns' = {} /\ UNCHANGED <<ledger, calls>>
  BY DEF Restart
<1>2. CASE req[q].pc \in {"idle"} \cup Ended
  BY <1>1, <1>2 DEF Restart, Restarts, Ended
<1>3. CASE req[q].pc \notin {"idle"} \cup Ended
  <2> DEFINE v == [req[q] EXCEPT !.pc = "killed"]
             c == [client[q] EXCEPT !.ended = "cut"]
  <2>1. req'[q] = v /\ client'[q] = c
    BY <1>3, Zenon DEF Restart, Ended
  <2>2. req[q] \in RequestStates /\ client[q].gone \in BOOLEAN
    BY Here
  <2>3. /\ v.pc = "killed" /\ Kept(v, req[q]) /\ v.at = req[q].at /\ v.recorded = req[q].recorded
        /\ v.row = req[q].row /\ v.broke = req[q].broke /\ v.status = req[q].status
    BY <2>2 DEF RequestStates, Kept
  <2>4. /\ c.gone = client[q].gone /\ c.got = client[q].got /\ c.status = client[q].status
    BY DEF TypeInv, TypeOK
  <2> HIDE DEF v, c
  <2> QED
    BY <1>1, <1>3, <2>1, <2>3, <2>4 DEF Restarts
<1> QED
  BY <1>2, <1>3

-----------------------------------------------------------------------------
(* One row per request. *)

LEMMA RowStep ==
    ASSUME TypeInv, TypeInv', NEW r \in Requests, RowInv(r), Effect(r) PROVE RowInv(r)'
<1> DEFINE w == req[r]
           v == req'[r]
<1>1. w \in RequestStates /\ Locals(w) /\ w.at \in Nat /\ ledger[r] \in Seq(LedgerRows)
  BY Here DEF TypeInv, TypeOK
<1>2. CASE Arrives(r) \/ Prepares(r)
  <2>1. ~v.recorded /\ ledger'[r] = <<>> /\ (v.at = 0 \/ v.pc = "check")
    BY <1>2 DEF Arrives, Prepares, Tables, RowInv, Early
  <2>2. v.pc \in {"auth", "body", "plan", "check", "done"}
    BY <1>2 DEF Arrives, Prepares
  <2> QED
    BY <2>1, <2>2 DEF RowInv, Early, Trying, Recording, Ended
<1>3. CASE Proceeds(r) \/ Connects(r) \/ Responds(r) \/ Relays(r) \/ FailsOver(r)
  <2>1. /\ w.pc \in Trying \ {"close"} /\ v.pc \in Trying \ {"close"}
        /\ v.recorded = w.recorded /\ ledger' = ledger
    BY <1>3 DEF Proceeds, Connects, Responds, Relays, FailsOver, Moves, Advances, Tables, Trying
  <2> QED
    BY <2>1 DEF RowInv, Early, Trying, Recording, Ended
<1>4. CASE RecordsRow(r) \/ RespondsInVain(r)
  <2>1. /\ w.pc \in Trying /\ v.pc = "insert" /\ v.recorded /\ v.row.attempts = v.at
        /\ ledger' = ledger
    BY <1>4 DEF RecordsRow, RespondsInVain, Records, Trying
  <2> QED
    BY <2>1 DEF RowInv, Early, Trying, Recording, Ended
<1>5. CASE EndsRelay(r)
  <2>1. /\ w.pc \in Trying /\ v.pc = "close" /\ v.recorded = w.recorded
        /\ v.row.attempts = v.at /\ ledger' = ledger
    BY <1>5 DEF EndsRelay, Closes, Trying, Tables
  <2> QED
    BY <2>1 DEF RowInv, Early, Trying, Recording, Ended
<1>6. CASE Writes(r)
  <2>1. /\ w.pc = "insert" /\ v.pc = "count" /\ v.recorded = w.recorded /\ v.row = w.row
        /\ v.at = w.at
    BY <1>6 DEF Writes, Moves
  <2>2. ledger'[r] = <<w.row>>
    <3>1. ledger'[r] = Append(ledger[r], w.row) /\ ledger[r] = <<>>
      BY <1>6 DEF Writes, RowInv, TypeInv, TypeOK
    <3> QED
      BY <3>1
  <2>3. w.at > 0
    BY <1>1, <2>1 DEF Locals, Recording
  <2> QED
    BY <2>1, <2>2, <2>3 DEF RowInv, Early, Trying, Recording, Ended
<1>7. CASE Returns(r)
  <2>1. /\ w.pc \in Recording /\ v.pc = "done" /\ v.row = w.row /\ v.at = w.at
        /\ ledger' = ledger /\ (w.pc = "insert" => v.lost)
    BY <1>7 DEF Returns, Tables
  <2> QED
    BY <2>1 DEF RowInv, Early, Trying, Recording, Ended
<1>8. CASE Leaves(r)
  BY <1>8 DEF Leaves, Tables, RowInv
<1> QED
  BY <1>2, <1>3, <1>4, <1>5, <1>6, <1>7, <1>8 DEF Effect

LEMMA RowOther ==
    ASSUME TypeInv, NEW q \in Requests, RowInv(q), Untouched(q) \/ Restarts(q)
    PROVE  RowInv(q)'
<1>1. CASE Untouched(q)
  BY <1>1 DEF Untouched, RowInv
<1>2. CASE Restarts(q)
  <2>1. req[q].pc \in Early \cup Trying \cup Recording \cup Ended
    BY Here DEF RequestStates, Early, Trying, Recording, Ended
  <2>2. CASE req[q].pc \in {"idle"} \cup Ended /\ req'[q] = req[q]
    BY <1>2, <2>2 DEF Restarts, RowInv
  <2>3. CASE req[q].pc \notin {"idle"} \cup Ended /\ req'[q].pc = "killed"
    <3>1. /\ req'[q].at = req[q].at /\ req'[q].row = req[q].row /\ ledger'[q] = ledger[q]
      BY <1>2, <2>3 DEF Restarts, Ended
    <3>2. ledger[q] \in {<<>>, <<req[q].row>>}
      BY <2>1 DEF RowInv, Recording
    <3> QED
      BY <2>3, <3>1, <3>2 DEF RowInv, Early, Trying, Recording, Ended
  <2> QED
    BY <1>2, <2>2, <2>3 DEF Restarts
<1> QED
  BY <1>1, <1>2

-----------------------------------------------------------------------------
(* Calls and connections. *)

\* An attempt has one status at most, every attempt but the last failed in a way the next
\* target may not, and the one that is being relayed or closed was answered.
CallInv(r) ==
    LET w == req[r]
    IN  /\ \A n \in Nat, s \in Statuses : <<r, n, s>> \in calls =>
              /\ n > 0 /\ n <= w.at
              /\ n < w.at => Retryable(s) /\ ~IsSuccess(s)
              /\ \A t \in Statuses : <<r, n, t>> \in calls => t = s
              /\ w.pc \in {"check", "key", "connect", "send"} => n < w.at
        /\ w.pc \in {"drop", "read", "relay", "yield", "tail", "close"} =>
              w.status \in Statuses /\ <<r, w.at, w.status>> \in calls
        /\ w.pc = "drop" => Retryable(w.status) /\ ~IsSuccess(w.status)
        /\ w.pc \in {"relay", "yield", "tail"} => IsSuccess(w.status)

LEMMA CallStep ==
    ASSUME TypeInv, NEW r \in Requests, CallInv(r), Effect(r) PROVE CallInv(r)'
<1> DEFINE w == req[r]
           v == req'[r]
<1>1. w \in RequestStates /\ w.at \in Nat /\ (w.pc \in Early => w.at = 0)
  BY Here DEF Locals
<1>2. CASE Arrives(r) \/ Prepares(r)
  <2>1. /\ w.pc \in Early /\ calls' = calls /\ v.at \in {0, 1}
        /\ v.pc \in {"auth", "body", "plan", "check", "done"}
    BY <1>2 DEF Arrives, Prepares, Tables, Early
  <2>2. \A n \in Nat, s \in Statuses : <<r, n, s>> \notin calls
    BY <1>1, <2>1 DEF CallInv
  <2> QED
    BY <2>1, <2>2 DEF CallInv
<1>3. CASE Proceeds(r) \/ Connects(r)
  <2>1. /\ w.pc \in {"check", "key", "connect"} /\ v.pc \in {"key", "connect", "send"}
        /\ calls' = calls /\ v.at = w.at
    BY <1>3 DEF Proceeds, Connects, Moves, Tables
  <2> QED
    BY <2>1 DEF CallInv
<1>4. CASE Responds(r) \/ RespondsInVain(r)
  <2>1. PICK s \in Statuses :
           /\ w.pc = "send" /\ calls' = calls \cup {<<r, w.at, s>>} /\ v.at = w.at
           /\ \/ v.pc = "drop" /\ v.status = s /\ Retryable(s) /\ ~IsSuccess(s)
              \/ v.pc = "read" /\ v.status = s
              \/ v.pc = "relay" /\ v.status = s /\ IsSuccess(s)
              \/ v.pc = "insert"
    BY <1>4 DEF Responds, RespondsInVain
  <2>2. w.at > 0
    BY <2>1, Here DEF Trying
  <2>3. ASSUME NEW n \in Nat, NEW t \in Statuses, <<r, n, t>> \in calls'
        PROVE  /\ n > 0 /\ n <= w.at
               /\ n < w.at => Retryable(t) /\ ~IsSuccess(t)
               /\ \A u \in Statuses : <<r, n, u>> \in calls' => u = t
    <3>1. CASE n = w.at
      BY <1>1, <2>1, <2>2, <2>3, <3>1 DEF CallInv
    <3>2. CASE n # w.at
      BY <1>1, <2>1, <2>2, <2>3, <3>2 DEF CallInv
    <3> QED
      BY <3>1, <3>2
  <2> QED
    BY <2>1, <2>3 DEF CallInv
<1>5. CASE FailsOver(r)
  <2>1. /\ w.pc \in {"key", "connect", "send", "drop"} /\ v.pc = "key" /\ v.at = w.at + 1
        /\ calls' = calls
    BY <1>5 DEF FailsOver, Advances
  <2>2. ASSUME NEW n \in Nat, NEW s \in Statuses, <<r, n, s>> \in calls
        PROVE  n > 0 /\ n < w.at + 1 /\ Retryable(s) /\ ~IsSuccess(s)
    <3>1. CASE n < w.at
      BY <1>1, <2>2, <3>1 DEF CallInv
    <3>2. CASE n = w.at
      <4>1. w.pc = "drop"
        BY <1>1, <2>1, <2>2, <3>2 DEF CallInv
      <4>2. s = w.status
        BY <1>1, <2>2, <3>2, <4>1 DEF CallInv
      <4> QED
        BY <1>1, <2>2, <3>2, <4>1, <4>2 DEF CallInv
    <3> QED
      BY <1>1, <2>2, <3>1, <3>2 DEF CallInv
  <2> QED
    BY <1>1, <2>1, <2>2 DEF CallInv
<1>6. CASE Relays(r) \/ EndsRelay(r)
  <2>1. /\ w.pc \in {"relay", "yield", "tail"} /\ v.pc \in {"relay", "yield", "tail", "close"}
        /\ v.at = w.at /\ v.status = w.status /\ calls' = calls
    BY <1>6 DEF Relays, EndsRelay, Closes, Tables
  <2> QED
    BY <2>1 DEF CallInv
<1>7. CASE RecordsRow(r) \/ Writes(r) \/ Returns(r)
  <2>1. v.pc \in {"insert", "count", "done"} /\ v.at = w.at /\ calls' = calls
    BY <1>7 DEF RecordsRow, Records, Writes, Moves, Returns, Tables
  <2> QED
    BY <2>1 DEF CallInv
<1>8. CASE Leaves(r)
  BY <1>8 DEF Leaves, Tables, CallInv
<1> QED
  BY <1>2, <1>3, <1>4, <1>5, <1>6, <1>7, <1>8 DEF Effect

LEMMA CallOther ==
    ASSUME TypeInv, NEW q \in Requests, CallInv(q), Untouched(q) \/ Restarts(q)
    PROVE  CallInv(q)'
<1>1. CASE Untouched(q)
  <2>1. req[q].at \in Nat /\ req'[q] = req[q]
    BY <1>1, Here DEF Untouched
  <2>2. \A n \in Nat, s \in Statuses : <<q, n, s>> \in calls' <=> <<q, n, s>> \in calls
    BY <1>1 DEF Untouched
  <2>3. req[q].pc \in {"drop", "read", "relay", "yield", "tail", "close"} =>
            req[q].status \in Statuses /\ <<q, req[q].at, req[q].status>> \in calls'
    BY <2>1, <2>2 DEF CallInv
  <2> QED
    BY <2>1, <2>2, <2>3 DEF CallInv
<1>2. CASE Restarts(q)
  <2>1. calls' = calls
    BY <1>2 DEF Restarts
  <2>2. CASE req'[q] = req[q]
    BY <2>1, <2>2 DEF CallInv
  <2>3. CASE req'[q].pc = "killed" /\ req'[q].at = req[q].at
    BY <2>1, <2>3 DEF CallInv
  <2> QED
    BY <1>2, <2>2, <2>3 DEF Restarts
<1> QED
  BY <1>1, <1>2

\* A connection of the request is that of its attempt.
ConnInv(r) ==
    LET w == req[r]
    IN  /\ \A n \in Nat : <<r, n>> \in conns =>
              /\ n = w.at /\ n > 0
              /\ w.pc \in {"send", "drop", "read", "relay", "yield", "tail", "close"} \/ w.broke
        /\ w.broke => w.pc \in {"close", "insert", "count", "done", "killed"}

LEMMA ConnStep ==
    ASSUME TypeInv, NEW r \in Requests, ConnInv(r), Effect(r) PROVE ConnInv(r)'
<1> DEFINE w == req[r]
           v == req'[r]
<1>1. w \in RequestStates /\ w.at \in Nat /\ (w.pc \in Early => w.at = 0)
  BY Here DEF Locals
<1>2. CASE Arrives(r) \/ Prepares(r)
  <2>1. /\ w.pc \in Early /\ conns' = conns /\ (Arrives(r) => ~v.broke)
        /\ (Prepares(r) => v.broke = w.broke) /\ (Prepares(r) => w.pc # "idle")
    BY <1>2 DEF Arrives, Prepares, Tables, Early
  <2>2. \A n \in Nat : <<r, n>> \notin conns
    BY <1>1, <2>1 DEF ConnInv
  <2>3. ~v.broke
    BY <1>2, <2>1 DEF ConnInv, Early
  <2> QED
    BY <2>1, <2>2, <2>3 DEF ConnInv
<1>3. CASE Proceeds(r)
  <2>1. /\ w.pc \in {"check", "key"} /\ v.pc \in {"key", "connect"}
        /\ conns' = conns /\ v.broke = w.broke
    BY <1>3 DEF Proceeds, Moves, Tables
  <2> QED
    BY <2>1 DEF ConnInv
<1>4. CASE Connects(r)
  <2>1. /\ w.pc = "connect" /\ v.pc = "send" /\ v.at = w.at /\ v.broke = w.broke
        /\ conns' = conns \cup {<<r, w.at>>}
    BY <1>4 DEF Connects, Moves
  <2>2. w.at > 0
    BY <2>1, Here DEF Trying
  <2> QED
    BY <1>1, <2>1, <2>2 DEF ConnInv
<1>5. CASE Responds(r) \/ RespondsInVain(r) \/ Relays(r) \/ EndsRelay(r)
  <2>1. /\ w.pc \in {"send", "relay", "yield", "tail"} /\ v.at = w.at /\ conns' = conns
        /\ \/ v.pc \in {"drop", "read", "relay", "yield", "tail"} /\ v.broke = w.broke
           \/ v.pc = "insert" /\ v.broke
           \/ v.pc = "close"
    BY <1>5 DEF Responds, RespondsInVain, Relays, EndsRelay, Closes, Tables
  <2> QED
    BY <2>1 DEF ConnInv
<1>6. CASE FailsOver(r) \/ RecordsRow(r)
  <2>1. /\ w.pc \in Trying /\ v.broke = w.broke /\ v.pc \in {"key", "insert"}
        /\ (v.pc = "key" => w.pc # "close")
        /\ IF w.pc \in {"check", "key", "connect"} THEN conns' = conns
           ELSE conns' = conns \ {<<r, w.at>>}
    BY <1>6 DEF FailsOver, RecordsRow, Advances, Records, Released, Trying
  <2>2. \A n \in Nat : <<r, n>> \notin conns'
    BY <2>1 DEF ConnInv
  <2> QED
    BY <2>1, <2>2 DEF ConnInv, Trying
<1>7. CASE Writes(r) \/ Returns(r)
  <2>1. /\ w.pc \in Recording /\ v.pc \in {"count", "done"} /\ v.at = w.at
        /\ (v.broke = w.broke \/ v.broke) /\ conns' = conns
    BY <1>7 DEF Writes, Moves, Returns, Tables, Recording
  <2> QED
    BY <2>1 DEF ConnInv, Recording
<1>8. CASE Leaves(r)
  BY <1>8 DEF Leaves, Tables, ConnInv
<1> QED
  BY <1>2, <1>3, <1>4, <1>5, <1>6, <1>7, <1>8 DEF Effect

LEMMA ConnOther ==
    ASSUME NEW q \in Requests, ConnInv(q), Untouched(q) \/ Restarts(q) PROVE ConnInv(q)'
<1>1. CASE Untouched(q)
  BY <1>1 DEF Untouched, ConnInv
<1>2. CASE Restarts(q)
  BY <1>2 DEF Restarts, ConnInv, Ended
<1> QED
  BY <1>1, <1>2

-----------------------------------------------------------------------------
(* The plan of a request. *)

\* Before is a strict order: no target precedes itself, and of two one precedes the other at
\* most.
LEMMA BeforeStrict ==
    ASSUME NEW route \in Routes, NEW i \in DOMAIN route.targets, NEW j \in DOMAIN route.targets,
           Before(route, i, j)
    PROVE  ~Before(route, j, i)
<1> DEFINE p == TargetPrice(route.targets[i])
           q == TargetPrice(route.targets[j])
<1>1. i \in Nat /\ j \in Nat /\ route.targets[i] \in Targets /\ route.targets[j] \in Targets
  BY DEF Routes
<1>2. p \in Nat /\ q \in Nat
  BY <1>1, RoutingAssumption DEF TargetPrice, RoutingAssumption, Targets
<1> HIDE DEF p, q
<1>3. IF route.strategy = "cheapest" /\ p # q THEN p < q ELSE i < j
  BY DEF Before, p, q
<1>4. SUFFICES ~(IF route.strategy = "cheapest" /\ q # p THEN q < p ELSE j < i)
  BY DEF Before, p, q
<1> QED
  BY <1>1, <1>2, <1>3

LEMMA UpTo == ASSUME NEW n \in Nat PROVE IsFiniteSet(1 .. n) /\ Cardinality(1 .. n) = n
BY FS_Interval

\* A plan tries every eligible target, and tries those first that precede in the route's order.
LEMMA PlanComplete ==
    ASSUME NEW route \in Routes, NEW known, NEW api, NEW translatable,
           NEW p \in Plans(route, known, api, translatable), NEW n \in 1 .. Len(p),
           NEW i \in Eligible(route, known, api, translatable), Before(route, i, p[n])
    PROVE  \E m \in 1 .. n - 1 : p[m] = i
<1> DEFINE S == Eligible(route, known, api, translatable)
           N == Cardinality(S)
<1>1. S \subseteq DOMAIN route.targets /\ DOMAIN route.targets = 1 .. Len(route.targets)
      /\ Len(route.targets) \in Nat
  BY DEF Eligible, Routes
<1>2. IsFiniteSet(S)
  <2>1. IsFiniteSet(1 .. Len(route.targets))
    BY <1>1, FS_Interval
  <2> HIDE DEF S
  <2> QED
    BY <1>1, <2>1, FS_Subset
<1>3. N \in Nat
  BY <1>2, FS_CardinalityType
<1>4. /\ p \in [1 .. N -> S]
      /\ \A l, m \in 1 .. N : l < m => Before(route, p[l], p[m])
  BY DEF Plans
<1> HIDE DEF S, N
<1>5. p \in Injection(1 .. N, S)
  <2>1. ASSUME NEW l \in 1 .. N, NEW m \in 1 .. N, l < m PROVE p[l] # p[m]
    <3>1. p[l] \in DOMAIN route.targets /\ p[m] \in DOMAIN route.targets
      BY <1>1, <1>4
    <3>2. Before(route, p[l], p[m])
      BY <1>4, <2>1
    <3> QED
      BY <3>1, <3>2, BeforeStrict
  <2>2. ASSUME NEW l \in 1 .. N, NEW m \in 1 .. N, p[l] = p[m] PROVE l = m
    <3>1. l \in Nat /\ m \in Nat
      BY <1>3
    <3>2. ~(l < m) /\ ~(m < l)
      BY <2>1, <2>2
    <3> QED
      BY <3>1, <3>2
  <2> QED
    BY <1>4, <2>2 DEF Injection, IsInjective
<1>6. IsFiniteSet(1 .. N) /\ Cardinality(1 .. N) = N
  BY <1>3, UpTo
<1>7. p \in Surjection(1 .. N, S)
  BY <1>2, <1>5, <1>6, FS_Injection DEF N
<1>8. PICK m \in 1 .. N : p[m] = i
  BY <1>7 DEF Surjection, S
<1>9. Len(p) = N
  BY <1>3, <1>4
<1>10. m \in Nat /\ n \in 1 .. N /\ n \in Nat
  BY <1>3, <1>9
<1>11. p[m] \in DOMAIN route.targets /\ p[n] \in DOMAIN route.targets
  BY <1>1, <1>4, <1>10
<1>12. m # n
  BY <1>8, <1>11, BeforeStrict
<1>13. ~(n < m)
  BY <1>4, <1>8, <1>10, <1>11, BeforeStrict
<1>14. m \in 1 .. n - 1
  BY <1>3, <1>10, <1>12, <1>13
<1> QED
  BY <1>8, <1>14

\* Once a request has a target it has a plan, which does not change.
PlanInv(r) == req[r].at > 0 => Planned(req[r])

LEMMA PlanStep ==
    ASSUME TypeInv, NEW r \in Requests, PlanInv(r), Effect(r) PROVE PlanInv(r)'
<1> DEFINE w == req[r]
           v == req'[r]
<1>1. CASE Arrives(r)
  BY <1>1 DEF Arrives, PlanInv
<1>2. CASE Prepares(r)
  <2>1. w.at = 0
    BY <1>2, Here DEF Prepares, Locals, Early
  <2>2. v.at = 0 \/ Planned(v)
    BY <1>2, <2>1 DEF Prepares
  <2> QED
    BY <2>2 DEF PlanInv, Planned
<1>3. CASE \/ Proceeds(r) \/ Connects(r) \/ Responds(r) \/ RespondsInVain(r) \/ Relays(r)
           \/ FailsOver(r) \/ RecordsRow(r) \/ EndsRelay(r) \/ Writes(r) \/ Returns(r)
  <2>1. v.body = w.body /\ v.known = w.known /\ v.plan = w.plan
    BY <1>3 DEF Proceeds, Connects, Responds, RespondsInVain, Relays, FailsOver, RecordsRow,
       EndsRelay, Writes, Returns, Moves, Kept, Advances, Records, Closes
  <2>2. w.at > 0
    <3>1. w.pc \in Trying \cup Recording
      BY <1>3 DEF Proceeds, Connects, Responds, RespondsInVain, Relays, FailsOver, RecordsRow,
         EndsRelay, Writes, Returns, Trying, Recording
    <3> QED
      BY <3>1, Here DEF Locals
  <2> QED
    BY <2>1, <2>2 DEF PlanInv, Planned
<1>4. CASE Leaves(r)
  BY <1>4 DEF Leaves, PlanInv, Planned
<1> QED
  BY <1>1, <1>2, <1>3, <1>4 DEF Effect

LEMMA PlanOther ==
    ASSUME NEW q \in Requests, PlanInv(q), Untouched(q) \/ Restarts(q) PROVE PlanInv(q)'
BY DEF Untouched, Restarts, Kept, PlanInv, Planned

-----------------------------------------------------------------------------
(* Revoked keys. *)

\* A request that came with a revoked key has not passed _authenticate: no step makes the key
\* active again.
RevokedInv(r) ==
    LET w == req[r]
    IN  w.revoked =>
            /\ w.key \in Keys /\ keys[w.key] # None /\ ~keys[w.key].active
            /\ w.pc \in {"auth", "done", "killed"} /\ w.at = 0

LEMMA RevokedStep ==
    ASSUME TypeInv, NEW r \in Requests, RevokedInv(r), Effect(r), keys' = keys
    PROVE  RevokedInv(r)'
<1> DEFINE w == req[r]
           v == req'[r]
<1>1. CASE Arrives(r)
  BY <1>1 DEF Arrives, RevokedInv
<1>2. CASE Prepares(r)
  <2>1. /\ v.revoked = w.revoked /\ v.key = w.key /\ v.pc = "done" => v.at = 0
    BY <1>2 DEF Prepares
  <2>2. w.revoked => w.pc = "auth" /\ ~IsActive(w.key)
    BY <1>2 DEF Prepares, RevokedInv, IsActive
  <2>3. w.revoked => v.pc = "done"
    BY <1>2, <2>2 DEF Prepares
  <2>4. /\ v.revoked = w.revoked /\ v.key = w.key
        /\ w.revoked => v.at = 0
    BY <1>2, <2>3 DEF Prepares
  <2> QED
    BY <2>3, <2>4 DEF RevokedInv
<1>3. CASE \/ Proceeds(r) \/ Connects(r) \/ Responds(r) \/ RespondsInVain(r) \/ Relays(r)
           \/ FailsOver(r) \/ RecordsRow(r) \/ EndsRelay(r) \/ Writes(r) \/ Returns(r)
  <2>1. v.revoked = w.revoked
    BY <1>3 DEF Proceeds, Connects, Responds, RespondsInVain, Relays, FailsOver, RecordsRow,
       EndsRelay, Writes, Returns, Moves, Kept, Advances, Records, Closes
  <2>2. w.pc \in Trying \cup Recording
    BY <1>3 DEF Proceeds, Connects, Responds, RespondsInVain, Relays, FailsOver, RecordsRow,
       EndsRelay, Writes, Returns, Trying, Recording
  <2> QED
    BY <2>1, <2>2 DEF RevokedInv, Trying, Recording
<1>4. CASE Leaves(r)
  BY <1>4 DEF Leaves, RevokedInv
<1> QED
  BY <1>1, <1>2, <1>3, <1>4 DEF Effect

LEMMA RevokedOther ==
    ASSUME TypeInv, NEW q \in Requests, RevokedInv(q),
           ((Untouched(q) \/ Restarts(q)) /\ keys' = keys) \/ Admin
    PROVE  RevokedInv(q)'
<1>1. CASE Untouched(q) /\ keys' = keys
  BY <1>1 DEF Untouched, RevokedInv
<1>2. CASE Restarts(q) /\ keys' = keys
  BY <1>2 DEF Restarts, RevokedInv, Kept
<1>3. CASE Admin
  <2>1. req' = req
    BY <1>3 DEF Admin, CreateCredential, CreateKey, RevokeKey
  <2>2. ASSUME NEW k \in Keys, keys[k] # None, ~keys[k].active
        PROVE  keys'[k] = keys[k]
    BY <1>3, <2>2 DEF Admin, CreateCredential, CreateKey, RevokeKey, IsActive, TypeInv, TypeOK
  <2> QED
    BY <2>1, <2>2 DEF RevokedInv
<1> QED
  BY <1>1, <1>2, <1>3

-----------------------------------------------------------------------------
(* What a row claims. *)

\* The row of a request, or the one it is about to write, is true of what happened.
Claim(r) ==
    LET w == req[r]
        c == client[r]
        outcome == req[r].row.outcome
        status == req[r].row.status
    IN  /\ outcome \in {"success", "upstream_error", "client_disconnected"} =>
              status \in Statuses /\ <<r, w.at, status>> \in calls
        /\ outcome = "success" =>
              IsSuccess(status) /\ ~w.err /\ (c.gone \/ c.got = w.owed)
        /\ outcome = "upstream_error" => (Retryable(status) => Last(w))
        /\ outcome = "client_disconnected" => c.gone \/ w.broke
        /\ outcome = "upstream_unreachable" =>
              /\ status \in {502, 504}
              /\ Last(w) \/ \E s \in Statuses : <<r, w.at, s>> \in calls
        /\ outcome = "budget_exceeded" => \A n \in Nat, s \in Statuses : <<r, n, s>> \notin calls
        /\ c.status \in {0, status} \/ w.broke

Answering == {"check", "key", "connect", "send", "drop", "read"}

TruthInv(r) ==
    LET w == req[r]
        c == client[r]
    IN  /\ w.pc \notin Ended => c.ended = "no"
        /\ w.pc \in Early \cup Answering => c.status = 0 /\ c.got = 0 /\ w.owed = 0 /\ ~w.err
        /\ w.pc = "check" => w.at = 1
        /\ w.pc = "read" => IsSuccess(w.status) \/ Last(w) \/ ~Retryable(w.status)
        /\ w.pc \in {"relay", "yield", "tail"} => c.status = w.status
        /\ w.pc = "relay" => c.gone \/ c.got = w.owed
        /\ w.pc \in {"yield", "tail"} => c.gone \/ c.got + 1 = w.owed
        /\ w.pc \in {"close"} \cup Recording \/ ledger[r] # <<>> => Claim(r)
        /\ w.pc \in Recording /\ w.then \in {"answer", "translate"} => w.status = w.row.status
        /\ w.pc \in {"close"} \cup Recording /\ w.row.outcome = "success" => w.then # "cut"
        /\ w.pc = "done" /\ ledger[r] # <<>> /\ w.row.outcome = "success" => c.ended # "cut"

\* A claim stays true when its client goes, or is given the status it names.
LEMMA ClaimStable ==
    ASSUME NEW r, Claim(r), Kept(req'[r], req[r]), req'[r].at = req[r].at,
           req'[r].row.outcome = req[r].row.outcome, req'[r].row.status = req[r].row.status,
           req[r].broke => req'[r].broke,
           \A n \in Nat, s \in Statuses : <<r, n, s>> \in calls' <=> <<r, n, s>> \in calls,
           req[r].at \in Nat,
           client[r].gone => client'[r].gone, client'[r].got = client[r].got,
           client'[r].status \in {client[r].status, req[r].row.status} \/ req'[r].broke
    PROVE  Claim(r)'
<1>1. /\ req'[r].err = req[r].err /\ req'[r].owed = req[r].owed
      /\ (Last(req[r]) => req'[r].at = Len(req'[r].plan))
  BY DEF Kept, Last
<1>2. \A s \in Statuses : <<r, req[r].at, s>> \in calls => <<r, req'[r].at, s>> \in calls'
  OBVIOUS
<1>3. client[r].gone \/ client[r].got = req[r].owed =>
          client'[r].gone \/ client'[r].got = req'[r].owed
  BY <1>1
<1>4. client[r].status \in {0, req[r].row.status} \/ req[r].broke =>
          client'[r].status \in {0, req'[r].row.status} \/ req'[r].broke
  OBVIOUS
<1> QED
  BY <1>1, <1>2, <1>3, <1>4 DEF Claim, Last

LEMMA SuccessFinal == ASSUME NEW s \in Nat, IsSuccess(s) PROVE ~Retryable(s)
BY DEF IsSuccess, Retryable

LEMMA RecordTruth ==
    ASSUME TypeInv, NEW r \in Requests, RowInv(r), CallInv(r), TruthInv(r), RecordsRow(r)
    PROVE  TruthInv(r)'
<1> DEFINE w == req[r]
           v == req'[r]
           c == client[r]
<1>1. PICK o \in Outcomes, s \in Nat, t \in {"answer", "translate", "whole", "cut"} :
        /\ Records(r, v, w, o, s, t) /\ UNCHANGED <<ledger, calls>>
        /\ \/ w.pc = "check" /\ o = "budget_exceeded" /\ t = "answer"
           \/ w.pc = "key" /\ o = "proxy_error" /\ t = "answer"
           \/ /\ w.pc \in {"connect", "send"} /\ Last(w)
              /\ o = "upstream_unreachable" /\ s \in {502, 504} /\ t = "answer"
           \/ w.pc = "read" /\ o = "upstream_unreachable" /\ s = 502 /\ t = "answer"
           \/ /\ w.pc = "read" /\ IsSuccess(w.status) /\ o = "success" /\ s = w.status
              /\ t = "translate"
           \/ /\ w.pc = "read" /\ ~IsSuccess(w.status) /\ o = "upstream_error" /\ s = w.status
              /\ t = "answer"
           \/ w.pc = "close" /\ o = w.row.outcome /\ s = w.row.status /\ t = w.then
  BY DEF RecordsRow
<1>2. w.at \in Nat /\ w \in RequestStates
  BY Here
<1>3. /\ v.pc = "insert" /\ Kept(v, w) /\ v.at = w.at /\ v.status = s /\ v.then = t
      /\ v.row.outcome = o /\ v.row.status = s /\ v.broke = w.broke /\ client'[r] = c
      /\ calls' = calls /\ ledger'[r] = <<>>
  BY <1>1 DEF Records, RowInv, Trying
<1>4. c.ended = "no"
  BY <1>1 DEF TruthInv, Ended
<1>5. Claim(r)'
  <2>1. CASE w.pc = "close"
    <3>1. Claim(r)
      BY <2>1 DEF TruthInv
    <3> QED
      BY <1>1, <1>2, <1>3, <2>1, <3>1, ClaimStable
  <2>2. CASE w.pc \in Answering
    <3>1. c.status = 0 /\ c.got = 0 /\ v.owed = 0 /\ ~v.err /\ v.plan = w.plan
      BY <1>3, <2>2 DEF TruthInv, Kept
    <3>2. CASE w.pc = "check" /\ o = "budget_exceeded"
      <4>1. \A n \in Nat, u \in Statuses : <<r, n, u>> \notin calls
        BY <1>2, <3>2 DEF CallInv, TruthInv
      <4> QED
        BY <1>3, <3>1, <3>2, <4>1 DEF Claim
    <3>3. CASE o = "proxy_error"
      BY <1>3, <3>1, <3>3 DEF Claim
    <3>4. CASE Last(w) /\ o = "upstream_unreachable" /\ s \in {502, 504}
      BY <1>3, <3>1, <3>4 DEF Claim, Last
    <3>5. CASE w.pc = "read"
      <4>1. w.status \in Statuses /\ <<r, w.at, w.status>> \in calls
        BY <3>5 DEF CallInv
      <4>2. w.status \in Nat
        BY <4>1, StatusType
      <4>3. CASE o = "upstream_unreachable" /\ s = 502
        BY <1>3, <3>1, <4>1, <4>3 DEF Claim
      <4>4. CASE o = "success" /\ IsSuccess(w.status) /\ s = w.status
        BY <1>3, <3>1, <4>1, <4>4 DEF Claim
      <4>5. CASE o = "upstream_error" /\ ~IsSuccess(w.status) /\ s = w.status
        <5>1. Retryable(s) => v.at = Len(v.plan)
          BY <1>3, <3>1, <3>5, <4>5 DEF TruthInv, Last
        <5> QED
          BY <1>3, <3>1, <4>1, <4>5, <5>1 DEF Claim, Last
      <4> QED
        BY <1>1, <3>5, <4>3, <4>4, <4>5
    <3> QED
      BY <1>1, <2>2, <3>2, <3>3, <3>4, <3>5 DEF Answering
  <2> QED
    BY <1>1, <2>1, <2>2 DEF Answering
<1>6. o = "success" => t # "cut"
  BY <1>1 DEF TruthInv
<1> QED
  BY <1>3, <1>4, <1>5, <1>6 DEF TruthInv, Early, Answering, Recording, Ended

LEMMA RelayTruth ==
    ASSUME TypeInv, NEW r \in Requests, RowInv(r), CallInv(r), TruthInv(r),
           Relays(r) \/ EndsRelay(r)
    PROVE  TruthInv(r)'
<1> DEFINE w == req[r]
           v == req'[r]
           c == client[r]
           d == client'[r]
<1>1. /\ w.pc \in {"relay", "yield", "tail"} /\ v.at = w.at /\ v.status = w.status
      /\ UNCHANGED Tables
  BY DEF Relays, EndsRelay, Closes
<1>2. /\ c.ended = "no" /\ c.status = w.status /\ ledger[r] = <<>>
      /\ w.status \in Statuses /\ <<r, w.at, w.status>> \in calls /\ IsSuccess(w.status)
  BY <1>1 DEF TruthInv, RowInv, CallInv, Ended, Trying
<1>3. w.at \in Nat /\ w.owed \in Nat /\ c.got \in Nat /\ c.gone \in BOOLEAN
  BY Here DEF RequestStates
<1>4. d.ended = c.ended /\ d.status = c.status /\ d.gone = c.gone
  BY DEF Relays, EndsRelay
<1>5. CASE Relays(r)
  <2>1. \/ v.pc = "relay" /\ (d.gone \/ d.got = v.owed)
        \/ v.pc \in {"yield", "tail"} /\ (d.gone \/ d.got + 1 = v.owed)
    BY <1>1, <1>3, <1>5 DEF Relays, TruthInv
  <2> QED
    BY <1>1, <1>2, <1>4, <2>1 DEF TruthInv, Early, Answering, Recording, Ended, Tables
<1>6. CASE EndsRelay(r)
  <2>1. /\ v.pc = "close" /\ v.row.status = w.status /\ Kept(v, w)
        /\ v.row.outcome \in {StreamOutcome(w), "upstream_error", "client_disconnected"}
        /\ v.row.outcome = "client_disconnected" => d.gone \/ v.broke
        /\ v.row.outcome = "success" => v.then # "cut" /\ ~w.err /\ (d.gone \/ d.got = v.owed)
    BY <1>1, <1>3, <1>4, <1>6 DEF EndsRelay, Closes, StreamOutcome, TruthInv, Kept
  <2>2. v.row.outcome \in {"success", "upstream_error", "client_disconnected"}
    BY <2>1 DEF StreamOutcome
  <2>3. ~Retryable(w.status)
    BY <1>2, StatusType, SuccessFinal
  <2>4. Claim(r)'
    BY <1>1, <1>2, <1>4, <2>1, <2>2, <2>3 DEF Claim, Tables, Kept
  <2> QED
    BY <1>1, <1>2, <1>4, <2>1, <2>4 DEF TruthInv, Early, Answering, Recording, Ended, Tables
<1> QED
  BY <1>5, <1>6

LEMMA TruthStep ==
    ASSUME TypeInv, NEW r \in Requests, RowInv(r), CallInv(r), TruthInv(r), Effect(r)
    PROVE  TruthInv(r)'
<1> DEFINE w == req[r]
           v == req'[r]
           c == client[r]
           d == client'[r]
<1>1. w \in RequestStates /\ w.at \in Nat
  BY Here
<1>2. CASE Arrives(r) \/ Prepares(r)
  <2>1. w.pc \in Early /\ ledger'[r] = <<>>
    BY <1>2 DEF Arrives, Prepares, Tables, RowInv, Early
  <2>2. c.ended = "no" /\ c.status = 0 /\ c.got = 0 /\ w.owed = 0 /\ ~w.err
    BY <2>1 DEF TruthInv, Early, Ended
  <2>3. CASE v.pc = "done"
    BY <2>1, <2>3 DEF TruthInv, Early, Answering, Recording, Ended
  <2>4. CASE v.pc # "done"
    <3>1. /\ v.pc \in {"auth", "body", "plan", "check"} /\ (v.pc = "check" => v.at = 1)
          /\ d = c /\ v.owed = 0 /\ ~v.err
      BY <1>2, <2>2, <2>4 DEF Arrives, Prepares
    <3> QED
      BY <2>1, <2>2, <3>1 DEF TruthInv, Early, Answering, Recording, Ended
  <2> QED
    BY <2>3, <2>4
<1>3. CASE Proceeds(r) \/ Connects(r) \/ FailsOver(r)
  <2>1. /\ d = c /\ v.owed = w.owed /\ v.err = w.err /\ ledger' = ledger
    BY <1>3 DEF Proceeds, Connects, FailsOver, Moves, Advances, Kept, Tables, Answering
  <2>2. v.pc \in {"key", "connect", "send"} /\ ledger[r] = <<>> /\ w.pc \in Answering
    BY <1>3 DEF Proceeds, Connects, FailsOver, Moves, Advances, RowInv, Trying, Answering
  <2> QED
    BY <2>1, <2>2 DEF TruthInv, Early, Answering, Recording, Ended
<1>4. CASE Responds(r)
  <2>1. PICK s \in Statuses :
          /\ w.pc = "send" /\ UNCHANGED ledger
          /\ Kept(v, w) /\ v.at = w.at /\ v.status = s
          /\ \/ v.pc = "drop" /\ d = c
             \/ v.pc = "read" /\ (IsSuccess(s) \/ Last(w) \/ ~Retryable(s)) /\ d = c
             \/ v.pc = "relay" /\ d.status = s /\ d.got = c.got /\ d.ended = c.ended
    BY <1>4 DEF Responds
  <2>2. /\ c.ended = "no" /\ c.status = 0 /\ c.got = 0 /\ w.owed = 0 /\ ~w.err
        /\ ledger'[r] = <<>>
    BY <2>1 DEF TruthInv, RowInv, Trying, Answering, Ended
  <2>3. Last(w) => v.at = Len(v.plan)
    BY <2>1 DEF Last, Kept
  <2> QED
    BY <2>1, <2>2, <2>3 DEF TruthInv, Early, Answering, Recording, Ended, Kept, Last
<1>5. CASE RespondsInVain(r)
  <2>1. /\ w.pc = "send" /\ UNCHANGED ledger /\ v.pc = "insert" /\ v.broke /\ d = c
        /\ v.status = 500 /\ v.row.status = 500 /\ v.row.outcome = "proxy_error"
    BY <1>5 DEF RespondsInVain
  <2>2. c.ended = "no" /\ ledger'[r] = <<>>
    BY <2>1 DEF TruthInv, RowInv, Trying, Ended
  <2>3. Claim(r)'
    BY <2>1 DEF Claim
  <2> QED
    BY <2>1, <2>2, <2>3 DEF TruthInv, Early, Answering, Recording, Ended
<1>6. CASE Relays(r) \/ EndsRelay(r)
  BY <1>6, RelayTruth
<1>7. CASE RecordsRow(r)
  BY <1>7, RecordTruth
<1>8. CASE Writes(r)
  <2>1. /\ w.pc = "insert" /\ v.pc = "count" /\ Kept(v, w) /\ v.at = w.at /\ v.row = w.row
        /\ v.status = w.status /\ v.broke = w.broke /\ v.then = w.then /\ d = c /\ calls' = calls
    BY <1>8 DEF Writes, Moves
  <2>2. Claim(r)
    BY <2>1 DEF TruthInv, Recording
  <2>3. Claim(r)'
    BY <1>1, <2>1, <2>2, ClaimStable
  <2> QED
    BY <2>1, <2>3 DEF TruthInv, Early, Answering, Recording, Ended
<1>9. CASE Returns(r)
  <2>1. /\ w.pc \in Recording /\ v.pc = "done" /\ UNCHANGED Tables
        /\ Kept(v, w) /\ v.at = w.at /\ v.row = w.row /\ d.gone = c.gone /\ d.got = c.got
        /\ \/ /\ w.then \in {"answer", "translate"} /\ v.broke = w.broke
              /\ d.status = w.status /\ d.ended = "whole"
           \/ /\ w.then = "translate" /\ v.broke /\ d.ended = "whole"
           \/ /\ w.then \in {"whole", "cut"} /\ v.broke = w.broke
              /\ d.status = c.status /\ d.ended = w.then
    BY <1>9 DEF Returns
  <2>2. Claim(r)
    BY <2>1 DEF TruthInv
  <2>3. w.then \in {"answer", "translate"} => w.status = w.row.status
    BY <2>1 DEF TruthInv
  <2>4. w.row.outcome = "success" => w.then # "cut"
    BY <2>1 DEF TruthInv
  <2>5. Claim(r)'
    BY <1>1, <2>1, <2>2, <2>3, ClaimStable DEF Tables
  <2> QED
    BY <2>1, <2>4, <2>5 DEF TruthInv, Early, Answering, Recording, Ended
<1>10. CASE Leaves(r)
  <2>1. /\ v = w /\ UNCHANGED Tables /\ d.gone /\ d.got = c.got /\ d.status = c.status
        /\ d.ended = c.ended
    BY <1>10 DEF Leaves
  <2>2. Claim(r) => Claim(r)'
    BY <1>1, <2>1, ClaimStable DEF Tables, Kept
  <2> QED
    BY <2>1, <2>2 DEF TruthInv, Tables
<1> QED
  BY <1>2, <1>3, <1>4, <1>5, <1>6, <1>7, <1>8, <1>9, <1>10 DEF Effect

LEMMA TruthOther ==
    ASSUME TypeInv, NEW q \in Requests, TruthInv(q), Untouched(q) \/ Restarts(q)
    PROVE  TruthInv(q)'
<1> DEFINE w == req[q]
           v == req'[q]
<1>1. w.at \in Nat
  BY Here
<1>2. CASE v = w /\ client'[q] = client[q] /\ ledger'[q] = ledger[q]
  <2>1. \A n \in Nat, s \in Statuses : <<q, n, s>> \in calls' <=> <<q, n, s>> \in calls
    BY DEF Untouched, Restarts
  <2>2. Claim(q) => Claim(q)'
    BY <1>1, <1>2, <2>1, ClaimStable DEF Kept
  <2> QED
    BY <1>2, <2>2 DEF TruthInv
<1>3. CASE /\ v.pc = "killed" /\ Kept(v, w) /\ v.at = w.at /\ v.row = w.row /\ v.broke = w.broke
           /\ client'[q].gone = client[q].gone /\ client'[q].got = client[q].got
           /\ client'[q].status = client[q].status /\ UNCHANGED <<ledger, calls>>
  <2>1. Claim(q) => Claim(q)'
    BY <1>1, <1>3, ClaimStable
  <2> QED
    BY <1>3, <2>1 DEF TruthInv, Early, Answering, Recording, Ended
<1> QED
  BY <1>2, <1>3 DEF Untouched, Restarts

-----------------------------------------------------------------------------
(* The invariant and what follows from it. *)

RequestInv(r) ==
    RowInv(r) /\ CallInv(r) /\ ConnInv(r) /\ PlanInv(r) /\ RevokedInv(r) /\ TruthInv(r)

Inv == TypeInv /\ \A r \in Requests : RequestInv(r)

LEMMA InvInit == Init => Inv
<1> SUFFICES ASSUME Init PROVE Inv
  OBVIOUS
<1>1. TypeInv
  BY TypeInit
<1>2. ASSUME NEW r \in Requests PROVE RequestInv(r)
  <2>1. /\ req[r].pc = "idle" /\ req[r].at = 0 /\ ~req[r].recorded /\ ~req[r].broke
        /\ ~req[r].revoked /\ req[r].owed = 0 /\ ~req[r].err
        /\ ledger[r] = <<>> /\ conns = {} /\ calls = {}
        /\ client[r].ended = "no" /\ client[r].status = 0 /\ client[r].got = 0
    BY DEF Init, Idle, NewClient
  <2> QED
    BY <2>1 DEF RequestInv, RowInv, CallInv, ConnInv, PlanInv, RevokedInv, TruthInv, Early, Trying,
       Recording, Ended, Answering
<1> QED
  BY <1>1, <1>2 DEF Inv

LEMMA InvStep == ASSUME Inv, [Next]_vars PROVE Inv'
<1>1. TypeInv /\ TypeInv'
  BY TypeStep DEF Inv
<1>2. ASSUME NEW r \in Requests, NEW q \in Requests, OwnStep(r) PROVE RequestInv(q)'
  <2>1. RequestInv(r) /\ RequestInv(q)
    BY DEF Inv
  <2>2. Effect(r)
    BY <1>1, <1>2, <2>1, OwnEffect DEF RequestInv
  <2>3. OneType(r) /\ keys' = keys
    BY <1>1, <1>2, OwnStepType
  <2>4. CASE q = r
    <3>1. RequestInv(r)'
      BY <1>1, <2>1, <2>2, <2>3, RowStep, CallStep, ConnStep, PlanStep, RevokedStep, TruthStep
         DEF RequestInv
    <3> QED
      BY <2>4, <3>1
  <2>5. CASE q # r
    <3>1. Untouched(q)
      BY <1>1, <2>2, <2>3, <2>5, OthersUntouched
    <3> QED
      BY <1>1, <2>1, <2>3, <3>1, RowOther, CallOther, ConnOther, PlanOther, RevokedOther, TruthOther
         DEF RequestInv
  <2> QED
    BY <2>4, <2>5
<1>3. ASSUME NEW q \in Requests, Admin \/ Restart \/ UNCHANGED vars PROVE RequestInv(q)'
  <2>1. RequestInv(q)
    BY DEF Inv
  <2>2. Untouched(q) \/ Restarts(q)
    BY <1>1, <1>3, AdminUntouched, RestartEffect
  <2>3. Admin \/ keys' = keys
    BY <1>3 DEF Restart, vars
  <2> QED
    BY <1>1, <2>1, <2>2, <2>3, RowOther, CallOther, ConnOther, PlanOther, RevokedOther, TruthOther
       DEF RequestInv
<1> QED
  BY <1>1, <1>2, <1>3 DEF Inv, Next, OwnStep

LEMMA Invariance == Spec => []Inv
BY InvInit, InvStep, PTL DEF Spec

\* A request has one row at most, and has it once its handler ended past the budget check,
\* unless the insert failed.
THEOREM OneRow == Spec => []RowPerRequest
<1>1. Inv => RowPerRequest
  <2> SUFFICES ASSUME Inv, NEW r \in Requests
               PROVE  /\ Len(ledger[r]) <= 1
                      /\ req[r].pc = "done" /\ Metered(req[r]) /\ ~req[r].lost =>
                            Len(ledger[r]) = 1
                      /\ ~Metered(req[r]) => ledger[r] = <<>>
    BY DEF RowPerRequest
  <2>1. RowInv(r) /\ req[r] \in RequestStates /\ req[r].at \in Nat
    BY Here DEF Inv, RequestInv
  <2>2. req[r].pc \in Early \cup Trying \cup Recording \cup Ended
    BY <2>1 DEF RequestStates, Early, Trying, Recording, Ended
  <2>3. ledger[r] = <<>> \/ ledger[r] = <<req[r].row>>
    BY <2>1, <2>2 DEF RowInv, Recording
  <2>4. /\ req[r].at = 0 => ledger[r] = <<>>
        /\ req[r].pc = "done" /\ req[r].at > 0 /\ ~req[r].lost => ledger[r] = <<req[r].row>>
    BY <2>1 DEF RowInv
  <2>5. ledger[r] = <<>> => Len(ledger[r]) = 0
    OBVIOUS
  <2>6. ledger[r] = <<req[r].row>> => Len(ledger[r]) = 1
    OBVIOUS
  <2>7. Len(ledger[r]) <= 1
    <3> DEFINE n == Len(ledger[r])
    <3>1. n \in {0, 1}
      BY <2>3, <2>5, <2>6, Zenon
    <3> HIDE DEF n
    <3>2. n <= 1
      BY <3>1
    <3> QED
      BY <3>2 DEF n
  <2>8. req[r].pc = "done" /\ Metered(req[r]) /\ ~req[r].lost => Len(ledger[r]) = 1
    BY <2>4, <2>6 DEF Metered
  <2>9. ~Metered(req[r]) => ledger[r] = <<>>
    BY <2>1, <2>4 DEF Metered
  <2> QED
    BY <2>7, <2>8, <2>9
<1> QED
  BY <1>1, Invariance, PTL

\* Every row is true of what happened between the upstreams and the client.
THEOREM Truthful == Spec => []RowTruthful
<1>1. Inv => RowTruthful
  <2> SUFFICES ASSUME Inv, NEW r \in Requests, NEW i \in DOMAIN ledger[r]
               PROVE  LET row == ledger[r][i]
                          w == req[r]
                          answered == <<r, row.attempts, row.status>> \in calls
                          reached == \E c \in calls : c[1] = r /\ c[2] = row.attempts
                      IN  /\ row.attempts = w.at
                          /\ row.outcome = "success" =>
                                /\ answered /\ IsSuccess(row.status) /\ ~w.err
                                /\ client[r].gone \/ client[r].got = w.owed
                                /\ client[r].ended = "cut" => w.pc = "killed"
                          /\ row.outcome = "upstream_error" =>
                                answered /\ (Retryable(row.status) => Last(w))
                          /\ row.outcome = "client_disconnected" =>
                                answered /\ (client[r].gone \/ w.broke)
                          /\ row.outcome = "upstream_unreachable" =>
                                row.status \in {502, 504} /\ (reached \/ Last(w))
                          /\ row.outcome = "budget_exceeded" => \A c \in calls : c[1] # r
                          /\ client[r].status \in {0, row.status} \/ w.broke
    BY DEF RowTruthful
  <2> DEFINE w == req[r]
  <2>1. /\ RowInv(r) /\ TruthInv(r) /\ w \in RequestStates
        /\ calls \subseteq Requests \X Nat \X Statuses
    BY Here DEF Inv, RequestInv, TypeInv, TypeOK
  <2>2. w.pc \in Early \cup Trying \cup Recording \cup Ended
    BY <2>1 DEF RequestStates, Early, Trying, Recording, Ended
  <2>3. ledger[r] # <<>>
    OBVIOUS
  <2>4. ledger[r] = <<w.row>>
    BY <2>1, <2>2, <2>3 DEF RowInv, Recording
  <2>5. ledger[r][i] = w.row
    BY <2>4
  <2>6. Claim(r) /\ w.row.attempts = w.at
    BY <2>1, <2>3 DEF TruthInv, RowInv
  <2>7. w.pc \in {"count", "done", "killed"}
    BY <2>1, <2>2, <2>3 DEF RowInv, Recording, Ended
  <2>8. w.row.outcome = "success" /\ client[r].ended = "cut" => w.pc = "killed"
    BY <2>1, <2>3, <2>7 DEF TruthInv, Ended
  <2>9. (\A n \in Nat, s \in Statuses : <<r, n, s>> \notin calls) => \A c \in calls : c[1] # r
    BY <2>1
  <2>10. (\E s \in Statuses : <<r, w.at, s>> \in calls) => \E c \in calls : c[1] = r /\ c[2] = w.at
    OBVIOUS
  <2> HIDE DEF w
  <2> QED
    BY <2>5, <2>6, <2>8, <2>9, <2>10 DEF Claim, w
<1> QED
  BY <1>1, Invariance, PTL

\* One attempt of a request is answered with success at most, and nothing follows it.
THEOREM ChargedOnce == Spec => []PaidOnce
<1>1. Inv => PaidOnce
  <2> SUFFICES ASSUME Inv, NEW c \in calls, IsSuccess(c[3])
               PROVE  /\ \A d \in calls : d[1] = c[1] => d = c \/ d[2] < c[2]
                      /\ \A x \in conns : x[1] = c[1] => x[2] = c[2]
                      /\ \A i \in DOMAIN ledger[c[1]] : ledger[c[1]][i].attempts = c[2]
    BY DEF PaidOnce
  <2>1. PICK r \in Requests, n \in Nat, s \in Statuses : c = <<r, n, s>>
    BY DEF Inv, TypeInv, TypeOK
  <2>2. /\ RowInv(r) /\ CallInv(r) /\ ConnInv(r) /\ req[r] \in RequestStates /\ req[r].at \in Nat
        /\ calls \subseteq Requests \X Nat \X Statuses /\ conns \subseteq Requests \X Nat
    BY Here DEF Inv, RequestInv, TypeInv, TypeOK
  <2>3. n = req[r].at
    BY <2>1, <2>2 DEF CallInv
  <2>4. ASSUME NEW d \in calls, d[1] = r PROVE d = c \/ d[2] < n
    <3>1. PICK m \in Nat, t \in Statuses : d = <<r, m, t>>
      BY <2>2, <2>4
    <3>2. m <= req[r].at /\ (m = n => t = s)
      BY <2>1, <2>2, <3>1 DEF CallInv
    <3> QED
      BY <2>1, <2>2, <2>3, <3>1, <3>2
  <2>5. ASSUME NEW x \in conns, x[1] = r PROVE x[2] = n
    <3>1. PICK m \in Nat : x = <<r, m>>
      BY <2>2, <2>5
    <3> QED
      BY <2>2, <2>3, <3>1 DEF ConnInv
  <2>6. ASSUME NEW i \in DOMAIN ledger[r] PROVE ledger[r][i].attempts = n
    <3>1. req[r].pc \in Early \cup Trying \cup Recording \cup Ended
      BY <2>2 DEF RequestStates, Early, Trying, Recording, Ended
    <3>2. ledger[r] # <<>>
      BY <2>6
    <3>3. ledger[r] = <<req[r].row>> /\ req[r].row.attempts = req[r].at
      BY <2>2, <3>1, <3>2 DEF RowInv, Recording
    <3> QED
      BY <2>3, <2>6, <3>3
  <2> QED
    BY <2>1, <2>4, <2>5, <2>6
<1> QED
  BY <1>1, Invariance, PTL

\* A target is contacted after every eligible one that precedes it, each of which failed in a
\* way the next may not.
THEOREM InOrder == Spec => []FallbackInOrder
<1>1. Inv => FallbackInOrder
  <2> SUFFICES ASSUME Inv, NEW c \in conns, req[c[1]].body.route # None,
                      NEW i \in Eligible(RouteOf[req[c[1]].body.route], req[c[1]].known,
                                         req[c[1]].body.api, req[c[1]].body.translatable),
                      Before(RouteOf[req[c[1]].body.route], i, req[c[1]].plan[c[2]])
               PROVE  \E m \in 1 .. c[2] - 1 :
                          /\ req[c[1]].plan[m] = i
                          /\ \A d \in calls : d[1] = c[1] /\ d[2] = m => Retryable(d[3])
    BY DEF FallbackInOrder
  <2>1. PICK r \in Requests, n \in Nat : c = <<r, n>>
    BY DEF Inv, TypeInv, TypeOK
  <2> DEFINE w == req[r]
             route == RouteOf[w.body.route]
  <2>2. /\ CallInv(r) /\ ConnInv(r) /\ PlanInv(r) /\ w \in RequestStates /\ Locals(w)
        /\ calls \subseteq Requests \X Nat \X Statuses /\ w.at \in 0 .. Len(w.plan)
    BY Here DEF Inv, RequestInv, TypeInv, TypeOK
  <2>3. n = w.at /\ n > 0
    BY <2>1, <2>2 DEF ConnInv
  <2>4. w.body \in BodyRecords /\ w.body.route \in RouteNames
    <3>1. w.pc # "idle"
      BY <2>2, <2>3 DEF Locals, Early
    <3>2. w.body \in BodyRecords
      BY <2>2, <3>1 DEF Locals
    <3> QED
      BY <2>1, <3>2 DEF BodyRecords
  <2>5. /\ route \in Routes
        /\ w.plan \in Plans(route, w.known, w.body.api, w.body.translatable)
    BY <2>1, <2>2, <2>3, <2>4, RouteType DEF PlanInv, Planned
  <2>6. n \in 1 .. Len(w.plan)
    BY <2>2, <2>3 DEF RequestStates
  <2>7. i \in Eligible(route, w.known, w.body.api, w.body.translatable)
        /\ Before(route, i, w.plan[n])
    BY <2>1
  <2> HIDE DEF route
  <2>8. PICK m \in 1 .. n - 1 : w.plan[m] = i
    BY <2>5, <2>6, <2>7, PlanComplete
  <2>9. ASSUME NEW d \in calls, d[1] = r, d[2] = m PROVE Retryable(d[3])
    <3>1. PICK s \in Statuses : d = <<r, m, s>>
      BY <2>2, <2>9
    <3> QED
      BY <2>2, <2>3, <2>8, <3>1 DEF CallInv
  <2> QED
    BY <2>1, <2>8, <2>9
<1> QED
  BY <1>1, Invariance, PTL

\* A connection is that of the attempt its request is at, or of a translator that raised.
THEOREM Closed == Spec => []UpstreamsClosed
<1>1. Inv => UpstreamsClosed
  <2> SUFFICES ASSUME Inv, NEW c \in conns
               PROVE  /\ req[c[1]].at = c[2]
                      /\ \/ req[c[1]].pc \in {"send", "drop", "read", "relay", "yield", "tail",
                                              "close"}
                         \/ req[c[1]].broke
    BY DEF UpstreamsClosed
  <2>1. PICK r \in Requests, n \in Nat : c = <<r, n>>
    BY DEF Inv, TypeInv, TypeOK
  <2>2. ConnInv(r)
    BY DEF Inv, RequestInv
  <2> QED
    BY <2>1, <2>2 DEF ConnInv
<1> QED
  BY <1>1, Invariance, PTL

\* A request that came after its key was revoked opens no connection and leaves no row.
THEOREM Stopped == Spec => []RevokedStops
<1>1. Inv => RevokedStops
  <2> SUFFICES ASSUME Inv, NEW r \in Requests, req[r].revoked
               PROVE  /\ \A c \in conns : c[1] # r
                      /\ \A c \in calls : c[1] # r
                      /\ ledger[r] = <<>>
    BY DEF RevokedStops
  <2>1. /\ RowInv(r) /\ CallInv(r) /\ ConnInv(r) /\ RevokedInv(r)
        /\ calls \subseteq Requests \X Nat \X Statuses /\ conns \subseteq Requests \X Nat
    BY DEF Inv, RequestInv, TypeInv, TypeOK
  <2>2. req[r].at = 0
    BY <2>1 DEF RevokedInv
  <2>3. \A n \in Nat : <<r, n>> \notin conns
    BY <2>1, <2>2 DEF ConnInv
  <2>4. \A n \in Nat, s \in Statuses : <<r, n, s>> \notin calls
    BY <2>1, <2>2 DEF CallInv
  <2>5. ledger[r] = <<>>
    BY <2>1, <2>2 DEF RowInv
  <2> QED
    BY <2>1, <2>3, <2>4, <2>5
<1> QED
  BY <1>1, Invariance, PTL
=============================================================================
