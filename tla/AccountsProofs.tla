--------------------------- MODULE AccountsProofs ---------------------------
(***************************************************************************)
(* Theorems about Accounts, for any users, calls, requests, old sessions   *)
(* and tokens, limits and times that satisfy AccountsAssumption.           *)
(***************************************************************************)
EXTENDS Accounts, FiniteSetTheorems, TLAPS

Signed == AdminKinds \cup OwnKinds \cup {"logout"}

\* The row of the credential that gave a call its user was there.
Presented(req, ss, ts) ==
    /\ req.via \in {"session", "api_token"}
    /\ req.via = "session" => ss[req.cred] # None
    /\ req.via = "api_token" => ts[req.cred] # None

Opening == {"expire", "open", "record_login"}

\* Which calls wait at which await, and what their locals are there, given the tables.
LocalsOK(w, us, ss, ts) ==
    /\ w.pc = "idle" => w.req = None /\ w.me = None /\ ~w.wrote
    /\ w.pc # "idle" => w.req # None /\ Complete(w.req)
    /\ w.me # None => w.req # None /\ us[w.me] # None /\ Presented(w.req, ss, ts)
    /\ w.pc = "authenticate" => w.req.kind \in Signed /\ w.me = None
    /\ w.pc = "touch" => w.req.kind \in Signed /\ w.me # None
    /\ w.pc = "count" => w.req.kind = "setup"
    /\ w.pc = "insert" => w.req.kind \in {"setup", "add_user", "create-user"}
    /\ w.pc \in {"lookup", "verify"} => w.req.kind = "login"
    /\ w.pc = "verify" /\ w.found # None => us[w.req.user] # None
    /\ w.pc \in Opening \cup {"audit"} /\ w.then = "done" /\ w.req.kind \in {"setup", "login"} =>
          us[w.req.user] # None
    /\ w.pc \in Opening => w.then = "done" /\ w.req.kind \in {"setup", "login"}
    /\ w.pc = "delete_session" =>
          w.req.kind = "logout" /\ w.req.via = "session" /\ w.me # None
    /\ w.pc = "read_hash" => w.req.kind = "change_password" /\ w.me # None
    /\ w.pc = "insert_token" => w.req.kind = "create_token" /\ w.me # None
    /\ w.pc = "delete_token" => w.req.kind = "delete_token" /\ w.me # None
    /\ w.pc = "set_password" => w.req.kind \in {"change_password", "reset_password"}
    /\ w.pc \in {"end_sessions", "stranded"} =>
          /\ w.req.kind \in {"change_password", "reset_password", "update_user"}
          /\ w.wrote
    /\ w.pc \in {"set_password", "end_sessions", "stranded"} =>
          Subject(w) # None /\ us[Subject(w)] # None
    /\ w.pc = "read" => w.req.kind \in {"update_user", "reset_password"}
    /\ w.pc \in {"count_admins", "write"} =>
          w.req.kind = "update_user" /\ w.found # None /\ us[w.req.user] # None
    /\ w.wrote => w.pc \in {"end_sessions", "audit"} \cup Opening \cup Ended

\* A session or token belongs to a user.
RowsOK(us, ss, ts) ==
    /\ \A s \in SessionIds : IsRow(ss[s]) => us[ss[s].user] # None
    /\ \A t \in TokenIds : IsRow(ts[t]) => us[ts[t].user] # None

TablesOK(us, ss, ts) ==
    /\ us \in [Users -> UserRows \cup {None}]
    /\ ss \in [SessionIds -> SessionRows \cup {None, Gone}]
    /\ ts \in [TokenIds -> TokenRows \cup {None, Gone}]
    /\ RowsOK(us, ss, ts)

\* No row of a table is taken back to what it was before it was made.
Grows ==
    /\ \A u \in Users : users[u] # None => users'[u] # None
    /\ \A s \in SessionIds : sessions[s] # None => sessions'[s] # None
    /\ \A t \in TokenIds : tokens[t] # None => tokens'[t] # None

TypeInv ==
    /\ TypeOK
    /\ RowsOK(users, sessions, tokens)
    /\ \A c \in Calls : LocalsOK(call[c], users, sessions, tokens)

\* A step of c makes its coroutine w; other coroutines are what they were but for what they missed.
Moves(c, w) ==
    /\ call' \in [Calls -> CallStates]
    /\ call'[c] = w
    /\ \A d \in Calls \ {c} :
          \E m \in SUBSET Calls : /\ call'[d] = [call[d] EXCEPT !.missed = m]
                                  /\ call[d].missed \subseteq m

-----------------------------------------------------------------------------
\* What Accepted, Subject and the requests of a menu give.
LEMMA Outsiders ==
    /\ None \notin Users /\ None \notin Passwords /\ None \notin SessionIds
    /\ None \notin TokenIds /\ None \notin UserRows /\ None \notin RequestRecords
    /\ None \notin SessionRows /\ None \notin TokenRows /\ Gone \notin SessionRows
    /\ Gone \notin TokenRows /\ None # Gone /\ None \notin Roles /\ None \notin BOOLEAN
  BY AccountsAssumption, Zenon DEF AccountsAssumption

\* A coroutine keeps its invariant when others fill the tables or change what it read.
LEMMA StayOK ==
    ASSUME Grows, NEW w \in CallStates, NEW m \in SUBSET Calls,
           LocalsOK(w, users, sessions, tokens)
    PROVE  /\ [w EXCEPT !.missed = m] \in CallStates
           /\ LocalsOK([w EXCEPT !.missed = m], users', sessions', tokens')
<1> DEFINE v == [w EXCEPT !.missed = m]
<1>1. v \in CallStates
  BY DEF CallStates
<1>2. /\ v.pc = w.pc /\ v.req = w.req /\ v.me = w.me /\ v.found = w.found
      /\ v.then = w.then /\ v.wrote = w.wrote
  BY DEF CallStates
<1>3. Subject(v) = Subject(w)
  BY <1>2 DEF Subject
<1>4. w.me \in Users \cup {None} /\ w.req \in RequestRecords \cup {None}
  BY DEF CallStates
<1>5. w.req # None => w.req.user \in Users \cup {None}
  BY <1>4 DEF RequestRecords
<1>6. w.pc \in {"set_password", "end_sessions", "stranded"} => Subject(w) \in Users
  BY <1>4, <1>5 DEF LocalsOK, Subject
<1>7. w.me # None => w.me \in Users
  BY <1>4
<1>8. Presented(w.req, sessions, tokens) /\ w.me # None => Presented(w.req, sessions', tokens')
  BY DEF Presented, LocalsOK, Complete, Grows
<1>9. /\ w.pc \in {"verify", "count_admins", "write"} => w.req.user \in Users
      /\ w.pc \in Opening \cup {"audit"} /\ w.req.kind \in {"setup", "login"} =>
            w.req.user \in Users
  BY <1>5 DEF LocalsOK, Complete, OwnKinds, Opening
<1>10. LocalsOK(v, users', sessions', tokens')
  <2> HIDE DEF v
  <2> QED
    BY <1>2, <1>3, <1>6, <1>7, <1>8, <1>9 DEF LocalsOK, Grows
<1> QED
  BY <1>1, <1>10

\* The invariant after a step of c, from what the step does to c and to the tables.
LEMMA MoveOK ==
    ASSUME TypeInv, NEW c \in Calls, NEW w, Moves(c, w), Grows,
           TablesOK(users', sessions', tokens'), LocalsOK(w, users', sessions', tokens'),
           failures' \in [ThrottleKeys -> SUBSET [call : Calls, at : Nat]], now' \in Nat
    PROVE  TypeInv'
<1>1. TypeOK' /\ RowsOK(users', sessions', tokens')
  BY DEF TypeOK, TablesOK, Moves
<1>2. ASSUME NEW d \in Calls PROVE LocalsOK(call'[d], users', sessions', tokens')
  <2>1. CASE d = c
    BY <2>1 DEF Moves
  <2>2. CASE d # c
    <3>1. PICK m \in SUBSET Calls : call'[d] = [call[d] EXCEPT !.missed = m]
      BY <2>2, Zenon DEF Moves
    <3>2. call[d] \in CallStates /\ LocalsOK(call[d], users, sessions, tokens)
      BY DEF TypeInv, TypeOK
    <3> QED
      BY <3>1, <3>2, StayOK
  <2> QED
    BY <2>1, <2>2
<1> QED
  BY <1>1, <1>2, Zenon DEF TypeInv

LEMMA BecomeMoves ==
    ASSUME TypeOK, NEW c \in Calls, NEW w \in CallStates, Become(c, w)
    PROVE  Moves(c, w)
<1>1. call' \in [Calls -> CallStates] /\ call'[c] = w
  BY DEF TypeOK, Become
<1>2. ASSUME NEW d \in Calls \ {c}
      PROVE  /\ call[d].missed \in SUBSET Calls
             /\ call'[d] = [call[d] EXCEPT !.missed = call[d].missed]
  BY DEF TypeOK, Become, CallStates
<1> QED
  BY <1>1, <1>2, Zenon DEF Moves

\* The other coroutines when c changes what they have read.
LEMMA BehindMoves ==
    ASSUME TypeOK, NEW c \in Calls, NEW w \in CallStates, NEW pcs,
           call' = [d \in Calls |-> IF d = c THEN w ELSE Behind(c, d, pcs)]
    PROVE  Moves(c, w)
<1>1. ASSUME NEW d \in Calls \ {c}
      PROVE  \E m \in SUBSET Calls : /\ call'[d] = [call[d] EXCEPT !.missed = m]
                                     /\ call[d].missed \subseteq m
                                     /\ call'[d] \in CallStates
  <2>1. call[d] \in CallStates /\ call'[d] = Behind(c, d, pcs)
    BY DEF TypeOK
  <2>2. CASE call[d].pc \in pcs
    <3>1. call'[d] = [call[d] EXCEPT !.missed = call[d].missed \cup {c}]
      BY <2>1, <2>2 DEF Behind
    <3> QED
      BY <2>1, <3>1 DEF CallStates
  <2>3. CASE call[d].pc \notin pcs
    <3>1. call'[d] = [call[d] EXCEPT !.missed = call[d].missed]
      BY <2>1, <2>3 DEF Behind, CallStates
    <3> QED
      BY <2>1, <3>1 DEF CallStates
  <2> QED
    BY <2>2, <2>3
<1>2. call'[c] = w
  OBVIOUS
<1>3. call' \in [Calls -> CallStates]
  BY <1>1, <1>2
<1> QED
  BY <1>1, <1>2, <1>3, Zenon DEF Moves

LEMMA CommitMoves ==
    ASSUME TypeOK, NEW c \in Calls, NEW table, NEW pc, Commit(c, table, pc),
           [call[c] EXCEPT !.pc = pc, !.wrote = TRUE] \in CallStates
    PROVE  Moves(c, [call[c] EXCEPT !.pc = pc, !.wrote = TRUE])
  BY BehindMoves DEF Commit

\* A step that leaves the tables alone.
LEMMA PlainOK ==
    ASSUME TypeInv, NEW c \in Calls, NEW w \in CallStates, Become(c, w),
           UNCHANGED <<users, sessions, tokens, now>>, LocalsOK(w, users, sessions, tokens),
           failures' \in [ThrottleKeys -> SUBSET [call : Calls, at : Nat]]
    PROVE  TypeInv'
<1>1. Moves(c, w)
  BY BecomeMoves DEF TypeInv
<1>2. Grows
  BY DEF Grows
<1>3. TablesOK(users', sessions', tokens') /\ LocalsOK(w, users', sessions', tokens')
  BY DEF TypeInv, TypeOK, TablesOK
<1>4. now' \in Nat
  BY DEF TypeInv, TypeOK
<1> QED
  BY <1>1, <1>2, <1>3, <1>4, MoveOK

\* Where the endpoint starts, once the principal is known.
LEMMA EntryOK ==
    ASSUME NEW us, NEW ss, NEW ts, NEW w \in CallStates,
           w.req # None, Complete(w.req), w.req.kind \in Signed, ~w.wrote,
           w.me # None => us[w.me] # None /\ Presented(w.req, ss, ts),
           w.req.via = "session" => w.me # None
    PROVE  /\ [w EXCEPT !.pc = Entry(w)] \in CallStates
           /\ LocalsOK([w EXCEPT !.pc = Entry(w)], us, ss, ts)
<1> DEFINE pc == Entry(w)
           v == [w EXCEPT !.pc = pc]
<1>1. \/ pc \in {"refused", "done"}
      \/ pc = "delete_session" /\ w.req.kind = "logout" /\ w.req.via = "session"
      \/ pc = "read_hash" /\ w.req.kind = "change_password" /\ w.me # None
      \/ pc = "insert_token" /\ w.req.kind = "create_token" /\ w.me # None
      \/ pc = "delete_token" /\ w.req.kind = "delete_token" /\ w.me # None
      \/ pc = "insert" /\ w.req.kind = "add_user"
      \/ pc = "read" /\ w.req.kind \in {"update_user", "reset_password"}
  BY DEF Entry, FirstStep, Signed, AdminKinds, OwnKinds
<1>2. v \in CallStates
  BY <1>1 DEF CallStates, Ended
<1>3. /\ v.pc = pc /\ v.req = w.req /\ v.me = w.me /\ v.found = w.found /\ v.then = w.then
      /\ v.wrote = w.wrote
  BY DEF CallStates
<1>4. LocalsOK(v, us, ss, ts)
  <2> HIDE DEF v, pc
  <2> QED
    BY <1>1, <1>3 DEF LocalsOK, Opening
<1> QED
  BY <1>2, <1>4

LEMMA InitType == Init => TypeInv
<1> SUFFICES ASSUME Init PROVE TypeInv
  OBVIOUS
<1>1. users \in [Users -> UserRows \cup {None}]
  BY AccountsAssumption DEF AccountsAssumption, Init
<1>2. ASSUME NEW u \in Users, users[u] # None PROVE users[u].password \in Passwords
  BY <1>1, <1>2 DEF UserRows
<1>3. ASSUME NEW s \in SessionIds
      PROVE  /\ sessions[s] \in SessionRows \cup {None, Gone}
             /\ IsRow(sessions[s]) => users[sessions[s].user] # None
  <2> DEFINE open == /\ s \in DOMAIN OldSessions
                     /\ users[OldSessions[s]] # None /\ users[OldSessions[s]].active
  <2>1. CASE open
    <3>1. OldSessions[s] \in Users /\ SessionTTL \in Nat
      BY <2>1, AccountsAssumption DEF AccountsAssumption
    <3>2. sessions[s] = [user |-> OldSessions[s], expires |-> SessionTTL, seen |-> 0,
                         opened |-> users[OldSessions[s]].password]
      BY <2>1 DEF Init
    <3> QED
      BY <2>1, <3>1, <3>2, <1>2 DEF SessionRows
  <2>2. CASE ~open
    BY <2>2 DEF Init, IsRow
  <2> QED
    BY <2>1, <2>2
<1>4. ASSUME NEW t \in TokenIds
      PROVE  /\ tokens[t] \in TokenRows \cup {None, Gone}
             /\ IsRow(tokens[t]) => users[tokens[t].user] # None
  <2>1. CASE t \in DOMAIN OldTokens /\ users[OldTokens[t]] # None
    <3>1. OldTokens[t] \in Users
      BY <2>1, AccountsAssumption DEF AccountsAssumption
    <3>2. tokens[t] = [user |-> OldTokens[t], seen |-> 0]
      BY <2>1 DEF Init
    <3> QED
      BY <2>1, <3>1, <3>2 DEF TokenRows
  <2>2. CASE ~(t \in DOMAIN OldTokens /\ users[OldTokens[t]] # None)
    BY <2>2 DEF Init, IsRow
  <2> QED
    BY <2>1, <2>2
<1>5. sessions \in [SessionIds -> SessionRows \cup {None, Gone}]
  BY <1>3 DEF Init
<1>6. tokens \in [TokenIds -> TokenRows \cup {None, Gone}]
  BY <1>4 DEF Init
<1>7. Idle \in CallStates /\ LocalsOK(Idle, users, sessions, tokens)
  BY DEF Idle, CallStates, LocalsOK, Opening, Ended
<1>8. failures \in [ThrottleKeys -> SUBSET [call : Calls, at : Nat]] /\ now \in Nat
  BY DEF Init
<1> QED
  BY <1>1, <1>3, <1>4, <1>5, <1>6, <1>7, <1>8 DEF Init, TypeInv, TypeOK, RowsOK

\* A request that has run to its first await.
Arrived(w) ==
    /\ w.req # None /\ Complete(w.req) /\ w.me = None /\ ~w.wrote /\ w.missed = {}
    /\ \/ w.pc = "refused"
       \/ w.pc = "audit" /\ w.then = "refused"
       \/ w.pc = "count" /\ w.req.kind = "setup"
       \/ w.pc = "lookup" /\ w.req.kind = "login" /\ ~Throttled(w.req)
       \/ w.pc = "insert" /\ w.req.kind = "create-user"
       \/ w.pc = "authenticate" /\ w.req.kind \in Signed

LEMMA ArriveShape ==
    ASSUME TypeInv, NEW c \in Calls, Arrive(c)
    PROVE  \E w \in CallStates : Become(c, w) /\ Arrived(w)
<1> DEFINE From(req, pc) == [[Idle EXCEPT !.req = req] EXCEPT !.pc = pc]
           W(req) == CASE req.kind = "setup" ->
                            From(req, IF req.via = "admin_token" THEN "count" ELSE "refused")
                       [] req.kind = "login" ->
                            IF Throttled(req)
                            THEN [[Idle EXCEPT !.req = req] EXCEPT !.pc = "audit",
                                                                   !.then = "refused"]
                            ELSE From(req, "lookup")
                       [] req.kind = "create-user" -> From(req, "insert")
                       [] OTHER -> From(req, "authenticate")
<1>1. PICK req \in Menu[c] : Become(c, W(req))
  BY DEF Arrive
<1>2. req \in RequestRecords /\ Complete(req) /\ req # None
  BY Outsiders, AccountsAssumption DEF AccountsAssumption
<1>3. ASSUME NEW pc \in {"count", "refused", "lookup", "insert", "authenticate"}
      PROVE  /\ From(req, pc) \in CallStates /\ From(req, pc).pc = pc
             /\ From(req, pc).req = req /\ From(req, pc).me = None /\ ~From(req, pc).wrote
             /\ From(req, pc).missed = {}
  BY <1>2 DEF Idle, CallStates, Ended
<1>4. CASE req.kind = "setup"
  <2>1. CASE req.via = "admin_token"
    <3>1. W(req) = From(req, "count")
      BY <1>4, <2>1
    <3>2. Become(c, From(req, "count"))
      <4> HIDE DEF W, From
      <4> QED
        BY <1>1, <3>1
    <3> HIDE DEF From
    <3> QED
      BY <1>2, <1>3, <1>4, <3>2 DEF Arrived
  <2>2. CASE req.via # "admin_token"
    <3>1. W(req) = From(req, "refused")
      BY <1>4, <2>2
    <3>2. Become(c, From(req, "refused"))
      <4> HIDE DEF W, From
      <4> QED
        BY <1>1, <3>1
    <3> HIDE DEF From
    <3> QED
      BY <1>2, <1>3, <3>2 DEF Arrived
  <2> QED
    BY <2>1, <2>2
<1>5. CASE req.kind = "login"
  <2>1. CASE Throttled(req)
    <3> DEFINE w == [[Idle EXCEPT !.req = req] EXCEPT !.pc = "audit", !.then = "refused"]
    <3>1. W(req) = w
      BY <1>5, <2>1
    <3>2. Become(c, w)
      <4> HIDE DEF W, w
      <4> QED
        BY <1>1, <3>1
    <3>3. w \in CallStates /\ w.pc = "audit" /\ w.then = "refused" /\ w.req = req
          /\ w.me = None /\ ~w.wrote /\ w.missed = {}
      BY <1>2 DEF Idle, CallStates, Ended
    <3> HIDE DEF w
    <3> QED
      BY <1>2, <3>2, <3>3 DEF Arrived
  <2>2. CASE ~Throttled(req)
    <3>1. W(req) = From(req, "lookup")
      BY <1>5, <2>2
    <3>2. Become(c, From(req, "lookup"))
      <4> HIDE DEF W, From
      <4> QED
        BY <1>1, <3>1
    <3> HIDE DEF From
    <3> QED
      BY <1>2, <1>3, <1>5, <2>2, <3>2 DEF Arrived
  <2> QED
    BY <2>1, <2>2
<1>6. CASE req.kind = "create-user"
  <2>1. W(req) = From(req, "insert")
    BY <1>6
  <2>2. Become(c, From(req, "insert"))
    <3> HIDE DEF W, From
    <3> QED
      BY <1>1, <2>1
  <2> HIDE DEF From
  <2> QED
    BY <1>2, <1>3, <1>6, <2>2 DEF Arrived
<1>7. CASE req.kind \in Signed
  <2>1. W(req) = From(req, "authenticate")
    BY <1>7 DEF Signed, AdminKinds, OwnKinds
  <2>2. Become(c, From(req, "authenticate"))
    <3> HIDE DEF W, From
    <3> QED
      BY <1>1, <2>1
  <2> HIDE DEF From
  <2> QED
    BY <1>2, <1>3, <1>7, <2>2 DEF Arrived
<1> QED
  BY <1>2, <1>4, <1>5, <1>6, <1>7 DEF RequestRecords, Kinds, Signed

LEMMA ArriveType == ASSUME TypeInv, NEW c \in Calls, Arrive(c) PROVE TypeInv'
<1>1. UNCHANGED <<users, sessions, tokens, failures, now>>
  BY DEF Arrive
<1>2. PICK w \in CallStates : Become(c, w) /\ Arrived(w)
  BY ArriveShape
<1>3. LocalsOK(w, users, sessions, tokens)
  BY <1>2 DEF Arrived, LocalsOK, Opening
<1> QED
  BY <1>1, <1>2, <1>3, PlainOK DEF TypeInv, TypeOK

\* What is known of a coroutine and of the tables before a step.
LEMMA Known ==
    ASSUME TypeInv, NEW c \in Calls
    PROVE  /\ call[c] \in CallStates /\ LocalsOK(call[c], users, sessions, tokens)
           /\ call[c].me \in Users \cup {None}
           /\ call[c].req # None =>
                 /\ call[c].req \in RequestRecords
                 /\ call[c].req.user \in Users \cup {None}
                 /\ call[c].req.via = "session" => call[c].req.cred \in SessionIds
                 /\ call[c].req.via = "api_token" => call[c].req.cred \in TokenIds
           /\ call[c].pc # "idle" => call[c].req # None /\ Complete(call[c].req)
<1>1. call[c] \in CallStates /\ LocalsOK(call[c], users, sessions, tokens)
  BY DEF TypeInv, TypeOK
<1>2. call[c].req \in RequestRecords \cup {None} /\ call[c].me \in Users \cup {None}
  BY <1>1 DEF CallStates
<1>3. call[c].pc # "idle" => call[c].req # None /\ Complete(call[c].req)
  BY <1>1 DEF LocalsOK
<1>4. call[c].req # None => call[c].pc # "idle"
  BY <1>1 DEF LocalsOK
<1>5. call[c].req # None => call[c].req.user \in Users \cup {None}
  BY <1>2 DEF RequestRecords
<1> QED
  BY <1>1, <1>2, <1>3, <1>4, <1>5 DEF Complete

\* The row of an accepted credential, and its user.
LEMMA AcceptedUser ==
    ASSUME TypeInv, NEW req \in RequestRecords, Complete(req), Accepted(req)
    PROVE  /\ CredentialRow(req).user \in Users /\ users[CredentialRow(req).user] # None
           /\ users[CredentialRow(req).user].role \in Roles
           /\ Presented(req, sessions, tokens)
<1>1. CASE req.via = "session"
  <2>1. req.cred \in SessionIds /\ IsRow(sessions[req.cred])
    BY <1>1 DEF Complete, Accepted, CredentialRow
  <2>2. sessions[req.cred] \in SessionRows /\ users[sessions[req.cred].user] # None
    BY <2>1 DEF TypeInv, TypeOK, RowsOK, IsRow
  <2>3. sessions[req.cred].user \in Users
    BY <2>2 DEF SessionRows
  <2>4. users[sessions[req.cred].user] \in UserRows
    BY <2>2, <2>3 DEF TypeInv, TypeOK
  <2> QED
    BY <1>1, <2>1, <2>2, <2>3, <2>4 DEF CredentialRow, UserRows, Presented, IsRow
<1>2. CASE req.via = "api_token"
  <2>1. req.cred \in TokenIds /\ IsRow(tokens[req.cred])
    BY <1>2 DEF Complete, Accepted, CredentialRow
  <2>2. tokens[req.cred] \in TokenRows /\ users[tokens[req.cred].user] # None
    BY <2>1 DEF TypeInv, TypeOK, RowsOK, IsRow
  <2>3. tokens[req.cred].user \in Users
    BY <2>2 DEF TokenRows
  <2>4. users[tokens[req.cred].user] \in UserRows
    BY <2>2, <2>3 DEF TypeInv, TypeOK
  <2> QED
    BY <1>2, <2>1, <2>2, <2>3, <2>4 DEF CredentialRow, UserRows, Presented, IsRow
<1> QED
  BY <1>1, <1>2 DEF Accepted

\* A coroutine that only goes to another await.
Awaits ==
    {"authenticate", "touch", "count", "insert", "lookup", "verify", "expire", "open",
     "record_login", "delete_session", "read_hash", "set_password", "end_sessions",
     "insert_token", "delete_token", "read", "count_admins", "write", "audit"} \cup Ended

LEMMA GotoFields ==
    ASSUME NEW v \in CallStates, NEW pc \in Awaits
    PROVE  LET w == [v EXCEPT !.pc = pc] IN
           /\ w \in CallStates /\ w.pc = pc /\ w.req = v.req /\ w.role = v.role /\ w.me = v.me
           /\ w.found = v.found /\ w.then = v.then /\ w.wrote = v.wrote /\ w.missed = v.missed
           /\ Subject(w) = Subject(v)
  BY DEF CallStates, Subject, Awaits

\* An endpoint answers.
LEMMA AnswerOK ==
    ASSUME TypeInv, NEW c \in Calls, NEW pc \in {"done", "refused", "failed"},
           call[c].pc # "idle", Goto(c, pc), UNCHANGED <<users, sessions, tokens, failures, now>>
    PROVE  TypeInv'
<1> DEFINE w == [call[c] EXCEPT !.pc = pc]
<1>1. call[c] \in CallStates /\ pc \in Awaits
  BY Known DEF Awaits, Ended
<1>2. w \in CallStates
  BY <1>1, GotoFields
<1>3. LocalsOK(w, users, sessions, tokens)
  <2>1. /\ w.pc = pc /\ w.req = call[c].req /\ w.me = call[c].me /\ w.wrote = call[c].wrote
        /\ Subject(w) = Subject(call[c])
    BY <1>1, GotoFields
  <2> HIDE DEF w
  <2> QED
    BY <2>1, Known DEF LocalsOK, Opening, Ended
<1>4. Become(c, w)
  BY DEF Goto
<1> HIDE DEF w
<1> QED
  BY <1>2, <1>3, <1>4, PlainOK DEF TypeInv, TypeOK

LEMMA AuthenticateType == ASSUME TypeInv, NEW c \in Calls, Authenticate(c) PROVE TypeInv'
<1> DEFINE v == call[c]
           row == CredentialRow(v.req)
           token == [v EXCEPT !.role = "admin"]
           user == [v EXCEPT !.me = row.user, !.role = users[row.user].role]
<1>1. /\ v \in CallStates /\ v.req # None /\ v.req \in RequestRecords /\ Complete(v.req)
      /\ v.req.kind \in Signed /\ v.me = None /\ ~v.wrote /\ v.pc # "idle"
  <2>1. v.pc = "authenticate"
    BY DEF Authenticate, At
  <2>2. v.req # None /\ v.req \in RequestRecords /\ Complete(v.req)
    BY <2>1, Known
  <2>3. v \in CallStates /\ LocalsOK(v, users, sessions, tokens)
    BY Known
  <2> HIDE DEF v
  <2> QED
    BY <2>1, <2>2, <2>3 DEF LocalsOK, Opening, Ended
<1>2. UNCHANGED <<users, sessions, tokens, failures, now>>
  BY DEF Authenticate
<1>3. CASE v.req.via = "admin_token" /\ Become(c, [token EXCEPT !.pc = Entry(token)])
  <2>1. /\ token \in CallStates /\ token.req = v.req /\ token.me = None /\ token.wrote = v.wrote
    BY <1>1 DEF CallStates, Roles
  <2> HIDE DEF token
  <2>2. /\ [token EXCEPT !.pc = Entry(token)] \in CallStates
        /\ LocalsOK([token EXCEPT !.pc = Entry(token)], users, sessions, tokens)
    BY <1>1, <1>3, <2>1, EntryOK
  <2> QED
    BY <1>2, <1>3, <2>2, PlainOK DEF TypeInv, TypeOK
<1>4. CASE /\ Accepted(v.req)
           /\ Become(c, [user EXCEPT !.pc = IF row.seen = None \/ now - row.seen > TouchInterval
                                            THEN "touch" ELSE Entry(user)])
  <2>1. /\ row.user \in Users /\ users[row.user] # None /\ users[row.user].role \in Roles
        /\ Presented(v.req, sessions, tokens)
    BY <1>1, <1>4, AcceptedUser
  <2>2. /\ user \in CallStates /\ user.req = v.req /\ user.me = row.user /\ user.me # None
        /\ user.wrote = v.wrote
    BY <1>1, <2>1, Outsiders DEF CallStates
  <2> HIDE DEF user, row
  <2>3. CASE Become(c, [user EXCEPT !.pc = "touch"])
    <3> DEFINE w == [user EXCEPT !.pc = "touch"]
    <3>1. w \in CallStates
      BY <2>2 DEF CallStates
    <3>2. w.pc = "touch" /\ w.req = v.req /\ w.me = user.me /\ w.wrote = v.wrote
      BY <2>2 DEF CallStates
    <3> HIDE DEF w
    <3>3. LocalsOK(w, users, sessions, tokens)
      BY <1>1, <2>1, <2>2, <3>2 DEF LocalsOK, Opening
    <3> QED
      BY <1>2, <2>3, <3>1, <3>3, PlainOK DEF TypeInv, TypeOK, w
  <2>4. CASE Become(c, [user EXCEPT !.pc = Entry(user)])
    <3>1. /\ [user EXCEPT !.pc = Entry(user)] \in CallStates
          /\ LocalsOK([user EXCEPT !.pc = Entry(user)], users, sessions, tokens)
      BY <1>1, <2>1, <2>2, EntryOK
    <3> QED
      BY <1>2, <2>4, <3>1, PlainOK DEF TypeInv, TypeOK
  <2> QED
    BY <1>4, <2>3, <2>4
<1>5. CASE Goto(c, "refused")
  BY <1>1, <1>2, <1>5, AnswerOK
<1> QED
  BY <1>3, <1>4, <1>5 DEF Authenticate

\* A call that goes to another await which is not its last, from a statement that writes no table.
LEMMA GoOnOK ==
    ASSUME TypeInv, NEW c \in Calls, NEW pc \in Awaits, Goto(c, pc),
           UNCHANGED <<users, sessions, tokens, failures, now>>,
           LocalsOK([call[c] EXCEPT !.pc = pc], users, sessions, tokens)
    PROVE  TypeInv'
<1> DEFINE w == [call[c] EXCEPT !.pc = pc]
<1>1. w \in CallStates
  BY Known, GotoFields
<1>2. Become(c, w)
  BY DEF Goto
<1> HIDE DEF w
<1> QED
  BY <1>1, <1>2, PlainOK DEF TypeInv, TypeOK, w

LEMMA CountUsersType == ASSUME TypeInv, NEW c \in Calls, CountUsers(c) PROVE TypeInv'
<1> DEFINE w == [call[c] EXCEPT !.pc = "insert"]
<1>1. call[c].pc = "count" /\ UNCHANGED <<users, sessions, tokens, failures, now>>
  BY DEF CountUsers, At
<1>2. CASE Goto(c, "refused")
  BY <1>1, <1>2, AnswerOK
<1>3. CASE Goto(c, "insert")
  <2>1. /\ w.pc = "insert" /\ w.req = call[c].req /\ w.me = call[c].me
        /\ w.wrote = call[c].wrote
    BY Known, GotoFields DEF Awaits
  <2> HIDE DEF w
  <2>2. LocalsOK(w, users, sessions, tokens)
    BY <1>1, <2>1, Known DEF LocalsOK, Opening, Ended
  <2> QED
    BY <1>1, <1>3, <2>2, GoOnOK DEF w, Awaits
<1> QED
  BY <1>2, <1>3 DEF CountUsers

LEMMA LookupType == ASSUME TypeInv, NEW c \in Calls, LookupPassword(c) PROVE TypeInv'
<1> DEFINE v == call[c]
           w == [v EXCEPT !.pc = "verify", !.found = users[v.req.user]]
<1>1. /\ v \in CallStates /\ v.pc = "lookup" /\ v.req # None /\ v.req.kind = "login"
      /\ v.req.user \in Users
  <2>1. v.pc = "lookup"
    BY DEF LookupPassword, At
  <2> QED
    BY <2>1, Known DEF LocalsOK, Complete, OwnKinds
<1>2. users[v.req.user] \in UserRows \cup {None}
  BY <1>1 DEF TypeInv, TypeOK
<1>3. /\ w \in CallStates /\ w.pc = "verify" /\ w.req = v.req /\ w.me = v.me
      /\ w.wrote = v.wrote /\ w.found = users[v.req.user]
  BY <1>1, <1>2 DEF CallStates
<1>4. Become(c, w) /\ UNCHANGED <<users, sessions, tokens, failures, now>>
  BY DEF LookupPassword
<1> HIDE DEF w
<1>5. LocalsOK(w, users, sessions, tokens)
  BY <1>1, <1>3, Known DEF LocalsOK, Opening, Ended
<1> QED
  BY <1>3, <1>4, <1>5, PlainOK DEF TypeInv, TypeOK

LEMMA RecordLoginType == ASSUME TypeInv, NEW c \in Calls, RecordLogin(c) PROVE TypeInv'
  BY AnswerOK DEF RecordLogin, At

LEMMA ReadHashType == ASSUME TypeInv, NEW c \in Calls, ReadHash(c) PROVE TypeInv'
<1> DEFINE w == [call[c] EXCEPT !.pc = "set_password"]
<1>1. call[c].pc = "read_hash" /\ UNCHANGED <<users, sessions, tokens, failures, now>>
  BY DEF ReadHash, At
<1>2. CASE Goto(c, "refused")
  BY <1>1, <1>2, AnswerOK
<1>3. CASE Goto(c, "set_password")
  <2>1. /\ w.pc = "set_password" /\ w.req = call[c].req /\ w.me = call[c].me
        /\ w.wrote = call[c].wrote /\ Subject(w) = Subject(call[c])
    BY Known, GotoFields DEF Awaits
  <2>2. Subject(call[c]) = call[c].me
    BY <1>1, Known DEF LocalsOK, Subject, OwnKinds
  <2> HIDE DEF w
  <2>3. LocalsOK(w, users, sessions, tokens)
    BY <1>1, <2>1, <2>2, Known DEF LocalsOK, Opening, Ended
  <2> QED
    BY <1>1, <1>3, <2>3, GoOnOK DEF w, Awaits
<1> QED
  BY <1>2, <1>3 DEF ReadHash

LEMMA CountAdminsType == ASSUME TypeInv, NEW c \in Calls, CountAdmins(c) PROVE TypeInv'
<1> DEFINE w == [call[c] EXCEPT !.pc = "write"]
<1>1. call[c].pc = "count_admins" /\ UNCHANGED <<users, sessions, tokens, failures, now>>
  BY DEF CountAdmins, At
<1>2. CASE Goto(c, "refused")
  BY <1>1, <1>2, AnswerOK
<1>3. CASE Goto(c, "write")
  <2>1. /\ w.pc = "write" /\ w.req = call[c].req /\ w.me = call[c].me
        /\ w.wrote = call[c].wrote /\ w.found = call[c].found
    BY Known, GotoFields DEF Awaits
  <2> HIDE DEF w
  <2>2. LocalsOK(w, users, sessions, tokens)
    BY <1>1, <2>1, Known DEF LocalsOK, Opening, Ended
  <2> QED
    BY <1>1, <1>3, <2>2, GoOnOK DEF w, Awaits
<1> QED
  BY <1>2, <1>3 DEF CountAdmins

LEMMA AuditType == ASSUME TypeInv, NEW c \in Calls, Audit(c) PROVE TypeInv'
<1> DEFINE w == [call[c] EXCEPT !.pc = "expire"]
<1>1. /\ call[c].pc = "audit" /\ UNCHANGED <<users, sessions, tokens, failures, now>>
      /\ call[c].then \in {"done", "refused"}
  BY Known DEF Audit, At, CallStates
<1>2. CASE Goto(c, call[c].then)
  BY <1>1, <1>2, AnswerOK
<1>3. CASE /\ call[c].then = "done" /\ call[c].req.kind \in {"setup", "login"}
           /\ Goto(c, "expire")
  <2>1. /\ w.pc = "expire" /\ w.req = call[c].req /\ w.me = call[c].me
        /\ w.wrote = call[c].wrote /\ w.then = call[c].then
    BY Known, GotoFields DEF Awaits
  <2> HIDE DEF w
  <2>2. LocalsOK(w, users, sessions, tokens)
    BY <1>1, <1>3, <2>1, Known DEF LocalsOK, Opening, Ended
  <2> QED
    BY <1>1, <1>3, <2>2, GoOnOK DEF w, Awaits
<1> QED
  BY <1>2, <1>3 DEF Audit

LEMMA FailsType == ASSUME TypeInv, NEW c \in Calls, Fails(c) PROVE TypeInv'
<1> DEFINE w == [call[c] EXCEPT !.pc = "stranded"]
<1>1. /\ call[c].pc \notin Ended \cup {"idle", "verify", "audit"}
      /\ UNCHANGED <<users, sessions, tokens, failures, now>>
  BY DEF Fails
<1>2. CASE Goto(c, "failed")
  BY <1>1, <1>2, AnswerOK
<1>3. CASE call[c].pc = "end_sessions" /\ Goto(c, "stranded")
  <2>1. /\ w.pc = "stranded" /\ w.req = call[c].req /\ w.me = call[c].me
        /\ w.wrote = call[c].wrote /\ Subject(w) = Subject(call[c])
    <3>1. "stranded" \in Awaits /\ call[c] \in CallStates
      BY Known DEF Awaits, Ended
    <3> QED
      BY <3>1, GotoFields
  <2> HIDE DEF w
  <2>2. LocalsOK(w, users, sessions, tokens)
    BY <1>1, <1>3, <2>1, Known DEF LocalsOK, Opening, Ended
  <2> QED
    BY <1>1, <1>3, <2>2, GoOnOK DEF w, Awaits, Ended
<1> QED
  BY <1>2, <1>3 DEF Fails, Cut

LEMMA ReadUserType == ASSUME TypeInv, NEW c \in Calls, ReadUser(c) PROVE TypeInv'
<1> DEFINE v == call[c]
           r == [v EXCEPT !.found = users[v.req.user], !.missed = {}]
<1>1. /\ v \in CallStates /\ v.req # None /\ Complete(v.req) /\ v.req.user \in Users
      /\ v.req.kind \in {"update_user", "reset_password"} /\ ~v.wrote
      /\ v.me # None => users[v.me] # None /\ Presented(v.req, sessions, tokens)
  <2>1. v.pc = "read"
    BY DEF ReadUser, At
  <2>2. /\ v \in CallStates /\ LocalsOK(v, users, sessions, tokens)
        /\ v.req # None /\ Complete(v.req) /\ v.req.user \in Users \cup {None}
    BY <2>1, Known
  <2> HIDE DEF v
  <2> QED
    BY <2>1, <2>2 DEF LocalsOK, Opening, Ended, Complete, OwnKinds
<1>2. UNCHANGED <<users, sessions, tokens, failures, now>>
  BY DEF ReadUser
<1>3. users[v.req.user] \in UserRows \cup {None}
  BY <1>1 DEF TypeInv, TypeOK
<1>4. /\ r \in CallStates /\ r.req = v.req /\ r.me = v.me /\ r.found = users[v.req.user]
      /\ r.wrote = v.wrote
  BY <1>1, <1>3 DEF CallStates
<1>5. PICK pc \in {"refused", "set_password", "write", "count_admins"} :
         /\ Become(c, [r EXCEPT !.pc = pc])
         /\ pc = "set_password" => r.found # None /\ r.req.kind = "reset_password"
         /\ pc \in {"write", "count_admins"} => r.found # None /\ r.req.kind # "reset_password"
  <2> HIDE DEF r
  <2>1. Become(c, [r EXCEPT !.pc = IF r.found = None THEN "refused"
                                   ELSE IF r.req.kind = "reset_password" THEN "set_password"
                                   ELSE IF ~LosesAdmin(r) THEN "write"
                                   ELSE IF r.me = r.req.user THEN "refused" ELSE "count_admins"])
    BY DEF ReadUser, r
  <2> QED
    BY <2>1
<1> DEFINE w == [r EXCEPT !.pc = pc]
<1> HIDE DEF r
<1>6. /\ w \in CallStates /\ w.pc = pc /\ w.req = v.req /\ w.me = v.me /\ w.found = r.found
      /\ w.wrote = v.wrote
  BY <1>4, <1>5, GotoFields DEF Awaits, Ended
<1>7. pc = "set_password" => Subject(w) = v.req.user
  BY <1>1, <1>5, <1>4, <1>6 DEF Subject, OwnKinds
<1> HIDE DEF w, v
<1>8. LocalsOK(w, users, sessions, tokens)
  BY <1>1, <1>4, <1>5, <1>6, <1>7, Outsiders DEF LocalsOK, Opening, Ended
<1> QED
  BY <1>2, <1>5, <1>6, <1>8, PlainOK DEF TypeInv, TypeOK, w

LEMMA VerifiedType == ASSUME TypeInv, NEW c \in Calls, Verified(c) PROVE TypeInv'
<1> DEFINE v == call[c]
<1>1. /\ v \in CallStates /\ v.pc = "verify" /\ v.req # None /\ Complete(v.req)
      /\ v.req.kind = "login" /\ v.req.user \in Users /\ LocalsOK(v, users, sessions, tokens)
  <2>1. v.pc = "verify"
    BY DEF Verified, At
  <2> QED
    BY <2>1, Known DEF LocalsOK, Complete, OwnKinds
<1>2. UNCHANGED <<users, sessions, tokens, now>>
  BY DEF Verified
<1>3. /\ failures \in [ThrottleKeys -> SUBSET [call : Calls, at : Nat]] /\ now \in Nat
      /\ users \in [Users -> UserRows \cup {None}]
  BY DEF TypeInv, TypeOK
<1>4. CASE Valid(v)
  <2> DEFINE w == [v EXCEPT !.pc = "audit"]
  <2>1. failures' = [failures EXCEPT ![v.req.user] = {}] /\ Become(c, w)
    BY <1>4 DEF Verified, Goto
  <2>2. failures' \in [ThrottleKeys -> SUBSET [call : Calls, at : Nat]]
    BY <1>3, <2>1
  <2>3. /\ w \in CallStates /\ w.pc = "audit" /\ w.req = v.req /\ w.me = v.me
        /\ w.wrote = v.wrote
    BY <1>1 DEF CallStates
  <2>4. users[v.req.user] # None
    BY <1>1, <1>4 DEF LocalsOK, Valid
  <2> HIDE DEF w
  <2>5. LocalsOK(w, users, sessions, tokens)
    BY <1>1, <2>3, <2>4 DEF LocalsOK, Opening, Ended
  <2> QED
    BY <1>2, <2>1, <2>2, <2>3, <2>5, PlainOK
<1>5. CASE ~Valid(v)
  <2> DEFINE w == [v EXCEPT !.pc = "audit", !.then = "refused"]
  <2>1. /\ failures' = [k \in ThrottleKeys |->
                           IF k \in KeysOf(v.req) THEN Recent(k) \cup {[call |-> c, at |-> now]}
                           ELSE failures[k]]
        /\ call' = [d \in Calls |-> IF d = c THEN w ELSE Behind(c, d, {"lookup", "verify"})]
    BY <1>5 DEF Verified
  <2>2. failures' \in [ThrottleKeys -> SUBSET [call : Calls, at : Nat]]
    BY <1>3, <2>1 DEF Recent
  <2>3. /\ w \in CallStates /\ w.pc = "audit" /\ w.then = "refused" /\ w.req = v.req
        /\ w.me = v.me /\ w.wrote = v.wrote
    BY <1>1 DEF CallStates
  <2> HIDE DEF w
  <2>4. Moves(c, w)
    BY <2>1, <2>3, BehindMoves DEF TypeInv
  <2>5. LocalsOK(w, users', sessions', tokens')
    BY <1>1, <1>2, <2>3 DEF LocalsOK, Opening, Ended
  <2>6. Grows /\ TablesOK(users', sessions', tokens')
    BY <1>2 DEF Grows, TablesOK, TypeInv, TypeOK
  <2> QED
    BY <1>2, <1>3, <2>2, <2>4, <2>5, <2>6, MoveOK
<1> QED
  BY <1>4, <1>5

\* The steps that write the sessions or the tokens.
LEMMA SessionsOK ==
    ASSUME TypeInv, NEW c \in Calls, NEW w \in CallStates, Become(c, w),
           UNCHANGED <<users, failures, now>>,
           sessions' \in [SessionIds -> SessionRows \cup {None, Gone}],
           tokens' \in [TokenIds -> TokenRows \cup {None, Gone}],
           \A s \in SessionIds : IsRow(sessions'[s]) => users[sessions'[s].user] # None,
           \A t \in TokenIds : IsRow(tokens'[t]) => users[tokens'[t].user] # None,
           \A s \in SessionIds : sessions[s] # None => sessions'[s] # None,
           \A t \in TokenIds : tokens[t] # None => tokens'[t] # None,
           LocalsOK(w, users, sessions', tokens')
    PROVE  TypeInv'
<1>1. Moves(c, w)
  BY BecomeMoves DEF TypeInv
<1>2. Grows
  BY DEF Grows
<1>3. TablesOK(users', sessions', tokens') /\ LocalsOK(w, users', sessions', tokens')
  BY DEF TypeInv, TypeOK, TablesOK, RowsOK
<1>4. now' \in Nat /\ failures' \in [ThrottleKeys -> SUBSET [call : Calls, at : Nat]]
  BY DEF TypeInv, TypeOK
<1> QED
  BY <1>1, <1>2, <1>3, <1>4, MoveOK

LEMMA TouchType == ASSUME TypeInv, NEW c \in Calls, Touch(c) PROVE TypeInv'
<1> DEFINE v == call[c]
           w == [v EXCEPT !.pc = Entry(v)]
<1>1. /\ v \in CallStates /\ v.req # None /\ Complete(v.req) /\ v.req.kind \in Signed
      /\ ~v.wrote /\ v.me # None /\ users[v.me] # None
      /\ Presented(v.req, sessions, tokens)
  <2>1. v.pc = "touch"
    BY DEF Touch, At
  <2>2. /\ v \in CallStates /\ LocalsOK(v, users, sessions, tokens)
        /\ v.req # None /\ Complete(v.req)
    BY <2>1, Known
  <2> HIDE DEF v
  <2> QED
    BY <2>1, <2>2 DEF LocalsOK, Opening, Ended
<1>2. now \in Nat /\ RowsOK(users, sessions, tokens)
  BY DEF TypeInv, TypeOK
<1>3. /\ sessions \in [SessionIds -> SessionRows \cup {None, Gone}]
      /\ tokens \in [TokenIds -> TokenRows \cup {None, Gone}]
  BY DEF TypeInv, TypeOK
<1>4. /\ Become(c, w)
      /\ sessions' = IF v.req.via = "session" /\ IsRow(sessions[v.req.cred])
                     THEN [sessions EXCEPT ![v.req.cred].seen = now] ELSE sessions
      /\ tokens' = IF v.req.via = "api_token" /\ IsRow(tokens[v.req.cred])
                   THEN [tokens EXCEPT ![v.req.cred].seen = now] ELSE tokens
      /\ UNCHANGED <<users, failures, now>>
  BY DEF Touch, Goto
<1>5. ASSUME NEW s \in SessionIds
      PROVE  /\ sessions'[s] \in SessionRows \cup {None, Gone}
             /\ sessions[s] # None => sessions'[s] # None
             /\ IsRow(sessions'[s]) => users[sessions'[s].user] # None
  <2>1. CASE sessions'[s] = sessions[s]
    BY <1>2, <1>3, <2>1 DEF RowsOK
  <2>2. CASE IsRow(sessions[s]) /\ sessions'[s] = [sessions[s] EXCEPT !.seen = now]
    <3>1. sessions[s] \in SessionRows /\ users[sessions[s].user] # None
      BY <1>2, <1>3, <2>2 DEF RowsOK, IsRow
    <3>2. sessions'[s] \in SessionRows /\ sessions'[s].user = sessions[s].user
      BY <1>2, <2>2, <3>1 DEF SessionRows
    <3> QED
      BY <3>1, <3>2, Outsiders
  <2> QED
    BY <1>3, <1>4, <2>1, <2>2
<1>6. ASSUME NEW t \in TokenIds
      PROVE  /\ tokens'[t] \in TokenRows \cup {None, Gone}
             /\ tokens[t] # None => tokens'[t] # None
             /\ IsRow(tokens'[t]) => users[tokens'[t].user] # None
  <2>1. CASE tokens'[t] = tokens[t]
    BY <1>2, <1>3, <2>1 DEF RowsOK
  <2>2. CASE IsRow(tokens[t]) /\ tokens'[t] = [tokens[t] EXCEPT !.seen = now]
    <3>1. tokens[t] \in TokenRows /\ users[tokens[t].user] # None
      BY <1>2, <1>3, <2>2 DEF RowsOK, IsRow
    <3>2. tokens'[t] \in TokenRows /\ tokens'[t].user = tokens[t].user
      BY <1>2, <2>2, <3>1 DEF TokenRows
    <3> QED
      BY <3>1, <3>2, Outsiders
  <2> QED
    BY <1>3, <1>4, <2>1, <2>2
<1>7. Presented(v.req, sessions', tokens')
  BY <1>1, <1>5, <1>6 DEF Presented, Complete
<1>8. w \in CallStates /\ LocalsOK(w, users, sessions', tokens')
  <2> HIDE DEF v
  <2> QED
    BY <1>1, <1>7, EntryOK
<1>9. /\ sessions' \in [SessionIds -> SessionRows \cup {None, Gone}]
      /\ tokens' \in [TokenIds -> TokenRows \cup {None, Gone}]
  BY <1>3, <1>4, <1>5, <1>6
<1> HIDE DEF w
<1> QED
  BY <1>4, <1>5, <1>6, <1>8, <1>9, SessionsOK

\* A session or token that is deleted stays in its table as Gone.
LEMMA DeletedOK ==
    ASSUME TypeInv, NEW gone,
           sessions' = [s \in SessionIds |-> IF s \in gone THEN Gone ELSE sessions[s]]
    PROVE  /\ sessions' \in [SessionIds -> SessionRows \cup {None, Gone}]
           /\ \A s \in SessionIds : IsRow(sessions'[s]) => users[sessions'[s].user] # None
           /\ \A s \in SessionIds : sessions[s] # None => sessions'[s] # None
  BY Outsiders DEF TypeInv, TypeOK, RowsOK, IsRow

LEMMA DeleteExpiredType == ASSUME TypeInv, NEW c \in Calls, DeleteExpired(c) PROVE TypeInv'
<1> DEFINE v == call[c]
           w == [v EXCEPT !.pc = "open"]
           gone == {s \in SessionIds : IsRow(sessions[s]) /\ sessions[s].expires <= now}
<1>1. /\ v \in CallStates /\ v.pc = "expire" /\ v.req # None /\ Complete(v.req)
      /\ LocalsOK(v, users, sessions, tokens)
  <2>1. v.pc = "expire"
    BY DEF DeleteExpired, At
  <2> QED
    BY <2>1, Known
<1>2. /\ sessions' = [s \in SessionIds |-> IF s \in gone THEN Gone ELSE sessions[s]]
      /\ Become(c, w) /\ UNCHANGED <<users, tokens, failures, now>>
  BY DEF DeleteExpired, Goto
<1>3. /\ w \in CallStates /\ w.pc = "open" /\ w.req = v.req /\ w.me = v.me
      /\ w.wrote = v.wrote /\ w.then = v.then
  BY <1>1 DEF CallStates
<1> HIDE DEF gone
<1>4. /\ sessions' \in [SessionIds -> SessionRows \cup {None, Gone}]
      /\ \A s \in SessionIds : IsRow(sessions'[s]) => users[sessions'[s].user] # None
      /\ \A s \in SessionIds : sessions[s] # None => sessions'[s] # None
  BY <1>2, DeletedOK
<1>5. Presented(v.req, sessions, tokens) => Presented(v.req, sessions', tokens')
  BY <1>1, <1>2, <1>4 DEF Presented, Complete
<1> HIDE DEF w, v
<1>6. LocalsOK(w, users, sessions', tokens')
  BY <1>1, <1>2, <1>3, <1>5 DEF LocalsOK, Opening, Ended
<1> QED
  BY <1>2, <1>3, <1>4, <1>6, SessionsOK DEF TypeInv, TypeOK, RowsOK

LEMMA OpenSessionType == ASSUME TypeInv, NEW c \in Calls, OpenSession(c) PROVE TypeInv'
<1> DEFINE v == call[c]
           w == [v EXCEPT !.pc = "record_login"]
           row == [user |-> v.req.user, expires |-> now + SessionTTL, seen |-> now,
                   opened |-> v.req.password]
<1>1. /\ v \in CallStates /\ v.pc = "open" /\ v.req # None /\ Complete(v.req)
      /\ v.req \in RequestRecords /\ LocalsOK(v, users, sessions, tokens)
  <2>1. v.pc = "open"
    BY DEF OpenSession, At
  <2> QED
    BY <2>1, Known
<1>2. /\ sessions' = [sessions EXCEPT ![c] = row]
      /\ Become(c, w) /\ UNCHANGED <<users, tokens, failures, now>>
  BY DEF OpenSession, Goto
<1>3. /\ w \in CallStates /\ w.pc = "record_login" /\ w.req = v.req /\ w.me = v.me
      /\ w.wrote = v.wrote /\ w.then = v.then
  BY <1>1 DEF CallStates
<1>4. v.req.user \in Users /\ v.req.password \in Passwords /\ users[v.req.user] # None
  BY <1>1 DEF LocalsOK, Complete, Opening, OwnKinds, RequestRecords
<1>5. row \in SessionRows /\ row # None /\ row.user = v.req.user
  <2>1. now \in Nat /\ SessionTTL \in Nat
    BY AccountsAssumption DEF AccountsAssumption, TypeInv, TypeOK
  <2> QED
    BY <1>4, <2>1, Outsiders DEF SessionRows
<1> HIDE DEF row
<1>6. /\ sessions' \in [SessionIds -> SessionRows \cup {None, Gone}]
      /\ \A s \in SessionIds : IsRow(sessions'[s]) => users[sessions'[s].user] # None
      /\ \A s \in SessionIds : sessions[s] # None => sessions'[s] # None
  BY <1>2, <1>4, <1>5 DEF TypeInv, TypeOK, RowsOK, SessionIds
<1>7. Presented(v.req, sessions, tokens) => Presented(v.req, sessions', tokens')
  BY <1>1, <1>2, <1>6 DEF Presented, Complete
<1> HIDE DEF w, v
<1>8. LocalsOK(w, users, sessions', tokens')
  BY <1>1, <1>2, <1>3, <1>7 DEF LocalsOK, Opening, Ended
<1> QED
  BY <1>2, <1>3, <1>6, <1>8, SessionsOK DEF TypeInv, TypeOK, RowsOK

\* A call that has made its change and goes on to record it.
LEMMA WroteFields ==
    ASSUME NEW v \in CallStates
    PROVE  LET w == [v EXCEPT !.pc = "audit", !.wrote = TRUE] IN
           /\ w \in CallStates /\ w.pc = "audit" /\ w.req = v.req /\ w.me = v.me
           /\ w.wrote = TRUE /\ w.then = v.then
  BY DEF CallStates

LEMMA LogoutType == ASSUME TypeInv, NEW c \in Calls, Logout(c) PROVE TypeInv'
<1> DEFINE v == call[c]
           w == [v EXCEPT !.pc = "audit", !.wrote = TRUE]
<1>1. /\ v \in CallStates /\ v.req # None /\ Complete(v.req)
      /\ v.req.kind = "logout" /\ v.req.via = "session" /\ v.req.cred \in SessionIds
      /\ v.me # None => users[v.me] # None /\ Presented(v.req, sessions, tokens)
  <2>1. v.pc = "delete_session"
    BY DEF Logout, At
  <2>2. /\ v \in CallStates /\ LocalsOK(v, users, sessions, tokens)
        /\ v.req # None /\ Complete(v.req)
    BY <2>1, Known
  <2> HIDE DEF v
  <2> QED
    BY <2>1, <2>2 DEF LocalsOK, Complete
<1>2. /\ sessions' = [s \in SessionIds |-> IF s \in {v.req.cred} THEN Gone ELSE sessions[s]]
      /\ Become(c, w) /\ UNCHANGED <<users, tokens, failures, now>>
  BY <1>1 DEF Logout, TypeInv, TypeOK
<1>3. /\ w \in CallStates /\ w.pc = "audit" /\ w.req = v.req /\ w.me = v.me
      /\ w.wrote = TRUE /\ w.then = v.then
  BY <1>1, WroteFields
<1>4. /\ sessions' \in [SessionIds -> SessionRows \cup {None, Gone}]
      /\ \A s \in SessionIds : IsRow(sessions'[s]) => users[sessions'[s].user] # None
      /\ \A s \in SessionIds : sessions[s] # None => sessions'[s] # None
  <2> DEFINE gone == {v.req.cred}
  <2>1. sessions' = [s \in SessionIds |-> IF s \in gone THEN Gone ELSE sessions[s]]
    BY <1>2
  <2> HIDE DEF gone
  <2> QED
    BY <2>1, DeletedOK
<1>5. Presented(v.req, sessions, tokens) => Presented(v.req, sessions', tokens')
  BY <1>1, <1>2, <1>4 DEF Presented, Complete
<1> HIDE DEF w, v
<1>6. LocalsOK(w, users, sessions', tokens')
  BY <1>1, <1>2, <1>3, <1>5 DEF LocalsOK, Opening, Ended
<1> QED
  BY <1>2, <1>3, <1>4, <1>6, SessionsOK DEF TypeInv, TypeOK, RowsOK

LEMMA EndSessionsType == ASSUME TypeInv, NEW c \in Calls, EndSessions(c) PROVE TypeInv'
<1> DEFINE v == call[c]
           w == [v EXCEPT !.pc = "audit"]
           gone == {s \in SessionIds : /\ IsRow(sessions[s]) /\ sessions[s].user = Subject(v)
                                      /\ s # Kept(v)}
<1>1. /\ v \in CallStates /\ v.pc = "end_sessions" /\ v.req # None /\ Complete(v.req)
      /\ LocalsOK(v, users, sessions, tokens)
  <2>1. v.pc = "end_sessions"
    BY DEF EndSessions, At
  <2> QED
    BY <2>1, Known
<1>2. /\ sessions' = [s \in SessionIds |-> IF s \in gone THEN Gone ELSE sessions[s]]
      /\ Become(c, w) /\ UNCHANGED <<users, tokens, failures, now>>
  BY DEF EndSessions, Goto
<1>3. /\ w \in CallStates /\ w.pc = "audit" /\ w.req = v.req /\ w.me = v.me
      /\ w.wrote = v.wrote /\ w.then = v.then
  BY <1>1, GotoFields DEF Awaits
<1> HIDE DEF gone
<1>4. /\ sessions' \in [SessionIds -> SessionRows \cup {None, Gone}]
      /\ \A s \in SessionIds : IsRow(sessions'[s]) => users[sessions'[s].user] # None
      /\ \A s \in SessionIds : sessions[s] # None => sessions'[s] # None
  BY <1>2, DeletedOK
<1>5. Presented(v.req, sessions, tokens) => Presented(v.req, sessions', tokens')
  BY <1>1, <1>2, <1>4 DEF Presented, Complete
<1> HIDE DEF w, v
<1>6. LocalsOK(w, users, sessions', tokens')
  BY <1>1, <1>2, <1>3, <1>5 DEF LocalsOK, Opening, Ended
<1> QED
  BY <1>2, <1>3, <1>4, <1>6, SessionsOK DEF TypeInv, TypeOK, RowsOK

LEMMA InsertTokenType == ASSUME TypeInv, NEW c \in Calls, InsertToken(c) PROVE TypeInv'
<1> DEFINE v == call[c]
           w == [v EXCEPT !.pc = "audit", !.wrote = TRUE]
           row == [user |-> v.me, seen |-> None]
<1>1. /\ v \in CallStates /\ v.req # None /\ Complete(v.req) /\ v.req.kind = "create_token"
      /\ v.me \in Users /\ users[v.me] # None /\ Presented(v.req, sessions, tokens)
  <2>1. v.pc = "insert_token"
    BY DEF InsertToken, At
  <2>2. /\ v \in CallStates /\ LocalsOK(v, users, sessions, tokens)
        /\ v.req # None /\ Complete(v.req) /\ v.me \in Users \cup {None}
    BY <2>1, Known
  <2> HIDE DEF v
  <2> QED
    BY <2>1, <2>2 DEF LocalsOK
<1>2. /\ tokens' = [tokens EXCEPT ![c] = row]
      /\ Become(c, w) /\ UNCHANGED <<users, sessions, failures, now>>
  BY DEF InsertToken
<1>3. /\ w \in CallStates /\ w.pc = "audit" /\ w.req = v.req /\ w.me = v.me
      /\ w.wrote = TRUE /\ w.then = v.then
  BY <1>1, WroteFields
<1>4. row \in TokenRows /\ row # None /\ row.user = v.me
  BY <1>1, Outsiders DEF TokenRows
<1> HIDE DEF row
<1>5. /\ tokens' \in [TokenIds -> TokenRows \cup {None, Gone}]
      /\ \A t \in TokenIds : IsRow(tokens'[t]) => users[tokens'[t].user] # None
      /\ \A t \in TokenIds : tokens[t] # None => tokens'[t] # None
  BY <1>1, <1>2, <1>4 DEF TypeInv, TypeOK, RowsOK, TokenIds
<1>6. Presented(v.req, sessions, tokens) => Presented(v.req, sessions', tokens')
  BY <1>1, <1>2, <1>5 DEF Presented, Complete
<1> HIDE DEF w, v
<1>7. LocalsOK(w, users, sessions', tokens')
  BY <1>1, <1>2, <1>3, <1>6 DEF LocalsOK, Opening, Ended
<1> QED
  BY <1>2, <1>3, <1>5, <1>7, SessionsOK DEF TypeInv, TypeOK, RowsOK

LEMMA DeleteTokenType == ASSUME TypeInv, NEW c \in Calls, DeleteToken(c) PROVE TypeInv'
<1> DEFINE v == call[c]
           w == [v EXCEPT !.pc = "audit", !.wrote = TRUE]
<1>1. /\ v.pc = "delete_token"
      /\ v \in CallStates /\ v.req # None /\ Complete(v.req) /\ v.req.kind = "delete_token"
      /\ v.req.target \in TokenIds /\ v.me # None
      /\ users[v.me] # None /\ Presented(v.req, sessions, tokens)
  <2>1. v.pc = "delete_token"
    BY DEF DeleteToken, At
  <2>2. /\ v \in CallStates /\ LocalsOK(v, users, sessions, tokens)
        /\ v.req # None /\ Complete(v.req) /\ v.req \in RequestRecords
    BY <2>1, Known
  <2> HIDE DEF v
  <2> QED
    BY <2>1, <2>2 DEF LocalsOK, Complete, RequestRecords
<1>2. CASE UNCHANGED tokens /\ Goto(c, "refused")
  BY <1>1, <1>2, AnswerOK DEF DeleteToken
<1>3. CASE tokens' = [tokens EXCEPT ![v.req.target] = Gone] /\ Become(c, w)
  <2>1. UNCHANGED <<users, sessions, failures, now>>
    BY DEF DeleteToken
  <2>2. /\ w \in CallStates /\ w.pc = "audit" /\ w.req = v.req /\ w.me = v.me
        /\ w.wrote = TRUE /\ w.then = v.then
    BY <1>1, WroteFields
  <2>3. /\ tokens' \in [TokenIds -> TokenRows \cup {None, Gone}]
        /\ \A t \in TokenIds : IsRow(tokens'[t]) => users[tokens'[t].user] # None
        /\ \A t \in TokenIds : tokens[t] # None => tokens'[t] # None
    BY <1>1, <1>3, Outsiders DEF TypeInv, TypeOK, RowsOK, IsRow
  <2>4. Presented(v.req, sessions', tokens')
    BY <1>1, <2>1, <2>3 DEF Presented, Complete
  <2> HIDE DEF w, v
  <2>5. LocalsOK(w, users, sessions', tokens')
    BY <1>1, <2>1, <2>2, <2>4 DEF LocalsOK, Opening, Ended
  <2> QED
    BY <1>3, <2>1, <2>2, <2>3, <2>5, SessionsOK DEF TypeInv, TypeOK, RowsOK
<1> QED
  BY <1>2, <1>3 DEF DeleteToken

\* The steps that write the users: each writes a row, over one there was or in a place of its own.
LEMMA CommitOK ==
    ASSUME TypeInv, NEW c \in Calls, NEW u \in Users, NEW row \in UserRows,
           NEW pc \in {"done", "audit", "end_sessions"},
           Commit(c, [users EXCEPT ![u] = row], pc), UNCHANGED <<sessions, tokens, failures, now>>,
           call[c].pc \notin Ended \cup {"idle"},
           pc = "audit" /\ call[c].req.kind \in {"setup", "login"} => call[c].req.user = u,
           pc = "end_sessions" =>
              /\ call[c].req.kind \in {"change_password", "reset_password", "update_user"}
              /\ Subject(call[c]) = u
    PROVE  TypeInv'
<1> DEFINE v == call[c]
           w == [v EXCEPT !.pc = pc, !.wrote = TRUE]
<1>1. /\ v \in CallStates /\ v.req # None /\ Complete(v.req) /\ v.me \in Users \cup {None}
      /\ LocalsOK(v, users, sessions, tokens)
  BY Known
<1>2. /\ w \in CallStates /\ w.pc = pc /\ w.req = v.req /\ w.me = v.me /\ w.wrote = TRUE
      /\ w.then = v.then /\ Subject(w) = Subject(v)
  BY <1>1 DEF CallStates, Ended, Subject
<1>3. Moves(c, w)
  BY <1>2, CommitMoves DEF TypeInv
<1>4. /\ users' \in [Users -> UserRows \cup {None}] /\ users'[u] # None
      /\ \A x \in Users : users[x] # None => users'[x] # None
  BY Outsiders DEF Commit, TypeInv, TypeOK
<1>5. Grows
  BY <1>4 DEF Grows
<1>6. TablesOK(users', sessions', tokens')
  <2>1. ASSUME NEW s \in SessionIds, IsRow(sessions[s]) PROVE users'[sessions[s].user] # None
    <3>1. sessions[s].user \in Users /\ users[sessions[s].user] # None
      BY <2>1 DEF TypeInv, TypeOK, RowsOK, IsRow, SessionRows
    <3> QED
      BY <3>1, <1>4
  <2>2. ASSUME NEW t \in TokenIds, IsRow(tokens[t]) PROVE users'[tokens[t].user] # None
    <3>1. tokens[t].user \in Users /\ users[tokens[t].user] # None
      BY <2>2 DEF TypeInv, TypeOK, RowsOK, IsRow, TokenRows
    <3> QED
      BY <3>1, <1>4
  <2> QED
    BY <1>4, <2>1, <2>2 DEF TablesOK, TypeInv, TypeOK, RowsOK
<1> HIDE DEF w, v
<1>7. LocalsOK(w, users', sessions', tokens')
  <2>1. v.pc # "idle" /\ (pc = "audit" /\ v.req.kind \in {"setup", "login"} => v.req.user = u)
    BY DEF v
  <2>2. pc = "end_sessions" =>
           /\ v.req.kind \in {"change_password", "reset_password", "update_user"}
           /\ Subject(v) = u
    BY DEF v
  <2>3. v.me # None => users'[v.me] # None /\ Presented(v.req, sessions', tokens')
    BY <1>1, <1>4 DEF LocalsOK
  <2> QED
    BY <1>1, <1>2, <1>4, <2>1, <2>2, <2>3, Outsiders DEF LocalsOK, Opening, Ended
<1>8. failures' \in [ThrottleKeys -> SUBSET [call : Calls, at : Nat]] /\ now' \in Nat
  BY DEF TypeInv, TypeOK
<1> QED
  BY <1>3, <1>5, <1>6, <1>7, <1>8, MoveOK

\* The row each of the three statements writes.
NewRow(req) ==
    [role |-> IF req.kind = "setup" THEN "admin" ELSE req.role, active |-> TRUE,
     password |-> req.password]
WithPassword(row, password) == [row EXCEPT !.password = password]
WithUpdate(row, w) == [row EXCEPT !.role = Updated(w).role, !.active = Updated(w).active]

LEMMA InsertUserRow ==
    ASSUME TypeInv, NEW c \in Calls, InsertUser(c)
    PROVE  /\ call[c].pc = "insert" /\ call[c].req # None /\ call[c].req.user \in Users
           /\ call[c].req.kind \in {"setup", "add_user", "create-user"}
           /\ Subject(call[c]) = call[c].req.user /\ NewRow(call[c].req) \in UserRows
           /\ \/ /\ users[call[c].req.user] = None
                 /\ Commit(c, [users EXCEPT ![call[c].req.user] = NewRow(call[c].req)],
                           IF call[c].req.kind = "create-user" THEN "done" ELSE "audit")
              \/ /\ users[call[c].req.user] # None /\ UNCHANGED users
                 /\ Goto(c, "failed") \/ Goto(c, "refused")
<1> DEFINE v == call[c]
<1>1. v.pc = "insert"
  BY DEF InsertUser, At
<1>2. /\ LocalsOK(v, users, sessions, tokens) /\ v.req # None /\ Complete(v.req)
      /\ v.req \in RequestRecords /\ v.req.user \in Users \cup {None}
  BY <1>1, Known
<1>3. \/ /\ users[v.req.user] = None
         /\ Commit(c, [users EXCEPT ![v.req.user] = NewRow(v.req)],
                   IF v.req.kind = "create-user" THEN "done" ELSE "audit")
      \/ /\ users[v.req.user] # None /\ UNCHANGED users
         /\ Goto(c, "failed") \/ Goto(c, "refused")
  BY DEF InsertUser, NewRow
<1> HIDE DEF v
<1>4. v.req.kind \in {"setup", "add_user", "create-user"} /\ v.req.user \in Users
  BY <1>1, <1>2 DEF LocalsOK, Complete, OwnKinds
<1>5. v.req.password \in Passwords /\ (v.req.kind # "setup" => v.req.role \in Roles)
  BY <1>2, <1>4 DEF Complete, RequestRecords
<1>6. NewRow(v.req) \in UserRows
  BY <1>4, <1>5 DEF NewRow, UserRows, Roles
<1>7. Subject(v) = v.req.user
  BY <1>4 DEF Subject, OwnKinds
<1> QED
  BY <1>1, <1>2, <1>3, <1>4, <1>6, <1>7 DEF v

LEMMA InsertUserType == ASSUME TypeInv, NEW c \in Calls, InsertUser(c) PROVE TypeInv'
<1>1. UNCHANGED <<sessions, tokens, failures, now>>
  BY DEF InsertUser
<1>2. CASE UNCHANGED users /\ (Goto(c, "failed") \/ Goto(c, "refused"))
  BY <1>1, <1>2, InsertUserRow, AnswerOK
<1>3. CASE Commit(c, [users EXCEPT ![call[c].req.user] = NewRow(call[c].req)],
                  IF call[c].req.kind = "create-user" THEN "done" ELSE "audit")
  BY <1>1, <1>3, InsertUserRow, CommitOK DEF Ended
<1> QED
  BY <1>2, <1>3, InsertUserRow

LEMMA SetPasswordRow ==
    ASSUME TypeInv, NEW c \in Calls, SetPassword(c)
    PROVE  LET u == Subject(call[c])
               row == WithPassword(users[u], call[c].req.new)
           IN  /\ call[c].pc = "set_password" /\ u \in Users /\ users[u] \in UserRows
               /\ call[c].req.kind \in {"change_password", "reset_password"}
               /\ call[c].req.new \in Passwords /\ row \in UserRows
               /\ Commit(c, [users EXCEPT ![u] = row], "end_sessions")
<1> DEFINE v == call[c]
           u == Subject(v)
           row == WithPassword(users[u], v.req.new)
<1>1. /\ v.pc = "set_password" /\ v.req.kind \in {"change_password", "reset_password"}
      /\ u \in Users /\ users[u] # None /\ v.req.new \in Passwords
  <2>1. v.pc = "set_password"
    BY DEF SetPassword, At
  <2>2. /\ LocalsOK(v, users, sessions, tokens) /\ v.req # None /\ Complete(v.req)
        /\ v.req \in RequestRecords /\ v.req.user \in Users \cup {None}
        /\ v.me \in Users \cup {None}
    BY <2>1, Known
  <2>3. Subject(v) \in Users \cup {None}
    BY <2>2 DEF Subject
  <2> HIDE DEF v
  <2> QED
    BY <2>1, <2>2, <2>3 DEF LocalsOK, Complete, RequestRecords
<1>2. users[u] \in UserRows
  BY <1>1 DEF TypeInv, TypeOK
<1>3. row \in UserRows /\ [users EXCEPT ![u].password = v.req.new] = [users EXCEPT ![u] = row]
  BY <1>1, <1>2 DEF UserRows, TypeInv, TypeOK, WithPassword
<1>4. Commit(c, [users EXCEPT ![u] = row], "end_sessions")
  BY <1>3 DEF SetPassword
<1> QED
  BY <1>1, <1>2, <1>3, <1>4

LEMMA SetPasswordType == ASSUME TypeInv, NEW c \in Calls, SetPassword(c) PROVE TypeInv'
<1> DEFINE u == Subject(call[c])
           row == WithPassword(users[u], call[c].req.new)
<1>1. /\ call[c].pc = "set_password" /\ u \in Users /\ row \in UserRows
      /\ call[c].req.kind \in {"change_password", "reset_password"}
      /\ Commit(c, [users EXCEPT ![u] = row], "end_sessions")
  BY SetPasswordRow
<1>2. UNCHANGED <<sessions, tokens, failures, now>>
  BY DEF SetPassword
<1> HIDE DEF row
<1> QED
  BY <1>1, <1>2, CommitOK DEF Ended

LEMMA WriteUserRow ==
    ASSUME TypeInv, NEW c \in Calls, WriteUser(c)
    PROVE  LET u == call[c].req.user
               row == WithUpdate(users[u], call[c])
           IN  /\ call[c].pc = "write" /\ u \in Users /\ users[u] \in UserRows
               /\ call[c].req.kind = "update_user" /\ Subject(call[c]) = u
               /\ call[c].found \in UserRows /\ row \in UserRows
               /\ Commit(c, [users EXCEPT ![u] = row],
                         IF Updated(call[c]).active THEN "audit" ELSE "end_sessions")
<1> DEFINE v == call[c]
           u == v.req.user
           new == Updated(v)
           row == WithUpdate(users[u], v)
<1>1. /\ v.pc = "write" /\ v.req.kind = "update_user" /\ v.req \in RequestRecords
      /\ u \in Users /\ users[u] # None /\ v.found \in UserRows
  <2>1. v.pc = "write"
    BY DEF WriteUser, At
  <2>2. /\ LocalsOK(v, users, sessions, tokens) /\ v.req # None /\ Complete(v.req)
        /\ v.req \in RequestRecords /\ v.req.user \in Users \cup {None}
        /\ v.found \in UserRows \cup {None}
    BY <2>1, Known DEF CallStates
  <2> HIDE DEF v
  <2> QED
    BY <2>1, <2>2 DEF LocalsOK, Complete, OwnKinds
<1>2. users[u] \in UserRows
  BY <1>1 DEF TypeInv, TypeOK
<1>3. new.role \in Roles /\ new.active \in BOOLEAN
  BY <1>1 DEF Updated, UserRows, RequestRecords
<1>4. row = [users[u] EXCEPT !.role = new.role, !.active = new.active]
  BY DEF WithUpdate
<1>5. /\ Commit(c, [users EXCEPT ![u].role = new.role, ![u].active = new.active],
                IF new.active THEN "audit" ELSE "end_sessions")
  BY DEF WriteUser
<1> HIDE DEF new, row
<1>6. /\ row \in UserRows
      /\ [users EXCEPT ![u].role = new.role, ![u].active = new.active] = [users EXCEPT ![u] = row]
  BY <1>1, <1>2, <1>3, <1>4 DEF UserRows, TypeInv, TypeOK
<1>7. Commit(c, [users EXCEPT ![u] = row], IF new.active THEN "audit" ELSE "end_sessions")
  BY <1>5, <1>6
<1>8. Subject(v) = u
  BY <1>1 DEF Subject, OwnKinds
<1> QED
  BY <1>1, <1>2, <1>6, <1>7, <1>8 DEF new, row

LEMMA WriteUserType == ASSUME TypeInv, NEW c \in Calls, WriteUser(c) PROVE TypeInv'
<1> DEFINE u == call[c].req.user
           row == WithUpdate(users[u], call[c])
           pc == IF Updated(call[c]).active THEN "audit" ELSE "end_sessions"
<1>1. /\ call[c].pc = "write" /\ u \in Users /\ row \in UserRows
      /\ call[c].req.kind = "update_user" /\ Subject(call[c]) = u
      /\ Commit(c, [users EXCEPT ![u] = row], pc)
  BY WriteUserRow
<1>2. UNCHANGED <<sessions, tokens, failures, now>>
  BY DEF WriteUser
<1>3. pc \in {"audit", "end_sessions"}
  OBVIOUS
<1> HIDE DEF row, pc
<1> QED
  BY <1>1, <1>2, <1>3, CommitOK DEF Ended

LEMMA RestartType == ASSUME TypeInv, Restart PROVE TypeInv'
<1>1. UNCHANGED <<users, sessions, tokens, now>>
  BY DEF Restart
<1>2. failures' \in [ThrottleKeys -> SUBSET [call : Calls, at : Nat]]
  BY DEF Restart
<1>3. ASSUME NEW c \in Calls
      PROVE  call'[c] \in CallStates /\ LocalsOK(call'[c], users, sessions, tokens)
  <2> DEFINE v == call[c]
             w == [v EXCEPT !.pc = Cut(v.pc)]
  <2>1. v \in CallStates /\ LocalsOK(v, users, sessions, tokens)
    BY Known
  <2>2. CASE v.pc \in Ended \cup {"idle"}
    <3>1. call'[c] = v
      BY <2>2 DEF Restart
    <3> QED
      BY <2>1, <3>1
  <2>3. CASE v.pc \notin Ended \cup {"idle"}
    <3>1. call'[c] = w
      BY <2>3 DEF Restart
    <3>2. Cut(v.pc) \in Awaits
      BY DEF Cut, Awaits, Ended
    <3>3. /\ w \in CallStates /\ w.pc = Cut(v.pc) /\ w.req = v.req /\ w.me = v.me
          /\ w.wrote = v.wrote /\ w.then = v.then /\ Subject(w) = Subject(v)
      BY <2>1, <3>2, GotoFields
    <3> HIDE DEF w, v
    <3>4. LocalsOK(w, users, sessions, tokens)
      BY <2>1, <2>3, <3>3 DEF LocalsOK, Opening, Ended, Cut
    <3> QED
      BY <3>1, <3>3, <3>4
  <2> QED
    BY <2>2, <2>3
<1>4. call' \in [Calls -> CallStates]
  BY <1>3 DEF Restart
<1> QED
  BY <1>1, <1>2, <1>3, <1>4 DEF TypeInv, TypeOK, RowsOK

LEMMA StepType == ASSUME TypeInv, [Next]_vars PROVE TypeInv'
<1>1. ASSUME NEW c \in Calls, Step(c) PROVE TypeInv'
  BY <1>1, ArriveType, AuthenticateType, TouchType, CountUsersType, InsertUserType, LookupType,
     VerifiedType, DeleteExpiredType, OpenSessionType, RecordLoginType, LogoutType, ReadHashType,
     SetPasswordType, EndSessionsType, InsertTokenType, DeleteTokenType, ReadUserType,
     CountAdminsType, WriteUserType, AuditType, FailsType, Zenon DEF Step
<1>2. CASE Restart
  BY <1>2, RestartType
<1>3. CASE Tick
  BY <1>3 DEF Tick, TypeInv, TypeOK, RowsOK
<1>4. CASE UNCHANGED vars
  BY <1>4 DEF vars, TypeInv, TypeOK, RowsOK
<1> QED
  BY <1>1, <1>2, <1>3, <1>4 DEF Next

\* Rows, coroutines and the throttle's memory are what they should be, and no call stops at an
\* await without what it needs there: the user of its credential, a row it has read.
THEOREM Typed == Spec => []TypeOK
<1>1. Init => TypeInv
  BY InitType
<1>2. TypeInv /\ [Next]_vars => TypeInv'
  BY StepType
<1>3. TypeInv => TypeOK
  BY DEF TypeInv
<1> QED
  BY <1>1, <1>2, <1>3, PTL DEF Spec

-----------------------------------------------------------------------------
(* Where a step leaves its own coroutine, and the others. *)

LEMMA GotoPc ==
    ASSUME TypeInv, NEW c \in Calls, NEW pc, Goto(c, pc)
    PROVE  call'[c].pc = pc /\ call'[c].wrote = call[c].wrote
  BY Known DEF Goto, Become, TypeInv, TypeOK, CallStates

LEMMA CommitPc ==
    ASSUME TypeInv, NEW c \in Calls, NEW table, NEW pc, Commit(c, table, pc)
    PROVE  call'[c].pc = pc /\ call'[c].wrote
<1>1. call'[c] = [call[c] EXCEPT !.pc = pc, !.wrote = TRUE] /\ call[c] \in CallStates
  BY Known DEF Commit
<1> QED
  BY <1>1 DEF CallStates

LEMMA EntryPc ==
    ASSUME NEW w, w.req.kind \in Signed
    PROVE  Entry(w) \in {"refused", "done", "delete_session", "read_hash", "insert_token",
                        "delete_token", "insert", "read"}
  BY DEF Entry, FirstStep, Signed, AdminKinds, OwnKinds

-----------------------------------------------------------------------------
(* What is gone stays gone. *)

\* A call makes its session or token once, and nobody else makes one in its name.
MadeOnce(c) ==
    /\ call[c].pc \notin Ended \cup {"record_login"} => sessions[c] = None
    /\ call[c].pc \notin Ended \cup {"audit"} \cup Opening => tokens[c] = None

GoneInv == TypeInv /\ \A c \in Calls : MadeOnce(c)

\* A row there was may be changed or deleted; a row there was not is the one c inserts.
LEMMA SessionsStep ==
    ASSUME TypeInv, NEW c \in Calls, Step(c), NEW s \in SessionIds
    PROVE  \/ sessions'[s] = sessions[s] \/ IsRow(sessions[s])
           \/ sessions[s] # None /\ sessions'[s] = Gone
           \/ s = c /\ call[c].pc = "open" /\ call'[c].pc = "record_login"
<1>1. CASE Touch(c)
  BY <1>1 DEF Touch, TypeInv, TypeOK
<1>2. CASE DeleteExpired(c)
  BY <1>2 DEF DeleteExpired
<1>3. CASE OpenSession(c)
  <2>1. call[c] \in CallStates /\ call[c].pc = "open" /\ Goto(c, "record_login")
    BY <1>3, Known DEF OpenSession, At
  <2>2. call'[c].pc = "record_login"
    BY <2>1 DEF Goto, Become, TypeInv, TypeOK, CallStates
  <2> QED
    BY <1>3, <2>1, <2>2 DEF OpenSession, TypeInv, TypeOK
<1>4. CASE Logout(c)
  <2>1. sessions[call[c].req.cred] # None
    <3>1. call[c].pc = "delete_session"
      BY <1>4 DEF Logout, At
    <3> QED
      BY <3>1, Known DEF LocalsOK, Presented
  <2> QED
    BY <1>4, <2>1 DEF Logout, TypeInv, TypeOK
<1>5. CASE EndSessions(c)
  BY <1>5 DEF EndSessions
<1>6. CASE UNCHANGED sessions
  BY <1>6
<1>7. ~Touch(c) /\ ~DeleteExpired(c) /\ ~OpenSession(c) /\ ~Logout(c) /\ ~EndSessions(c) =>
         UNCHANGED sessions
  BY DEF Step, Arrive, Authenticate, CountUsers, InsertUser, LookupPassword, Verified, RecordLogin,
         ReadHash, SetPassword, InsertToken, DeleteToken, ReadUser, CountAdmins, WriteUser, Audit,
         Fails
<1> QED
  BY <1>1, <1>2, <1>3, <1>4, <1>5, <1>6, <1>7

LEMMA TokensStep ==
    ASSUME TypeInv, NEW c \in Calls, Step(c), NEW t \in TokenIds
    PROVE  \/ tokens'[t] = tokens[t] \/ IsRow(tokens[t])
           \/ t = c /\ call[c].pc = "insert_token" /\ call'[c].pc = "audit"
<1>1. CASE Touch(c)
  BY <1>1 DEF Touch, TypeInv, TypeOK
<1>2. CASE DeleteToken(c)
  BY <1>2 DEF DeleteToken, TypeInv, TypeOK
<1>3. CASE InsertToken(c)
  <2>1. call[c] \in CallStates /\ call[c].pc = "insert_token"
    BY <1>3, Known DEF InsertToken, At
  <2>2. call'[c].pc = "audit"
    BY <1>3, <2>1 DEF InsertToken, Become, TypeInv, TypeOK, CallStates
  <2> QED
    BY <1>3, <2>1, <2>2 DEF InsertToken, TypeInv, TypeOK
<1>4. CASE UNCHANGED tokens
  BY <1>4
<1>5. ~Touch(c) /\ ~DeleteToken(c) /\ ~InsertToken(c) => UNCHANGED tokens
  BY DEF Step, Arrive, Authenticate, CountUsers, InsertUser, LookupPassword, Verified, RecordLogin,
         DeleteExpired, OpenSession, Logout, EndSessions, ReadHash, SetPassword, ReadUser,
         CountAdmins, WriteUser, Audit, Fails
<1> QED
  BY <1>1, <1>2, <1>3, <1>4, <1>5

\* A step of one coroutine leaves the others as they are, but for what they have missed.
Waits(d) ==
    /\ call'[d].pc = call[d].pc /\ call'[d].req = call[d].req /\ call'[d].me = call[d].me
    /\ call'[d].found = call[d].found /\ call'[d].wrote = call[d].wrote
    /\ call'[d].then = call[d].then
    /\ call[d].missed \subseteq call'[d].missed

LEMMA OthersWait ==
    ASSUME TypeInv, NEW c \in Calls, Step(c), NEW d \in Calls \ {c}
    PROVE  Waits(d)
<1>1. call[d] \in CallStates
  BY Known
<1>2. ASSUME NEW w, Become(c, w) PROVE Waits(d)
  BY <1>2 DEF Become, TypeInv, TypeOK, Waits
<1>3. ASSUME NEW pcs, call'[d] = Behind(c, d, pcs) PROVE Waits(d)
  BY <1>1, <1>3 DEF Behind, CallStates, Waits
<1>4. CASE \E w : Become(c, w)
  BY <1>2, <1>4
<1>5. CASE \E table, pc : Commit(c, table, pc)
  BY <1>3, <1>5 DEF Commit
<1>6. CASE Verified(c)
  BY <1>2, <1>3, <1>6 DEF Verified, Goto
<1>7. CASE InsertUser(c)
  BY <1>2, <1>5, <1>3, <1>7 DEF InsertUser, Goto, Commit
<1>8. CASE SetPassword(c) \/ WriteUser(c)
  BY <1>3, <1>8 DEF SetPassword, WriteUser, Commit
<1>9. ~Verified(c) /\ ~InsertUser(c) /\ ~SetPassword(c) /\ ~WriteUser(c) => \E w : Become(c, w)
  BY DEF Step, Arrive, Authenticate, CountUsers, LookupPassword, RecordLogin, DeleteExpired, Touch,
         OpenSession, Logout, EndSessions, ReadHash, InsertToken, DeleteToken, ReadUser,
         CountAdmins, Audit, Fails, Goto
<1> QED
  BY <1>4, <1>6, <1>7, <1>8, <1>9

\* From the audit on, a call only goes to its end.
LEMMA LateSteps ==
    ASSUME TypeInv, NEW c \in Calls, Step(c)
    PROVE  /\ call[c].pc \notin Ended
           /\ call[c].pc = "record_login" => call'[c].pc \in Ended
           /\ call[c].pc \in {"audit"} \cup Opening => call'[c].pc \in Ended \cup Opening
<1>1. call[c] \in CallStates
  BY Known
<1>2. ASSUME NEW pc, Goto(c, pc) PROVE call'[c].pc = pc
  BY <1>1, <1>2 DEF Goto, Become, TypeInv, TypeOK, CallStates
<1>3. call[c].pc \notin Ended
  BY DEF Step, Arrive, Authenticate, Touch, CountUsers, InsertUser, LookupPassword, Verified,
         DeleteExpired, OpenSession, RecordLogin, Logout, ReadHash, SetPassword, EndSessions,
         InsertToken, DeleteToken, ReadUser, CountAdmins, WriteUser, Audit, Fails, At, Ended
<1>4. CASE Audit(c)
  <2>1. call[c].pc = "audit" /\ call[c].then \in Ended
    BY <1>1, <1>4 DEF Audit, At, CallStates, Ended
  <2>2. Goto(c, "expire") \/ Goto(c, call[c].then)
    BY <1>4 DEF Audit
  <2> QED
    BY <1>2, <1>3, <2>1, <2>2 DEF Opening
<1>5. CASE DeleteExpired(c)
  BY <1>2, <1>5 DEF DeleteExpired, At, Opening, Ended
<1>6. CASE OpenSession(c)
  BY <1>2, <1>6 DEF OpenSession, At, Opening, Ended
<1>7. CASE RecordLogin(c)
  BY <1>2, <1>7 DEF RecordLogin, At, Opening, Ended
<1>8. CASE Fails(c)
  BY <1>2, <1>8 DEF Fails, Cut, Opening, Ended
<1>9. CASE call[c].pc \notin {"audit"} \cup Opening
  BY <1>3, <1>9 DEF Opening
<1>10. call[c].pc \notin {"audit"} \cup Opening \/ Audit(c) \/ DeleteExpired(c) \/ OpenSession(c)
       \/ RecordLogin(c) \/ Fails(c)
  BY DEF Step, Arrive, Authenticate, Touch, CountUsers, InsertUser, LookupPassword, Verified,
         Logout, ReadHash, SetPassword, EndSessions, InsertToken, DeleteToken, ReadUser,
         CountAdmins, WriteUser, At, Opening
<1> QED
  BY <1>3, <1>4, <1>5, <1>6, <1>7, <1>8, <1>9, <1>10

LEMMA InitGone == Init => GoneInv
<1> SUFFICES ASSUME Init PROVE GoneInv
  OBVIOUS
<1>1. TypeInv
  BY InitType
<1>2. ASSUME NEW c \in Calls PROVE sessions[c] = None /\ tokens[c] = None
  BY AccountsAssumption DEF AccountsAssumption, Init, SessionIds, TokenIds
<1> QED
  BY <1>1, <1>2 DEF GoneInv, MadeOnce

LEMMA StepGone == ASSUME GoneInv, [Next]_vars PROVE GoneInv'
<1>1. TypeInv'
  BY StepType DEF GoneInv
<1>2. ASSUME NEW d \in Calls, NEW c \in Calls, Step(c) PROVE MadeOnce(d)'
  <2>1. d \in SessionIds /\ d \in TokenIds /\ MadeOnce(d) /\ TypeInv
    BY DEF SessionIds, TokenIds, GoneInv
  <2>2. CASE d = c
    BY <1>2, <2>1, <2>2, LateSteps, SessionsStep, TokensStep, Outsiders
       DEF MadeOnce, Opening, Ended, IsRow
  <2>3. CASE d # c
    <3>1. call'[d].pc = call[d].pc
      BY <1>2, <2>1, <2>3, OthersWait DEF Waits
    <3> QED
      BY <1>2, <2>1, <2>3, <3>1, SessionsStep, TokensStep DEF MadeOnce, IsRow
  <2> QED
    BY <2>2, <2>3
<1>3. ASSUME NEW d \in Calls, Restart PROVE MadeOnce(d)'
  <2>1. call[d] \in CallStates /\ MadeOnce(d)
    BY Known DEF GoneInv
  <2>2. call'[d].pc = call[d].pc \/ call'[d].pc \in Ended
    BY <1>3, <2>1 DEF Restart, Cut, Ended, CallStates
  <2> QED
    BY <1>3, <2>1, <2>2 DEF Restart, MadeOnce
<1>4. ASSUME NEW d \in Calls, Tick \/ UNCHANGED vars PROVE MadeOnce(d)'
  BY <1>4 DEF Tick, vars, GoneInv, MadeOnce
<1> QED
  BY <1>1, <1>2, <1>3, <1>4 DEF GoneInv, Next

LEMMA StepKeepsGone ==
    ASSUME GoneInv, [Next]_vars
    PROVE  /\ \A s \in SessionIds : sessions[s] = Gone => sessions'[s] = Gone
           /\ \A t \in TokenIds : tokens[t] = Gone => tokens'[t] = Gone
<1>1. ASSUME NEW c \in Calls, Step(c), NEW s \in SessionIds, sessions[s] = Gone
      PROVE  sessions'[s] = Gone
  <2>1. s = c /\ call[c].pc = "open" => sessions[s] = None
    BY DEF GoneInv, MadeOnce, Ended
  <2> QED
    BY <1>1, <2>1, SessionsStep, Outsiders DEF GoneInv, IsRow
<1>2. ASSUME NEW c \in Calls, Step(c), NEW t \in TokenIds, tokens[t] = Gone
      PROVE  tokens'[t] = Gone
  <2>1. t = c /\ call[c].pc = "insert_token" => tokens[t] = None
    BY DEF GoneInv, MadeOnce, Ended, Opening
  <2> QED
    BY <1>2, <2>1, TokensStep, Outsiders DEF GoneInv, IsRow
<1>3. CASE Restart \/ Tick \/ UNCHANGED vars
  BY <1>3 DEF Restart, Tick, vars
<1> QED
  BY <1>1, <1>2, <1>3 DEF Next

\* A session that was logged out, ended or has expired, and a token that was deleted, never work
\* again, whatever calls had read them before.
THEOREM GoneStays == Spec => GoneForGood
<1>1. Init => GoneInv
  BY InitGone
<1>2. GoneInv /\ [Next]_vars => GoneInv'
  BY StepGone
<1>3. GoneInv /\ [Next]_vars =>
         [/\ \A s \in SessionIds : sessions[s] = Gone => sessions'[s] = Gone
          /\ \A t \in TokenIds : tokens[t] = Gone => tokens'[t] = Gone]_vars
  BY StepKeepsGone
<1> QED
  BY <1>1, <1>2, <1>3, PTL DEF Spec, GoneForGood

-----------------------------------------------------------------------------
(* What a call has missed. *)

\* What a step does to the locals of its own coroutine.
Proceeds(c) ==
    /\ call[c].pc # "idle" => call'[c].req = call[c].req
    /\ call[c].pc \notin {"idle", "authenticate"} => call'[c].me = call[c].me
    /\ call[c].pc \notin {"idle", "read"} => call'[c].missed = call[c].missed
    /\ call[c].pc \notin {"idle", "read", "lookup"} => call'[c].found = call[c].found
    /\ call[c].wrote => call'[c].wrote
    /\ call'[c].wrote => \/ call[c].wrote
                        \/ call[c].pc \in {"insert", "delete_session", "set_password",
                                          "insert_token", "delete_token", "write"}

LEMMA OwnStep == ASSUME TypeInv, NEW c \in Calls, Step(c) PROVE Proceeds(c)
<1> DEFINE v == call[c]
<1>1. v \in CallStates
  BY Known
<1>2. ASSUME NEW w, Become(c, w) PROVE call'[c] = w
  BY <1>2 DEF Become, TypeInv, TypeOK
<1>3. ASSUME NEW pc, Goto(c, pc) PROVE Proceeds(c)
  BY <1>1, <1>3 DEF Goto, Become, TypeInv, TypeOK, CallStates, Proceeds
<1>4. ASSUME NEW table, NEW pc, Commit(c, table, pc), v.pc \in {"insert", "set_password", "write"}
      PROVE  Proceeds(c)
  BY <1>1, <1>4 DEF Commit, CallStates, Proceeds
<1>5. CASE Arrive(c)
  <2>1. v.pc = "idle" /\ ~v.wrote
    BY <1>5, Known DEF Arrive, LocalsOK
  <2>2. ~call'[c].wrote
    BY <1>2, <1>5 DEF Arrive, Idle
  <2> QED
    BY <2>1, <2>2 DEF Proceeds
<1>6. CASE Authenticate(c)
  <2>1. v.pc = "authenticate"
    BY <1>6 DEF Authenticate, At
  <2>2. ASSUME NEW role, NEW pc, Become(c, [[v EXCEPT !.role = role] EXCEPT !.pc = pc])
        PROVE  Proceeds(c)
    BY <1>1, <1>2, <2>1, <2>2 DEF CallStates, Proceeds
  <2>3. ASSUME NEW me, NEW role, NEW pc,
               Become(c, [[v EXCEPT !.me = me, !.role = role] EXCEPT !.pc = pc])
        PROVE  Proceeds(c)
    BY <1>1, <1>2, <2>1, <2>3 DEF CallStates, Proceeds
  <2> QED
    BY <1>3, <1>6, <2>2, <2>3 DEF Authenticate
<1>7. CASE LookupPassword(c)
  <2>1. v.pc = "lookup"
    BY <1>7 DEF LookupPassword, At
  <2>2. call'[c] = [v EXCEPT !.pc = "verify", !.found = users[v.req.user]]
    BY <1>2, <1>7 DEF LookupPassword
  <2> QED
    BY <1>1, <2>1, <2>2 DEF CallStates, Proceeds
<1>8. CASE Verified(c)
  <2>1. v.pc = "verify"
    BY <1>8 DEF Verified, At
  <2>2. CASE Valid(v)
    BY <1>3, <1>8, <2>2 DEF Verified
  <2>3. CASE ~Valid(v)
    <3>1. call'[c] = [v EXCEPT !.pc = "audit", !.then = "refused"]
      BY <1>8, <2>3 DEF Verified
    <3> QED
      BY <1>1, <2>1, <3>1 DEF CallStates, Proceeds
  <2> QED
    BY <2>2, <2>3
<1>9. CASE ReadUser(c)
  <2>1. v.pc = "read"
    BY <1>9 DEF ReadUser, At
  <2>2. ASSUME NEW found, NEW pc,
               Become(c, [[v EXCEPT !.found = found, !.missed = {}] EXCEPT !.pc = pc])
        PROVE  Proceeds(c)
    BY <1>1, <1>2, <2>1, <2>2 DEF CallStates, Proceeds
  <2> QED
    BY <1>9, <2>2 DEF ReadUser
<1>10. CASE Logout(c) \/ InsertToken(c) \/ DeleteToken(c)
  <2>1. v.pc \in {"delete_session", "insert_token", "delete_token"}
    BY <1>10 DEF Logout, InsertToken, DeleteToken, At
  <2>2. CASE Become(c, [v EXCEPT !.pc = "audit", !.wrote = TRUE])
    BY <1>1, <1>2, <2>1, <2>2 DEF CallStates, Proceeds
  <2> QED
    BY <1>3, <1>10, <2>2 DEF Logout, InsertToken, DeleteToken
<1>11. CASE InsertUser(c) \/ SetPassword(c) \/ WriteUser(c)
  BY <1>3, <1>4, <1>11 DEF InsertUser, SetPassword, WriteUser, At
<1>12. CASE \E pc : Goto(c, pc)
  BY <1>3, <1>12
<1>13. \/ Arrive(c) \/ Authenticate(c) \/ LookupPassword(c) \/ Verified(c) \/ ReadUser(c)
       \/ Logout(c) \/ InsertToken(c) \/ DeleteToken(c) \/ InsertUser(c) \/ SetPassword(c)
       \/ WriteUser(c) \/ \E pc : Goto(c, pc)
  BY DEF Step, CountUsers, RecordLogin, DeleteExpired, Touch, OpenSession, EndSessions, ReadHash,
         CountAdmins, Audit, Fails
<1> QED
  BY <1>5, <1>6, <1>7, <1>8, <1>9, <1>10, <1>11, <1>12, <1>13

\* A row is written, and whoever has read the users has missed it.
Changes(c, u, row) ==
    /\ row \in UserRows /\ users' = [users EXCEPT ![u] = row]
    /\ call'[c].wrote
    /\ \A d \in Calls \ {c} : call[d].pc \in HasRead => c \in call'[d].missed

LEMMA CommitChanges ==
    ASSUME TypeInv, NEW c \in Calls, NEW u, NEW row \in UserRows, NEW pc,
           Commit(c, [users EXCEPT ![u] = row], pc)
    PROVE  Changes(c, u, row)
<1>1. users' = [users EXCEPT ![u] = row]
  BY DEF Commit
<1>2. call'[c].wrote
  <2>1. call'[c] = [call[c] EXCEPT !.pc = pc, !.wrote = TRUE] /\ call[c] \in CallStates
    BY Known DEF Commit
  <2> QED
    BY <2>1 DEF CallStates
<1>3. ASSUME NEW d \in Calls \ {c}, call[d].pc \in HasRead PROVE c \in call'[d].missed
  <2>1. call'[d] = [call[d] EXCEPT !.missed = call[d].missed \cup {c}] /\ call[d] \in CallStates
    BY <1>3, Known DEF Commit, Behind
  <2> QED
    BY <2>1 DEF CallStates
<1> QED
  BY <1>1, <1>2, <1>3 DEF Changes

\* The three ways to change the users.
LEMMA UsersStep ==
    ASSUME TypeInv, NEW c \in Calls, Step(c)
    PROVE  LET u == Subject(call[c]) IN
           \/ UNCHANGED users
           \/ /\ call[c].pc = "insert" /\ u \in Users /\ users[u] = None
              /\ u = call[c].req.user
              /\ Changes(c, u, NewRow(call[c].req))
           \/ /\ call[c].pc = "set_password" /\ u \in Users /\ users[u] \in UserRows
              /\ Changes(c, u, WithPassword(users[u], call[c].req.new))
           \/ /\ call[c].pc = "write" /\ u \in Users /\ users[u] \in UserRows
              /\ u = call[c].req.user /\ call[c].found \in UserRows
              /\ call[c].req.kind = "update_user" /\ Changes(c, u, WithUpdate(users[u], call[c]))
<1>1. CASE InsertUser(c)
  BY <1>1, InsertUserRow, CommitChanges
<1>2. CASE SetPassword(c)
  BY <1>2, SetPasswordRow, CommitChanges
<1>3. CASE WriteUser(c)
  BY <1>3, WriteUserRow, CommitChanges
<1>4. InsertUser(c) \/ SetPassword(c) \/ WriteUser(c) \/ UNCHANGED users
  BY DEF Step, Arrive, Authenticate, CountUsers, LookupPassword, Verified, RecordLogin, Touch,
         DeleteExpired, OpenSession, Logout, EndSessions, ReadHash, InsertToken, DeleteToken,
         ReadUser, CountAdmins, Audit, Fails
<1> QED
  BY <1>1, <1>2, <1>3, <1>4

\* A user is written over, never removed.
LEMMA UsersGrow ==
    ASSUME TypeInv, NEW c \in Calls, Step(c), NEW x \in Users, users[x] # None
    PROVE  users'[x] # None
<1>1. users \in [Users -> UserRows \cup {None}]
  BY DEF TypeInv, TypeOK
<1> QED
  BY <1>1, UsersStep, Outsiders DEF Changes

-----------------------------------------------------------------------------
(* One setup. *)

SetupBy(c) == call[c].req # None /\ call[c].req.kind = "setup"

\* What a setup has written is still there; one that has counted no users has missed the others.
SetupInv ==
    /\ TypeInv
    /\ \A d \in Calls : SetupBy(d) /\ call[d].wrote => users[call[d].req.user] # None
    /\ \A c, d \in Calls :
          c # d /\ SetupBy(c) /\ SetupBy(d) /\ call[d].wrote =>
             /\ call[c].pc = "insert" => d \in call[c].missed
             /\ call[c].wrote => c \in call[d].missed \/ d \in call[c].missed

\* A setup counts the users, then inserts one, and never reads again.
LEMMA SetupSteps ==
    ASSUME TypeInv, NEW c \in Calls, Step(c), SetupBy(c)'
    PROVE  \/ call[c].pc = "idle" /\ ~call'[c].wrote /\ call'[c].pc # "insert"
           \/ /\ SetupBy(c) /\ call'[c].missed = call[c].missed
              /\ call'[c].req = call[c].req
              /\ call'[c].pc = "insert" => \A u \in Users : users[u] = None
              /\ call'[c].wrote => call[c].wrote \/ call[c].pc = "insert"
<1> DEFINE v == call[c]
<1>1. CASE v.pc = "idle"
  <2>1. Arrive(c)
    BY <1>1 DEF Step, Authenticate, CountUsers, LookupPassword, Verified, RecordLogin, Touch, At,
         DeleteExpired, OpenSession, Logout, EndSessions, ReadHash, InsertToken, DeleteToken,
         ReadUser, CountAdmins, Audit, Fails, InsertUser, SetPassword, WriteUser
  <2>2. ~v.wrote /\ Proceeds(c)
    BY <1>1, Known, OwnStep DEF LocalsOK
  <2>3. ~call'[c].wrote
    BY <1>1, <2>2 DEF Proceeds
  <2>4. PICK w \in CallStates : Become(c, w) /\ Arrived(w)
    BY <2>1, ArriveShape
  <2>5. call'[c] = w
    BY <2>4 DEF Become, TypeInv, TypeOK
  <2>6. call'[c].pc # "insert"
    BY <2>4, <2>5 DEF Arrived, SetupBy
  <2> QED
    BY <1>1, <2>3, <2>6
<1>2. CASE v.pc # "idle"
  <2>1. call'[c].req = v.req /\ v.req # None /\ Proceeds(c) /\ v.req.kind = "setup"
    BY <1>2, Known, OwnStep DEF Proceeds, SetupBy
  <2>2. v.pc \notin {"read", "delete_session", "set_password", "insert_token", "delete_token",
                    "write", "authenticate", "touch", "lookup", "verify", "read_hash",
                    "count_admins", "end_sessions"}
    BY <2>1, Known DEF LocalsOK, Signed, AdminKinds, OwnKinds
  <2>3. call'[c].pc = "insert" => \A u \in Users : users[u] = None
    <3>1. ASSUME NEW pc, Goto(c, pc) PROVE call'[c].pc = pc
      BY <3>1, Known DEF Goto, Become, TypeInv, TypeOK, CallStates
    <3>2. CASE CountUsers(c)
      BY <3>1, <3>2 DEF CountUsers
    <3>3. CASE InsertUser(c)
      <4>1. ASSUME NEW table, NEW pc, Commit(c, table, pc) PROVE call'[c].pc = pc
        <5>1. call'[c] = [call[c] EXCEPT !.pc = pc, !.wrote = TRUE] /\ call[c] \in CallStates
          BY <4>1, Known DEF Commit
        <5> QED
          BY <5>1 DEF CallStates
      <4> QED
        BY <3>1, <3>3, <4>1, InsertUserRow
    <3>4. CASE Audit(c)
      <4>1. call[c].then \in {"done", "refused"}
        BY Known DEF CallStates
      <4> QED
        BY <3>1, <3>4, <4>1 DEF Audit
    <3>5. CASE DeleteExpired(c) \/ OpenSession(c) \/ RecordLogin(c) \/ Fails(c)
      BY <3>1, <3>5 DEF DeleteExpired, OpenSession, RecordLogin, Fails, Cut
    <3> QED
      BY <1>2, <2>2, <3>2, <3>3, <3>4, <3>5
         DEF Step, Arrive, Authenticate, LookupPassword, Verified, Touch, At, Logout, EndSessions,
             ReadHash, InsertToken, DeleteToken, ReadUser, CountAdmins, SetPassword, WriteUser
  <2> QED
    BY <1>2, <2>1, <2>2, <2>3 DEF Proceeds, SetupBy
<1> QED
  BY <1>1, <1>2

\* An insert that writes.
LEMMA InsertWrites ==
    ASSUME TypeInv, NEW c \in Calls, Step(c), call[c].pc = "insert", call'[c].wrote
    PROVE  /\ call[c].req.user \in Users
           /\ Changes(c, call[c].req.user, NewRow(call[c].req))
<1>1. ~call[c].wrote
  BY Known DEF LocalsOK, Opening, Ended
<1>2. ASSUME NEW pc, Goto(c, pc) PROVE ~call'[c].wrote
  BY <1>1, <1>2, Known DEF Goto, Become, TypeInv, TypeOK, CallStates
<1>3. InsertUser(c) \/ Fails(c)
  BY DEF Step, Arrive, Authenticate, CountUsers, LookupPassword, Verified, Touch, RecordLogin,
         DeleteExpired, OpenSession, Logout, EndSessions, ReadHash, InsertToken, DeleteToken,
         ReadUser, CountAdmins, Audit, SetPassword, WriteUser, At
<1>4. ~Fails(c)
  BY <1>2 DEF Fails
<1> QED
  BY <1>2, <1>3, <1>4, InsertUserRow, CommitChanges

LEMMA StepSetup == ASSUME SetupInv, [Next]_vars PROVE SetupInv'
<1>1. TypeInv' /\ TypeInv
  BY StepType DEF SetupInv
<1>2. ASSUME NEW d \in Calls, SetupBy(d) PROVE call[d].req.user \in Users
  <2>1. Complete(call[d].req) /\ call[d].req.user \in Users \cup {None}
    BY <1>1, <1>2, Known DEF SetupBy, LocalsOK
  <2> QED
    BY <1>2, <2>1 DEF Complete, SetupBy, OwnKinds
<1>3. ASSUME NEW e \in Calls, Step(e) PROVE SetupInv'
  <2>1. ASSUME NEW d \in Calls, SetupBy(d)', call'[d].wrote
        PROVE  users'[call'[d].req.user] # None
    <3>1. CASE SetupBy(d) /\ call[d].wrote /\ call'[d].req = call[d].req
      BY <1>1, <1>2, <1>3, <3>1, UsersGrow DEF SetupInv
    <3>2. CASE d = e /\ call[d].pc = "insert" /\ call'[d].req = call[d].req
      BY <1>1, <1>3, <2>1, <3>2, InsertWrites, Outsiders DEF Changes, TypeInv, TypeOK
    <3>3. CASE d # e
      BY <1>1, <1>3, <2>1, <3>1, <3>3, OthersWait DEF Waits, SetupBy
    <3> QED
      BY <1>1, <1>3, <2>1, <3>1, <3>2, <3>3, SetupSteps
  <2>2. ASSUME NEW c \in Calls, NEW d \in Calls, c # d, SetupBy(c)', SetupBy(d)', call'[d].wrote
        PROVE  /\ call'[c].pc = "insert" => d \in call'[c].missed
               /\ call'[c].wrote => c \in call'[d].missed \/ d \in call'[c].missed
    <3>1. CASE e # c /\ e # d
      <4>1. Waits(c) /\ Waits(d)
        BY <1>1, <1>3, <3>1, OthersWait
      <4> QED
        BY <2>2, <4>1 DEF Waits, SetupInv, SetupBy
    <3>2. CASE e = d /\ call[d].wrote
      <4>1. Waits(c) /\ SetupBy(d) /\ call'[d].missed = call[d].missed
        BY <1>1, <1>3, <2>2, <3>2, OthersWait, SetupSteps, Known DEF LocalsOK
      <4> QED
        BY <2>2, <3>2, <4>1 DEF Waits, SetupInv, SetupBy
    <3>3. CASE e = d /\ ~call[d].wrote
      <4>1. /\ Waits(c) /\ SetupBy(d) /\ call'[d].missed = call[d].missed
            /\ call[d].pc = "insert"
        BY <1>1, <1>3, <2>2, <3>3, OthersWait, SetupSteps
      <4>2. call[c].pc = "insert" => d \in call'[c].missed
        BY <1>1, <1>3, <2>2, <3>3, <4>1, InsertWrites DEF Changes, HasRead
      <4> QED
        BY <2>2, <4>1, <4>2 DEF Waits, SetupInv, SetupBy
    <3>4. CASE e = c
      <4>1. /\ Waits(d) /\ SetupBy(d) /\ call[d].wrote
        BY <1>1, <1>3, <2>2, <3>4, OthersWait DEF Waits, SetupBy
      <4>2. \E u \in Users : users[u] # None
        BY <1>2, <4>1 DEF SetupInv
      <4>3. CASE call[c].pc = "idle"
        BY <1>1, <1>3, <2>2, <3>4, <4>3, SetupSteps, Known DEF LocalsOK, SetupBy
      <4>4. CASE call[c].pc # "idle"
        BY <1>1, <1>3, <2>2, <3>4, <4>1, <4>2, <4>4, SetupSteps DEF SetupInv, Waits
      <4> QED
        BY <4>3, <4>4
    <3> QED
      BY <3>1, <3>2, <3>3, <3>4
  <2> QED
    BY <1>1, <2>1, <2>2, Zenon DEF SetupInv
<1>4. CASE Restart
  <2>1. ASSUME NEW d \in Calls
        PROVE  /\ call'[d].pc = "insert" => call[d].pc = "insert"
               /\ call'[d].req = call[d].req /\ call'[d].wrote = call[d].wrote
               /\ call'[d].missed = call[d].missed
    BY <1>1, <1>4, Known DEF Restart, Cut, CallStates
  <2> QED
    BY <1>1, <1>4, <2>1 DEF Restart, SetupInv, SetupBy
<1>5. CASE Tick \/ UNCHANGED vars
  BY <1>1, <1>5 DEF Tick, vars, SetupInv, SetupBy
<1> QED
  BY <1>3, <1>4, <1>5 DEF Next

\* Two setups both create an administrator only when they overlap: one counted the users before
\* the other's statement.
THEOREM SetupsOverlap == Spec => []SetupOnce
<1>1. Init => SetupInv
  <2> SUFFICES ASSUME Init PROVE SetupInv
    OBVIOUS
  <2>1. TypeInv
    BY InitType
  <2>2. \A c \in Calls : call[c].req = None
    BY DEF Init, Idle
  <2> QED
    BY <2>1, <2>2 DEF SetupInv, SetupBy
<1>2. SetupInv /\ [Next]_vars => SetupInv'
  BY StepSetup
<1>3. SetupInv => SetupOnce
  BY DEF SetupInv, SetupOnce, SetupBy
<1> QED
  BY <1>1, <1>2, <1>3, PTL DEF Spec

-----------------------------------------------------------------------------
(* An administrator remains. *)

\* Where a looked up principal goes.
LEMMA AuthenticatePc ==
    ASSUME TypeInv, NEW c \in Calls, Authenticate(c)
    PROVE  call'[c].pc \in {"touch", "refused", "done", "delete_session", "read_hash",
                           "insert_token", "delete_token", "insert", "read"}
<1> DEFINE v == call[c]
           row == CredentialRow(v.req)
           token == [v EXCEPT !.role = "admin"]
           user == [v EXCEPT !.me = row.user, !.role = users[row.user].role]
<1>1. v \in CallStates /\ v.req.kind \in Signed
  BY Known DEF Authenticate, At, LocalsOK
<1>2. ASSUME NEW w, Become(c, w) PROVE call'[c] = w
  BY <1>2 DEF Become, TypeInv, TypeOK
<1>3. CASE Become(c, [token EXCEPT !.pc = Entry(token)])
  <2>1. token.req.kind \in Signed /\ [token EXCEPT !.pc = Entry(token)].pc = Entry(token)
    BY <1>1 DEF CallStates
  <2> HIDE DEF token
  <2> QED
    BY <1>2, <1>3, <2>1, EntryPc
<1> DEFINE pc == IF row.seen = None \/ now - row.seen > TouchInterval THEN "touch" ELSE Entry(user)
<1>4. CASE Become(c, [user EXCEPT !.pc = pc])
  <2>1. user.req.kind \in Signed /\ [user EXCEPT !.pc = pc].pc = pc
    BY <1>1 DEF CallStates
  <2> HIDE DEF user, row
  <2>2. pc = "touch" \/ pc = Entry(user)
    OBVIOUS
  <2> HIDE DEF pc
  <2> QED
    BY <1>2, <1>4, <2>1, <2>2, EntryPc
<1>5. CASE Goto(c, "refused")
  BY <1>5, GotoPc
<1> QED
  BY <1>3, <1>4, <1>5 DEF Authenticate

\* The only ways to the statements of update_user, to those a principal makes for itself, and
\* into the part of a login that the throttle guards.
LEMMA ToWrite ==
    ASSUME TypeInv, NEW c \in Calls, Step(c)
    PROVE  /\ call'[c].pc \in {"count_admins", "write"} => ReadUser(c) \/ CountAdmins(c)
           /\ call'[c].pc \in {"touch", "read_hash", "insert_token", "delete_token",
                              "delete_session"} => Authenticate(c) \/ Touch(c)
           /\ call'[c].pc = "set_password" => ReadHash(c) \/ ReadUser(c)
           /\ call'[c].pc \in {"lookup", "verify"} => Arrive(c) \/ LookupPassword(c)
<1> DEFINE v == call[c]
<1>1. ASSUME NEW w, Become(c, w) PROVE call'[c] = w
  BY <1>1 DEF Become, TypeInv, TypeOK
<1>2. v \in CallStates
  BY Known
<1>3. CASE Arrive(c)
  BY <1>1, <1>3, ArriveShape DEF Arrived
<1>4. CASE Authenticate(c)
  BY <1>4, AuthenticatePc
<1>5. CASE Touch(c)
  <2>1. v.req.kind \in Signed
    BY <1>5, Known DEF Touch, At, LocalsOK
  <2> QED
    BY <1>5, <2>1, GotoPc, EntryPc DEF Touch
<1>6. CASE LookupPassword(c)
  <2>1. call'[c] = [v EXCEPT !.pc = "verify", !.found = users[v.req.user]]
    BY <1>1, <1>6 DEF LookupPassword
  <2> QED
    BY <1>6, <1>2, <2>1 DEF CallStates
<1>7. CASE Verified(c)
  <2>1. CASE Goto(c, "audit")
    BY <2>1, GotoPc
  <2>2. CASE call'[c] = [v EXCEPT !.pc = "audit", !.then = "refused"]
    BY <1>2, <2>2 DEF CallStates
  <2> QED
    BY <1>7, <2>1, <2>2 DEF Verified
<1>8. CASE Logout(c) \/ InsertToken(c) \/ DeleteToken(c)
  <2>1. CASE Become(c, [v EXCEPT !.pc = "audit", !.wrote = TRUE])
    BY <1>1, <1>2, <2>1, WroteFields
  <2> QED
    BY <1>8, <2>1, GotoPc DEF Logout, InsertToken, DeleteToken
<1>9. CASE InsertUser(c)
  <2>1. \/ Goto(c, "failed") \/ Goto(c, "refused")
        \/ \E table, pc : pc \in {"done", "audit"} /\ Commit(c, table, pc)
    BY <1>9, InsertUserRow
  <2>2. CASE Goto(c, "failed") \/ Goto(c, "refused")
    BY <2>2, GotoPc
  <2> QED
    BY <2>1, <2>2, CommitPc
<1>10. CASE SetPassword(c) \/ WriteUser(c)
  BY <1>10, CommitPc DEF SetPassword, WriteUser
<1>11. CASE Audit(c)
  BY <1>2, <1>11, GotoPc DEF Audit, CallStates
<1>12. CASE \/ CountUsers(c) \/ DeleteExpired(c) \/ OpenSession(c) \/ RecordLogin(c)
            \/ EndSessions(c) \/ Fails(c)
  <2>1. \E pc \in {"insert", "refused", "open", "record_login", "done", "audit", "stranded",
                  "failed"} : Goto(c, pc)
    BY <1>12 DEF CountUsers, DeleteExpired, OpenSession, RecordLogin, EndSessions, Fails, Cut
  <2> QED
    BY <2>1, GotoPc
<1>13. CASE ReadHash(c)
  BY <1>13, GotoPc DEF ReadHash
<1>14. CASE CountAdmins(c)
  BY <1>14, GotoPc DEF CountAdmins
<1>15. CASE ReadUser(c)
  <2>1. ASSUME NEW found, NEW pc,
               call'[c] = [[v EXCEPT !.found = found, !.missed = {}] EXCEPT !.pc = pc]
        PROVE  call'[c].pc = pc
    BY <1>2, <2>1 DEF CallStates
  <2>2. \E found, pc : /\ pc \in {"refused", "set_password", "write", "count_admins"}
                       /\ call'[c] = [[v EXCEPT !.found = found, !.missed = {}] EXCEPT !.pc = pc]
    <3> DEFINE r == [v EXCEPT !.found = users[v.req.user], !.missed = {}]
               pc == IF r.found = None THEN "refused"
                     ELSE IF r.req.kind = "reset_password" THEN "set_password"
                     ELSE IF ~LosesAdmin(r) THEN "write"
                     ELSE IF r.me = r.req.user THEN "refused" ELSE "count_admins"
    <3>1. call'[c] = [r EXCEPT !.pc = pc]
      BY <1>1, <1>15 DEF ReadUser
    <3>2. pc \in {"refused", "set_password", "write", "count_admins"}
      OBVIOUS
    <3> HIDE DEF pc
    <3> QED
      BY <3>1, <3>2
  <2> QED
    BY <1>15, <2>1, <2>2
<1> QED
  BY <1>3, <1>4, <1>5, <1>6, <1>7, <1>8, <1>9, <1>10, <1>11, <1>12, <1>13, <1>14, <1>15 DEF Step

\* A PATCH that has missed nothing has the row as it is, and has found another administrator if
\* it takes one away.
UpToDate(c) ==
    call[c].pc \in {"count_admins", "write"} /\ call[c].missed = {} =>
       /\ users[call[c].req.user].role = call[c].found.role
       /\ users[call[c].req.user].active = call[c].found.active
       /\ call[c].pc = "write" /\ LosesAdmin(call[c]) =>
             \E x \in ActiveAdmins : x # call[c].req.user

AdminInv == TypeInv /\ \A c \in Calls : UpToDate(c)

\* What a step does to the administrators.
LEMMA ReadUpToDate == ASSUME TypeInv, NEW c \in Calls, ReadUser(c) PROVE UpToDate(c)'
<1> DEFINE v == call[c]
           r == [v EXCEPT !.found = users[v.req.user], !.missed = {}]
           pc == IF r.found = None THEN "refused"
                 ELSE IF r.req.kind = "reset_password" THEN "set_password"
                 ELSE IF ~LosesAdmin(r) THEN "write"
                 ELSE IF r.me = r.req.user THEN "refused" ELSE "count_admins"
           w == [r EXCEPT !.pc = pc]
<1>1. call'[c] = w /\ UNCHANGED users
  BY DEF ReadUser, Become, TypeInv, TypeOK
<1>2. v \in CallStates
  BY Known
<1>3. r.found = users[v.req.user] /\ r.req = v.req
  BY <1>2 DEF CallStates
<1> HIDE DEF pc
<1>4. w.pc = pc /\ w.found = r.found /\ w.req = r.req
  BY <1>2 DEF CallStates
<1>5. pc = "write" => ~LosesAdmin(r)
  BY DEF pc
<1> HIDE DEF r, w
<1>6. LosesAdmin(w) = LosesAdmin(r)
  BY <1>4 DEF LosesAdmin, Updated
<1> QED
  BY <1>1, <1>3, <1>4, <1>5, <1>6 DEF UpToDate

LEMMA CountUpToDate ==
    ASSUME TypeInv, NEW c \in Calls, UpToDate(c), CountAdmins(c), call'[c].pc = "write"
    PROVE  UpToDate(c)'
<1> DEFINE v == call[c]
           w == [v EXCEPT !.pc = "write"]
<1>1. v.pc = "count_admins" /\ v \in CallStates /\ UNCHANGED users
  BY Known DEF CountAdmins, At
<1>2. call'[c] = w /\ ~(Cardinality(ActiveAdmins) <= 1)
  BY GotoPc DEF CountAdmins, Goto, Become, TypeInv, TypeOK
<1>3. w.pc = "write" /\ w.found = v.found /\ w.req = v.req /\ w.missed = v.missed
  BY <1>1 DEF CallStates
<1>4. \E x \in ActiveAdmins : x # v.req.user
  <2> SUFFICES ASSUME ActiveAdmins \subseteq {v.req.user} PROVE FALSE
    OBVIOUS
  <2>1. Cardinality({v.req.user}) = 1 /\ IsFiniteSet({v.req.user})
    BY FS_Singleton
  <2>2. Cardinality(ActiveAdmins) <= 1
    BY <2>1, FS_Subset
  <2> QED
    BY <1>2, <2>2
<1>5. ActiveAdmins' = ActiveAdmins
  BY <1>1 DEF ActiveAdmins
<1> HIDE DEF w
<1> QED
  BY <1>1, <1>2, <1>3, <1>4, <1>5 DEF UpToDate

LEMMA StepUpToDate == ASSUME AdminInv, [Next]_vars PROVE AdminInv'
<1>1. TypeInv' /\ TypeInv
  BY StepType DEF AdminInv
<1>2. ASSUME NEW c \in Calls, NEW e \in Calls, Step(e) PROVE UpToDate(c)'
  <2>1. CASE e = c
    <3>1. CASE call'[c].pc \notin {"count_admins", "write"}
      BY <3>1 DEF UpToDate
    <3>2. CASE ReadUser(c)
      BY <1>1, <3>2, ReadUpToDate
    <3>3. CASE CountAdmins(c) /\ call'[c].pc \in {"count_admins", "write"}
      <4>1. call'[c].pc = "write"
        BY <1>1, <3>3, GotoPc DEF CountAdmins
      <4> QED
        BY <1>1, <3>3, <4>1, CountUpToDate DEF AdminInv
    <3> QED
      BY <1>1, <1>2, <2>1, <3>1, <3>2, <3>3, ToWrite
  <2>2. CASE e # c
    <3>1. Waits(c) /\ UpToDate(c)
      BY <1>1, <1>2, <2>2, OthersWait DEF AdminInv
    <3>2. CASE UNCHANGED users
      <4>1. ActiveAdmins' = ActiveAdmins /\ (LosesAdmin(call'[c]) <=> LosesAdmin(call[c]))
        BY <3>1, <3>2 DEF ActiveAdmins, Waits, LosesAdmin, Updated
      <4> QED
        BY <3>1, <3>2, <4>1 DEF Waits, UpToDate
    <3>3. CASE users' # users
      <4>1. call[c].pc \in HasRead => e \in call'[c].missed
        BY <1>1, <1>2, <2>2, <3>3, UsersStep DEF Changes
      <4> QED
        BY <3>1, <4>1 DEF Waits, UpToDate, HasRead
    <3> QED
      BY <3>2, <3>3
  <2> QED
    BY <2>1, <2>2
<1>3. ASSUME NEW c \in Calls, Restart PROVE UpToDate(c)'
  BY <1>1, <1>3, Known DEF Restart, Cut, CallStates, UpToDate, Ended
<1>4. ASSUME NEW c \in Calls, Tick \/ UNCHANGED vars PROVE UpToDate(c)'
  <2>1. UpToDate(c) /\ UNCHANGED <<users, call>>
    BY <1>4 DEF Tick, vars, AdminInv
  <2>2. ActiveAdmins' = ActiveAdmins /\ (LosesAdmin(call'[c]) <=> LosesAdmin(call[c]))
    BY <2>1 DEF ActiveAdmins, LosesAdmin, Updated
  <2> QED
    BY <2>1, <2>2 DEF UpToDate
<1> QED
  BY <1>1, <1>2, <1>3, <1>4 DEF AdminInv, Next

LEMMA StepAdmin ==
    ASSUME AdminInv, [Next]_vars, ActiveAdmins # {}
    PROVE  \/ ActiveAdmins' # {}
           \/ \E c \in Calls : At(c, "write") /\ call'[c].wrote /\ call[c].missed # {}
<1>1. CASE UNCHANGED users
  BY <1>1 DEF ActiveAdmins
<1>2. ASSUME NEW c \in Calls, Step(c), users' # users
      PROVE  \/ ActiveAdmins' # {}
             \/ At(c, "write") /\ call'[c].wrote /\ call[c].missed # {}
  <2> DEFINE u == Subject(call[c])
  <2>1. users \in [Users -> UserRows \cup {None}] /\ TypeInv
    BY DEF AdminInv, TypeInv, TypeOK
  <2>2. PICK x \in ActiveAdmins : TRUE
    OBVIOUS
  <2>3. CASE call[c].pc = "insert"
    <3>1. users[u] = None /\ \E row : users' = [users EXCEPT ![u] = row]
      BY <1>2, <2>1, <2>3, UsersStep DEF Changes
    <3>2. users'[x] = users[x]
      BY <2>1, <3>1 DEF ActiveAdmins
    <3> QED
      BY <3>2 DEF ActiveAdmins
  <2>4. CASE call[c].pc = "set_password"
    <3>1. /\ u \in Users /\ users[u] \in UserRows
          /\ users' = [users EXCEPT ![u] = WithPassword(users[u], call[c].req.new)]
      BY <1>2, <2>1, <2>4, UsersStep DEF Changes
    <3>2. users'[x] # None /\ users'[x].role = users[x].role /\ users'[x].active = users[x].active
      <4>1. CASE x # u
        BY <2>1, <3>1, <4>1 DEF ActiveAdmins
      <4>2. CASE x = u
        <5>1. users'[u] = [users[u] EXCEPT !.password = call[c].req.new]
          BY <2>1, <3>1 DEF WithPassword
        <5>2. /\ users'[u].role = users[u].role /\ users'[u].active = users[u].active
              /\ users'[u] \in UserRows
          BY <1>2, <2>1, <2>4, <3>1, <5>1, UsersStep DEF UserRows, Changes
        <5> QED
          BY <4>2, <5>2, Outsiders
      <4> QED
        BY <4>1, <4>2
    <3> QED
      BY <3>2 DEF ActiveAdmins
  <2>5. CASE call[c].pc = "write"
    <3>1. /\ u \in Users /\ users[u] \in UserRows /\ u = call[c].req.user
          /\ Changes(c, u, WithUpdate(users[u], call[c]))
      BY <1>2, <2>1, <2>5, UsersStep
    <3>2. /\ users'[u] # None /\ users'[u].role = Updated(call[c]).role
          /\ users'[u].active = Updated(call[c]).active
      <4>1. users'[u] = WithUpdate(users[u], call[c]) /\ users'[u] \in UserRows
        BY <2>1, <3>1 DEF Changes
      <4> QED
        BY <3>1, <4>1, Outsiders DEF WithUpdate, UserRows
    <3>3. \A y \in Users : y # u => users'[y] = users[y]
      BY <2>1, <3>1 DEF Changes
    <3>4. CASE call[c].missed # {}
      BY <2>5, <3>1, <3>4 DEF Changes, At
    <3>5. CASE call[c].missed = {}
      <4>1. UpToDate(c)
        BY DEF AdminInv
      <4>2. PICK y \in ActiveAdmins : y = u => ~LosesAdmin(call[c])
        BY <2>2, <2>5, <3>1, <3>5, <4>1 DEF UpToDate
      <4>3. CASE y # u
        BY <3>3, <4>3 DEF ActiveAdmins
      <4>4. CASE y = u
        <5>1. IsAdmin(Updated(call[c]))
          BY <2>5, <3>1, <3>5, <4>1, <4>2, <4>4 DEF UpToDate, ActiveAdmins, LosesAdmin, IsAdmin
        <5> QED
          BY <3>1, <3>2, <5>1 DEF ActiveAdmins, IsAdmin
      <4> QED
        BY <4>3, <4>4
    <3> QED
      BY <3>4, <3>5
  <2> QED
    BY <1>2, <2>1, <2>3, <2>4, <2>5, UsersStep
<1>3. CASE Restart \/ Tick \/ UNCHANGED vars
  BY <1>1, <1>3 DEF Restart, Tick, vars
<1> QED
  BY <1>1, <1>2, <1>3 DEF Next

\* The last active administrator goes only in a PATCH that was overtaken by another change to the
\* accounts: two overlapping demotions, above all.
THEOREM AdministratorRemains == Spec => AdminRemains
<1>1. Init => AdminInv
  <2> SUFFICES ASSUME Init PROVE AdminInv
    OBVIOUS
  <2>1. TypeInv
    BY InitType
  <2>2. \A c \in Calls : call[c].pc = "idle"
    BY DEF Init, Idle
  <2> QED
    BY <2>1, <2>2 DEF AdminInv, UpToDate
<1>2. AdminInv /\ [Next]_vars => AdminInv'
  BY StepUpToDate
<1>3. AdminInv /\ [Next]_vars =>
         [ActiveAdmins # {} =>
             \/ ActiveAdmins' # {}
             \/ \E c \in Calls : At(c, "write") /\ call'[c].wrote /\ call[c].missed # {}]_vars
  BY StepAdmin
<1> QED
  BY <1>1, <1>2, <1>3, PTL DEF Spec, AdminRemains

-----------------------------------------------------------------------------
(* A disabled user is kept out. *)

OwnSteps ==
    {"touch", "read_hash", "set_password", "insert_token", "delete_token", "delete_session"}
ForItself(c) ==
    call[c].req # None /\ call[c].me # None /\ call[c].req.kind \in OwnKinds \cup {"logout"}
Overtaken(c, u) == \E d \in call[c].missed : call[d].wrote /\ Subject(call[d]) = u

\* The user a call found active is active, or the account was changed in the meantime.
OutInv ==
    /\ TypeInv
    /\ \A c \in Calls : ForItself(c) /\ call[c].pc \in OwnSteps =>
          users[call[c].me].active \/ Overtaken(c, call[c].me)

\* A call that has changed something keeps its subject.
LEMMA WroteStays ==
    ASSUME TypeInv, NEW c \in Calls, Step(c), NEW d \in Calls, call[d].wrote
    PROVE  call'[d].wrote /\ Subject(call'[d]) = Subject(call[d])
<1>1. call[d].pc \notin {"idle", "authenticate"}
  BY Known DEF LocalsOK, Opening, Ended
<1>2. call'[d].wrote /\ call'[d].req = call[d].req /\ call'[d].me = call[d].me
  BY <1>1, OwnStep, OthersWait DEF Proceeds, Waits
<1> QED
  BY <1>2 DEF Subject

\* The principal that is let in is active.
LEMMA LetIn ==
    ASSUME TypeInv, NEW c \in Calls, Authenticate(c), call'[c].me # None
    PROVE  users[call'[c].me].active
<1> DEFINE v == call[c]
           row == CredentialRow(v.req)
           token == [v EXCEPT !.role = "admin"]
           user == [v EXCEPT !.me = row.user, !.role = users[row.user].role]
<1>1. v \in CallStates /\ v.me = None
  BY Known DEF Authenticate, At, LocalsOK
<1>2. ASSUME NEW w, Become(c, w) PROVE call'[c] = w
  BY <1>2 DEF Become, TypeInv, TypeOK
<1>3. \A pc : [token EXCEPT !.pc = pc].me = None
  BY <1>1 DEF CallStates
<1>4. \A pc : [user EXCEPT !.pc = pc].me = row.user
  BY <1>1 DEF CallStates
<1>5. \A pc : [v EXCEPT !.pc = pc].me = None
  BY <1>1 DEF CallStates
<1>6. ~Become(c, [token EXCEPT !.pc = Entry(token)]) /\ ~Goto(c, "refused")
  BY <1>2, <1>3, <1>5 DEF Goto
<1>7. Accepted(v.req) /\ \E pc : Become(c, [user EXCEPT !.pc = pc])
  BY <1>6 DEF Authenticate
<1> QED
  BY <1>2, <1>4, <1>7 DEF Accepted

\* Who makes an active user inactive is seen by those who have read the user.
LEMMA Deactivates ==
    ASSUME TypeInv, NEW e \in Calls, Step(e), NEW m \in Users, users[m] # None,
           users[m].active, ~users'[m].active, NEW c \in Calls \ {e}, call[c].pc \in HasRead
    PROVE  e \in call'[c].missed /\ call'[e].wrote /\ Subject(call'[e]) = m
<1> DEFINE u == Subject(call[e])
<1>1. users \in [Users -> UserRows \cup {None}]
  BY DEF TypeInv, TypeOK
<1>2. users' # users
  OBVIOUS
<1>3. u = m /\ call[e].pc = "write"
  <2>1. u = m
    BY <1>1, <1>2, UsersStep DEF Changes
  <2>2. call[e].pc # "insert"
    BY <1>2, <2>1, UsersStep
  <2>3. call[e].pc # "set_password"
    <3> SUFFICES ASSUME call[e].pc = "set_password" PROVE FALSE
      OBVIOUS
    <3>1. users'[m] = WithPassword(users[m], call[e].req.new) /\ users[m] \in UserRows
      BY <1>1, <1>2, <2>1, UsersStep DEF Changes
    <3> QED
      BY <3>1 DEF WithPassword, UserRows
  <2> QED
    BY <1>2, <2>1, <2>2, <2>3, UsersStep
<1>4. e \in call'[c].missed /\ call'[e].wrote
  BY <1>2, <1>3, UsersStep DEF Changes
<1>5. call'[e].req = call[e].req /\ call'[e].me = call[e].me
  BY <1>3, OwnStep DEF Proceeds
<1> QED
  BY <1>3, <1>4, <1>5 DEF Subject

LEMMA StepOut == ASSUME OutInv, [Next]_vars PROVE OutInv'
<1>1. TypeInv' /\ TypeInv
  BY StepType DEF OutInv
<1>2. ASSUME NEW c \in Calls, NEW e \in Calls, Step(e), ForItself(c)', call'[c].pc \in OwnSteps
      PROVE  users'[call'[c].me].active \/ Overtaken(c, call[c].me)'
  <2>1. ASSUME Overtaken(c, call[c].me), call'[c].me = call[c].me,
               call[c].missed \subseteq call'[c].missed
        PROVE  Overtaken(c, call[c].me)'
    <3>1. call[c].missed \subseteq Calls
      BY <1>1, Known DEF CallStates
    <3> QED
      BY <1>1, <1>2, <2>1, <3>1, WroteStays DEF Overtaken
  <2>2. CASE e = c
    <3>1. CASE Authenticate(c)
      <4>1. UNCHANGED users
        BY <3>1 DEF Authenticate
      <4> QED
        BY <1>1, <1>2, <3>1, <4>1, LetIn DEF ForItself
    <3>2. CASE Touch(c) \/ ReadHash(c)
      <4>1. call[c].pc \in {"touch", "read_hash"} /\ UNCHANGED users
        BY <3>2 DEF Touch, ReadHash, At
      <4>2. call'[c].me = call[c].me /\ call'[c].missed = call[c].missed /\ ForItself(c)
        BY <1>1, <1>2, <2>2, <4>1, OwnStep DEF Proceeds, ForItself
      <4>3. users[call[c].me].active \/ Overtaken(c, call[c].me)
        BY <4>1, <4>2 DEF OutInv, OwnSteps
      <4> QED
        BY <2>1, <4>1, <4>2, <4>3
    <3>3. CASE ReadUser(c)
      <4>1. call[c].pc = "read" /\ call[c].req.kind \in {"update_user", "reset_password"}
        BY <1>1, <3>3, Known DEF ReadUser, At, LocalsOK
      <4> QED
        BY <1>1, <1>2, <2>2, <4>1, OwnStep DEF Proceeds, ForItself, OwnKinds
    <3> QED
      BY <1>1, <1>2, <2>2, <3>1, <3>2, <3>3, ToWrite DEF OwnSteps
  <2>3. CASE e # c
    <3>1. Waits(c) /\ ForItself(c) /\ call[c].pc \in OwnSteps
      BY <1>1, <1>2, <2>3, OthersWait DEF Waits, ForItself
    <3>2. users[call[c].me].active \/ Overtaken(c, call[c].me)
      BY <3>1 DEF OutInv
    <3>3. CASE Overtaken(c, call[c].me)
      BY <2>1, <3>1, <3>3 DEF Waits
    <3>4. CASE users[call[c].me].active /\ ~users'[call[c].me].active
      <4>1. call[c].me \in Users /\ users[call[c].me] # None /\ call[c].pc \in HasRead
        BY <1>1, <3>1, Known DEF LocalsOK, ForItself, OwnSteps, HasRead
      <4>2. e \in call'[c].missed /\ call'[e].wrote /\ Subject(call'[e]) = call[c].me
        BY <1>1, <1>2, <2>3, <3>4, <4>1, Deactivates
      <4> QED
        BY <3>1, <4>2 DEF Overtaken, Waits
    <3> QED
      BY <3>1, <3>2, <3>3, <3>4 DEF Waits
  <2> QED
    BY <2>2, <2>3
<1>3. ASSUME NEW c \in Calls, Restart, ForItself(c)', call'[c].pc \in OwnSteps
      PROVE  users'[call'[c].me].active \/ Overtaken(c, call[c].me)'
  BY <1>1, <1>3, Known DEF Restart, Cut, CallStates, OwnSteps, Ended
<1>4. CASE Tick \/ UNCHANGED vars
  BY <1>1, <1>4 DEF Tick, vars, OutInv, ForItself, Overtaken, Subject
<1> QED
  BY <1>1, <1>2, <1>3, <1>4 DEF OutInv, Next

LEMMA StepKeepsOut ==
    ASSUME OutInv, [Next]_vars, NEW c \in Calls, ForItself(c), ~call[c].wrote, call'[c].wrote
    PROVE  \/ users[call[c].me].active
           \/ \E d \in call[c].missed : Subject(call[d]) = call[c].me
<1>1. TypeInv
  BY DEF OutInv
<1>2. Step(c)
  <2>1. ASSUME NEW e \in Calls, Step(e), e # c PROVE FALSE
    BY <1>1, <2>1, OthersWait DEF Waits
  <2>2. CASE Restart
    BY <1>1, <2>2, Known DEF Restart, CallStates
  <2>3. CASE Tick \/ UNCHANGED vars
    BY <2>3 DEF Tick, vars
  <2> QED
    BY <2>1, <2>2, <2>3 DEF Next
<1>3. call[c].pc \in OwnSteps
  BY <1>1, <1>2, OwnStep, Known DEF Proceeds, LocalsOK, ForItself, OwnKinds, OwnSteps
<1> QED
  BY <1>3 DEF OutInv, Overtaken

\* What a call changes for the user of its credential it changes for an active user, unless the
\* account was changed after the credential was looked up.
THEOREM DisabledKeptOut == Spec => DisabledStayOut
<1>1. Init => OutInv
  <2> SUFFICES ASSUME Init PROVE OutInv
    OBVIOUS
  <2>1. TypeInv
    BY InitType
  <2>2. \A c \in Calls : call[c].req = None
    BY DEF Init, Idle
  <2> QED
    BY <2>1, <2>2 DEF OutInv, ForItself
<1>2. OutInv /\ [Next]_vars => OutInv'
  BY StepOut
<1>3. OutInv /\ [Next]_vars =>
         [\A c \in Calls :
             /\ call[c].req # None /\ call[c].me # None
             /\ call[c].req.kind \in OwnKinds \cup {"logout"}
             /\ ~call[c].wrote /\ call'[c].wrote
             => \/ users[call[c].me].active
                \/ \E d \in call[c].missed : Subject(call[d]) = call[c].me]_vars
  BY StepKeepsOut DEF ForItself
<1> QED
  BY <1>1, <1>2, <1>3, PTL DEF Spec, DisabledStayOut

-----------------------------------------------------------------------------
(* Sessions end when the account changes. *)

Disabling(u) ==
    \E d \in Calls : /\ call[d].pc \in {"end_sessions", "stranded"} /\ Subject(call[d]) = u
                     /\ call[d].req.kind = "update_user"
KeptBy(s) == \E c \in Calls : call[c].wrote /\ Kept(call[c]) = s
SignsIn(c) == call[c].req # None /\ call[c].req.kind \in {"setup", "login"}

\* What a login has found, or a setup written, is so still, unless it has missed a change.
LoginOK(c) ==
    LET u == call[c].req.user IN
    SignsIn(c) =>
       /\ call[c].pc = "verify" /\ call[c].found # None =>
             \/ Overtaken(c, u)
             \/ /\ users[u].active = call[c].found.active
                /\ users[u].password = call[c].found.password
       /\ call[c].pc \in {"audit", "expire", "open"} /\ call[c].then = "done" =>
             \/ Overtaken(c, u)
             \/ users[u].active /\ users[u].password = call[c].req.password

\* ChangesEndSessions, with the call that disabled the user told from one that set the password:
\* only the latter keeps a session.
SessionOK(s) ==
    LET u == sessions[s].user IN
    IsRow(sessions[s]) =>
       \/ Raced(s, u)
       \/ /\ users[u].active \/ Disabling(u)
          /\ users[u].password = sessions[s].opened \/ Ending(u) \/ KeptBy(s)

SessionInv ==
    GoneInv /\ (\A c \in Calls : LoginOK(c)) /\ (\A s \in SessionIds : SessionOK(s))

LEMMA OvertakenStays ==
    ASSUME TypeInv, NEW e \in Calls, Step(e), NEW c \in Calls, NEW u, Overtaken(c, u),
           call[c].missed \subseteq call'[c].missed
    PROVE  Overtaken(c, u)'
<1>1. call[c].missed \subseteq Calls
  BY Known DEF CallStates
<1> QED
  BY <1>1, WroteStays DEF Overtaken

\* What a step does to the account of a user, and who is told.
LEMMA AccountStep ==
    ASSUME TypeInv, NEW e \in Calls, Step(e), NEW u \in Users, users[u] # None, users'[u] # users[u]
    PROVE  /\ Subject(call'[e]) = u /\ call'[e].req = call[e].req
           /\ \A d \in Calls \ {e} : call[d].pc \in HasRead => Overtaken(d, u)'
           /\ \/ users'[u].active = users[u].active /\ call'[e].pc = "end_sessions"
              \/ /\ users'[u].password = users[u].password /\ call[e].req.kind = "update_user"
                 /\ ~users'[u].active => call'[e].pc = "end_sessions"
<1> DEFINE v == Subject(call[e])
<1>1. users \in [Users -> UserRows \cup {None}]
  BY DEF TypeInv, TypeOK
<1>2. v = u /\ call[e].pc # "insert"
  BY <1>1, UsersStep DEF Changes
<1>3. call[e].pc \in {"set_password", "write"}
  BY <1>2, UsersStep
<1>4. call'[e].req = call[e].req /\ call'[e].me = call[e].me
  BY <1>3, OwnStep DEF Proceeds
<1>5. Subject(call'[e]) = u
  BY <1>2, <1>4 DEF Subject
<1>6. ASSUME NEW d \in Calls \ {e}, call[d].pc \in HasRead PROVE Overtaken(d, u)'
  <2>1. e \in call'[d].missed /\ call'[e].wrote
    BY <1>3, <1>6, UsersStep DEF Changes
  <2> QED
    BY <1>5, <2>1 DEF Overtaken
<1>7. CASE call[e].pc = "set_password"
  <2>1. SetPassword(e)
    <3>1. ~Fails(e)
      BY DEF Fails
    <3> QED
      BY <1>7, <3>1 DEF Step, Arrive, Authenticate, CountUsers, LookupPassword, Verified, Touch,
         RecordLogin, DeleteExpired, OpenSession, Logout, EndSessions, ReadHash, InsertToken,
         DeleteToken, ReadUser, CountAdmins, Audit, InsertUser, WriteUser, At
  <2>2. call'[e].pc = "end_sessions"
    BY <2>1, CommitPc DEF SetPassword
  <2>3. users'[u] = WithPassword(users[u], call[e].req.new) /\ users[u] \in UserRows
    BY <1>1, <1>2, <1>7, UsersStep DEF Changes
  <2>4. users'[u].active = users[u].active
    BY <2>3 DEF WithPassword, UserRows
  <2> QED
    BY <1>4, <1>5, <1>6, <2>2, <2>4
<1>8. CASE call[e].pc = "write"
  <2>1. WriteUser(e)
    <3>1. ~Fails(e)
      BY DEF Fails
    <3> QED
      BY <1>8, <3>1 DEF Step, Arrive, Authenticate, CountUsers, LookupPassword, Verified, Touch,
         RecordLogin, DeleteExpired, OpenSession, Logout, EndSessions, ReadHash, InsertToken,
         DeleteToken, ReadUser, CountAdmins, Audit, InsertUser, SetPassword, At
  <2>2. call'[e].pc = IF Updated(call[e]).active THEN "audit" ELSE "end_sessions"
    <3> DEFINE pc == IF Updated(call[e]).active THEN "audit" ELSE "end_sessions"
    <3>1. \E table : Commit(e, table, pc)
      BY <2>1 DEF WriteUser
    <3> HIDE DEF pc
    <3>2. call'[e].pc = pc
      BY <3>1, CommitPc
    <3> QED
      BY <3>2 DEF pc
  <2>3. /\ users'[u] = WithUpdate(users[u], call[e]) /\ users[u] \in UserRows
        /\ call[e].req.kind = "update_user"
    BY <1>1, <1>2, <1>8, UsersStep DEF Changes
  <2>4. users'[u].password = users[u].password /\ users'[u].active = Updated(call[e]).active
    BY <2>3 DEF WithUpdate, UserRows
  <2> QED
    BY <1>4, <1>5, <1>6, <2>2, <2>3, <2>4
<1> QED
  BY <1>3, <1>7, <1>8

\* A step of the login itself.
LEMMA LoginStep ==
    ASSUME TypeInv, NEW c \in Calls, Step(c), LoginOK(c)
    PROVE  LoginOK(c)'
<1> DEFINE v == call[c]
           u == v.req.user
<1>1. v \in CallStates /\ Proceeds(c)
  BY Known, OwnStep
<1>2. CASE v.pc = "idle"
  <2>1. Arrive(c)
    BY <1>2 DEF Step, Authenticate, CountUsers, LookupPassword, Verified, RecordLogin, Touch, At,
         DeleteExpired, OpenSession, Logout, EndSessions, ReadHash, InsertToken, DeleteToken,
         ReadUser, CountAdmins, Audit, Fails, InsertUser, SetPassword, WriteUser
  <2>2. PICK w \in CallStates : Become(c, w) /\ Arrived(w)
    BY <2>1, ArriveShape
  <2>3. call'[c] = w
    BY <2>2 DEF Become, TypeInv, TypeOK
  <2> QED
    BY <2>2, <2>3 DEF Arrived, LoginOK
<1>3. CASE v.pc # "idle" /\ ~SignsIn(c)
  BY <1>1, <1>3 DEF Proceeds, SignsIn, LoginOK
<1>4. CASE v.pc # "idle" /\ SignsIn(c)
  <2>1. /\ call'[c].req = v.req /\ u \in Users
        /\ v.pc \notin {"read", "authenticate", "touch", "delete_session", "read_hash",
                        "set_password", "insert_token", "delete_token", "count_admins", "write",
                        "end_sessions", "stranded"}
    <3>1. LocalsOK(v, users, sessions, tokens) /\ Complete(v.req) /\ u \in Users \cup {None}
      BY <1>4, Known
    <3> QED
      BY <1>1, <1>4, <3>1 DEF LocalsOK, Signed, AdminKinds, OwnKinds, SignsIn, Proceeds, Complete
  <2>2. call'[c].missed = v.missed
    BY <1>1, <1>4, <2>1 DEF Proceeds
  <2>3. Overtaken(c, u) => \E d \in call'[c].missed : call'[d].wrote /\ Subject(call'[d]) = u
    <3> SUFFICES ASSUME NEW x, x = u, Overtaken(c, x)
                 PROVE  \E d \in call'[c].missed : call'[d].wrote /\ Subject(call'[d]) = x
      OBVIOUS
    <3>1. Overtaken(c, x)'
      BY <2>2, OvertakenStays
    <3> QED
      BY <3>1 DEF Overtaken
  <2>4. CASE CountUsers(c) \/ OpenSession(c) \/ RecordLogin(c) \/ Fails(c)
    <3>1. \E pc \in {"insert", "refused", "record_login", "done", "failed", "stranded"} :
             Goto(c, pc)
      BY <2>4 DEF CountUsers, OpenSession, RecordLogin, Fails, Cut
    <3>2. call'[c].pc \notin {"verify", "audit", "expire", "open"}
      BY <3>1, GotoPc
    <3> QED
      BY <3>2 DEF LoginOK
  <2>5. CASE InsertUser(c)
    <3>1. CASE Goto(c, "failed") \/ Goto(c, "refused")
      <4>1. call'[c].pc \in {"failed", "refused"}
        BY <3>1, GotoPc
      <4> QED
        BY <4>1 DEF LoginOK
    <3>2. CASE \E pc \in {"done", "audit"} : Commit(c, [users EXCEPT ![u] = NewRow(v.req)], pc)
      <4>1. users'[u].active /\ users'[u].password = v.req.password
        BY <2>1, <3>2 DEF Commit, NewRow, TypeInv, TypeOK
      <4>2. call'[c].pc # "verify"
        BY <3>2, CommitPc
      <4> QED
        BY <2>1, <4>1, <4>2 DEF LoginOK
    <3> QED
      BY <2>5, <3>1, <3>2, InsertUserRow
  <2>6. CASE LookupPassword(c)
    <3>1. call'[c] = [v EXCEPT !.pc = "verify", !.found = users[u]] /\ UNCHANGED users
      BY <2>6 DEF LookupPassword, Become, TypeInv, TypeOK
    <3>2. call'[c].pc = "verify" /\ call'[c].found = users[u]
      BY <1>1, <3>1 DEF CallStates
    <3> QED
      BY <2>1, <3>1, <3>2 DEF LoginOK
  <2>7. CASE Verified(c)
    <3>1. v.pc = "verify" /\ UNCHANGED users
      BY <2>7 DEF Verified, At
    <3>2. CASE Valid(v) /\ Goto(c, "audit")
      <4>1. call'[c].pc = "audit"
        BY <3>2, GotoPc
      <4> QED
        BY <1>4, <2>1, <2>3, <3>1, <3>2, <4>1 DEF LoginOK, Overtaken, Valid
    <3>3. CASE call'[c] = [v EXCEPT !.pc = "audit", !.then = "refused"]
      <4>1. call'[c].pc = "audit" /\ call'[c].then = "refused"
        BY <1>1, <3>3 DEF CallStates
      <4> QED
        BY <4>1 DEF LoginOK
    <3> QED
      BY <2>7, <3>2, <3>3 DEF Verified
  <2>8. CASE Audit(c)
    <3>1. v.pc = "audit" /\ UNCHANGED users /\ v.then \in {"done", "refused"}
      BY <1>1, <2>8 DEF Audit, At, CallStates
    <3>2. (Goto(c, "expire") /\ v.then = "done") \/ Goto(c, v.then)
      BY <2>8 DEF Audit
    <3>3. CASE Goto(c, v.then)
      BY <3>1, <3>3, GotoPc DEF LoginOK
    <3>4. CASE Goto(c, "expire") /\ v.then = "done"
      <4>1. call'[c].pc = "expire"
        BY <3>4, GotoPc
      <4> QED
        BY <1>4, <2>1, <2>3, <3>1, <3>4, <4>1 DEF LoginOK, Overtaken
    <3> QED
      BY <3>2, <3>3, <3>4
  <2>9. CASE DeleteExpired(c)
    <3>1. v.pc = "expire" /\ UNCHANGED users
      BY <2>9 DEF DeleteExpired, At
    <3>2. call'[c] = [v EXCEPT !.pc = "open"]
      BY <2>9 DEF DeleteExpired, Goto, Become, TypeInv, TypeOK
    <3>3. call'[c].pc = "open" /\ call'[c].then = v.then
      BY <1>1, <3>2 DEF CallStates
    <3> QED
      BY <1>4, <2>1, <2>3, <3>1, <3>3 DEF LoginOK, Overtaken
  <2> QED
    BY <1>4, <2>1, <2>4, <2>5, <2>6, <2>7, <2>8, <2>9
       DEF Step, Arrive, Authenticate, Touch, At, Logout, EndSessions, ReadHash, InsertToken,
           DeleteToken, ReadUser, CountAdmins, SetPassword, WriteUser
<1> QED
  BY <1>2, <1>3, <1>4

LEMMA StepLogin ==
    ASSUME SessionInv, NEW e \in Calls, Step(e), NEW c \in Calls
    PROVE  LoginOK(c)'
<1>1. TypeInv /\ LoginOK(c)
  BY DEF SessionInv, GoneInv
<1>2. CASE e = c
  BY <1>1, <1>2, LoginStep
<1>3. CASE e # c
  <2>1. Waits(c)
    BY <1>1, <1>3, OthersWait
  <2>2. ASSUME NEW u \in Users, u = call[c].req.user, users[u] # None, call[c].pc \in HasRead
        PROVE  /\ Overtaken(c, u) => Overtaken(c, u)'
               /\ users'[u] = users[u] \/ Overtaken(c, u)'
    BY <1>1, <1>3, <2>1, <2>2, OvertakenStays, AccountStep DEF Waits
  <2>3. ASSUME SignsIn(c), \/ call[c].pc = "verify" /\ call[c].found # None
                           \/ call[c].pc \in {"audit", "expire", "open"} /\ call[c].then = "done"
        PROVE  LoginOK(c)'
    <3>1. /\ call[c].req.user \in Users /\ users[call[c].req.user] # None
          /\ call[c].pc \in HasRead
      BY <1>1, <2>3, Known DEF LocalsOK, Complete, SignsIn, HasRead, Opening, OwnKinds
    <3> QED
      BY <1>1, <2>1, <2>2, <2>3, <3>1 DEF Waits, LoginOK, SignsIn, Overtaken
  <2> QED
    BY <2>1, <2>3 DEF Waits, LoginOK, SignsIn
<1> QED
  BY <1>2, <1>3

\* A session that is there afterwards was there before, for the same user, or has just been opened.
LEMMA SessionKept ==
    ASSUME TypeInv, NEW e \in Calls, Step(e), NEW s \in SessionIds, IsRow(sessions'[s])
    PROVE  \/ s = e /\ OpenSession(e)
           \/ /\ IsRow(sessions[s]) /\ sessions'[s].user = sessions[s].user
              /\ sessions'[s].opened = sessions[s].opened
              /\ EndSessions(e) => sessions[s].user # Subject(call[e]) \/ s = Kept(call[e])
<1>1. sessions \in [SessionIds -> SessionRows \cup {None, Gone}]
  BY DEF TypeInv, TypeOK
<1>2. CASE EndSessions(e)
  <2>1. sessions'[s] = sessions[s]
    BY <1>2 DEF EndSessions, IsRow
  <2>2. sessions[s].user # Subject(call[e]) \/ s = Kept(call[e])
    BY <1>2, <2>1 DEF EndSessions, IsRow
  <2> QED
    BY <2>1, <2>2
<1>3. CASE OpenSession(e)
  BY <1>1, <1>3 DEF OpenSession, EndSessions, At
<1>4. CASE Touch(e)
  <2>1. ~EndSessions(e)
    BY <1>4 DEF Touch, EndSessions, At
  <2>2. \/ sessions'[s] = sessions[s]
        \/ IsRow(sessions[s]) /\ sessions'[s] = [sessions[s] EXCEPT !.seen = now]
    BY <1>1, <1>4 DEF Touch
  <2> QED
    BY <1>1, <2>1, <2>2 DEF IsRow, SessionRows
<1>5. CASE sessions'[s] = sessions[s] /\ ~EndSessions(e)
  BY <1>5
<1>6. CASE DeleteExpired(e) \/ Logout(e)
  <2>1. ~EndSessions(e)
    BY <1>6 DEF DeleteExpired, Logout, EndSessions, At
  <2>2. sessions'[s] = sessions[s]
    BY <1>1, <1>6 DEF DeleteExpired, Logout, IsRow
  <2> QED
    BY <2>1, <2>2
<1>7. ~Touch(e) /\ ~DeleteExpired(e) /\ ~OpenSession(e) /\ ~Logout(e) /\ ~EndSessions(e) =>
         UNCHANGED sessions
  BY DEF Step, Arrive, Authenticate, CountUsers, InsertUser, LookupPassword, Verified, RecordLogin,
         ReadHash, SetPassword, InsertToken, DeleteToken, ReadUser, CountAdmins, WriteUser, Audit,
         Fails
<1> QED
  BY <1>2, <1>3, <1>4, <1>5, <1>6, <1>7

\* A call that has an account's sessions to end goes on having them to end, until it ends them.
LEMMA EndsStill ==
    ASSUME TypeInv, NEW e \in Calls, Step(e), NEW d \in Calls,
           call[d].pc \in {"end_sessions", "stranded"}
    PROVE  \/ /\ call'[d].pc \in {"end_sessions", "stranded"} /\ call'[d].req = call[d].req
              /\ Subject(call'[d]) = Subject(call[d])
           \/ d = e /\ EndSessions(e)
<1>1. CASE d # e
  BY <1>1, OthersWait DEF Waits, Subject
<1>2. CASE d = e /\ ~EndSessions(e)
  <2>1. call[e].pc = "end_sessions"
    BY <1>2, LateSteps DEF Ended
  <2>2. Fails(e)
    BY <1>2, <2>1
       DEF Step, Arrive, Authenticate, CountUsers, LookupPassword, Verified, Touch, RecordLogin,
           DeleteExpired, OpenSession, Logout, ReadHash, InsertToken, DeleteToken, ReadUser,
           CountAdmins, Audit, InsertUser, SetPassword, WriteUser, At
  <2>3. Goto(e, "stranded")
    BY <2>1, <2>2 DEF Fails, Cut
  <2>4. call'[e].pc = "stranded" /\ call'[e].req = call[e].req /\ call'[e].me = call[e].me
    BY <2>1, <2>3, GotoPc, OwnStep DEF Proceeds
  <2> QED
    BY <1>2, <2>4 DEF Subject
<1> QED
  BY <1>1, <1>2

LEMMA KeptStays ==
    ASSUME TypeInv, NEW e \in Calls, Step(e), NEW s, KeptBy(s)
    PROVE  KeptBy(s)'
<1>1. PICK c \in Calls : call[c].wrote /\ Kept(call[c]) = s
  BY DEF KeptBy
<1>2. call[c].pc # "idle"
  BY <1>1, Known DEF LocalsOK
<1>3. call'[c].wrote /\ call'[c].req = call[c].req
  BY <1>1, <1>2, WroteStays, OwnStep, OthersWait DEF Proceeds, Waits
<1> QED
  BY <1>1, <1>3 DEF KeptBy, Kept

\* The login that opened a session goes on having missed what it missed.
LEMMA RacedStays ==
    ASSUME GoneInv, NEW e \in Calls, Step(e), NEW s \in SessionIds, NEW u, Raced(s, u),
           sessions[s] # None
    PROVE  Raced(s, u)'
<1>1. TypeInv /\ s \in Calls /\ Overtaken(s, u) /\ MadeOnce(s)
  BY DEF GoneInv, Raced, Overtaken
<1>2. call[s].pc \in Ended \cup {"record_login"}
  BY <1>1 DEF MadeOnce
<1>3. call[s].missed \subseteq call'[s].missed
  BY <1>1, <1>2, OwnStep, OthersWait DEF Proceeds, Waits, Ended
<1>4. Overtaken(s, u)'
  BY <1>1, <1>3, OvertakenStays
<1> QED
  BY <1>1, <1>4 DEF Overtaken, Raced

\* A session that a login opens is as good as what the login knows.
LEMMA OpenedOK ==
    ASSUME SessionInv, NEW s \in Calls, s \in SessionIds, OpenSession(s), Step(s)
    PROVE  SessionOK(s)'
<1> DEFINE u == call[s].req.user
<1>1. TypeInv /\ LoginOK(s) /\ call[s].pc = "open"
  BY DEF SessionInv, GoneInv, OpenSession, At
<1>2. SignsIn(s) /\ call[s].then = "done"
  BY <1>1, Known DEF LocalsOK, Opening, SignsIn
<1>3. /\ UNCHANGED users /\ sessions'[s].user = u
      /\ sessions'[s].opened = call[s].req.password
  BY <1>1 DEF OpenSession, TypeInv, TypeOK
<1>4. call'[s].missed = call[s].missed
  BY <1>1, OwnStep DEF Proceeds
<1>5. CASE users[u].active /\ users[u].password = call[s].req.password
  BY <1>3, <1>5 DEF SessionOK
<1>6. ASSUME NEW x, x = u, Overtaken(s, x) PROVE SessionOK(s)'
  <2>1. Overtaken(s, x)'
    BY <1>1, <1>4, <1>6, OvertakenStays
  <2>2. Raced(s, x)'
    BY <2>1 DEF Raced, Overtaken
  <2> QED
    BY <1>3, <1>6, <2>2 DEF SessionOK, Raced
<1> QED
  BY <1>1, <1>2, <1>5, <1>6 DEF LoginOK

\* A session that was there and still is.
LEMMA KeptOK ==
    ASSUME SessionInv, NEW e \in Calls, Step(e), NEW s \in SessionIds, NEW u \in Users,
           IsRow(sessions[s]), sessions[s].user = u, sessions'[s].user = u,
           sessions'[s].opened = sessions[s].opened,
           EndSessions(e) => u # Subject(call[e]) \/ s = Kept(call[e])
    PROVE  SessionOK(s)'
<1>1. TypeInv /\ GoneInv /\ SessionOK(s) /\ users[u] # None /\ sessions[s] # None
  BY DEF SessionInv, GoneInv, TypeInv, RowsOK, IsRow
<1>2. Raced(s, u) => Raced(s, u)'
  BY <1>1, RacedStays
<1>3. KeptBy(s) => KeptBy(s)'
  BY <1>1, KeptStays
<1>4. CASE ~Raced(s, u)
  <2>1. users[u].active \/ Disabling(u)
    BY <1>1, <1>4 DEF SessionOK
  <2>2. users[u].password = sessions[s].opened \/ Ending(u) \/ KeptBy(s)
    BY <1>1, <1>4 DEF SessionOK
  <2>3. Disabling(u) => Disabling(u)'
    <3>1. SUFFICES ASSUME NEW d \in Calls, call[d].pc \in {"end_sessions", "stranded"},
                          Subject(call[d]) = u, call[d].req.kind = "update_user"
                   PROVE  Disabling(u)'
      BY DEF Disabling
    <3>2. CASE d = e /\ EndSessions(e)
      <4>1. s = Kept(call[e])
        BY <3>1, <3>2
      <4>2. Kept(call[e]) = None
        BY <3>1, <3>2 DEF Kept
      <4> QED
        BY <4>1, <4>2, Outsiders
    <3>3. CASE ~(d = e /\ EndSessions(e))
      BY <1>1, <3>1, <3>3, EndsStill DEF Disabling
    <3> QED
      BY <3>2, <3>3
  <2>4. Ending(u) => Ending(u)' \/ KeptBy(s)'
    <3>1. SUFFICES ASSUME NEW d \in Calls, call[d].pc \in {"end_sessions", "stranded"},
                          Subject(call[d]) = u
                   PROVE  Ending(u)' \/ KeptBy(s)'
      BY DEF Ending
    <3>2. CASE d = e /\ EndSessions(e)
      <4>1. s = Kept(call[e]) /\ call[e].wrote
        BY <1>1, <3>1, <3>2, Known DEF LocalsOK
      <4> QED
        BY <1>1, <4>1, KeptStays DEF KeptBy
    <3>3. CASE ~(d = e /\ EndSessions(e))
      BY <1>1, <3>1, <3>3, EndsStill DEF Ending
    <3> QED
      BY <3>2, <3>3
  <2>5. users'[u].active \/ Disabling(u)'
    <3>1. CASE users'[u] = users[u]
      BY <2>1, <2>3, <3>1
    <3>2. CASE users'[u] # users[u]
      <4>1. CASE users'[u].active = users[u].active
        BY <2>1, <2>3, <4>1
      <4>2. CASE ~users'[u].active /\ users'[u].active # users[u].active
        <5>1. /\ call'[e].pc = "end_sessions" /\ call'[e].req.kind = "update_user"
              /\ Subject(call'[e]) = u
          BY <1>1, <3>2, <4>2, AccountStep
        <5> QED
          BY <5>1 DEF Disabling
      <4> QED
        BY <4>1, <4>2
    <3> QED
      BY <3>1, <3>2
  <2>6. users'[u].password = sessions'[s].opened \/ Ending(u)' \/ KeptBy(s)'
    <3>1. CASE users'[u].password = users[u].password
      BY <1>3, <2>2, <2>4, <3>1
    <3>2. CASE users'[u].password # users[u].password
      <4>1. call'[e].pc = "end_sessions" /\ Subject(call'[e]) = u
        BY <1>1, <3>2, AccountStep
      <4> QED
        BY <4>1 DEF Ending
    <3> QED
      BY <3>1, <3>2
  <2> QED
    BY <2>5, <2>6 DEF SessionOK, Disabling, Ending, KeptBy
<1>5. CASE Raced(s, u)
  BY <1>2, <1>5 DEF SessionOK, Raced
<1> QED
  BY <1>4, <1>5

LEMMA StepSession ==
    ASSUME SessionInv, NEW e \in Calls, Step(e), NEW s \in SessionIds
    PROVE  SessionOK(s)'
<1>1. TypeInv
  BY DEF SessionInv, GoneInv
<1>2. CASE s = e /\ OpenSession(e)
  BY <1>2, OpenedOK
<1>3. CASE ~IsRow(sessions'[s])
  BY <1>3 DEF SessionOK, IsRow
<1>4. CASE IsRow(sessions'[s]) /\ ~(s = e /\ OpenSession(e))
  <2>1. /\ IsRow(sessions[s]) /\ sessions'[s].user = sessions[s].user
        /\ sessions'[s].opened = sessions[s].opened
        /\ EndSessions(e) => sessions[s].user # Subject(call[e]) \/ s = Kept(call[e])
    BY <1>1, <1>4, SessionKept
  <2>2. sessions[s].user \in Users
    BY <1>1, <2>1 DEF TypeInv, TypeOK, IsRow, SessionRows
  <2> QED
    BY <2>1, <2>2, KeptOK
<1> QED
  BY <1>2, <1>3, <1>4

\* A restart cuts the calls off: what they have missed and changed stands, and a call that had
\* sessions to end leaves them.
LEMMA CutOff ==
    ASSUME TypeInv, Restart, NEW c \in Calls
    PROVE  /\ call'[c].req = call[c].req /\ call'[c].missed = call[c].missed
           /\ call'[c].wrote = call[c].wrote /\ Subject(call'[c]) = Subject(call[c])
           /\ Kept(call'[c]) = Kept(call[c])
           /\ call[c].pc \in {"end_sessions", "stranded"} =>
                 call'[c].pc \in {"end_sessions", "stranded"}
           /\ call'[c].pc \notin {"lookup", "verify", "audit", "expire", "open"}
<1>1. call[c] \in CallStates
  BY Known
<1>2. \/ call'[c] = call[c] /\ call[c].pc \in Ended \cup {"idle"}
      \/ call'[c] = [call[c] EXCEPT !.pc = Cut(call[c].pc)]
  BY <1>1 DEF Restart, CallStates
<1>3. /\ call'[c].req = call[c].req /\ call'[c].missed = call[c].missed
      /\ call'[c].wrote = call[c].wrote /\ call'[c].me = call[c].me
  BY <1>1, <1>2 DEF CallStates
<1>4. \/ call'[c].pc = call[c].pc /\ call[c].pc \in Ended \cup {"idle"}
      \/ call'[c].pc = Cut(call[c].pc)
  BY <1>1, <1>2 DEF CallStates
<1>5. call[c].pc = "stranded" => call'[c].pc = "stranded"
  BY <1>1 DEF Restart, Ended
<1> QED
  BY <1>3, <1>4, <1>5 DEF Subject, Kept, Cut, Ended

LEMMA RestartSession == ASSUME SessionInv, Restart PROVE SessionInv'
<1>1. TypeInv /\ GoneInv'
  BY StepGone DEF SessionInv, GoneInv, Next
<1>2. ASSUME NEW c \in Calls PROVE LoginOK(c)'
  BY <1>1, CutOff DEF LoginOK
<1>3. ASSUME NEW s \in SessionIds PROVE SessionOK(s)'
  <2>1. CASE IsRow(sessions[s])
    <3> DEFINE u == sessions[s].user
    <3>1. UNCHANGED <<users, sessions>> /\ SessionOK(s)
      BY DEF Restart, SessionInv
    <3>2. Raced(s, u) => Raced(s, u)'
      <4>1. SUFFICES ASSUME Raced(s, u) PROVE Raced(s, u)'
        OBVIOUS
      <4>2. PICK d \in call[s].missed : call[d].wrote /\ Subject(call[d]) = u
        BY <4>1 DEF Raced
      <4>3. s \in Calls /\ d \in Calls
        BY <1>1, <4>1, Known DEF Raced, CallStates
      <4> QED
        BY <1>1, <3>1, <4>2, <4>3, CutOff DEF Raced
    <3>3. Disabling(u) => Disabling(u)'
      BY <1>1, <3>1, CutOff DEF Disabling
    <3>4. Ending(u) => Ending(u)'
      BY <1>1, <3>1, CutOff DEF Ending
    <3>5. KeptBy(s) => KeptBy(s)'
      BY <1>1, CutOff DEF KeptBy
    <3> QED
      BY <2>1, <3>1, <3>2, <3>3, <3>4, <3>5 DEF SessionOK, IsRow
  <2>2. CASE ~IsRow(sessions[s])
    BY <2>2 DEF SessionOK, IsRow, Restart
  <2> QED
    BY <2>1, <2>2
<1> QED
  BY <1>1, <1>2, <1>3 DEF SessionInv

LEMMA InitSession == Init => SessionInv
<1> SUFFICES ASSUME Init PROVE SessionInv
  OBVIOUS
<1>1. GoneInv /\ TypeInv
  BY InitGone DEF GoneInv
<1>2. ASSUME NEW c \in Calls PROVE LoginOK(c)
  BY DEF Init, Idle, LoginOK, SignsIn
<1>3. ASSUME NEW s \in SessionIds, IsRow(sessions[s])
      PROVE  /\ users[sessions[s].user].active
             /\ users[sessions[s].user].password = sessions[s].opened
  <2>1. /\ users[OldSessions[s]].active
        /\ sessions[s] = [user |-> OldSessions[s], expires |-> SessionTTL, seen |-> 0,
                          opened |-> users[OldSessions[s]].password]
    BY <1>3 DEF Init, IsRow
  <2> QED
    BY <2>1
<1> QED
  BY <1>1, <1>2, <1>3 DEF SessionInv, SessionOK

LEMMA StepSessionInv == ASSUME SessionInv, [Next]_vars PROVE SessionInv'
<1>1. GoneInv'
  BY StepGone DEF SessionInv
<1>2. ASSUME NEW e \in Calls, Step(e) PROVE SessionInv'
  BY <1>1, <1>2, StepLogin, StepSession DEF SessionInv
<1>3. CASE Tick \/ UNCHANGED vars
  BY <1>1, <1>3 DEF Tick, vars, SessionInv, LoginOK, SignsIn, Overtaken, SessionOK, Raced,
                    Disabling, Ending, KeptBy
<1> QED
  BY <1>2, <1>3, RestartSession DEF Next

\* A session belongs to an active user and was opened with the current password, unless the call
\* that changed that has not ended the sessions yet or never will, the login overlapped with the
\* change, or the session is the one in which the user changed the password.
THEOREM ChangesEnd == Spec => []ChangesEndSessions
<1>1. SessionInv => ChangesEndSessions
  <2> SUFFICES ASSUME SessionInv, NEW s \in SessionIds, IsRow(sessions[s])
               PROVE  LET u == sessions[s].user IN
                      \/ Ending(u) \/ Raced(s, u)
                      \/ /\ users[u].active
                         /\ \/ users[u].password = sessions[s].opened
                            \/ \E c \in Calls : call[c].wrote /\ Kept(call[c]) = s
    BY DEF ChangesEndSessions
  <2>1. Disabling(sessions[s].user) => Ending(sessions[s].user)
    BY DEF Disabling, Ending
  <2> QED
    BY <2>1 DEF SessionInv, SessionOK, KeptBy
<1> QED
  BY <1>1, InitSession, StepSessionInv, PTL DEF Spec

-----------------------------------------------------------------------------
(* The login throttle. *)

WithKey(d, k) == call[d].req.kind = "login" /\ k \in KeysOf(call[d].req)
Alone(c, k) == ~\E d \in call[c].missed : WithKey(d, k)
AloneRecent(k) == {f \in Recent(k) : Alone(f.call, k)}

\* What a call has missed are calls with a request, and a failure is that of a login.
HistoryOK ==
    /\ \A c \in Calls : \A d \in call[c].missed : call[d].req # None
    /\ \A k \in ThrottleKeys :
          /\ IsFiniteSet(failures[k])
          /\ \A f \in failures[k] : call[f.call].req # None /\ call[f.call].req.kind = "login"

\* A login under way that has missed no failure with its email or address has room for its own.
Room(c) ==
    call[c].pc \in {"lookup", "verify"} =>
       \A k \in KeysOf(call[c].req) : Alone(c, k) => Cardinality(Recent(k)) < Limit(k)

GuessInv ==
    /\ TypeInv /\ HistoryOK
    /\ \A c \in Calls : Room(c)
    /\ \A k \in ThrottleKeys : Cardinality(AloneRecent(k)) <= Limit(k)

\* A call with a request keeps it, and one that is not in a read keeps what it has missed.
LEMMA RequestStays ==
    ASSUME TypeInv, [Next]_vars, NEW c \in Calls, call[c].req # None
    PROVE  /\ call'[c].req = call[c].req
           /\ call[c].req.kind = "login" => call[c].missed \subseteq call'[c].missed
<1>1. call[c].pc # "idle" /\ (call[c].req.kind = "login" => call[c].pc # "read")
  BY Known DEF LocalsOK
<1>2. ASSUME NEW e \in Calls, Step(e)
      PROVE  /\ call'[c].req = call[c].req
             /\ call[c].req.kind = "login" => call[c].missed \subseteq call'[c].missed
  BY <1>1, <1>2, OwnStep, OthersWait DEF Proceeds, Waits
<1>3. CASE Restart
  BY <1>3, CutOff
<1>4. CASE Tick \/ UNCHANGED vars
  BY <1>4 DEF Tick, vars
<1> QED
  BY <1>2, <1>3, <1>4 DEF Next

\* What a step does to the failures of an email or an address: one is added only by a login that
\* is found to be wrong, which the others under way then have missed.
LEMMA FailuresStep ==
    ASSUME TypeInv, [Next]_vars, NEW k \in ThrottleKeys
    PROVE  \/ failures'[k] = failures[k] \/ failures'[k] = {}
           \/ \E e \in Calls :
                 /\ Step(e) /\ call[e].pc = "verify" /\ k \in KeysOf(call[e].req)
                 /\ failures'[k] = Recent(k) \cup {[call |-> e, at |-> now]} /\ now' = now
                 /\ call'[e].missed = call[e].missed /\ call'[e].pc = "audit"
                 /\ \A d \in Calls \ {e} :
                       call[d].pc \in {"lookup", "verify"} => e \in call'[d].missed
<1>1. ASSUME NEW e \in Calls, Verified(e)
      PROVE  \/ failures'[k] = failures[k] \/ failures'[k] = {}
             \/ /\ Step(e) /\ call[e].pc = "verify" /\ k \in KeysOf(call[e].req)
                /\ failures'[k] = Recent(k) \cup {[call |-> e, at |-> now]} /\ now' = now
                /\ call'[e].missed = call[e].missed /\ call'[e].pc = "audit"
                /\ \A d \in Calls \ {e} :
                      call[d].pc \in {"lookup", "verify"} => e \in call'[d].missed
  <2>1. call[e].pc = "verify" /\ Step(e) /\ now' = now
    BY <1>1 DEF Verified, At, Step
  <2>2. CASE Valid(call[e])
    BY <1>1, <2>2 DEF Verified, TypeInv, TypeOK
  <2>3. CASE ~Valid(call[e])
    <3>1. /\ failures'[k] = IF k \in KeysOf(call[e].req)
                            THEN Recent(k) \cup {[call |-> e, at |-> now]} ELSE failures[k]
          /\ call'[e] = [call[e] EXCEPT !.pc = "audit", !.then = "refused"]
          /\ \A d \in Calls \ {e} : call'[d] = Behind(e, d, {"lookup", "verify"})
      BY <1>1, <2>3 DEF Verified
    <3>2. call'[e].missed = call[e].missed /\ call'[e].pc = "audit"
      BY <3>1, Known DEF CallStates
    <3>3. ASSUME NEW d \in Calls \ {e}, call[d].pc \in {"lookup", "verify"}
          PROVE  e \in call'[d].missed
      <4>1. call'[d] = [call[d] EXCEPT !.missed = call[d].missed \cup {e}] /\ call[d] \in CallStates
        BY <3>1, <3>3, Known DEF Behind
      <4> QED
        BY <4>1 DEF CallStates
    <3> QED
      BY <2>1, <3>1, <3>2, <3>3
  <2> QED
    BY <2>2, <2>3
<1>2. ASSUME NEW e \in Calls, Step(e), ~Verified(e) PROVE UNCHANGED failures
  BY <1>2
     DEF Step, Arrive, Authenticate, CountUsers, LookupPassword, RecordLogin, Touch, DeleteExpired,
         OpenSession, Logout, EndSessions, ReadHash, InsertToken, DeleteToken, ReadUser,
         CountAdmins, Audit, Fails, InsertUser, SetPassword, WriteUser
<1>3. CASE Restart
  BY <1>3 DEF Restart
<1>4. CASE Tick \/ UNCHANGED vars
  BY <1>4 DEF Tick, vars
<1> QED
  BY <1>1, <1>2, <1>3, <1>4 DEF Next

\* Only calls that have started are missed.
LEMMA MissedWho ==
    ASSUME TypeInv, [Next]_vars, NEW c \in Calls, NEW d \in Calls,
           d \in call'[c].missed, d \notin call[c].missed
    PROVE  call[d].pc # "idle"
<1>1. ASSUME NEW e \in Calls, Step(e), e # c PROVE call[d].pc # "idle"
  <2>1. call[c] \in CallStates
    BY Known
  <2>2. ASSUME NEW w PROVE ~Become(e, w)
    BY <1>1, <2>2 DEF Become, TypeInv, TypeOK
  <2>3. call[e].pc # "idle"
    BY <1>1, <2>2, ArriveShape
       DEF Step, Authenticate, CountUsers, LookupPassword, Verified, RecordLogin, Touch, At,
           DeleteExpired, OpenSession, Logout, EndSessions, ReadHash, InsertToken, DeleteToken,
           ReadUser, CountAdmins, Audit, Fails, InsertUser, SetPassword, WriteUser
  <2>4. \E pcs : call'[c] = Behind(e, c, pcs)
    <3>1. CASE \E table, pc : Commit(e, table, pc)
      BY <1>1, <3>1 DEF Commit
    <3>2. CASE Verified(e)
      BY <1>1, <2>2, <3>2 DEF Verified, Goto
    <3>3. CASE InsertUser(e)
      BY <1>1, <2>2, <3>3 DEF InsertUser, Goto, Commit
    <3>4. CASE SetPassword(e) \/ WriteUser(e)
      BY <1>1, <3>4 DEF SetPassword, WriteUser, Commit
    <3>5. ~Verified(e) /\ ~InsertUser(e) /\ ~SetPassword(e) /\ ~WriteUser(e) => \E w : Become(e, w)
      BY <1>1
         DEF Step, Arrive, Authenticate, CountUsers, LookupPassword, RecordLogin, DeleteExpired,
             Touch, OpenSession, Logout, EndSessions, ReadHash, InsertToken, DeleteToken,
             ReadUser, CountAdmins, Audit, Fails, Goto
    <3> QED
      BY <2>2, <3>2, <3>3, <3>4, <3>5
  <2>5. d = e
    BY <2>1, <2>4 DEF Behind, CallStates
  <2> QED
    BY <2>3, <2>5
<1>2. ASSUME Step(c) PROVE FALSE
  <2>1. call[c] \in CallStates /\ call[c].pc \in {"idle", "read"}
    BY <1>2, Known, OwnStep DEF Proceeds
  <2>2. CASE Arrive(c)
    <3>1. PICK w \in CallStates : Become(c, w) /\ Arrived(w)
      BY <2>2, ArriveShape
    <3> QED
      BY <3>1 DEF Become, Arrived, TypeInv, TypeOK
  <2>3. CASE ReadUser(c)
    <3> DEFINE w == [call[c] EXCEPT !.found = users[call[c].req.user], !.missed = {}]
    <3>1. w.missed = {}
      BY <2>1 DEF CallStates
    <3>2. \E pc : call'[c] = [w EXCEPT !.pc = pc]
      BY <2>3 DEF ReadUser, Become, TypeInv, TypeOK
    <3> QED
      BY <2>1, <3>1, <3>2 DEF CallStates
  <2>4. CASE Fails(c)
    BY <2>1, <2>4 DEF Fails, Goto, Become, TypeInv, TypeOK, CallStates
  <2> QED
    BY <1>2, <2>1, <2>2, <2>3, <2>4
       DEF Step, Authenticate, CountUsers, LookupPassword, Verified, RecordLogin, Touch, At,
           DeleteExpired, OpenSession, Logout, EndSessions, ReadHash, InsertToken, DeleteToken,
           CountAdmins, Audit, InsertUser, SetPassword, WriteUser
<1>3. CASE Restart
  BY <1>3, CutOff
<1>4. CASE Tick \/ UNCHANGED vars
  BY <1>4 DEF Tick, vars
<1> QED
  BY <1>1, <1>2, <1>3, <1>4 DEF Next

LEMMA StepHistory == ASSUME GuessInv, [Next]_vars PROVE HistoryOK'
<1>1. TypeInv /\ TypeInv' /\ HistoryOK
  BY StepType DEF GuessInv
<1>2. ASSUME NEW c \in Calls, NEW d \in call'[c].missed PROVE call'[d].req # None
  <2>1. d \in Calls
    BY <1>1, Known DEF TypeInv, TypeOK, CallStates
  <2>2. CASE d \in call[c].missed
    BY <1>1, <2>1, <2>2, RequestStays DEF HistoryOK
  <2>3. CASE d \notin call[c].missed
    <3>1. call[d].pc # "idle"
      BY <1>1, <1>2, <2>1, <2>3, MissedWho
    <3>2. call[d].req # None
      BY <1>1, <2>1, <3>1, Known DEF LocalsOK
    <3> QED
      BY <1>1, <2>1, <3>2, RequestStays
  <2> QED
    BY <2>2, <2>3
<1>3. ASSUME NEW k \in ThrottleKeys
      PROVE  /\ IsFiniteSet(failures'[k])
             /\ \A f \in failures'[k] :
                   call'[f.call].req # None /\ call'[f.call].req.kind = "login"
  <2>1. ASSUME NEW f \in failures[k]
        PROVE  call'[f.call].req # None /\ call'[f.call].req.kind = "login"
    <3>1. f.call \in Calls
      BY <1>1 DEF TypeInv, TypeOK
    <3> QED
      BY <1>1, <3>1, RequestStays DEF HistoryOK
  <2>2. IsFiniteSet(failures[k]) /\ IsFiniteSet(Recent(k)) /\ Recent(k) \subseteq failures[k]
    <3>1. IsFiniteSet(failures[k]) /\ Recent(k) \subseteq failures[k]
      BY <1>1 DEF HistoryOK, Recent
    <3> QED
      BY <3>1, FS_Subset
  <2>3. CASE failures'[k] = failures[k]
    BY <2>1, <2>2, <2>3
  <2>4. CASE failures'[k] = {}
    BY <2>4, FS_EmptySet
  <2>5. ASSUME NEW e \in Calls, call[e].pc = "verify",
               failures'[k] = Recent(k) \cup {[call |-> e, at |-> now]}
        PROVE  /\ IsFiniteSet(failures'[k])
               /\ \A f \in failures'[k] :
                     call'[f.call].req # None /\ call'[f.call].req.kind = "login"
    <3>1. IsFiniteSet(failures'[k])
      <4> DEFINE R == Recent(k)
      <4>1. IsFiniteSet(R) /\ failures'[k] = R \cup {[call |-> e, at |-> now]}
        BY <2>2, <2>5
      <4> HIDE DEF R
      <4> QED
        BY <4>1, FS_AddElement
    <3>2. call'[e].req # None /\ call'[e].req.kind = "login"
      BY <1>1, <2>5, Known, RequestStays DEF LocalsOK
    <3> QED
      BY <2>1, <2>2, <2>5, <3>1, <3>2
  <2> QED
    BY <1>1, <2>3, <2>4, <2>5, FailuresStep
<1> QED
  BY <1>2, <1>3 DEF HistoryOK

LEMMA RecentShrinks ==
    ASSUME TypeInv, [Next]_vars, NEW k \in ThrottleKeys,
           failures'[k] = failures[k] \/ failures'[k] = {}
    PROVE  Recent(k)' \subseteq Recent(k)
<1>1. now \in Nat /\ (now' = now \/ now' = now + 1)
  BY DEF TypeInv, TypeOK, Next, Tick, Restart, vars, Step, Arrive, Authenticate, Touch, CountUsers,
         InsertUser, LookupPassword, Verified, DeleteExpired, OpenSession, RecordLogin, Logout,
         ReadHash, SetPassword, EndSessions, InsertToken, DeleteToken, ReadUser, CountAdmins,
         WriteUser, Audit, Fails
<1>2. Window \in Nat /\ \A f \in failures[k] : f.at \in Nat
  BY AccountsAssumption DEF AccountsAssumption, TypeInv, TypeOK
<1> QED
  BY <1>1, <1>2 DEF Recent

\* What a login has missed, it has missed for good.
LEMMA AloneBefore ==
    ASSUME TypeInv, HistoryOK, [Next]_vars, NEW c \in Calls, call[c].req # None,
           call[c].req.kind = "login", NEW k, Alone(c, k)'
    PROVE  Alone(c, k)
<1> SUFFICES ASSUME NEW d \in call[c].missed, WithKey(d, k) PROVE FALSE
  BY DEF Alone
<1>1. d \in Calls /\ call[d].req # None
  BY Known DEF HistoryOK, CallStates
<1>2. call'[d].req = call[d].req /\ d \in call'[c].missed
  BY <1>1, RequestStays
<1> QED
  BY <1>2 DEF Alone, WithKey

\* The failures on record are finitely many.
LEMMA Finite ==
    ASSUME HistoryOK, NEW k \in ThrottleKeys
    PROVE  /\ IsFiniteSet(Recent(k)) /\ Recent(k) \subseteq failures[k]
           /\ IsFiniteSet(AloneRecent(k)) /\ AloneRecent(k) \subseteq Recent(k)
           /\ Cardinality(Recent(k)) \in Nat /\ Cardinality(AloneRecent(k)) \in Nat
           /\ Limit(k) \in Nat \ {0}
<1>1. IsFiniteSet(failures[k]) /\ Recent(k) \in SUBSET failures[k]
  BY DEF HistoryOK, Recent
<1>2. IsFiniteSet(Recent(k)) /\ AloneRecent(k) \in SUBSET Recent(k)
  BY <1>1, FS_Subset DEF AloneRecent
<1>3. IsFiniteSet(AloneRecent(k))
  BY <1>2, FS_Subset
<1>4. Limit(k) \in Nat \ {0}
  BY AccountsAssumption DEF AccountsAssumption, Limit
<1> QED
  BY <1>1, <1>2, <1>3, <1>4, FS_CardinalityType

\* The keys of a login under way are throttle keys.
LEMMA LoginKeys ==
    ASSUME TypeInv, NEW c \in Calls, call[c].pc \in {"lookup", "verify"}
    PROVE  /\ call[c].req # None /\ call[c].req.kind = "login"
           /\ KeysOf(call[c].req) \subseteq ThrottleKeys
<1>1. call[c].req \in RequestRecords /\ call[c].req.kind = "login" /\ Complete(call[c].req)
      /\ call[c].req # None
  BY Known DEF LocalsOK
<1>2. call[c].req.user \in Users /\ call[c].req.address \in Addresses
  BY <1>1 DEF RequestRecords, Complete, OwnKinds
<1> QED
  BY <1>1, <1>2 DEF KeysOf, ThrottleKeys

LEMMA StepRoom == ASSUME GuessInv, [Next]_vars, NEW c \in Calls PROVE Room(c)'
<1>1. TypeInv /\ TypeInv' /\ HistoryOK /\ HistoryOK' /\ Room(c)
  BY StepType, StepHistory DEF GuessInv
<1>2. SUFFICES ASSUME call'[c].pc \in {"lookup", "verify"}, NEW k \in KeysOf(call'[c].req),
                      Alone(c, k)'
               PROVE  Cardinality(Recent(k))' < Limit(k)
  BY DEF Room, Limit, KeysOf
<1>3. CASE call[c].pc \in {"lookup", "verify"}
  <2>1. /\ call[c].req # None /\ call[c].req.kind = "login" /\ call'[c].req = call[c].req
        /\ KeysOf(call[c].req) \subseteq ThrottleKeys
    BY <1>1, <1>3, LoginKeys, RequestStays
  <2>2. k \in ThrottleKeys /\ k \in KeysOf(call[c].req) /\ Alone(c, k)
    BY <1>1, <1>2, <2>1, AloneBefore
  <2>3. Cardinality(Recent(k)) < Limit(k)
    BY <1>1, <1>3, <2>2 DEF Room
  <2>4. CASE failures'[k] = failures[k] \/ failures'[k] = {}
    <3>1. Recent(k)' \in SUBSET Recent(k) /\ IsFiniteSet(Recent(k))
      BY <1>1, <2>2, <2>4, RecentShrinks, Finite
    <3>2. Cardinality(Recent(k)') <= Cardinality(Recent(k)) /\ Cardinality(Recent(k)') \in Nat
      <4>1. IsFiniteSet(Recent(k)')
        BY <3>1, FS_Subset
      <4> QED
        BY <3>1, <4>1, FS_Subset, FS_CardinalityType
    <3> QED
      BY <1>1, <2>2, <2>3, <3>2, Finite
  <2>5. ASSUME NEW e \in Calls, call[e].pc = "verify", k \in KeysOf(call[e].req),
               call'[e].pc = "audit",
               \A d \in Calls \ {e} : call[d].pc \in {"lookup", "verify"} => e \in call'[d].missed
        PROVE  FALSE
    <3>1. e \in call'[c].missed
      BY <1>2, <1>3, <2>5
    <3>2. call'[e].req = call[e].req /\ call[e].req.kind = "login"
      BY <1>1, <2>5, LoginKeys, RequestStays
    <3> QED
      BY <1>2, <2>5, <3>1, <3>2 DEF Alone, WithKey
  <2> QED
    BY <1>1, <2>2, <2>4, <2>5, FailuresStep
<1>4. CASE call[c].pc \notin {"lookup", "verify"}
  <2>1. Arrive(c)
    <3>1. ~LookupPassword(c) /\ ~Restart /\ ~Tick /\ ~UNCHANGED vars
      BY <1>1, <1>2, <1>4, CutOff DEF LookupPassword, At, Tick, vars
    <3>2. ASSUME NEW e \in Calls \ {c}, Step(e) PROVE FALSE
      BY <1>1, <1>2, <1>4, <3>2, OthersWait DEF Waits
    <3> QED
      BY <1>1, <1>2, <3>1, <3>2, ToWrite DEF Next
  <2>2. PICK w \in CallStates : Become(c, w) /\ Arrived(w)
    BY <1>1, <2>1, ArriveShape
  <2>3. call'[c] = w
    BY <1>1, <2>2 DEF Become, TypeInv, TypeOK
  <2>4. ~Throttled(call'[c].req) /\ k \in ThrottleKeys
    <3>1. KeysOf(call'[c].req) \subseteq ThrottleKeys
      <4>1. /\ call'[c].req \in RequestRecords /\ call'[c].req.kind = "login"
            /\ Complete(call'[c].req)
        BY <1>2, <2>2, <2>3 DEF Arrived, CallStates
      <4> QED
        BY <4>1 DEF RequestRecords, Complete, OwnKinds, KeysOf, ThrottleKeys
    <3> QED
      BY <1>2, <2>2, <2>3, <3>1 DEF Arrived
  <2>5. Recent(k)' = Recent(k)
    BY <2>1 DEF Arrive, Recent
  <2>6. ~(Cardinality(Recent(k)) >= Limit(k))
    BY <1>2, <2>4 DEF Throttled
  <2>7. Cardinality(Recent(k)) \in Nat /\ Limit(k) \in Nat
    BY <1>1, <2>4, Finite
  <2> QED
    BY <2>5, <2>6, <2>7
<1> QED
  BY <1>3, <1>4

LEMMA StepBound ==
    ASSUME GuessInv, [Next]_vars, NEW k \in ThrottleKeys
    PROVE  Cardinality(AloneRecent(k)') <= Limit(k)
<1>1. TypeInv /\ HistoryOK /\ Cardinality(AloneRecent(k)) <= Limit(k)
  BY DEF GuessInv
<1>2. ASSUME NEW S, S \subseteq AloneRecent(k) PROVE Cardinality(S) <= Limit(k)
  <2> DEFINE R == AloneRecent(k)
  <2>1. IsFiniteSet(R) /\ S \in SUBSET R /\ Cardinality(R) <= Limit(k) /\ Cardinality(R) \in Nat
        /\ Limit(k) \in Nat
    BY <1>1, <1>2, Finite
  <2> HIDE DEF R
  <2>2. Cardinality(S) <= Cardinality(R) /\ IsFiniteSet(S)
    BY <2>1, FS_Subset
  <2>3. Cardinality(S) \in Nat
    BY <2>2, FS_CardinalityType
  <2> QED
    BY <2>1, <2>2, <2>3
<1>3. ASSUME NEW f \in Recent(k), Alone(f.call, k)' PROVE f \in AloneRecent(k)
  <2>1. f \in failures[k] /\ f.call \in Calls
    BY <1>1, Finite DEF TypeInv, TypeOK
  <2>2. call[f.call].req # None /\ call[f.call].req.kind = "login"
    BY <1>1, <2>1 DEF HistoryOK
  <2>3. \A c \in Calls : c = f.call => Alone(c, k)
    BY <1>1, <1>3, <2>1, <2>2, AloneBefore DEF Alone, WithKey
  <2> QED
    BY <1>3, <2>1, <2>3 DEF AloneRecent
<1>4. CASE failures'[k] = failures[k] \/ failures'[k] = {}
  <2>1. AloneRecent(k)' \subseteq AloneRecent(k)
    BY <1>1, <1>3, <1>4, RecentShrinks DEF AloneRecent
  <2> QED
    BY <1>2, <2>1
<1>5. ASSUME NEW e \in Calls, Step(e), call[e].pc = "verify", k \in KeysOf(call[e].req),
             failures'[k] = Recent(k) \cup {[call |-> e, at |-> now]}, now' = now,
             call'[e].missed = call[e].missed
      PROVE  Cardinality(AloneRecent(k)') <= Limit(k)
  <2> DEFINE new == [call |-> e, at |-> now]
             R == Recent(k)
             A == AloneRecent(k)'
  <2>1. Recent(k)' \subseteq R \cup {new} /\ A \subseteq Recent(k)'
    BY <1>5 DEF Recent, AloneRecent
  <2>2. CASE Alone(e, k)
    <3>1. Cardinality(R) < Limit(k) /\ IsFiniteSet(R) /\ Cardinality(R) \in Nat /\ Limit(k) \in Nat
      BY <1>1, <1>5, <2>2, Finite DEF GuessInv, Room
    <3>2. A \in SUBSET (R \cup {new})
      BY <2>1
    <3> HIDE DEF A, R, new
    <3>3. IsFiniteSet(R \cup {new}) /\ Cardinality(R \cup {new}) <= Cardinality(R) + 1
          /\ Cardinality(R \cup {new}) \in Nat
      <4>1. /\ IsFiniteSet(R \cup {new})
            /\ Cardinality(R \cup {new}) = IF new \in R THEN Cardinality(R) ELSE Cardinality(R) + 1
        BY <3>1, FS_AddElement
      <4> QED
        BY <3>1, <4>1
    <3>4. Cardinality(A) <= Cardinality(R \cup {new}) /\ IsFiniteSet(A)
      BY <3>2, <3>3, FS_Subset
    <3>5. Cardinality(A) \in Nat
      BY <3>4, FS_CardinalityType
    <3>6. Cardinality(A) <= Limit(k)
      BY <3>1, <3>3, <3>4, <3>5
    <3> QED
      BY <3>6 DEF A
  <2>3. CASE ~Alone(e, k)
    <3>1. call[e].req # None /\ call[e].req.kind = "login"
      BY <1>1, <1>5, LoginKeys
    <3>2. ~Alone(e, k)'
      BY <1>1, <2>3, <3>1, AloneBefore
    <3>3. new \notin A
      <4>1. new.call = e
        OBVIOUS
      <4> HIDE DEF new
      <4> QED
        BY <3>2, <4>1 DEF AloneRecent, Alone, WithKey
    <3>4. A \subseteq AloneRecent(k)
      BY <1>3, <2>1, <3>3 DEF AloneRecent
    <3> QED
      BY <1>2, <3>4
  <2> QED
    BY <2>2, <2>3
<1> QED
  BY <1>1, <1>4, <1>5, FailuresStep

\* Per email and per address, within the window, no more failures than the limit, apart from
\* those of logins that were admitted while another was still failing.
THEOREM GuessesLimited == Spec => []GuessesBounded
<1>1. Init => GuessInv
  <2> SUFFICES ASSUME Init PROVE GuessInv
    OBVIOUS
  <2>1. TypeInv
    BY InitType
  <2>2. /\ \A c \in Calls : call[c].missed = {} /\ call[c].pc = "idle"
        /\ \A k \in ThrottleKeys : failures[k] = {}
    BY DEF Init, Idle
  <2>3. HistoryOK
    BY <2>2, FS_EmptySet DEF HistoryOK
  <2>4. ASSUME NEW k \in ThrottleKeys PROVE Cardinality(AloneRecent(k)) <= Limit(k)
    <3>1. AloneRecent(k) = {} /\ Limit(k) \in Nat
      BY <2>2, <2>3, Finite DEF AloneRecent, Recent
    <3> QED
      BY <3>1, FS_EmptySet
  <2> QED
    BY <2>1, <2>2, <2>3, <2>4 DEF GuessInv, Room
<1>2. GuessInv /\ [Next]_vars => GuessInv'
  <2> SUFFICES ASSUME GuessInv, [Next]_vars PROVE GuessInv'
    OBVIOUS
  <2>1. TypeInv' /\ HistoryOK'
    BY StepType, StepHistory DEF GuessInv
  <2>2. \A k \in ThrottleKeys : Cardinality(AloneRecent(k)') <= Limit(k)
    BY StepBound
  <2> QED
    BY <2>1, <2>2, StepRoom DEF GuessInv, Limit
<1>3. GuessInv => GuessesBounded
  BY DEF GuessInv, GuessesBounded, AloneRecent, Alone, WithKey
<1> QED
  BY <1>1, <1>2, <1>3, PTL DEF Spec

=============================================================================
