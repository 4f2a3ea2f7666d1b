------------------------------ MODULE Accounts ------------------------------
(***************************************************************************)
(* Dashboard accounts (auth.py, deps.py, accounts.py, audit.py,            *)
(* api/auth_routes.py, api/user_routes.py, repositories/sql_auth.py): who  *)
(* may sign in, which sessions and API tokens work, and who remains an     *)
(* administrator, when calls interleave at their awaits, database calls    *)
(* raise and the process dies.                                             *)
(*                                                                         *)
(* A coroutine runs from one await to the next in one step, which includes *)
(* the database statement it awaits.  A user is named by the email, which  *)
(* is unique and never changes; the session or token a call creates is     *)
(* named by the call, for the random secret.                               *)
(***************************************************************************)
EXTENDS Integers, FiniteSets

CONSTANTS
    Users,          \* emails
    Passwords,
    Addresses,      \* client addresses
    Calls,          \* requests to the account endpoints
    Menu,           \* per call, the requests it may be
    InitialUsers,   \* users tables at the start
    OldSessions,    \* per session older than every call, its user
    OldTokens,      \* per API token older than every call, its user
    SessionTTL,     \* session_ttl_hours
    TouchInterval,  \* TOUCH_INTERVAL
    PerEmail,       \* LoginThrottle.per_email
    PerAddress,     \* LoginThrottle.per_address
    Window,         \* LoginThrottle.window_seconds
    MaxTime,        \* bound: the clock stops here
    Faults,         \* whether database calls may raise and the process may die
    None, Gone

VARIABLES
    users,     \* users: None or the row
    sessions,  \* sessions: None, the row, or Gone once deleted
    tokens,    \* api_tokens, likewise
    failures,  \* LoginThrottle._failures, in memory
    call,      \* per call: its coroutine
    now        \* the clock

vars == <<users, sessions, tokens, failures, call, now>>

Roles == {"viewer", "editor", "admin"}
UserRows == [role : Roles, active : BOOLEAN, password : Passwords]
SessionIds == Calls \cup DOMAIN OldSessions
TokenIds == Calls \cup DOMAIN OldTokens
SessionRows == [user : Users, expires : Nat, seen : Nat, opened : Passwords]
TokenRows == [user : Users, seen : Nat \cup {None}]  \* None until it is first used
ThrottleKeys == Users \cup Addresses

AdminKinds == {"add_user", "update_user", "reset_password"}
OwnKinds == {"change_password", "create_token", "delete_token"}
Kinds == AdminKinds \cup OwnKinds \cup {"setup", "login", "logout", "create-user"}

\* via, cred: the credential presented; csrf: the header is there; password, new: the
\* password presented and the one to set; target: the token to delete.
RequestRecords ==
    [kind : Kinds, via : {"admin_token", "session", "api_token", "none"},
     cred : SessionIds \cup TokenIds \cup {None}, csrf : BOOLEAN,
     user : Users \cup {None}, address : Addresses \cup {None},
     password : Passwords \cup {None}, new : Passwords \cup {None},
     role : Roles \cup {None}, disabled : BOOLEAN \cup {None}, target : TokenIds \cup {None}]

\* The fields a body or a command must have, and the credential that goes with its kind.
Complete(req) ==
    /\ req.kind \notin OwnKinds \cup {"logout"} => req.user # None
    /\ req.kind \in {"setup", "login", "add_user", "create-user", "change_password"} =>
          req.password # None
    /\ req.kind \in {"change_password", "reset_password"} => req.new # None
    /\ req.kind \in {"add_user", "create-user"} => req.role # None
    /\ req.kind = "login" => req.address # None
    /\ req.kind = "delete_token" => req.target # None
    /\ req.via = "session" => req.cred \in SessionIds
    /\ req.via = "api_token" => req.cred \in TokenIds

Ended == {"done", "refused", "failed", "stranded"}
CallStates ==
    [pc : {"idle", "authenticate", "touch", "count", "insert", "lookup", "verify", "expire", "open",
           "record_login", "delete_session", "read_hash", "set_password", "end_sessions",
           "insert_token", "delete_token", "read", "count_admins", "write", "audit"} \cup Ended,
     req : RequestRecords \cup {None}, role : Roles \cup {None},
     me : Users \cup {None}, found : UserRows \cup {None}, then : {"done", "refused"},
     wrote : BOOLEAN, missed : SUBSET Calls]

ASSUME AccountsAssumption ==
    /\ IsFiniteSet(Users)
    /\ Menu \in [Calls -> SUBSET RequestRecords]
    /\ \A c \in Calls : \A req \in Menu[c] : Complete(req)
    /\ Calls \cap (DOMAIN OldSessions \cup DOMAIN OldTokens) = {}
    /\ InitialUsers \subseteq [Users -> UserRows \cup {None}]
    /\ OldSessions \in [DOMAIN OldSessions -> Users]
    /\ OldTokens \in [DOMAIN OldTokens -> Users]
    /\ {SessionTTL, PerEmail, PerAddress, Window} \subseteq Nat \ {0}
    /\ {TouchInterval, MaxTime} \subseteq Nat
    /\ Faults \in BOOLEAN
    /\ Users \cap Addresses = {}
    /\ None \notin Users \cup Passwords \cup Addresses \cup SessionIds \cup TokenIds
    /\ None \notin Kinds \cup Roles /\ None \notin BOOLEAN
    /\ \A x \in {None, Gone} : x \notin UserRows /\ x \notin SessionRows /\ x \notin TokenRows
    /\ None \notin RequestRecords /\ None # Gone

-----------------------------------------------------------------------------
Idle == [pc |-> "idle", req |-> None, role |-> None, me |-> None,
         found |-> None, then |-> "done", wrote |-> FALSE, missed |-> {}]

\* A user that is disabled at the start has no session, for that ended them.
Init ==
    /\ users \in InitialUsers
    /\ sessions = [s \in SessionIds |->
                      IF /\ s \in DOMAIN OldSessions
                         /\ users[OldSessions[s]] # None /\ users[OldSessions[s]].active
                      THEN [user |-> OldSessions[s], expires |-> SessionTTL, seen |-> 0,
                            opened |-> users[OldSessions[s]].password]
                      ELSE None]
    /\ tokens = [t \in TokenIds |->
                    IF t \in DOMAIN OldTokens /\ users[OldTokens[t]] # None
                    THEN [user |-> OldTokens[t], seen |-> 0]
                    ELSE None]
    /\ failures = [k \in ThrottleKeys |-> {}]
    /\ call = [c \in Calls |-> Idle]
    /\ now = 1

IsRow(x) == x \notin {None, Gone}
At(c, pc) == call[c].pc = pc

\* count_active_admins().
ActiveAdmins == {u \in Users : users[u] # None /\ users[u].role = "admin" /\ users[u].active}

\* The account a call is about.
Subject(w) == IF w.req.kind \in OwnKinds THEN w.me ELSE w.req.user

Become(c, w) == call' = [call EXCEPT ![c] = w]
Goto(c, pc) == Become(c, [call[c] EXCEPT !.pc = pc])

\* History: `missed` of a call are the calls that changed what it has read since it read it.
Behind(c, d, pcs) == IF call[d].pc \in pcs THEN [call[d] EXCEPT !.missed = @ \cup {c}] ELSE call[d]
HasRead ==
    {"insert", "verify", "touch", "read_hash", "set_password", "insert_token", "delete_token",
     "delete_session", "count_admins", "write", "audit", "expire", "open"}

\* A statement that changes the users table, after which c is at pc.
Commit(c, table, pc) ==
    /\ users' = table
    /\ call' = [d \in Calls |-> IF d = c THEN [call[c] EXCEPT !.pc = pc, !.wrote = TRUE]
                                ELSE Behind(c, d, HasRead)]

-----------------------------------------------------------------------------
(* The login throttle. *)

\* _recent(): attempts that are too old are dropped.
Recent(k) == {f \in failures[k] : f.at > now - Window}
KeysOf(req) == {req.user, req.address}
Limit(k) == IF k \in Users THEN PerEmail ELSE PerAddress

\* Mutant of Throttled: one attempt too many.
ThrottledLate(req) == \E k \in KeysOf(req) : Cardinality(Recent(k)) > Limit(k)

\* retry_after() > 0.
Throttled(req) == \E k \in KeysOf(req) : Cardinality(Recent(k)) >= Limit(k)

-----------------------------------------------------------------------------
(* Authentication. *)

FirstStep ==
    [logout |-> "delete_session", change_password |-> "read_hash", create_token |-> "insert_token",
     delete_token |-> "delete_token", add_user |-> "insert", update_user |-> "read",
     reset_password |-> "read"]

\* Where the endpoint starts once the principal is known: the CSRF header, require_admin,
\* _user_of; a logout without a session has nothing to delete.
Entry(w) ==
    CASE w.req.via = "session" /\ ~w.req.csrf -> "refused"
      [] w.req.kind \in AdminKinds /\ w.role # "admin" -> "refused"
      [] w.req.kind \in OwnKinds /\ w.me = None -> "refused"
      [] w.req.kind = "logout" /\ w.req.via # "session" -> "done"
      [] OTHER -> FirstStep[w.req.kind]

\* A request arrives and runs to its first await.  A session or token that a call creates can
\* be presented once that call has answered.
Arrive(c) ==
    /\ call[c].pc = "idle"
    /\ \E req \in Menu[c] :
          LET w == [Idle EXCEPT !.req = req] IN
          /\ req.cred \in Calls => call[req.cred].pc = "done"
          /\ Become(c, CASE req.kind = "setup" ->
                              [w EXCEPT !.pc =
                                  IF req.via = "admin_token" THEN "count" ELSE "refused"]
                         [] req.kind = "login" ->
                              IF Throttled(req) THEN [w EXCEPT !.pc = "audit", !.then = "refused"]
                              ELSE [w EXCEPT !.pc = "lookup"]
                         [] req.kind = "create-user" -> [w EXCEPT !.pc = "insert"]
                         [] OTHER -> [w EXCEPT !.pc = "authenticate"])
    /\ UNCHANGED <<users, sessions, tokens, failures, now>>

CredentialRow(req) == IF req.via = "session" THEN sessions[req.cred] ELSE tokens[req.cred]

\* Mutant of Accepted: only sessions are checked for the user's state.
AcceptedToken(req) ==
    /\ req.via \in {"session", "api_token"}
    /\ IsRow(CredentialRow(req))
    /\ req.via = "session" => CredentialRow(req).expires > now
    /\ req.via = "session" => users[CredentialRow(req).user].active

\* The credential gives access: the query joins the users table.
Accepted(req) ==
    /\ req.via \in {"session", "api_token"}
    /\ IsRow(CredentialRow(req))
    /\ req.via = "session" => CredentialRow(req).expires > now
    /\ users[CredentialRow(req).user].active

\* current_principal: the admin token, an API token or a session; the role is read here.
Authenticate(c) ==
    /\ At(c, "authenticate")
    /\ LET w == call[c]
           token == [w EXCEPT !.role = "admin"]
           row == CredentialRow(w.req)
           user == [w EXCEPT !.me = row.user, !.role = users[row.user].role]
       IN  \/ /\ w.req.via = "admin_token"
              /\ Become(c, [token EXCEPT !.pc = Entry(token)])
           \/ /\ Accepted(w.req)
              /\ Become(c, [user EXCEPT !.pc = IF row.seen = None \/ now - row.seen > TouchInterval
                                               THEN "touch" ELSE Entry(user)])
           \/ /\ w.req.via # "admin_token" /\ ~Accepted(w.req)
              /\ Goto(c, "refused")
    /\ UNCHANGED <<users, sessions, tokens, failures, now>>

\* Mutant of Touch: the row is put back if it is gone.
TouchUpsert(c) ==
    /\ At(c, "touch")
    /\ LET w == call[c] IN
       /\ Goto(c, Entry(w))
       /\ sessions' = IF w.req.via = "session"
                      THEN [sessions EXCEPT ![w.req.cred] =
                               [user |-> w.me, expires |-> now + SessionTTL, seen |-> now,
                                opened |-> users[w.me].password]]
                      ELSE sessions
       /\ UNCHANGED tokens
    /\ UNCHANGED <<users, failures, now>>

\* touch(): an UPDATE, which matches no row if the session or token has been deleted.
Touch(c) ==
    /\ At(c, "touch")
    /\ LET w == call[c] IN
       /\ Goto(c, Entry(w))
       /\ sessions' = IF w.req.via = "session" /\ IsRow(sessions[w.req.cred])
                      THEN [sessions EXCEPT ![w.req.cred].seen = now] ELSE sessions
       /\ tokens' = IF w.req.via = "api_token" /\ IsRow(tokens[w.req.cred])
                    THEN [tokens EXCEPT ![w.req.cred].seen = now] ELSE tokens
    /\ UNCHANGED <<users, failures, now>>

-----------------------------------------------------------------------------
(* setup, add_user, the command line: create_user. *)

\* Mutant of CountUsers: nothing is counted.
CountNothing(c) ==
    /\ At(c, "count")
    /\ Goto(c, "insert")
    /\ UNCHANGED <<users, sessions, tokens, failures, now>>

\* "Requires an empty user table": read in one statement, inserted in another.
CountUsers(c) ==
    /\ At(c, "count")
    /\ Goto(c, IF \E u \in Users : users[u] # None THEN "refused" ELSE "insert")
    /\ UNCHANGED <<users, sessions, tokens, failures, now>>

\* Mutant of InsertUser: setup takes a role from its body, which has none.
InsertAnyRole(c) ==
    /\ At(c, "insert")
    /\ LET req == call[c].req
           row == [role |-> req.role, active |-> TRUE, password |-> req.password]
       IN  IF users[req.user] = None
           THEN Commit(c, [users EXCEPT ![req.user] = row], "audit")
           ELSE /\ Goto(c, "refused")
                /\ UNCHANGED users
    /\ UNCHANGED <<sessions, tokens, failures, now>>

\* The insert, once the password is hashed; the email is unique.  setup() does not expect a
\* duplicate: the error becomes a 500.
InsertUser(c) ==
    /\ At(c, "insert")
    /\ LET req == call[c].req
           row == [role |-> IF req.kind = "setup" THEN "admin" ELSE req.role,
                   active |-> TRUE, password |-> req.password]
       IN  IF users[req.user] = None
           THEN Commit(c, [users EXCEPT ![req.user] = row],
                       IF req.kind = "create-user" THEN "done" ELSE "audit")
           ELSE /\ Goto(c, IF req.kind = "setup" THEN "failed" ELSE "refused")
                /\ UNCHANGED users
    /\ UNCHANGED <<sessions, tokens, failures, now>>

-----------------------------------------------------------------------------
(* login, after the throttle. *)

\* get_with_password.
LookupPassword(c) ==
    /\ At(c, "lookup")
    /\ Become(c, [call[c] EXCEPT !.pc = "verify", !.found = users[call[c].req.user]])
    /\ UNCHANGED <<users, sessions, tokens, failures, now>>

Valid(w) == w.found # None /\ w.found.password = w.req.password /\ w.found.active

\* verify_password has answered: the throttle is told, then the event is recorded.
Verified(c) ==
    /\ At(c, "verify")
    /\ LET w == call[c] IN
       IF Valid(w)
       THEN /\ failures' = [failures EXCEPT ![w.req.user] = {}]
            /\ Goto(c, "audit")
       ELSE /\ failures' = [k \in ThrottleKeys |->
                               IF k \in KeysOf(w.req)
                               THEN Recent(k) \cup {[call |-> c, at |-> now]}
                               ELSE failures[k]]
            /\ call' = [d \in Calls |-> IF d = c THEN [w EXCEPT !.pc = "audit", !.then = "refused"]
                                        ELSE Behind(c, d, {"lookup", "verify"})]
    /\ UNCHANGED <<users, sessions, tokens, now>>

\* _start_session: delete_expired.
DeleteExpired(c) ==
    /\ At(c, "expire")
    /\ sessions' = [s \in SessionIds |-> IF IsRow(sessions[s]) /\ sessions[s].expires <= now
                                         THEN Gone ELSE sessions[s]]
    /\ Goto(c, "open")
    /\ UNCHANGED <<users, tokens, failures, now>>

\* _start_session: the insert.
OpenSession(c) ==
    /\ At(c, "open")
    /\ sessions' = [sessions EXCEPT ![c] = [user |-> call[c].req.user, expires |-> now + SessionTTL,
                                            seen |-> now, opened |-> call[c].req.password]]
    /\ Goto(c, "record_login")
    /\ UNCHANGED <<users, tokens, failures, now>>

\* _start_session: record_login writes a time that nothing reads; then the cookie is sent.
RecordLogin(c) ==
    /\ At(c, "record_login")
    /\ Goto(c, "done")
    /\ UNCHANGED <<users, sessions, tokens, failures, now>>

-----------------------------------------------------------------------------
(* Logout, passwords and API tokens. *)

Logout(c) ==
    /\ At(c, "delete_session")
    /\ sessions' = [sessions EXCEPT ![call[c].req.cred] = Gone]
    /\ Become(c, [call[c] EXCEPT !.pc = "audit", !.wrote = TRUE])
    /\ UNCHANGED <<users, tokens, failures, now>>

\* change_password: get_password_hash, verify_password and the hash of the new one.
ReadHash(c) ==
    /\ At(c, "read_hash")
    /\ Goto(c, IF users[call[c].me].password = call[c].req.password THEN "set_password"
               ELSE "refused")
    /\ UNCHANGED <<users, sessions, tokens, failures, now>>

\* set_password, of change_password and reset_password.
SetPassword(c) ==
    /\ At(c, "set_password")
    /\ LET u == Subject(call[c])
       IN  Commit(c, [users EXCEPT ![u].password = call[c].req.new], "end_sessions")
    /\ UNCHANGED <<sessions, tokens, failures, now>>

\* The session delete_for_user keeps: the caller's own, when it changes its password.
Kept(w) ==
    IF w.req.kind = "change_password" /\ w.req.via = "session" THEN w.req.cred ELSE None

\* delete_for_user.
EndSessions(c) ==
    /\ At(c, "end_sessions")
    /\ LET w == call[c]
           ends(s) == IsRow(sessions[s]) /\ sessions[s].user = Subject(w) /\ s # Kept(w)
       IN  sessions' = [s \in SessionIds |-> IF ends(s) THEN Gone ELSE sessions[s]]
    /\ Goto(c, "audit")
    /\ UNCHANGED <<users, tokens, failures, now>>

InsertToken(c) ==
    /\ At(c, "insert_token")
    /\ tokens' = [tokens EXCEPT ![c] = [user |-> call[c].me, seen |-> None]]
    /\ Become(c, [call[c] EXCEPT !.pc = "audit", !.wrote = TRUE])
    /\ UNCHANGED <<users, sessions, failures, now>>

\* Only the owner's row matches.
DeleteToken(c) ==
    /\ At(c, "delete_token")
    /\ LET t == call[c].req.target IN
       IF IsRow(tokens[t]) /\ tokens[t].user = call[c].me
       THEN /\ tokens' = [tokens EXCEPT ![t] = Gone]
            /\ Become(c, [call[c] EXCEPT !.pc = "audit", !.wrote = TRUE])
       ELSE /\ Goto(c, "refused")
            /\ UNCHANGED tokens
    /\ UNCHANGED <<users, sessions, failures, now>>

-----------------------------------------------------------------------------
(* update_user and reset_password. *)

IsAdmin(row) == row.role = "admin" /\ row.active

\* The row a PATCH will write, from the row it read.
Updated(w) ==
    [w.found EXCEPT !.role = IF w.req.role = None THEN @ ELSE w.req.role,
                    !.active = IF w.req.disabled = None THEN @ ELSE ~w.req.disabled]
LosesAdmin(w) == IsAdmin(w.found) /\ ~IsAdmin(Updated(w))

\* _existing, and the checks that need no query.
ReadUser(c) ==
    /\ At(c, "read")
    /\ LET w == [call[c] EXCEPT !.found = users[call[c].req.user], !.missed = {}] IN
       Become(c, [w EXCEPT !.pc = IF w.found = None THEN "refused"
                                  ELSE IF w.req.kind = "reset_password" THEN "set_password"
                                  ELSE IF ~LosesAdmin(w) THEN "write"
                                  ELSE IF w.me = w.req.user THEN "refused" ELSE "count_admins"])
    /\ UNCHANGED <<users, sessions, tokens, failures, now>>

\* Mutant of CountAdmins: off by one.
CountNone(c) ==
    /\ At(c, "count_admins")
    /\ Goto(c, IF Cardinality(ActiveAdmins) < 1 THEN "refused" ELSE "write")
    /\ UNCHANGED <<users, sessions, tokens, failures, now>>

\* count_active_admins, checked before the write in a statement of its own.
CountAdmins(c) ==
    /\ At(c, "count_admins")
    /\ Goto(c, IF Cardinality(ActiveAdmins) <= 1 THEN "refused" ELSE "write")
    /\ UNCHANGED <<users, sessions, tokens, failures, now>>

\* Mutant of WriteUser: the sessions of a disabled user are left alone.
WriteOnly(c) ==
    /\ At(c, "write")
    /\ LET row == Updated(call[c])
           u == call[c].req.user
       IN  Commit(c, [users EXCEPT ![u].role = row.role, ![u].active = row.active], "audit")
    /\ UNCHANGED <<sessions, tokens, failures, now>>

\* users.update writes every field but the password.
WriteUser(c) ==
    /\ At(c, "write")
    /\ LET row == Updated(call[c])
           u == call[c].req.user
       IN  Commit(c, [users EXCEPT ![u].role = row.role, ![u].active = row.active],
                  IF row.active THEN "audit" ELSE "end_sessions")
    /\ UNCHANGED <<sessions, tokens, failures, now>>

-----------------------------------------------------------------------------
(* audit.record, what may go wrong, and time. *)

\* Best effort: an insert that raises is logged, and the call goes on.  Its row is in nobody's way.
Audit(c) ==
    /\ At(c, "audit")
    /\ LET w == call[c] IN
       Goto(c, IF w.then = "done" /\ w.req.kind \in {"setup", "login"} THEN "expire" ELSE w.then)
    /\ UNCHANGED <<users, sessions, tokens, failures, now>>

\* Where a call is left that ends before its time: `stranded` has changed an account and will
\* not end its sessions.
Cut(pc) == IF pc = "end_sessions" THEN "stranded" ELSE "failed"

\* A database call raises: the client gets a 500.  One that raises after it took effect looks
\* like one that fails at the next await.
Fails(c) ==
    /\ Faults
    /\ call[c].pc \notin Ended \cup {"idle", "verify", "audit"}
    /\ Goto(c, Cut(call[c].pc))
    /\ UNCHANGED <<users, sessions, tokens, failures, now>>

\* The process dies, or stops, and starts again: every call and the throttle's memory are lost.
Restart ==
    /\ Faults
    /\ call' = [c \in Calls |-> IF call[c].pc \in Ended \cup {"idle"} THEN call[c]
                                ELSE [call[c] EXCEPT !.pc = Cut(@)]]
    /\ failures' = [k \in ThrottleKeys |-> {}]
    /\ UNCHANGED <<users, sessions, tokens, now>>

Tick ==
    /\ now < MaxTime
    /\ now' = now + 1
    /\ UNCHANGED <<users, sessions, tokens, failures, call>>

Step(c) ==
    \/ Arrive(c) \/ Authenticate(c) \/ Touch(c) \/ CountUsers(c) \/ InsertUser(c)
    \/ LookupPassword(c) \/ Verified(c) \/ DeleteExpired(c) \/ OpenSession(c) \/ RecordLogin(c)
    \/ Logout(c) \/ ReadHash(c) \/ SetPassword(c) \/ EndSessions(c)
    \/ InsertToken(c) \/ DeleteToken(c)
    \/ ReadUser(c) \/ CountAdmins(c) \/ WriteUser(c) \/ Audit(c) \/ Fails(c)

Next == (\E c \in Calls : Step(c)) \/ Restart \/ Tick

Spec == Init /\ [][Next]_vars

-----------------------------------------------------------------------------
(* Properties. *)

TypeOK ==
    /\ users \in [Users -> UserRows \cup {None}]
    /\ sessions \in [SessionIds -> SessionRows \cup {None, Gone}]
    /\ tokens \in [TokenIds -> TokenRows \cup {None, Gone}]
    /\ failures \in [ThrottleKeys -> SUBSET [call : Calls, at : Nat]]
    /\ call \in [Calls -> CallStates]
    /\ now \in Nat

\* Only setups that overlap can both create a first administrator: one of them counted the
\* users before the other inserted its own (auth_routes.setup).
SetupOnce ==
    \A c, d \in Calls :
        /\ c # d
        /\ \A e \in {c, d} : call[e].req # None /\ call[e].req.kind = "setup" /\ call[e].wrote
        => c \in call[d].missed \/ d \in call[c].missed

\* An active administrator remains, unless a PATCH is written that missed a change made since
\* it read the user (user_routes.update_user).
AdminRemains ==
    [][ActiveAdmins # {} =>
          \/ ActiveAdmins' # {}
          \/ \E c \in Calls : At(c, "write") /\ call'[c].wrote /\ call[c].missed # {}]_vars

\* As the error message and README say it.
AdminStays == [][ActiveAdmins # {} => ActiveAdmins' # {}]_vars

\* A call has committed a change to u's account and has not ended its sessions, or never will.
Ending(u) == \E c \in Calls : call[c].pc \in {"end_sessions", "stranded"} /\ Subject(call[c]) = u

\* The session was opened by a login whose view of u's account was out of date.
Raced(s, u) ==
    s \in Calls /\ \E d \in call[s].missed : call[d].wrote /\ Subject(call[d]) = u

\* A session belongs to an active user and was opened with the current password, unless the
\* call that changed that has not come to its second statement, the login overlapped with it,
\* or the session is the one in which the user changed the password (change_password,
\* reset_password, update_user against _start_session).
ChangesEndSessions ==
    \A s \in SessionIds : IsRow(sessions[s]) =>
        LET u == sessions[s].user IN
        \/ Ending(u) \/ Raced(s, u)
        \/ /\ users[u].active
           /\ \/ users[u].password = sessions[s].opened
              \/ \E c \in Calls : call[c].wrote /\ Kept(call[c]) = s

\* What has been logged out, ended, or deleted never works again, whatever else was under way
\* (the touch of a call that read the row before, above all).
GoneForGood ==
    [][/\ \A s \in SessionIds : sessions[s] = Gone => sessions'[s] = Gone
       /\ \A t \in TokenIds : tokens[t] = Gone => tokens'[t] = Gone]_vars

\* What a user changes with a session or an API token is changed while the user is active, unless
\* the account was changed after the credential was looked up (current_principal looks once; the
\* endpoint works on what it found).
DisabledStayOut ==
    [][\A c \in Calls :
          /\ call[c].req # None /\ call[c].me # None
          /\ call[c].req.kind \in OwnKinds \cup {"logout"}
          /\ ~call[c].wrote /\ call'[c].wrote
          => \/ users[call[c].me].active
             \/ \E d \in call[c].missed : Subject(call[d]) = call[c].me]_vars

\* Per email and per address, within the window, no more failures than the limit, apart from
\* those of logins that were admitted while another was still failing (LoginThrottle).
GuessesBounded ==
    \A k \in ThrottleKeys :
        LET alone(c) ==
                ~\E d \in call[c].missed : call[d].req.kind = "login" /\ k \in KeysOf(call[d].req)
        IN  Cardinality({f \in Recent(k) : alone(f.call)}) <= Limit(k)
=============================================================================
