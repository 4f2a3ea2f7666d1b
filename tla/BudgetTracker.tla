---------------------------- MODULE BudgetTracker ----------------------------
(***************************************************************************)
(* The budget tracker (budgets.py) with everything that calls it: the      *)
(* budget check before a request is forwarded, the counting of its ledger  *)
(* row afterwards, and the admin endpoints that change or report budgets.  *)
(*                                                                         *)
(* The server is one asyncio process per replica, so the code between two  *)
(* awaits runs as one step.  A database await is two steps, the read or    *)
(* commit inside the database and the reply that resumes the task, and any *)
(* other task may run between the two.                                     *)
(*                                                                         *)
(* A spend figure is the bag of ledger rows it adds up: counted[r] says    *)
(* how many times the row of request r is in it, and Spend is the integer  *)
(* the code holds.  Budgets are numbered in creation order, the order in   *)
(* which list_all returns them and the tracker's loops visit them.         *)
(***************************************************************************)
EXTENDS Integers, FiniteSets, FiniteSetsExt

CONSTANTS
    Requests,      \* proxied requests
    Admins,        \* calls of the budget endpoints, one operation each
    Replicas,      \* server processes sharing one database
    Balance,       \* the replicas the load balancer may send each call to
    Budgets,       \* budget numbers, in creation order
    InitBudgets,   \* the budgets tables a run may start with
    NewRows,       \* the rows a POST may create
    Patches,       \* PATCH bodies: the new value of each field, or None to keep it
    Costs,         \* costs a finished request may have (nanodollars)
    PeriodLength,  \* length of each budget's period, in ticks
    TTL,           \* ttl_seconds, in ticks
    DbFails,       \* whether database calls may fail
    QueryTime,     \* bound: ticks a database call may be in flight
    MaxTime,       \* bound: the clock stops here
    None, Gone     \* no row, list, cache entry or value; a deleted row

VARIABLES
    now,      \* the clock: time.monotonic() and the tracker's wall clock
    budgets,  \* budgets table: None (not created), Gone, or a row
    ledger,   \* ledger table: None or the request's row
    list,     \* per replica: _budget_list with _budget_list_at
    spend,    \* per replica: _spend, by budget and period
    task      \* per request or admin call: its coroutine

vars == <<now, budgets, ledger, list, spend, task>>

Tasks == Requests \cup Admins
Times == 1 .. MaxTime
Periods == 0 .. MaxTime

\* A scope is the set of requests whose team or key it matches.
Rows == [limit : Nat \ {0}, hard : BOOLEAN, enabled : BOOLEAN,
         scope : SUBSET Requests, updated_at : Nat]
PatchBodies == [limit : (Nat \ {0}) \cup {None}, hard : BOOLEAN \cup {None},
                enabled : BOOLEAN \cup {None}, scope : (SUBSET Requests) \cup {None}]

\* A ledger row; when it was committed is history.  A cached figure; its scope, the filter
\* it was computed with, is history too.
LedgerRows == [created_at : 0 .. MaxTime, cost : Nat, committed_at : Times]
Entries == [counted : [Requests -> Nat], fetched_at : Times, scope : SUBSET Requests]

NoRows == [b \in Budgets |-> None]
NothingCounted == [r \in Requests |-> 0]

ASSUME TrackerAssumption ==
    /\ Budgets \subseteq Nat /\ IsFiniteSet(Budgets) /\ IsFiniteSet(Requests)
    /\ Requests \cap Admins = {}
    /\ Balance \in [Tasks -> SUBSET Replicas]
    /\ Costs \subseteq Nat
    /\ PeriodLength \in [Budgets -> Nat \ {0}]
    /\ DbFails \in BOOLEAN
    /\ TTL \in Nat /\ QueryTime \in Nat /\ MaxTime \in Nat \ {0}
    /\ NewRows \subseteq Rows
    /\ InitBudgets \subseteq [Budgets -> Rows \cup {None}]
    /\ Patches \subseteq PatchBodies
    /\ None # Gone /\ {None, Gone} \cap (Rows \cup LedgerRows \cup Entries) = {}

-----------------------------------------------------------------------------
\* periods.period_window: the calendar period of budget b that contains t.
Period(b, t) == t \div PeriodLength[b]
PeriodEnd(b, p) == (p + 1) * PeriodLength[b]

\* Mutant of TotalCost: the row at the very start of the period is left out (> for >=).
TotalCostAfterStart(b, p, scope) ==
    [r \in Requests |->
        IF /\ ledger[r] # None /\ r \in scope
           /\ Period(b, ledger[r].created_at) = p
           /\ ledger[r].created_at > p * PeriodLength[b]
        THEN 1 ELSE 0]

\* Ledger rows of period p in a scope, each once: repositories/sql.total_cost.
TotalCost(b, p, scope) ==
    [r \in Requests |->
        IF ledger[r] # None /\ r \in scope /\ Period(b, ledger[r].created_at) = p
        THEN 1 ELSE 0]

\* The integer a bag of rows stands for.
Spend(counted) ==
    SumFunction([r \in {q \in Requests : counted[q] > 0} |-> counted[r] * ledger[r].cost])

Exists(rows, b) == rows[b] \notin {None, Gone}
Expired(at) == now - at > TTL

\* The enabled budgets that apply to request r (applicable, applies_to).
Applicable(rows, r) ==
    {b \in Budgets : Exists(rows, b) /\ rows[b].enabled /\ r \in rows[b].scope}

IsFirst(b, S) == b \in S /\ \A c \in S : b <= c

\* Mutant of Exhausted: > for >=.
Overrun(u) == Spend(u.counted) > u.limit

\* usage.exhausted for a BudgetUsage.
Exhausted(u) == Spend(u.counted) >= u.limit

\* The exhausted ones among the usages of the hard budgets that blocking() visits.
Blocking(usages) == {u \in usages : Exhausted(u)}

\* api/budget_schemas.apply_update: a field the body leaves out keeps the value read.
ApplyUpdate(row, body) ==
    LET new(field, old) == IF field = None THEN old ELSE field
    IN  [limit |-> new(body.limit, row.limit), hard |-> new(body.hard, row.hard),
         enabled |-> new(body.enabled, row.enabled), scope |-> new(body.scope, row.scope),
         updated_at |-> now]

-----------------------------------------------------------------------------
Idle == [pc |-> "idle", mode |-> "none", rep |-> None, created_at |-> 0, cost |-> 0,
         rows |-> NoRows, todo |-> {}, usages |-> {}, since |-> 0,
         counted |-> NothingCounted, verdict |-> "none", resets |-> {}]

Init ==
    /\ now = 1
    /\ budgets \in InitBudgets
    /\ ledger = [r \in Requests |-> None]
    /\ list = [rep \in Replicas |-> None]
    /\ spend = [rep \in Replicas |-> [b \in Budgets |-> [p \in Periods |-> None]]]
    /\ task = [t \in Tasks |-> Idle]

\* A task that leaves the tracker drops its locals.
Leave(w, pc) == [Idle EXCEPT !.pc = pc, !.rep = w.rep, !.created_at = w.created_at,
                             !.cost = w.cost, !.verdict = w.verdict, !.resets = w.resets]

\* Mutant of AfterLoop: the 429 names the earliest of the resets.
AfterLoopEarliest(w, usages) ==
    LET resets == {PeriodEnd(u.budget, u.period) : u \in Blocking(usages)}
    IN  CASE w.mode # "admit" -> Leave(w, "done")
          [] w.mode = "admit" /\ resets = {} ->
               [Leave(w, "upstream") EXCEPT !.verdict = "admitted"]
          [] w.mode = "admit" /\ resets # {} ->
               [Leave(w, "write") EXCEPT !.verdict = "blocked", !.resets = {Min(resets)}]

\* What a task does when its loop over the budgets is over: the handler forwards the
\* request, or writes the row of a 429 that names the last of the resets; the other callers have their figures.
AfterLoop(w, usages) ==
    LET resets == {PeriodEnd(u.budget, u.period) : u \in Blocking(usages)}
    IN  CASE w.mode # "admit" -> Leave(w, "done")
          [] w.mode = "admit" /\ resets = {} ->
               [Leave(w, "upstream") EXCEPT !.verdict = "admitted"]
          [] w.mode = "admit" /\ resets # {} ->
               [Leave(w, "write") EXCEPT !.verdict = "blocked", !.resets = resets]

\* usage: the cached figure for the current period answers if it is younger than the TTL.
Fresh(cache, b) ==
    LET e == cache[b][Period(b, now)] IN e # None /\ ~Expired(e.fetched_at)

\* The budgets a loop passes without waiting, and those it reaches before it waits.
Hits(w, cache) == {b \in w.todo : \A c \in w.todo : c <= b => Fresh(cache, c)}
Reached(w, cache) == {b \in w.todo : \A c \in w.todo : c < b => Fresh(cache, c)}

\* Mutant of Adds: the row of an earlier period is added to the current one.
AddsAnyPeriod(w, cache, b, p) ==
    /\ w.mode = "count" /\ b \in Reached(w, cache) /\ p = Period(b, now)
    /\ cache[b][p] # None
    /\ w.cost > 0

\* record: the cost of a new row is added to the cached figure of each budget reached, a
\* stale one too, unless the row belongs to an earlier period.
Adds(w, cache, b, p) ==
    /\ w.mode = "count" /\ b \in Reached(w, cache) /\ p = Period(b, now)
    /\ cache[b][p] # None
    /\ w.cost > 0
    /\ Period(b, w.created_at) >= p

AfterAdding(t, w, cache) ==
    [b \in Budgets |-> [p \in Periods |->
        IF Adds(w, cache, b, p) THEN [cache[b][p] EXCEPT !.counted[t] = @ + 1]
                                ELSE cache[b][p]]]

Usage(w, b, p, counted) ==
    [budget |-> b, period |-> p, limit |-> w.rows[b].limit, counted |-> counted]

\* The loops of blocking, record and the list endpoint around usage, from the head of an
\* iteration up to the next await: the query for the first budget without a fresh figure.
RunLoop(t, w, cache) ==
    LET after == AfterAdding(t, w, cache)
        passed == {Usage(w, b, Period(b, now), after[b][Period(b, now)].counted) :
                        b \in Hits(w, cache)}
        usages == w.usages \cup passed
    IN  /\ spend' = [spend EXCEPT ![w.rep] = after]
        /\ task' = [task EXCEPT ![t] =
              IF w.todo = Hits(w, cache)
              THEN AfterLoop(w, usages)
              ELSE [w EXCEPT !.pc = "spendQuery", !.todo = w.todo \ Hits(w, cache),
                             !.usages = usages, !.since = now]]

\* The budgets a loop visits: blocking skips the soft ones.
Visits(w, t, rows) ==
    {b \in Applicable(rows, t) : w.mode = "admit" => rows[b].hard}

\* Mutant of Consult: the cached list never expires.
ConsultForever(t, w) ==
    IF list[w.rep] # None
    THEN RunLoop(t, [w EXCEPT !.rows = list[w.rep].rows, !.todo = Visits(w, t, list[w.rep].rows)],
                 spend[w.rep])
    ELSE /\ task' = [task EXCEPT ![t] = [w EXCEPT !.pc = "listQuery", !.since = now]]
         /\ UNCHANGED spend

\* applicable() at the start of blocking and record: the cached list if it is fresh,
\* otherwise a query for it.
Consult(t, w) ==
    IF list[w.rep] # None /\ ~Expired(list[w.rep].at)
    THEN RunLoop(t, [w EXCEPT !.rows = list[w.rep].rows, !.todo = Visits(w, t, list[w.rep].rows)],
                 spend[w.rep])
    ELSE /\ task' = [task EXCEPT ![t] = [w EXCEPT !.pc = "listQuery", !.since = now]]
         /\ UNCHANGED spend
-----------------------------------------------------------------------------
(* A request *)

\* handler.proxy: the meter takes started_at and blocking() begins.
Start(r, rep) ==
    /\ task[r].pc = "idle"
    /\ Consult(r, [Idle EXCEPT !.mode = "admit", !.rep = rep, !.created_at = now])
    /\ UNCHANGED <<now, budgets, ledger, list>>

\* _active: list_all reads the table ...
ReadList(t) ==
    /\ task[t].pc = "listQuery"
    /\ task' = [task EXCEPT ![t].pc = "listReply", ![t].rows = budgets]
    /\ UNCHANGED <<now, budgets, ledger, list, spend>>

\* ... and the resumed task stores what it got, whatever happened meanwhile.
ListReply(t) ==
    /\ task[t].pc = "listReply"
    /\ list' = [list EXCEPT ![task[t].rep] = [rows |-> task[t].rows, at |-> now]]
    /\ RunLoop(t, [task[t] EXCEPT !.todo = Visits(task[t], t, task[t].rows)],
               spend[task[t].rep])
    /\ UNCHANGED <<now, budgets, ledger>>

\* usage: the period and the filter were fixed when the query started.
ReadSpend(t) ==
    /\ task[t].pc = "spendQuery"
    /\ \E b \in Budgets :
          /\ IsFirst(b, task[t].todo)
          /\ task' = [task EXCEPT ![t].pc = "spendReply",
                ![t].counted = TotalCost(b, Period(b, task[t].since), task[t].rows[b].scope)]
    /\ UNCHANGED <<now, budgets, ledger, list, spend>>

\* Mutant of Refreshed: the figure is stored without its time.
RefreshedUndated(w, b) ==
    [spend[w.rep] EXCEPT ![b][Period(b, w.since)] =
        [counted |-> w.counted, fetched_at |-> 0, scope |-> w.rows[b].scope]]

\* ... and the answer replaces the cached figure, whatever was added to it meanwhile.
Refreshed(w, b) ==
    [spend[w.rep] EXCEPT ![b][Period(b, w.since)] =
        [counted |-> w.counted, fetched_at |-> now, scope |-> w.rows[b].scope]]

Resumed(w, b) ==
    [w EXCEPT !.todo = @ \ {b}, !.counted = NothingCounted,
              !.usages = @ \cup {Usage(w, b, Period(b, w.since), w.counted)}]

SpendReply(t) ==
    /\ task[t].pc = "spendReply"
    /\ \E b \in Budgets :
          /\ IsFirst(b, task[t].todo)
          /\ RunLoop(t, Resumed(task[t], b), Refreshed(task[t], b))
    /\ UNCHANGED <<now, budgets, ledger, list>>

\* Mutant of QueryFails: recording starts over instead of giving up.
QueryRetries(t) ==
    /\ DbFails
    /\ task[t].pc \in {"listQuery", "spendQuery"}
    /\ task' = [task EXCEPT ![t] =
          CASE task[t].mode = "admit" ->
                 [Leave(task[t], "upstream") EXCEPT !.verdict = "unchecked"]
            [] task[t].mode = "count" -> [Leave(task[t], "written") EXCEPT !.since = now]
            [] OTHER -> Leave(task[t], "done")]
    /\ UNCHANGED <<now, budgets, ledger, list, spend>>

\* A failing query: the budget check fails open, recording gives up on the remaining
\* budgets, and an admin call answers 500.
QueryFails(t) ==
    /\ DbFails
    /\ task[t].pc \in {"listQuery", "spendQuery"}
    /\ task' = [task EXCEPT ![t] =
          IF task[t].mode = "admit"
          THEN [Leave(task[t], "upstream") EXCEPT !.verdict = "unchecked"]
          ELSE Leave(task[t], "done")]
    /\ UNCHANGED <<now, budgets, ledger, list, spend>>

\* The upstream call is over and the meter knows the cost.
Finish(r) ==
    /\ task[r].pc = "upstream"
    /\ \E c \in Costs : task' = [task EXCEPT ![r].pc = "write", ![r].cost = c]
    /\ UNCHANGED <<now, budgets, ledger, list, spend>>

\* RequestMeter.record: the insert commits ...
WriteRow(r) ==
    /\ task[r].pc = "write"
    /\ ledger' = [ledger EXCEPT ![r] = [created_at |-> task[r].created_at,
                                        cost |-> task[r].cost, committed_at |-> now]]
    /\ task' = [task EXCEPT ![r].pc = "written", ![r].since = now]
    /\ UNCHANGED <<now, budgets, list, spend>>

\* ... or fails, which leaves the request without a row and uncounted.
WriteFails(r) ==
    /\ DbFails
    /\ task[r].pc = "write"
    /\ task' = [task EXCEPT ![r].pc = "done"]
    /\ UNCHANGED <<now, budgets, ledger, list, spend>>

\* BudgetTracker.record begins once the insert has returned.
Count(r) ==
    /\ task[r].pc = "written"
    /\ Consult(r, [task[r] EXCEPT !.mode = "count"])
    /\ UNCHANGED <<now, budgets, ledger, list>>

-----------------------------------------------------------------------------
(* The budget endpoints *)

\* PATCH and DELETE read the row first (_existing); GET reads one row or all of them.
ReadBudgets(a, rep) ==
    /\ task[a].pc = "idle"
    /\ \E B \in {{b} : b \in Budgets} \cup {Budgets} :
          task' = [task EXCEPT ![a] =
             [Idle EXCEPT !.rep = rep, !.pc = "read", !.rows = budgets, !.since = now,
                          !.todo = {b \in B : Exists(budgets, b)}]]
    /\ UNCHANGED <<now, budgets, ledger, list, spend>>

\* GET: the usage of each budget read.
Report(a) ==
    /\ task[a].pc = "read"
    /\ RunLoop(a, [task[a] EXCEPT !.mode = "report"], spend[task[a].rep])
    /\ UNCHANGED <<now, budgets, ledger, list>>

\* The commit of the row a POST, PATCH or DELETE leaves.  Nothing checks that the row in
\* the table is still the one that was read.
Save(a, rep, b, row) ==
    /\ budgets' = [budgets EXCEPT ![b] = row]
    /\ task' = [task EXCEPT ![a] =
          [Idle EXCEPT !.pc = "saved", !.rep = rep, !.since = now,
                       !.rows = [NoRows EXCEPT ![b] = row],
                       !.todo = IF row = Gone THEN {} ELSE {b}]]
    /\ UNCHANGED <<now, ledger, list, spend>>

CreateBudget(a, rep) ==
    /\ task[a].pc = "idle"
    /\ \E b \in Budgets, row \in NewRows :
          /\ budgets[b] = None
          /\ Save(a, rep, b, [row EXCEPT !.updated_at = now])

UpdateBudget(a) ==
    /\ task[a].pc = "read"
    /\ \E b \in Budgets, body \in Patches :
          /\ task[a].todo = {b}
          /\ Exists(budgets, b)
          /\ Save(a, task[a].rep, b, ApplyUpdate(task[a].rows[b], body))

DeleteBudget(a) ==
    /\ task[a].pc = "read"
    /\ \E b \in Budgets :
          /\ task[a].todo = {b}
          /\ Exists(budgets, b)
          /\ Save(a, task[a].rep, b, Gone)

\* 404 for a row that is not there, 422 for a scope or channel that is not.
Refuse(a) ==
    /\ task[a].pc = "read"
    /\ task' = [task EXCEPT ![a] = Leave(task[a], "done")]
    /\ UNCHANGED <<now, budgets, ledger, list, spend>>

\* The commit returned: BudgetTracker.invalidate, then the wait for the audit insert.
Invalidate(a) ==
    /\ task[a].pc = "saved"
    /\ list' = [list EXCEPT ![task[a].rep] = None]
    /\ spend' = [spend EXCEPT ![task[a].rep] = [b \in Budgets |-> [p \in Periods |-> None]]]
    /\ task' = [task EXCEPT ![a].pc = "audit", ![a].since = now]
    /\ UNCHANGED <<now, budgets, ledger>>

\* The answer carries the usage of the row just written; a DELETE has none.
Answer(a) ==
    /\ task[a].pc = "audit"
    /\ RunLoop(a, [task[a] EXCEPT !.mode = "report"], spend[task[a].rep])
    /\ UNCHANGED <<now, budgets, ledger, list>>

-----------------------------------------------------------------------------
\* Time passes, but no database call of a task outlasts QueryTime.
InDatabase == {"listQuery", "listReply", "spendQuery", "spendReply", "written",
               "read", "saved", "audit"}

Tick ==
    /\ now < MaxTime
    /\ \A t \in Tasks : task[t].pc \in InDatabase => now - task[t].since < QueryTime
    /\ now' = now + 1
    /\ UNCHANGED <<budgets, ledger, list, spend, task>>

Step(t) == ReadList(t) \/ ListReply(t) \/ ReadSpend(t) \/ SpendReply(t)

Progress(r) == Step(r) \/ Finish(r) \/ WriteRow(r) \/ Count(r)

Next ==
    \/ \E r \in Requests :
          \/ \E rep \in Balance[r] : Start(r, rep)
          \/ Finish(r) \/ WriteRow(r) \/ WriteFails(r) \/ Count(r)
    \/ \E a \in Admins :
          \/ \E rep \in Balance[a] : ReadBudgets(a, rep) \/ CreateBudget(a, rep)
          \/ Report(a) \/ UpdateBudget(a) \/ DeleteBudget(a) \/ Refuse(a)
          \/ Invalidate(a) \/ Answer(a)
    \/ \E t \in Tasks : Step(t) \/ QueryFails(t)
    \/ Tick

Spec == Init /\ [][Next]_vars

\* A request settles on its own: the event loop resumes every task whose await is over; databases and upstreams answer.
FairSpec == Spec /\ \A r \in Requests : WF_vars(Progress(r))

-----------------------------------------------------------------------------
Usages == [budget : Budgets, period : Periods, limit : Nat \ {0}, counted : [Requests -> Nat]]
Caches == [Budgets -> [Periods -> Entries \cup {None}]]
BudgetTables == [Budgets -> Rows \cup {None, Gone}]
Coroutines ==
    [pc : {"idle", "listQuery", "listReply", "spendQuery", "spendReply", "upstream", "write",
           "written", "read", "saved", "audit", "done"},
     mode : {"none", "admit", "count", "report"}, rep : Replicas \cup {None},
     created_at : 0 .. MaxTime, cost : Nat, rows : BudgetTables, todo : SUBSET Budgets,
     usages : SUBSET Usages, since : 0 .. MaxTime, counted : [Requests -> Nat],
     verdict : {"none", "admitted", "unchecked", "blocked"}, resets : SUBSET Nat]

\* The variables keep their types (budgets.py, LedgerEntry, the locals of a coroutine).
TypeOK ==
    /\ now \in Times
    /\ budgets \in BudgetTables
    /\ ledger \in [Requests -> LedgerRows \cup {None}]
    /\ list \in [Replicas -> [rows : BudgetTables, at : Times] \cup {None}]
    /\ spend \in [Replicas -> Caches]
    /\ task \in [Tasks -> Coroutines]

\* The row of r belongs to period p of budget b.
Recorded(r, b, p) == ledger[r] # None /\ Period(b, ledger[r].created_at) = p

\* A cached figure never holds a row of another period, and no row more than twice: once
\* from a refresh that read it and once from record() (the double count the docstring of
\* BudgetTracker admits).
CountedAtMostTwice ==
    \A rep \in Replicas, b \in Budgets, p \in Periods, r \in Requests :
        spend[rep][b][p] # None =>
            spend[rep][b][p].counted[r] <= IF Recorded(r, b, p) THEN 2 ELSE 0

\* A cached figure holds every row of its filter that was committed more than the time of
\* one query before the figure was stored: a refresh that overwrites what record() added
\* in between loses only younger rows.
NothingForgotten ==
    \A rep \in Replicas, b \in Budgets, p \in Periods, r \in Requests :
        LET e == spend[rep][b][p]
        IN  /\ e # None
            /\ r \in e.scope
            /\ Recorded(r, b, p)
            /\ ledger[r].committed_at < e.fetched_at - QueryTime
            => e.counted[r] >= 1

-----------------------------------------------------------------------------
\* Spend in the current period of budget b by rows committed before time t.
SpentBefore(b, scope, t) ==
    LET old == {r \in scope : Recorded(r, b, Period(b, now)) /\ ledger[r].committed_at < t}
    IN  SumFunction([r \in old |-> ledger[r].cost])

\* What the ledger holds for period p of budget b.
RecordedSpend(b, p) ==
    SumFunction([r \in {q \in Requests : Recorded(q, b, p)} |-> ledger[r].cost])

\* Budget b has been as it is for longer than d (updated_at is 0 for the initial rows).
UnchangedFor(b, d) == budgets[b].updated_at = 0 \/ now - budgets[b].updated_at > d

\* Budget b is a hard limit on r, has not changed for longer than rowDrift, and rows
\* older than spendDrift alone exhaust it.
ExhaustedFor(b, r, rowDrift, spendDrift) ==
    /\ b \in Applicable(budgets, r)
    /\ budgets[b].hard
    /\ UnchangedFor(b, rowDrift)
    /\ SpentBefore(b, budgets[b].scope, now - spendDrift) >= budgets[b].limit

Decides(r) == task[r].verdict = "none" /\ task'[r].verdict # "none"

\* What a decision may be: refused until the last reset, or unchecked.
Enforces(r, b) ==
    \/ task'[r].verdict = "unchecked"
    \/ /\ task'[r].verdict = "blocked"
       /\ Max(task'[r].resets) >= PeriodEnd(b, Period(b, now))

\* How old the rows and the figures behind a decision can be: the list and the spend are
\* each used for TTL after a query, a figure may have been read under an already stale
\* list, and the loop may wait for a query per budget in between.  Where queries outlast the
\* TTL, the oldest list is not the cached one but the row an edit carries to its answer.
RowDrift == TTL + Max({TTL, QueryTime}) + 2 * Cardinality(Budgets) * QueryTime
SpendDrift == TTL + Cardinality(Budgets) * QueryTime

\* A hard budget that the ledger has shown exhausted for longer than the drift blocks every
\* request it applies to, and the Retry-After is not before its period ends
\* (BudgetTracker.blocking, handler._budget_exceeded); only a failing check lets one pass.
HardLimitEnforced ==
    [][\A r \in Requests, b \in Budgets :
          Decides(r) /\ ExhaustedFor(b, r, RowDrift, SpendDrift) => Enforces(r, b)]_vars

\* While the budgets stand unchanged, a request is blocked only if some hard budget holds
\* at least half its limit in ledger rows of the period whose end the 429 gives: a double
\* count can block early, nothing else can (no row of another period, no lost row).
BlockedByRealSpend ==
    [][\A r \in Requests :
          /\ Decides(r) /\ task'[r].verdict = "blocked"
          /\ \A b \in Budgets : Exists(budgets, b) /\ UnchangedFor(b, RowDrift)
          => \E b \in Applicable(budgets, r), p \in Periods :
                /\ budgets[b].hard
                /\ PeriodEnd(b, p) \in task'[r].resets
                /\ 2 * RecordedSpend(b, p) >= budgets[b].limit]_vars

\* Once no budget change is under way, a request that is refused on the spot is refused by
\* a limit that stands in the table (test_raising_the_limit_unblocks_immediately); a row
\* counted twice is allowed for.
RaisedLimitUnblocks ==
    [][\A r \in Requests :
          /\ task[r].pc = "idle" /\ task'[r].verdict = "blocked"
          /\ \A a \in Admins : task[a].pc \in {"idle", "done"}
          => \E b \in Applicable(budgets, r) :
                2 * SpentBefore(b, Requests, now + 1) >= budgets[b].limit]_vars

\* Every request that starts comes to an end: no await of the tracker loops for ever.
RequestsSettle == \A r \in Requests : task[r].pc # "idle" ~> task[r].pc = "done"

=============================================================================
