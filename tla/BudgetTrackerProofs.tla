------------------------- MODULE BudgetTrackerProofs -------------------------
(***************************************************************************)
(* What BudgetTracker promises for every number of requests, replicas and  *)
(* budgets, and every TTL and query time.                                  *)
(***************************************************************************)
EXTENDS BudgetTracker, TLAPS

-----------------------------------------------------------------------------
(* Calendar periods *)

\* Integer division by a period's length stays within the clock's range.
LEMMA DivBounds ==
    ASSUME NEW n \in Nat, NEW d \in Nat \ {0}
    PROVE  n \div d \in 0 .. n
BY SMTT(30)

\* A later time is never in an earlier period.
LEMMA DivMonotonic ==
    ASSUME NEW m \in Nat, NEW n \in Nat, NEW d \in Nat \ {0}, m <= n
    PROVE  m \div d <= n \div d
BY SMTT(30)

\* The period of any clock value is one the cache has a place for.
LEMMA PeriodType ==
    ASSUME NEW b \in Budgets, NEW t \in 0 .. MaxTime
    PROVE  Period(b, t) \in Periods
<1>1. Period(b, t) \in 0 .. t
  BY DivBounds, TrackerAssumption DEF Period
<1> QED
  BY <1>1, TrackerAssumption DEF Periods

\* The end of a period is a time.
LEMMA PeriodEndType ==
    ASSUME NEW b \in Budgets, NEW p \in Periods
    PROVE  PeriodEnd(b, p) \in Nat
BY TrackerAssumption DEF PeriodEnd, Periods

-----------------------------------------------------------------------------
(* Types *)

\* The locals of a coroutine that the code relies on between two awaits: it runs in some
\* replica, has the row of every budget it still visits, and counts only its own request.
LocalsOK(t, w) ==
    /\ w.pc # "idle" => w.rep \in Replicas
    /\ \A b \in w.todo : w.rows[b] \in Rows
    /\ w.mode = "count" => t \in Requests
    /\ w.pc \in {"listQuery", "listReply", "spendQuery", "spendReply"} => w.mode # "none"
    /\ w.pc \in {"listQuery", "upstream", "write", "written"} => w.todo = {}

\* What RunLoop needs of the locals it starts from.
Runnable(t, w) ==
    /\ w.rep \in Replicas /\ w.mode # "none"
    /\ \A b \in w.todo : w.rows[b] \in Rows
    /\ w.mode = "count" => t \in Requests

LocalsInv == \A t \in Tasks : LocalsOK(t, task[t])

TypeInv == TypeOK /\ LocalsInv

LEMMA IdleType == Idle \in Coroutines /\ NoRows \in BudgetTables /\ NothingCounted \in [Requests -> Nat]
BY TrackerAssumption DEF Idle, Coroutines, NoRows, BudgetTables, NothingCounted

LEMMA LeaveType ==
    ASSUME NEW w \in Coroutines, NEW pc \in {"upstream", "write", "done"}
    PROVE  /\ Leave(w, pc) \in Coroutines
           /\ Leave(w, pc).todo = {} /\ Leave(w, pc).mode = "none"
           /\ Leave(w, pc).rep = w.rep /\ Leave(w, pc).pc = pc
           /\ Leave(w, pc).created_at = w.created_at
BY IdleType DEF Leave, Coroutines, Idle

LEMMA AfterLoopType ==
    ASSUME NEW w \in Coroutines, NEW usages \in SUBSET Usages, w.mode # "none"
    PROVE  /\ AfterLoop(w, usages) \in Coroutines
           /\ AfterLoop(w, usages).todo = {} /\ AfterLoop(w, usages).mode = "none"
           /\ AfterLoop(w, usages).rep = w.rep
           /\ AfterLoop(w, usages).created_at = w.created_at
           /\ w.mode = "admit" => AfterLoop(w, usages).pc \in {"upstream", "write"}
           /\ w.mode # "admit" => AfterLoop(w, usages).pc = "done"
<1> DEFINE resets == {PeriodEnd(u.budget, u.period) : u \in Blocking(usages)}
<1>1. resets \in SUBSET Nat
  BY PeriodEndType DEF Blocking, Usages
<1>2. CASE w.mode # "admit"
  <2>1. AfterLoop(w, usages) = Leave(w, "done")
    BY <1>2 DEF AfterLoop
  <2> QED
    BY <2>1, <1>2, LeaveType
<1>3. CASE w.mode = "admit" /\ resets = {}
  <2>1. AfterLoop(w, usages) = [Leave(w, "upstream") EXCEPT !.verdict = "admitted"]
    BY <1>3 DEF AfterLoop
  <2> QED
    BY <2>1, <1>3, LeaveType DEF Coroutines
<1>4. CASE w.mode = "admit" /\ resets # {}
  <2> DEFINE v == Leave(w, "write")
             v2 == [v EXCEPT !.verdict = "blocked", !.resets = resets]
  <2>1. AfterLoop(w, usages) = v2
    BY <1>4 DEF AfterLoop
  <2>2. /\ v \in Coroutines
        /\ v.todo = {} /\ v.mode = "none" /\ v.rep = w.rep
        /\ v.created_at = w.created_at /\ v.pc = "write"
    BY LeaveType
  <2> HIDE DEF resets, v
  <2>3. /\ v2 \in Coroutines
        /\ v2.todo = {} /\ v2.mode = "none" /\ v2.rep = w.rep
        /\ v2.created_at = w.created_at /\ v2.pc = "write"
    BY <1>1, <2>2 DEF Coroutines
  <2> HIDE DEF v2
  <2> QED
    BY <2>1, <2>3, <1>4
<1> QED
  BY <1>2, <1>3, <1>4

\* record() only ever adds to figures that are there.
LEMMA AfterAddingType ==
    ASSUME TypeOK, NEW t \in Tasks, NEW w \in Coroutines, NEW cache \in Caches,
           w.mode = "count" => t \in Requests
    PROVE  AfterAdding(t, w, cache) \in Caches
<1>1. SUFFICES ASSUME NEW b \in Budgets, NEW p \in Periods
               PROVE  AfterAdding(t, w, cache)[b][p] \in Entries \cup {None}
  BY DEF AfterAdding, Caches
<1>2. CASE Adds(w, cache, b, p)
  <2>1. cache[b][p] \in Entries /\ t \in Requests
    BY <1>2 DEF Adds, Caches
  <2>2. [cache[b][p] EXCEPT !.counted[t] = @ + 1] \in Entries
    BY <2>1 DEF Entries
  <2> QED
    BY <1>2, <2>2 DEF AfterAdding
<1>3. CASE ~Adds(w, cache, b, p)
  BY <1>3 DEF AfterAdding, Caches
<1> QED
  BY <1>2, <1>3

\* The usages a loop collects are well-typed.
LEMMA RunLoopUsages ==
    ASSUME TypeOK, NEW t \in Tasks, NEW w \in Coroutines, NEW cache \in Caches, Runnable(t, w)
    PROVE  w.usages \cup {Usage(w, b, Period(b, now),
                                AfterAdding(t, w, cache)[b][Period(b, now)].counted) :
                             b \in Hits(w, cache)} \in SUBSET Usages
<1> DEFINE after == AfterAdding(t, w, cache)
<1> SUFFICES ASSUME NEW b \in Hits(w, cache)
             PROVE  Usage(w, b, Period(b, now), after[b][Period(b, now)].counted) \in Usages
  BY DEF Coroutines
<1>1. b \in w.todo /\ b \in Budgets /\ w.rows[b] \in Rows
  BY DEF Hits, Coroutines, Runnable
<1>2. Fresh(cache, b)
  BY <1>1, TrackerAssumption DEF Hits
<1>3. Period(b, now) \in Periods
  BY <1>1, PeriodType, TrackerAssumption DEF TypeOK, Times
<1>4. cache[b][Period(b, now)] \in Entries
  BY <1>1, <1>2, <1>3 DEF Fresh, Caches
<1>5. after[b][Period(b, now)].counted \in [Requests -> Nat]
  <2>1. CASE Adds(w, cache, b, Period(b, now))
    <3>1. t \in Requests
      BY <2>1 DEF Adds, Runnable
    <3>2. after[b][Period(b, now)] = [cache[b][Period(b, now)] EXCEPT !.counted[t] = @ + 1]
      BY <1>1, <1>3, <2>1 DEF AfterAdding
    <3> QED
      BY <1>4, <3>1, <3>2 DEF Entries
  <2>2. CASE ~Adds(w, cache, b, Period(b, now))
    <3>1. after[b][Period(b, now)] = cache[b][Period(b, now)]
      BY <1>1, <1>3, <2>2 DEF AfterAdding
    <3> QED
      BY <1>4, <3>1 DEF Entries
  <2> QED
    BY <2>1, <2>2
<1> HIDE DEF after
<1> QED
  BY <1>1, <1>3, <1>5 DEF Usage, Usages, Rows

\* Running a loop to its next await keeps the types and leaves sound locals behind.
LEMMA RunLoopType ==
    ASSUME TypeOK, NEW t \in Tasks, NEW w \in Coroutines, NEW cache \in Caches,
           Runnable(t, w), RunLoop(t, w, cache)
    PROVE  /\ spend' \in [Replicas -> Caches]
           /\ task' \in [Tasks -> Coroutines]
           /\ LocalsOK(t, task'[t])
           /\ \A u \in Tasks \ {t} : task'[u] = task[u]
<1> DEFINE after == AfterAdding(t, w, cache)
           passed == {Usage(w, b, Period(b, now), after[b][Period(b, now)].counted) :
                        b \in Hits(w, cache)}
           usages == w.usages \cup passed
           wait == [w EXCEPT !.pc = "spendQuery", !.todo = w.todo \ Hits(w, cache),
                             !.usages = usages, !.since = now]
<1>1. after \in Caches
  BY AfterAddingType DEF Runnable
<1>2. usages \in SUBSET Usages
  BY RunLoopUsages
<1>3. spend' = [spend EXCEPT ![w.rep] = after]
  BY DEF RunLoop
<1>4. task' = [task EXCEPT ![t] = IF w.todo = Hits(w, cache) THEN AfterLoop(w, usages) ELSE wait]
  BY DEF RunLoop
<1>5. AfterLoop(w, usages) \in Coroutines /\ LocalsOK(t, AfterLoop(w, usages))
  <2> HIDE DEF usages
  <2> QED
    BY <1>2, AfterLoopType DEF LocalsOK, Runnable
<1>6. wait \in Coroutines /\ LocalsOK(t, wait)
  <2> HIDE DEF usages
  <2>1. now \in 0 .. MaxTime
    BY TrackerAssumption DEF TypeOK, Times
  <2> QED
    BY <1>2, <2>1 DEF Coroutines, LocalsOK, Runnable
<1> HIDE DEF after, usages, wait
<1> QED
  BY <1>1, <1>3, <1>4, <1>5, <1>6 DEF TypeOK, Runnable

\* A loop visits only budgets whose row it has.
LEMMA VisitsType ==
    ASSUME NEW w, NEW t, NEW rows \in BudgetTables
    PROVE  Visits(w, t, rows) \subseteq Budgets /\ \A b \in Visits(w, t, rows) : rows[b] \in Rows
BY DEF Visits, Applicable, Exists, BudgetTables

\* Reading the cached list and running the loop, or asking for the list, keeps the types.
LEMMA ConsultType ==
    ASSUME TypeOK, NEW t \in Requests, NEW w \in Coroutines,
           w.rep \in Replicas, w.mode # "none", w.todo = {}, w.mode = "count" => t \in Requests,
           Consult(t, w)
    PROVE  /\ spend' \in [Replicas -> Caches]
           /\ task' \in [Tasks -> Coroutines]
           /\ LocalsOK(t, task'[t])
           /\ \A u \in Tasks \ {t} : task'[u] = task[u]
<1>0. t \in Tasks
  BY DEF Tasks
<1>1. CASE list[w.rep] # None /\ ~Expired(list[w.rep].at)
  <2> DEFINE rows == list[w.rep].rows
             v == [w EXCEPT !.rows = rows, !.todo = Visits(w, t, rows)]
  <2>1. rows \in BudgetTables
    BY <1>1 DEF TypeOK
  <2>2. RunLoop(t, v, spend[w.rep])
    BY <1>1 DEF Consult
  <2>3. v.rep = w.rep
    BY DEF Coroutines
  <2>4. v \in Coroutines /\ Runnable(t, v)
    BY <2>1, VisitsType DEF Coroutines, Runnable
  <2>5. spend[w.rep] \in Caches
    BY DEF TypeOK
  <2> HIDE DEF v
  <2> QED
    BY <1>0, <2>2, <2>3, <2>4, <2>5, RunLoopType
<1>2. CASE ~(list[w.rep] # None /\ ~Expired(list[w.rep].at))
  <2> DEFINE v == [w EXCEPT !.pc = "listQuery", !.since = now]
  <2>1. task' = [task EXCEPT ![t] = v] /\ spend' = spend
    BY <1>2 DEF Consult
  <2>2. now \in 0 .. MaxTime
    BY TrackerAssumption DEF TypeOK, Times
  <2>3. v \in Coroutines /\ LocalsOK(t, v)
    BY <2>2 DEF Coroutines, LocalsOK
  <2> HIDE DEF v
  <2> QED
    BY <1>0, <2>1, <2>3 DEF TypeOK
<1> QED
  BY <1>1, <1>2

\* The small changes a handler makes to its locals between two awaits.
LEMMA LocalsType ==
    ASSUME NEW t, NEW v \in Coroutines, LocalsOK(t, v), v.pc # "idle",
           NEW c \in Nat, NEW s \in 0 .. MaxTime
    PROVE  /\ v.todo = {} => LET w == [v EXCEPT !.pc = "write", !.cost = c]
              IN  w \in Coroutines /\ LocalsOK(t, w)
           /\ v.todo = {} => LET w == [v EXCEPT !.pc = "written", !.since = s]
              IN  w \in Coroutines /\ LocalsOK(t, w)
           /\ LET w == [v EXCEPT !.pc = "audit", !.since = s]
              IN  w \in Coroutines /\ LocalsOK(t, w)
<1>1. \A pc \in {"write", "written", "audit"} :
         /\ [v EXCEPT !.pc = pc, !.cost = c] \in Coroutines
         /\ [v EXCEPT !.pc = pc, !.since = s] \in Coroutines
  BY DEF Coroutines
<1>2. \A pc \in {"write", "written", "audit"} :
         v.todo = {} \/ pc = "audit" =>
            /\ LocalsOK(t, [v EXCEPT !.pc = pc, !.cost = c])
            /\ LocalsOK(t, [v EXCEPT !.pc = pc, !.since = s])
  BY DEF Coroutines, LocalsOK
<1> QED
  BY <1>1, <1>2

\* When a step replaces the coroutine of one task by a sound one, all are sound.
LEMMA OneTaskType ==
    ASSUME TypeInv, NEW t \in Tasks, NEW w \in Coroutines, LocalsOK(t, w),
           task' = [task EXCEPT ![t] = w]
    PROVE  task' \in [Tasks -> Coroutines] /\ LocalsInv'
BY DEF TypeInv, TypeOK, LocalsInv, LocalsOK

LEMMA TypeInit == Init => TypeInv
<1> SUFFICES ASSUME Init PROVE TypeInv
  OBVIOUS
<1>1. now \in Times /\ budgets \in BudgetTables
  BY TrackerAssumption DEF Init, Times, BudgetTables
<1>2. spend \in [Replicas -> Caches]
  BY DEF Init, Caches
<1>3. task \in [Tasks -> Coroutines]
  BY IdleType DEF Init
<1>4. LocalsInv
  BY DEF Init, LocalsInv, LocalsOK, Idle
<1> QED
  BY <1>1, <1>2, <1>3, <1>4 DEF Init, TypeInv, TypeOK

\* Save leaves a typed table and an admin call that holds the row it wrote.
LEMMA SaveType ==
    ASSUME TypeInv, NEW a \in Admins, NEW rep \in Replicas, NEW b \in Budgets,
           NEW row \in Rows \cup {Gone}, Save(a, rep, b, row)
    PROVE  TypeInv'
<1> DEFINE v == [Idle EXCEPT !.pc = "saved", !.rep = rep, !.since = now,
                             !.rows = [NoRows EXCEPT ![b] = row],
                             !.todo = IF row = Gone THEN {} ELSE {b}]
<1>1. v \in Coroutines /\ LocalsOK(a, v)
  <2>1. [NoRows EXCEPT ![b] = row] \in BudgetTables
    BY DEF NoRows, BudgetTables
  <2>2. now \in 0 .. MaxTime
    BY TrackerAssumption DEF TypeInv, TypeOK, Times
  <2>3. [NoRows EXCEPT ![b] = row][b] = row
    BY DEF NoRows
  <2> QED
    BY <2>1, <2>2, <2>3, IdleType, TrackerAssumption DEF Coroutines, LocalsOK, Idle
<1>2. task' = [task EXCEPT ![a] = v] /\ a \in Tasks
  BY DEF Save, Tasks
<1>3. budgets' \in BudgetTables
  BY DEF Save, TypeInv, TypeOK, BudgetTables
<1> HIDE DEF v
<1>4. task' \in [Tasks -> Coroutines] /\ LocalsInv'
  BY <1>1, <1>2, OneTaskType
<1> QED
  BY <1>3, <1>4 DEF Save, TypeInv, TypeOK

\* A resumed usage() stores a typed figure and goes on with sound locals.
LEMMA ResumedType ==
    ASSUME TypeInv, NEW t \in Tasks, NEW b \in Budgets,
           task[t].pc = "spendReply", IsFirst(b, task[t].todo)
    PROVE  /\ Resumed(task[t], b) \in Coroutines /\ Refreshed(task[t], b) \in Caches
           /\ Runnable(t, Resumed(task[t], b))
           /\ task[t].rep \in Replicas /\ task[t].rows[b] \in Rows
           /\ Period(b, task[t].since) \in Periods
<1> DEFINE w == task[t]
           p == Period(b, w.since)
           u == Usage(w, b, p, w.counted)
           e == [counted |-> w.counted, fetched_at |-> now, scope |-> w.rows[b].scope]
<1>1. w \in Coroutines /\ LocalsOK(t, w) /\ w.rows[b] \in Rows /\ w.rep \in Replicas
  BY DEF TypeInv, TypeOK, LocalsInv, IsFirst, LocalsOK
<1>2. p \in Periods
  BY <1>1, PeriodType DEF Coroutines
<1>3. u \in Usages /\ e \in Entries
  BY <1>1, <1>2 DEF Usage, Usages, Entries, Rows, Coroutines, TypeInv, TypeOK
<1> HIDE DEF p, u, e
<1>4. [spend[w.rep] EXCEPT ![b][p] = e] \in Caches
  BY <1>1, <1>2, <1>3 DEF Caches, TypeInv, TypeOK
<1> DEFINE v == [w EXCEPT !.todo = @ \ {b}, !.counted = NothingCounted, !.usages = @ \cup {u}]
<1>5. v \in Coroutines /\ Runnable(t, v)
  BY <1>1, <1>3, IdleType DEF Coroutines, LocalsOK, Runnable
<1> QED
  BY <1>1, <1>2, <1>4, <1>5 DEF Resumed, Refreshed, p, u, e

LEMMA TypeStep == TypeInv /\ [Next]_vars => TypeInv'
<1> SUFFICES ASSUME TypeInv, [Next]_vars PROVE TypeInv'
  OBVIOUS
<1> USE DEF TypeInv
<1>0. now \in 0 .. MaxTime /\ Requests \subseteq Tasks /\ Admins \subseteq Tasks
  BY TrackerAssumption DEF TypeOK, Times, Tasks
<1>b. \A t \in Tasks : task[t] \in Coroutines /\ LocalsOK(t, task[t])
  BY DEF TypeOK, LocalsInv
<1>c. DOMAIN task = Tasks
  BY DEF TypeOK
\* What a step of the loop leaves.
<1>a. ASSUME NEW t \in Tasks, LocalsOK(t, task'[t]), task' \in [Tasks -> Coroutines],
             \A u \in Tasks \ {t} : task'[u] = task[u]
      PROVE  LocalsInv'
  BY <1>a DEF LocalsInv, LocalsOK
<1>1. ASSUME NEW r \in Requests, NEW rep \in Balance[r], Start(r, rep) PROVE TypeInv'
  <2> DEFINE w == [Idle EXCEPT !.mode = "admit", !.rep = rep, !.created_at = now]
  <2>1. rep \in Replicas
    BY <1>0, <1>1, TrackerAssumption
  <2>2. w \in Coroutines /\ w.rep = rep /\ w.mode = "admit" /\ w.todo = {}
    BY <1>0, <2>1, IdleType DEF Coroutines, Idle
  <2>3. Consult(r, w)
    BY <1>1 DEF Start
  <2> HIDE DEF w
  <2> QED
    BY <1>0, <1>1, <1>a, <2>1, <2>2, <2>3, ConsultType DEF Start, TypeOK
<1>2. ASSUME NEW r \in Requests, Finish(r) PROVE TypeInv'
  <2>1. PICK c \in Costs : task' = [task EXCEPT ![r].pc = "write", ![r].cost = c]
    BY <1>2 DEF Finish
  <2> DEFINE w == [task[r] EXCEPT !.pc = "write", !.cost = c]
  <2>2. w \in Coroutines /\ LocalsOK(r, w)
    <3>1. c \in Nat /\ task[r].pc # "idle" /\ task[r].todo = {}
      BY <1>0, <1>2, <1>b, TrackerAssumption DEF Finish, LocalsOK
    <3> QED
      BY <1>0, <1>b, <3>1, LocalsType
  <2>3. task' = [task EXCEPT ![r] = w]
    BY <1>0, <1>c, <2>1
  <2> HIDE DEF w
  <2> QED
    BY <1>0, <1>2, <2>2, <2>3, OneTaskType DEF Finish, TypeOK
<1>3. ASSUME NEW r \in Requests, WriteRow(r) PROVE TypeInv'
  <2> DEFINE w == [task[r] EXCEPT !.pc = "written", !.since = now]
  <2>1. w \in Coroutines /\ LocalsOK(r, w) /\ task' = [task EXCEPT ![r] = w]
    <3>1. w \in Coroutines /\ LocalsOK(r, w)
      <4>1. task[r].pc # "idle" /\ task[r].todo = {}
        BY <1>0, <1>3, <1>b DEF WriteRow, LocalsOK
      <4> QED
        BY <1>0, <1>b, <4>1, LocalsType
    <3>2. task' = [task EXCEPT ![r] = w]
      BY <1>0, <1>3, <1>c DEF WriteRow
    <3> QED
      BY <3>1, <3>2
  <2>2. ledger' \in [Requests -> LedgerRows \cup {None}]
    <3>1. task[r].created_at \in 0 .. MaxTime /\ task[r].cost \in Nat
      BY <1>0, <1>b DEF Coroutines
    <3> QED
      BY <1>3, <3>1 DEF WriteRow, TypeOK, LedgerRows
  <2> HIDE DEF w
  <2> QED
    BY <1>0, <1>3, <2>1, <2>2, OneTaskType DEF WriteRow, TypeOK
<1>4. ASSUME NEW r \in Requests, WriteFails(r) PROVE TypeInv'
  <2> DEFINE w == [task[r] EXCEPT !.pc = "done"]
  <2>1. w \in Coroutines /\ LocalsOK(r, w) /\ task' = [task EXCEPT ![r] = w]
    <3>1. w \in Coroutines /\ LocalsOK(r, w)
      BY <1>0, <1>4, <1>b DEF WriteFails, Coroutines, LocalsOK
    <3>2. task' = [task EXCEPT ![r] = w]
      BY <1>0, <1>4, <1>c DEF WriteFails
    <3> QED
      BY <3>1, <3>2
  <2> HIDE DEF w
  <2> QED
    BY <1>0, <1>4, <2>1, OneTaskType DEF WriteFails, TypeOK
<1>5. ASSUME NEW r \in Requests, Count(r) PROVE TypeInv'
  <2> DEFINE w == [task[r] EXCEPT !.mode = "count"]
  <2>1. /\ w \in Coroutines /\ w.rep \in Replicas /\ w.mode = "count" /\ w.todo = {}
    BY <1>0, <1>5, <1>b DEF Count, Coroutines, LocalsOK
  <2>2. Consult(r, w)
    BY <1>5 DEF Count
  <2> HIDE DEF w
  <2> QED
    BY <1>0, <1>5, <1>a, <2>1, <2>2, ConsultType DEF Count, TypeOK
<1>6. ASSUME NEW a \in Admins, NEW rep \in Balance[a], ReadBudgets(a, rep) PROVE TypeInv'
  <2>1. PICK B \in {{b} : b \in Budgets} \cup {Budgets} :
           task' = [task EXCEPT ![a] =
              [Idle EXCEPT !.rep = rep, !.pc = "read", !.rows = budgets, !.since = now,
                           !.todo = {b \in B : Exists(budgets, b)}]]
    BY <1>6 DEF ReadBudgets
  <2> DEFINE todo == {b \in B : Exists(budgets, b)}
             w == [Idle EXCEPT !.rep = rep, !.pc = "read", !.rows = budgets, !.since = now,
                               !.todo = todo]
  <2>2. todo \subseteq Budgets /\ \A b \in todo : budgets[b] \in Rows
    BY DEF Exists, TypeOK, BudgetTables
  <2>3. rep \in Replicas
    BY <1>0, <1>6, TrackerAssumption
  <2> HIDE DEF todo
  <2>4. w \in Coroutines /\ LocalsOK(a, w)
    BY <1>0, <2>2, <2>3, IdleType DEF Coroutines, Idle, LocalsOK, TypeOK
  <2>5. task' = [task EXCEPT ![a] = w]
    BY <2>1 DEF todo
  <2> HIDE DEF w
  <2> QED
    BY <1>0, <1>6, <2>4, <2>5, OneTaskType DEF ReadBudgets, TypeOK
<1>7. ASSUME NEW a \in Admins, NEW rep \in Balance[a], CreateBudget(a, rep) PROVE TypeInv'
  <2>1. PICK b \in Budgets, row \in NewRows : Save(a, rep, b, [row EXCEPT !.updated_at = now])
    BY <1>7 DEF CreateBudget
  <2>2. [row EXCEPT !.updated_at = now] \in Rows /\ rep \in Replicas
    BY <1>0, TrackerAssumption DEF Rows
  <2> QED
    BY <2>1, <2>2, SaveType
<1>8. ASSUME NEW a \in Admins, Report(a) PROVE TypeInv'
  <2> DEFINE w == [task[a] EXCEPT !.mode = "report"]
  <2>1. w \in Coroutines /\ w.rep \in Replicas /\ w.mode = "report" /\ LocalsOK(a, w)
    BY <1>0, <1>8, <1>b DEF Report, Coroutines, LocalsOK
  <2>2. RunLoop(a, w, spend[w.rep]) /\ spend[w.rep] \in Caches
    BY <1>0, <1>8, <1>b, <2>1 DEF Report, Coroutines, TypeOK
  <2> HIDE DEF w
  <2> QED
    BY <1>0, <1>8, <1>a, <2>1, <2>2, RunLoopType DEF Report, TypeOK, LocalsOK, Runnable
<1>9. ASSUME NEW a \in Admins, UpdateBudget(a) PROVE TypeInv'
  <2>1. PICK b \in Budgets, body \in Patches :
           /\ task[a].todo = {b}
           /\ Save(a, task[a].rep, b, ApplyUpdate(task[a].rows[b], body))
    BY <1>9 DEF UpdateBudget
  <2>2. task[a].rows[b] \in Rows /\ task[a].rep \in Replicas
    BY <1>0, <1>9, <1>b, <2>1 DEF UpdateBudget, LocalsOK
  <2>3. ApplyUpdate(task[a].rows[b], body) \in Rows
    BY <1>0, <2>2, TrackerAssumption DEF ApplyUpdate, Rows, PatchBodies
  <2> QED
    BY <2>1, <2>2, <2>3, SaveType
<1>10. ASSUME NEW a \in Admins, DeleteBudget(a) PROVE TypeInv'
  <2>1. task[a].rep \in Replicas
    BY <1>0, <1>10, <1>b DEF DeleteBudget, LocalsOK
  <2> QED
    BY <1>10, <2>1, SaveType DEF DeleteBudget
<1>11. ASSUME NEW a \in Admins, Refuse(a) PROVE TypeInv'
  <2>1. Leave(task[a], "done") \in Coroutines /\ LocalsOK(a, Leave(task[a], "done"))
    BY <1>0, <1>11, <1>b, LeaveType DEF Refuse, LocalsOK
  <2> QED
    BY <1>0, <1>11, <2>1, OneTaskType DEF Refuse, TypeOK
<1>12. ASSUME NEW a \in Admins, Invalidate(a) PROVE TypeInv'
  <2> DEFINE w == [task[a] EXCEPT !.pc = "audit", !.since = now]
  <2>1. w \in Coroutines /\ LocalsOK(a, w)
    <3>1. task[a].pc # "idle"
      BY <1>12 DEF Invalidate
    <3> QED
      BY <1>0, <1>b, <3>1, LocalsType
  <2>2. task' = [task EXCEPT ![a] = w]
    BY <1>0, <1>12, <1>c DEF Invalidate
  <2>3. spend' \in [Replicas -> Caches]
    BY <1>12 DEF Invalidate, TypeOK, Caches
  <2>4. list' \in [Replicas -> [rows : BudgetTables, at : Times] \cup {None}]
    BY <1>12 DEF Invalidate, TypeOK
  <2> HIDE DEF w
  <2> QED
    BY <1>0, <1>12, <2>1, <2>2, <2>3, <2>4, OneTaskType DEF Invalidate, TypeOK
<1>13. ASSUME NEW a \in Admins, Answer(a) PROVE TypeInv'
  <2> DEFINE w == [task[a] EXCEPT !.mode = "report"]
  <2>1. w \in Coroutines /\ w.rep \in Replicas /\ w.mode = "report" /\ LocalsOK(a, w)
    BY <1>0, <1>13, <1>b DEF Answer, Coroutines, LocalsOK
  <2>2. RunLoop(a, w, spend[w.rep]) /\ spend[w.rep] \in Caches
    BY <1>0, <1>13, <1>b, <2>1 DEF Answer, Coroutines, TypeOK
  <2> HIDE DEF w
  <2> QED
    BY <1>0, <1>13, <1>a, <2>1, <2>2, RunLoopType DEF Answer, TypeOK, LocalsOK, Runnable
<1>14. ASSUME NEW t \in Tasks, ReadList(t) PROVE TypeInv'
  <2> DEFINE w == [task[t] EXCEPT !.pc = "listReply", !.rows = budgets]
  <2>1. task' = [task EXCEPT ![t] = w]
    BY <1>14, <1>c DEF ReadList
  <2>2. task[t].todo = {}
    BY <1>14, <1>b DEF ReadList, LocalsOK
  <2>3. w \in Coroutines /\ LocalsOK(t, w)
    <3>1. task[t] \in Coroutines /\ task[t].rep \in Replicas /\ task[t].mode # "none"
      BY <1>14, <1>b DEF ReadList, LocalsOK
    <3>2. task[t].mode = "count" => t \in Requests
      BY <1>14, <1>b DEF LocalsOK
    <3> QED
      BY <2>2, <3>1, <3>2 DEF Coroutines, LocalsOK, TypeOK
  <2> HIDE DEF w
  <2> QED
    BY <1>14, <2>1, <2>3, OneTaskType DEF ReadList, TypeOK
<1>15. ASSUME NEW t \in Tasks, ListReply(t) PROVE TypeInv'
  <2> DEFINE rows == task[t].rows
             w == [task[t] EXCEPT !.todo = Visits(task[t], t, rows)]
  <2>1. rows \in BudgetTables /\ task[t].rep \in Replicas /\ task[t].mode # "none"
    BY <1>15, <1>b DEF ListReply, Coroutines, LocalsOK
  <2>2. w \in Coroutines /\ w.rep = task[t].rep /\ Runnable(t, w)
    BY <1>15, <1>b, <2>1, VisitsType DEF ListReply, Coroutines, LocalsOK, Runnable
  <2>3. RunLoop(t, w, spend[w.rep]) /\ spend[w.rep] \in Caches
    BY <1>15, <2>1, <2>2 DEF ListReply, TypeOK
  <2>4. list' \in [Replicas -> [rows : BudgetTables, at : Times] \cup {None}]
    BY <1>15, <2>1 DEF ListReply, TypeOK
  <2> HIDE DEF w
  <2> QED
    BY <1>15, <1>a, <2>1, <2>2, <2>3, <2>4, RunLoopType DEF ListReply, TypeOK
<1>16. ASSUME NEW t \in Tasks, ReadSpend(t) PROVE TypeInv'
  <2>1. PICK b \in Budgets :
           task' = [task EXCEPT ![t].pc = "spendReply",
                ![t].counted = TotalCost(b, Period(b, task[t].since), task[t].rows[b].scope)]
    BY <1>16 DEF ReadSpend
  <2> DEFINE c == TotalCost(b, Period(b, task[t].since), task[t].rows[b].scope)
             w == [task[t] EXCEPT !.pc = "spendReply", !.counted = c]
  <2>2. c \in [Requests -> Nat]
    BY DEF TotalCost
  <2> HIDE DEF c
  <2>3. w \in Coroutines /\ LocalsOK(t, w)
    BY <1>16, <1>b, <2>2 DEF ReadSpend, Coroutines, LocalsOK
  <2>4. task' = [task EXCEPT ![t] = w]
    BY <1>c, <2>1 DEF c
  <2> HIDE DEF w
  <2> QED
    BY <1>16, <2>3, <2>4, OneTaskType DEF ReadSpend, TypeOK
<1>17. ASSUME NEW t \in Tasks, SpendReply(t) PROVE TypeInv'
  <2>1. PICK b \in Budgets :
           IsFirst(b, task[t].todo) /\ RunLoop(t, Resumed(task[t], b), Refreshed(task[t], b))
    BY <1>17 DEF SpendReply
  <2>2. task[t].pc = "spendReply"
    BY <1>17 DEF SpendReply
  <2> QED
    BY <1>17, <1>a, <2>1, <2>2, ResumedType, RunLoopType DEF SpendReply, TypeOK
<1>18. ASSUME NEW t \in Tasks, QueryFails(t) PROVE TypeInv'
  <2> DEFINE w == IF task[t].mode = "admit"
                  THEN [Leave(task[t], "upstream") EXCEPT !.verdict = "unchecked"]
                  ELSE Leave(task[t], "done")
  <2>1. task' = [task EXCEPT ![t] = w]
    BY <1>18 DEF QueryFails
  <2>2. task[t].rep \in Replicas
    BY <1>18, <1>b DEF QueryFails, LocalsOK
  <2>3. w \in Coroutines /\ LocalsOK(t, w)
    BY <1>b, <2>2, LeaveType DEF Coroutines, LocalsOK
  <2> HIDE DEF w
  <2> QED
    BY <1>18, <2>1, <2>3, OneTaskType DEF QueryFails, TypeOK
<1>19. CASE Tick
  BY <1>19, TrackerAssumption DEF Tick, TypeOK, Times, LocalsInv, LocalsOK
<1>20. CASE UNCHANGED vars
  BY <1>20 DEF vars, TypeOK, LocalsInv, LocalsOK
<1> QED
  BY <1>1, <1>2, <1>3, <1>4, <1>5, <1>6, <1>7, <1>8, <1>9, <1>10, <1>11, <1>12, <1>13, <1>14,
     <1>15, <1>16, <1>17, <1>18, <1>19, <1>20 DEF Next, Step

\* The tracker's state keeps its types, whatever the constants.
THEOREM Typed == Spec => []TypeOK
<1>1. Spec => []TypeInv
  BY TypeInit, TypeStep, PTL DEF Spec
<1> QED
  BY <1>1, PTL DEF TypeInv

-----------------------------------------------------------------------------
(* Requests and their rows *)

\* A row is never mistaken for its absence.
LEMMA NoneIsNoRow ==
    ASSUME NEW c \in 0 .. MaxTime, NEW k \in Nat, NEW t \in Times
    PROVE  [created_at |-> c, cost |-> k, committed_at |-> t] # None
BY TrackerAssumption DEF LedgerRows

\* What the mode of a request in the tracker says about its ledger row.
RowMatches(r, w) ==
    /\ w.created_at <= now
    /\ w.mode = "admit" => ledger[r] = None
    /\ w.mode = "count" => ledger[r] # None /\ ledger[r].created_at = w.created_at

\* A request is in the tracker twice: to be admitted, before it has a row, and to be
\* counted, after its row is written.
RequestOK(r, w) ==
    /\ RowMatches(r, w)
    /\ w.pc \notin {"read", "saved", "audit"} /\ w.mode # "report"
    /\ w.pc \in {"idle", "upstream", "write", "written", "done"} => w.mode = "none"
    /\ w.pc \in {"idle", "upstream", "write"} => ledger[r] = None
    /\ w.pc = "written" => ledger[r] # None /\ ledger[r].created_at = w.created_at

RequestInv == \A r \in Requests : RequestOK(r, task[r])

LEMMA RunLoopRequest ==
    ASSUME TypeOK, NEW t \in Requests, NEW w \in Coroutines, NEW cache \in Caches,
           Runnable(t, w), RunLoop(t, w, cache), RowMatches(t, w), w.mode \in {"admit", "count"},
           UNCHANGED <<now, ledger>>
    PROVE  RequestOK(t, task[t])'
<1> DEFINE usages == w.usages \cup {Usage(w, b, Period(b, now),
                                        AfterAdding(t, w, cache)[b][Period(b, now)].counted) :
                                     b \in Hits(w, cache)}
           wait == [w EXCEPT !.pc = "spendQuery", !.todo = w.todo \ Hits(w, cache),
                             !.usages = usages, !.since = now]
<1>1. t \in Tasks
  BY DEF Tasks
<1>2. usages \in SUBSET Usages
  BY <1>1, RunLoopUsages
<1>3. task'[t] = IF w.todo = Hits(w, cache) THEN AfterLoop(w, usages) ELSE wait
  BY <1>1 DEF RunLoop, TypeOK
<1> HIDE DEF usages
<1>4. RequestOK(t, wait)
  BY DEF RequestOK, RowMatches, Coroutines
<1>5. RequestOK(t, AfterLoop(w, usages))
  BY <1>2, AfterLoopType DEF RequestOK, RowMatches
<1> HIDE DEF wait
<1> QED
  BY <1>3, <1>4, <1>5 DEF RequestOK, RowMatches

\* A step that leaves the coroutine of a request and its row alone keeps them matching.
LEMMA OtherTask ==
    ASSUME TypeOK, NEW r \in Requests, RequestOK(r, task[r]),
           task'[r] = task[r], ledger'[r] = ledger[r], now' \in Nat, now <= now'
    PROVE  RequestOK(r, task[r])'
<1>1. task[r].created_at \in Nat /\ now \in Nat
  BY DEF TypeOK, Coroutines, Tasks, Times
<1> QED
  BY <1>1 DEF RequestOK, RowMatches

\* A step of one task leaves the coroutine of every other alone.
LEMMA OneTaskSteps ==
    ASSUME TypeOK, NEW t \in Tasks,
           \/ \E rep \in Replicas : Start(t, rep) \/ ReadBudgets(t, rep) \/ CreateBudget(t, rep)
           \/ Finish(t) \/ WriteFails(t) \/ Count(t)
           \/ Report(t) \/ UpdateBudget(t) \/ DeleteBudget(t) \/ Refuse(t)
           \/ Invalidate(t) \/ Answer(t) \/ Step(t) \/ QueryFails(t)
    PROVE  /\ \A u \in Tasks \ {t} : task'[u] = task[u]
           /\ UNCHANGED <<now, ledger>>
<1>1. ASSUME NEW w, NEW cache, RunLoop(t, w, cache)
      PROVE  \A u \in Tasks \ {t} : task'[u] = task[u]
  BY <1>1 DEF RunLoop, TypeOK
<1>2. ASSUME NEW w, Consult(t, w)
      PROVE  \A u \in Tasks \ {t} : task'[u] = task[u]
  BY <1>1, <1>2 DEF Consult, TypeOK
<1>3. CASE \E rep \in Replicas : Start(t, rep)
  BY <1>2, <1>3 DEF Start
<1>4. CASE Count(t)
  BY <1>2, <1>4 DEF Count
<1>5. CASE Report(t)
  BY <1>1, <1>5 DEF Report
<1>6. CASE Answer(t)
  BY <1>1, <1>6 DEF Answer
<1>7. CASE ListReply(t)
  BY <1>1, <1>7 DEF ListReply
<1>8. CASE SpendReply(t)
  BY <1>1, <1>8 DEF SpendReply
<1>9. CASE \E rep \in Replicas : ReadBudgets(t, rep) \/ CreateBudget(t, rep)
  BY <1>9 DEF ReadBudgets, CreateBudget, Save, TypeOK
<1>10. CASE Finish(t) \/ WriteFails(t) \/ UpdateBudget(t) \/ DeleteBudget(t) \/ Refuse(t)
  BY <1>10 DEF Finish, WriteFails, UpdateBudget, DeleteBudget, Refuse, Save, TypeOK
<1>11. CASE Invalidate(t) \/ ReadList(t) \/ ReadSpend(t) \/ QueryFails(t)
  BY <1>11 DEF Invalidate, ReadList, ReadSpend, QueryFails, TypeOK
<1> QED
  BY <1>3, <1>4, <1>5, <1>6, <1>7, <1>8, <1>9, <1>10, <1>11 DEF Step

\* The tracker's own steps of a request keep its mode in line with its row.
LEMMA RequestStep == TypeInv /\ RequestInv /\ [Next]_vars => RequestInv'
<1> SUFFICES ASSUME TypeInv, RequestInv, [Next]_vars, NEW r \in Requests
             PROVE  RequestOK(r, task[r])'
  BY DEF RequestInv
<1> USE DEF TypeInv
<1>1. r \in Tasks /\ task[r] \in Coroutines /\ LocalsOK(r, task[r]) /\ RequestOK(r, task[r])
  BY DEF Tasks, TypeOK, LocalsInv, RequestInv
<1>2. now \in Nat /\ r \notin Admins
  BY TrackerAssumption DEF TypeOK, Times
<1>a. ASSUME UNCHANGED <<now, ledger>>, task'[r] = task[r]
      PROVE  RequestOK(r, task[r])'
  BY <1>1, <1>2, <1>a, OtherTask
\* Requests other than r, admin calls and the clock.
<1>3. ASSUME NEW t \in Tasks, t # r,
             \/ \E rep \in Replicas : Start(t, rep) \/ ReadBudgets(t, rep) \/ CreateBudget(t, rep)
             \/ Finish(t) \/ WriteFails(t) \/ Count(t)
             \/ Report(t) \/ UpdateBudget(t) \/ DeleteBudget(t) \/ Refuse(t)
             \/ Invalidate(t) \/ Answer(t) \/ Step(t) \/ QueryFails(t)
      PROVE  RequestOK(r, task[r])'
  BY <1>1, <1>3, <1>a, OneTaskSteps
<1>4. ASSUME NEW q \in Requests, q # r, WriteRow(q)
      PROVE  RequestOK(r, task[r])'
  BY <1>1, <1>2, <1>4, OtherTask DEF WriteRow, TypeOK
<1>5. CASE Tick
  BY <1>1, <1>2, <1>5, OtherTask DEF Tick
<1>6. CASE UNCHANGED vars
  BY <1>6, <1>a DEF vars
\* The steps of r itself.
<1>b. ASSUME NEW w \in Coroutines, NEW cache \in Caches, Runnable(r, w), RowMatches(r, w),
             w.mode \in {"admit", "count"}, RunLoop(r, w, cache), UNCHANGED <<now, ledger>>
      PROVE  RequestOK(r, task[r])'
  BY <1>b, RunLoopRequest
<1>c. ASSUME NEW w \in Coroutines, w.rep \in Replicas, RowMatches(r, w), w.todo = {},
             w.mode \in {"admit", "count"}, Consult(r, w), UNCHANGED <<now, ledger>>
      PROVE  RequestOK(r, task[r])'
  <2>1. CASE list[w.rep] # None /\ ~Expired(list[w.rep].at)
    <3> DEFINE rows == list[w.rep].rows
               v == [w EXCEPT !.rows = rows, !.todo = Visits(w, r, rows)]
    <3>1. rows \in BudgetTables
      BY <1>c, <2>1 DEF TypeOK
    <3>2. v \in Coroutines /\ Runnable(r, v) /\ v.rep = w.rep /\ v.mode = w.mode /\ RowMatches(r, v)
      BY <1>c, <3>1, VisitsType DEF Coroutines, Runnable, RowMatches
    <3>3. RunLoop(r, v, spend[w.rep]) /\ spend[w.rep] \in Caches
      BY <1>c, <2>1 DEF Consult, TypeOK
    <3> HIDE DEF v
    <3> QED
      BY <1>b, <1>c, <3>2, <3>3
  <2>2. CASE ~(list[w.rep] # None /\ ~Expired(list[w.rep].at))
    <3>1. task'[r] = [w EXCEPT !.pc = "listQuery", !.since = now]
      BY <1>1, <1>c, <2>2 DEF Consult, TypeOK
    <3>2. RequestOK(r, [w EXCEPT !.pc = "listQuery", !.since = now])
      BY <1>c DEF RequestOK, RowMatches, Coroutines
    <3> QED
      BY <1>c, <3>1, <3>2 DEF RequestOK, RowMatches
  <2> QED
    BY <2>1, <2>2
<1>7. ASSUME NEW rep \in Balance[r], Start(r, rep) PROVE RequestOK(r, task[r])'
  <2> DEFINE w == [Idle EXCEPT !.mode = "admit", !.rep = rep, !.created_at = now]
  <2>1. rep \in Replicas /\ now \in 0 .. MaxTime
    BY <1>1, TrackerAssumption DEF TypeOK, Times
  <2>2. /\ w \in Coroutines /\ w.rep \in Replicas /\ w.mode = "admit" /\ w.todo = {}
        /\ w.created_at = now
    BY <2>1, IdleType DEF Coroutines, Idle
  <2>3. RowMatches(r, w)
    BY <1>1, <1>2, <1>7, <2>2 DEF Start, RequestOK, RowMatches
  <2>4. Consult(r, w) /\ UNCHANGED <<now, ledger>>
    BY <1>7 DEF Start
  <2> HIDE DEF w
  <2> QED
    BY <1>c, <2>2, <2>3, <2>4
<1>8. CASE Count(r)
  <2> DEFINE w == [task[r] EXCEPT !.mode = "count"]
  <2>1. /\ w \in Coroutines /\ w.rep \in Replicas /\ w.mode = "count" /\ w.todo = {}
        /\ RowMatches(r, w)
    BY <1>1, <1>8 DEF Count, Coroutines, LocalsOK, RequestOK, RowMatches
  <2>2. Consult(r, w) /\ UNCHANGED <<now, ledger>>
    BY <1>8 DEF Count
  <2> HIDE DEF w
  <2> QED
    BY <1>c, <2>1, <2>2
<1>9. CASE ListReply(r)
  <2> DEFINE rows == task[r].rows
             w == [task[r] EXCEPT !.todo = Visits(task[r], r, rows)]
  <2>1. rows \in BudgetTables
    BY <1>1 DEF Coroutines
  <2>2. /\ w \in Coroutines /\ w.rep = task[r].rep /\ Runnable(r, w) /\ RowMatches(r, w)
        /\ w.mode \in {"admit", "count"}
    BY <1>1, <1>9, <2>1, VisitsType
    DEF ListReply, Coroutines, LocalsOK, Runnable, RequestOK, RowMatches
  <2>3. RunLoop(r, w, spend[task[r].rep]) /\ UNCHANGED <<now, ledger>>
    BY <1>9 DEF ListReply
  <2>4. spend[task[r].rep] \in Caches
    BY <2>2 DEF TypeOK, Runnable
  <2> HIDE DEF w
  <2> QED
    BY <1>b, <2>2, <2>3, <2>4
<1>10. CASE SpendReply(r)
  <2>1. PICK b \in Budgets :
           IsFirst(b, task[r].todo) /\ RunLoop(r, Resumed(task[r], b), Refreshed(task[r], b))
    BY <1>10 DEF SpendReply
  <2> DEFINE v == Resumed(task[r], b)
  <2>2. v \in Coroutines /\ Refreshed(task[r], b) \in Caches /\ Runnable(r, v)
    BY <1>1, <1>10, <2>1, ResumedType DEF SpendReply
  <2>3. v.mode = task[r].mode /\ v.created_at = task[r].created_at
    BY <1>1 DEF Resumed, Coroutines
  <2>4. RowMatches(r, v) /\ v.mode \in {"admit", "count"}
    BY <1>1, <1>10, <2>3 DEF SpendReply, RequestOK, RowMatches, Coroutines, LocalsOK
  <2>5. UNCHANGED <<now, ledger>>
    BY <1>10 DEF SpendReply
  <2> HIDE DEF v
  <2> QED
    BY <1>b, <2>1, <2>2, <2>4, <2>5 DEF v
<1>d. ASSUME NEW w, task' = [task EXCEPT ![r] = w], RequestOK(r, w), UNCHANGED <<now, ledger>>
      PROVE  RequestOK(r, task[r])'
  BY <1>1, <1>d DEF RequestOK, RowMatches, TypeOK
<1>11. CASE ReadList(r) \/ ReadSpend(r)
  <2>1. /\ task'[r].pc \in {"listReply", "spendReply"} /\ task'[r].mode = task[r].mode
        /\ task'[r].created_at = task[r].created_at
    BY <1>1, <1>11 DEF ReadList, ReadSpend, TypeOK, Coroutines
  <2> QED
    BY <1>1, <1>11, <2>1 DEF ReadList, ReadSpend, RequestOK, RowMatches
<1>12. CASE QueryFails(r)
  <2> DEFINE w == IF task[r].mode = "admit"
                  THEN [Leave(task[r], "upstream") EXCEPT !.verdict = "unchecked"]
                  ELSE Leave(task[r], "done")
  <2>1. task' = [task EXCEPT ![r] = w] /\ UNCHANGED <<now, ledger>>
    BY <1>12 DEF QueryFails
  <2>2. RequestOK(r, w)
    BY <1>1, LeaveType DEF RequestOK, RowMatches, Coroutines
  <2> HIDE DEF w
  <2> QED
    BY <1>d, <2>1, <2>2
<1>13. CASE Finish(r) \/ WriteFails(r)
  <2>1. /\ task'[r].pc \in {"write", "done"} /\ task'[r].mode = task[r].mode
        /\ task'[r].created_at = task[r].created_at
    BY <1>1, <1>13 DEF Finish, WriteFails, TypeOK, Coroutines
  <2> QED
    BY <1>1, <1>13, <2>1 DEF Finish, WriteFails, RequestOK, RowMatches
<1>14. CASE WriteRow(r)
  <2>1. /\ task'[r].pc = "written" /\ task'[r].mode = task[r].mode
        /\ task'[r].created_at = task[r].created_at
    BY <1>1, <1>14 DEF WriteRow, TypeOK, Coroutines
  <2>2. ledger'[r] # None /\ ledger'[r].created_at = task[r].created_at
    BY <1>1, <1>14, NoneIsNoRow DEF WriteRow, TypeOK, Coroutines
  <2> QED
    BY <1>1, <1>14, <2>1, <2>2 DEF WriteRow, RequestOK, RowMatches
<1> QED
  BY <1>1, <1>2, <1>3, <1>4, <1>5, <1>6, <1>7, <1>8, <1>9, <1>10, <1>11, <1>12, <1>13, <1>14,
     TrackerAssumption DEF Next, Step, Tasks

-----------------------------------------------------------------------------
(* No row is counted more than twice *)

\* A request with these locals has yet to add its row to the figure of budget b.
YetToCount(w, b) ==
    \/ w.mode # "count" /\ w.pc # "done"
    \/ w.mode = "count" /\ w.pc \in {"listQuery", "listReply"}
    \/ w.mode = "count" /\ b \in w.todo /\ ~IsFirst(b, w.todo)

\* A cached figure holds rows of its own period only, each once, and once more if its
\* request has been through the budget.
FigureOK(e, b, p, r, yet) ==
    e # None => /\ e.counted[r] > 0 => Recorded(r, b, p)
                /\ e.counted[r] <= IF yet THEN 1 ELSE 2

\* So does the answer of a query that its task has yet to store.
AnswerOK(t, b, r) ==
    task[t].pc = "spendReply" /\ IsFirst(b, task[t].todo) =>
        /\ task[t].counted[r] <= 1
        /\ task[t].counted[r] > 0 => Recorded(r, b, Period(b, task[t].since))

CountInv ==
    \A b \in Budgets, r \in Requests :
        /\ \A rep \in Replicas, p \in Periods :
              FigureOK(spend[rep][b][p], b, p, r, YetToCount(task[r], b))
        /\ \A t \in Tasks : AnswerOK(t, b, r)

\* The budgets a count still visits at the head of the loop; other modes visit for no row.
Ahead(w, b) == w.mode = "count" => b \in w.todo

\* Once a loop in record() has reached a budget or never visits it, its row is not added
\* to that budget's figure again.
LEMMA NotYetAgain ==
    ASSUME TypeOK, NEW t \in Tasks, NEW w \in Coroutines, NEW cache \in Caches,
           Runnable(t, w), RunLoop(t, w, cache), NEW b \in Budgets,
           w.mode = "count", b \in Reached(w, cache) \/ b \notin w.todo
    PROVE  ~YetToCount(task'[t], b)
<1> DEFINE usages == w.usages \cup {Usage(w, c, Period(c, now),
                                        AfterAdding(t, w, cache)[c][Period(c, now)].counted) :
                                     c \in Hits(w, cache)}
           miss == w.todo \ Hits(w, cache)
           wait == [w EXCEPT !.pc = "spendQuery", !.todo = miss, !.usages = usages, !.since = now]
<1>1. usages \in SUBSET Usages
  BY RunLoopUsages
<1>2. task'[t] = IF w.todo = Hits(w, cache) THEN AfterLoop(w, usages) ELSE wait
  BY DEF RunLoop, TypeOK
<1>3. b \in miss => IsFirst(b, miss)
  <2> SUFFICES ASSUME b \in miss, NEW c \in miss, ~(b <= c) PROVE FALSE
    BY DEF IsFirst
  <2>1. w.todo \subseteq Nat /\ b \in Reached(w, cache)
    BY TrackerAssumption DEF Coroutines
  <2>2. c \in Hits(w, cache)
    BY <2>1 DEF Reached, Hits
  <2> QED
    BY <2>2
<1> HIDE DEF usages, miss
<1>4. ~YetToCount(wait, b)
  BY <1>3 DEF YetToCount, Coroutines
<1>5. ~YetToCount(AfterLoop(w, usages), b)
  BY <1>1, AfterLoopType DEF YetToCount
<1> HIDE DEF wait
<1> QED
  BY <1>2, <1>4, <1>5

\* A request that has yet to count a budget after a loop had it ahead before.
LEMMA YetMeansAhead ==
    ASSUME TypeOK, NEW t \in Tasks, NEW w \in Coroutines, NEW cache \in Caches,
           Runnable(t, w), RunLoop(t, w, cache), NEW b \in Budgets, YetToCount(task'[t], b)
    PROVE  Ahead(w, b)
BY NotYetAgain DEF Ahead

LEMMA RunLoopFigure ==
    ASSUME TypeOK, NEW t \in Tasks, NEW w \in Coroutines, NEW cache \in Caches,
           Runnable(t, w), RunLoop(t, w, cache), t \in Requests => RowMatches(t, w),
           NEW b \in Budgets, NEW p \in Periods, NEW r \in Requests,
           FigureOK(cache[b][p], b, p, r, IF r = t THEN Ahead(w, b) ELSE YetToCount(task[r], b))
    PROVE  FigureOK(spend'[w.rep][b][p], b, p, r, YetToCount(task'[r], b))
<1> DEFINE after == AfterAdding(t, w, cache)
<1>1. spend'[w.rep][b][p] = after[b][p]
  BY DEF RunLoop, TypeOK, Runnable
<1>2. cache[b][p] # None => cache[b][p] \in Entries
  BY DEF Caches
<1>3. CASE Adds(w, cache, b, p)
  <2>1. /\ w.mode = "count" /\ b \in Reached(w, cache) /\ b \in w.todo /\ t \in Requests
        /\ cache[b][p] \in Entries /\ cache[b][p] # None
    BY <1>2, <1>3 DEF Adds, Reached, Runnable
  <2>2. after[b][p] = [cache[b][p] EXCEPT !.counted[t] = @ + 1]
    BY <1>3 DEF AfterAdding
  <2>3. \A q \in Requests : after[b][p].counted[q] =
            IF q = t THEN cache[b][p].counted[q] + 1 ELSE cache[b][p].counted[q]
    BY <2>1, <2>2 DEF Entries
  <2>4. cache[b][p].counted[r] \in Nat
    BY <2>1 DEF Entries
  <2>5. CASE r = t
    <3>1. ~YetToCount(task'[t], b)
      BY <2>1, NotYetAgain
    <3>2. Recorded(t, b, p)
      <4>1. /\ ledger[t] # None /\ ledger[t].created_at = w.created_at
            /\ w.created_at <= now /\ w.created_at \in Nat /\ now \in Nat
        BY <2>1 DEF RowMatches, TypeOK, Times, Coroutines
      <4>2. PeriodLength[b] \in Nat \ {0}
        BY TrackerAssumption
      <4>3. Period(b, w.created_at) <= Period(b, now)
        BY <4>1, <4>2, DivMonotonic DEF Period
      <4>4. Period(b, w.created_at) >= p /\ p = Period(b, now)
        BY <1>3 DEF Adds
      <4>5. Period(b, w.created_at) \in Nat /\ Period(b, now) \in Nat
        BY <4>1, <4>2, DivBounds DEF Period
      <4> QED
        BY <4>1, <4>3, <4>4, <4>5 DEF Recorded
    <3>3. cache[b][p].counted[t] <= 1
      BY <2>1, <2>5 DEF FigureOK, Ahead
    <3> QED
      BY <1>1, <2>3, <2>4, <2>5, <3>1, <3>2, <3>3 DEF FigureOK
  <2>6. CASE r # t
    <3>1. task'[r] = task[r]
      BY <2>6 DEF RunLoop, TypeOK, Tasks
    <3> QED
      BY <1>1, <2>1, <2>3, <2>6, <3>1 DEF FigureOK
  <2> QED
    BY <2>5, <2>6
<1>4. CASE ~Adds(w, cache, b, p)
  <2>1. after[b][p] = cache[b][p]
    BY <1>4 DEF AfterAdding
  <2>2. CASE r = t
    <3>1. YetToCount(task'[t], b) => Ahead(w, b)
      BY YetMeansAhead
    <3>2. cache[b][p] # None => cache[b][p].counted[r] \in Nat
      BY <1>2 DEF Entries
    <3> QED
      BY <1>1, <2>1, <2>2, <3>1, <3>2 DEF FigureOK
  <2>3. CASE r # t
    <3>1. task'[r] = task[r]
      BY <2>3 DEF RunLoop, TypeOK, Tasks
    <3> QED
      BY <1>1, <2>1, <2>3, <3>1 DEF FigureOK
  <2> QED
    BY <2>2, <2>3
<1> QED
  BY <1>3, <1>4

\* A loop that starts with figures in order leaves them in order, in its own replica and
\* in the others.
LEMMA RunLoopCounts ==
    ASSUME TypeInv, CountInv, NEW t \in Tasks, NEW w \in Coroutines, NEW cache \in Caches,
           Runnable(t, w), RunLoop(t, w, cache), UNCHANGED ledger,
           t \in Requests => /\ RowMatches(t, w)
                             /\ \A b \in Budgets : Ahead(w, b) => YetToCount(task[t], b),
           \A b \in Budgets, p \in Periods :
              \/ cache[b][p] = spend[w.rep][b][p]
              \/ \A r \in Requests : FigureOK(cache[b][p], b, p, r, TRUE)
    PROVE  CountInv'
<1> USE DEF TypeInv
<1> SUFFICES ASSUME NEW b \in Budgets, NEW r \in Requests
             PROVE  /\ \A rep \in Replicas, p \in Periods :
                          FigureOK(spend[rep][b][p], b, p, r, YetToCount(task[r], b))'
                    /\ \A u \in Tasks : AnswerOK(u, b, r)'
  BY DEF CountInv
<1>1. \A u \in Tasks \ {t} : task'[u] = task[u]
  BY DEF RunLoop, TypeOK
<1>2. YetToCount(task'[r], b) => YetToCount(task[r], b)
  BY <1>1, YetMeansAhead DEF Tasks
<1>3. ASSUME NEW rep \in Replicas, NEW p \in Periods
      PROVE  FigureOK(spend[rep][b][p], b, p, r, YetToCount(task[r], b))'
  <2>1. CASE rep = w.rep
    <3>1. cache[b][p] # None => cache[b][p].counted[r] \in Nat
      BY DEF Caches, Entries
    <3>2. FigureOK(cache[b][p], b, p, r,
                   IF r = t THEN Ahead(w, b) ELSE YetToCount(task[r], b))
      <4>1. CASE \A q \in Requests : FigureOK(cache[b][p], b, p, q, TRUE)
        BY <3>1, <4>1 DEF FigureOK
      <4>2. CASE cache[b][p] = spend[w.rep][b][p]
        <5>1. FigureOK(cache[b][p], b, p, r, YetToCount(task[r], b))
          BY <2>1, <4>2 DEF CountInv
        <5> QED
          BY <3>1, <5>1 DEF FigureOK
      <4> QED
        BY <4>1, <4>2
    <3>3. FigureOK(spend'[w.rep][b][p], b, p, r, YetToCount(task'[r], b))
      BY <3>2, RunLoopFigure
    <3> QED
      BY <2>1, <3>3 DEF FigureOK, Recorded
  <2>2. CASE rep # w.rep
    <3>1. spend'[rep] = spend[rep]
      BY <2>2 DEF RunLoop, TypeOK
    <3>2. spend[rep][b][p] # None => spend[rep][b][p].counted[r] \in Nat
      BY DEF TypeOK, Caches, Entries
    <3> QED
      BY <1>2, <3>1, <3>2 DEF CountInv, FigureOK, Recorded
  <2> QED
    BY <2>1, <2>2
<1>4. ASSUME NEW u \in Tasks
      PROVE  AnswerOK(u, b, r)'
  <2>1. CASE u # t
    BY <1>1, <2>1 DEF CountInv, AnswerOK, Recorded
  <2>2. CASE u = t
    <3> DEFINE usages == w.usages \cup {Usage(w, c, Period(c, now),
                                            AfterAdding(t, w, cache)[c][Period(c, now)].counted) :
                                         c \in Hits(w, cache)}
               wait == [w EXCEPT !.pc = "spendQuery", !.todo = w.todo \ Hits(w, cache),
                                 !.usages = usages, !.since = now]
    <3>1. usages \in SUBSET Usages
      BY RunLoopUsages
    <3>2. task'[t] = IF w.todo = Hits(w, cache) THEN AfterLoop(w, usages) ELSE wait
      BY DEF RunLoop, TypeOK
    <3> HIDE DEF usages
    <3>3. wait.pc = "spendQuery"
      BY DEF Coroutines
    <3>4. AfterLoop(w, usages).pc # "spendReply"
      BY <3>1, AfterLoopType DEF Runnable
    <3> HIDE DEF wait
    <3> QED
      BY <2>2, <3>2, <3>3, <3>4 DEF AnswerOK
  <2> QED
    BY <2>1, <2>2
<1> QED
  BY <1>3, <1>4

\* Steps that drop figures, write a first row or move on without storing anything.
LEMMA CountFrame ==
    ASSUME TypeInv, CountInv,
           \A rep \in Replicas, b \in Budgets, p \in Periods :
              spend'[rep][b][p] \in {spend[rep][b][p], None},
           \A r \in Requests : ledger[r] = None \/ ledger'[r] = ledger[r],
           \A r \in Requests, b \in Budgets :
              YetToCount(task'[r], b) => YetToCount(task[r], b),
           \A t \in Tasks : \/ task'[t] = task[t] \/ task'[t].pc # "spendReply"
                            \/ \A b \in Budgets, r \in Requests : AnswerOK(t, b, r)'
    PROVE  CountInv'
<1> USE DEF TypeInv
<1> SUFFICES ASSUME NEW b \in Budgets, NEW r \in Requests
             PROVE  /\ \A rep \in Replicas, p \in Periods :
                          FigureOK(spend[rep][b][p], b, p, r, YetToCount(task[r], b))'
                    /\ \A t \in Tasks : AnswerOK(t, b, r)'
  BY DEF CountInv
<1>1. \A p : Recorded(r, b, p) => Recorded(r, b, p)'
  BY DEF Recorded, Period
<1>2. ASSUME NEW rep \in Replicas, NEW p \in Periods
      PROVE  FigureOK(spend[rep][b][p], b, p, r, YetToCount(task[r], b))'
  <2>1. FigureOK(spend[rep][b][p], b, p, r, YetToCount(task[r], b))
    BY DEF CountInv
  <2>2. spend[rep][b][p] # None => spend[rep][b][p].counted[r] \in Nat
    BY DEF TypeOK, Caches, Entries
  <2> QED
    BY <1>1, <2>1, <2>2 DEF FigureOK
<1>3. ASSUME NEW t \in Tasks
      PROVE  AnswerOK(t, b, r)'
  <2>1. CASE task'[t] = task[t]
    BY <1>1, <2>1 DEF CountInv, AnswerOK
  <2>2. CASE task'[t].pc # "spendReply"
    BY <2>2 DEF AnswerOK
  <2> QED
    BY <2>1, <2>2
<1> QED
  BY <1>2, <1>3

LEMMA ConsultCounts ==
    ASSUME TypeInv, CountInv, NEW t \in Requests, NEW w \in Coroutines,
           w.rep \in Replicas, w.mode \in {"admit", "count"}, w.todo = {},
           RowMatches(t, w), Consult(t, w), UNCHANGED ledger,
           \A b \in Budgets : YetToCount(task[t], b)
    PROVE  CountInv'
<1>0. t \in Tasks
  BY DEF Tasks
<1>1. CASE list[w.rep] # None /\ ~Expired(list[w.rep].at)
  <2> DEFINE rows == list[w.rep].rows
             v == [w EXCEPT !.rows = rows, !.todo = Visits(w, t, rows)]
  <2>1. rows \in BudgetTables
    BY <1>1 DEF TypeInv, TypeOK
  <2>2. v \in Coroutines /\ Runnable(t, v) /\ v.rep = w.rep /\ RowMatches(t, v)
    BY <2>1, VisitsType DEF Coroutines, Runnable, RowMatches
  <2>3. RunLoop(t, v, spend[w.rep]) /\ spend[w.rep] \in Caches
    BY <1>1 DEF Consult, TypeInv, TypeOK
  <2> HIDE DEF v
  <2> QED
    BY <1>0, <2>2, <2>3, RunLoopCounts
<1>2. CASE ~(list[w.rep] # None /\ ~Expired(list[w.rep].at))
  <2>1. /\ task' = [task EXCEPT ![t] = [w EXCEPT !.pc = "listQuery", !.since = now]]
        /\ spend' = spend
    BY <1>2 DEF Consult
  <2>2. /\ task'[t].pc = "listQuery"
        /\ \A u \in Tasks \ {t} : task'[u] = task[u]
    BY <1>0, <2>1 DEF Coroutines, TypeInv, TypeOK
  <2>3. \A r \in Requests, b \in Budgets : YetToCount(task'[r], b) => YetToCount(task[r], b)
    BY <2>2 DEF Tasks
  <2>4. \A u \in Tasks : task'[u] = task[u] \/ task'[u].pc # "spendReply"
    BY <2>2
  <2> QED
    BY <2>1, <2>3, <2>4, CountFrame
<1> QED
  BY <1>1, <1>2

LEMMA CountInit == Init => RequestInv /\ CountInv
<1> SUFFICES ASSUME Init PROVE RequestInv /\ CountInv
  OBVIOUS
<1>1. \A t \in Tasks : task[t] = Idle
  BY DEF Init
<1>2. RequestInv
  BY <1>1 DEF Init, Idle, RequestInv, RequestOK, RowMatches, Tasks
<1>3. CountInv
  BY <1>1 DEF Init, Idle, CountInv, FigureOK, AnswerOK
<1> QED
  BY <1>2, <1>3

LEMMA CountStep == TypeInv /\ RequestInv /\ CountInv /\ [Next]_vars => CountInv'
<1> SUFFICES ASSUME TypeInv, RequestInv, CountInv, [Next]_vars PROVE CountInv'
  OBVIOUS
<1>0. /\ DOMAIN task = Tasks /\ Requests \subseteq Tasks /\ Admins \subseteq Tasks
      /\ Requests \cap Admins = {}
  BY TrackerAssumption DEF TypeInv, TypeOK, Tasks
<1>b. \A t \in Tasks : task[t] \in Coroutines /\ LocalsOK(t, task[t])
  BY DEF TypeInv, TypeOK, LocalsInv
<1>r. \A r \in Requests : RequestOK(r, task[r])
  BY DEF RequestInv
\* Steps of an admin call that do not loop.
<1>a. ASSUME NEW a \in Admins, \A u \in Tasks \ {a} : task'[u] = task[u],
             task'[a].pc # "spendReply", UNCHANGED <<spend, ledger>>
      PROVE  CountInv'
  <2>1. \A r \in Requests, b \in Budgets : YetToCount(task'[r], b) => YetToCount(task[r], b)
    BY <1>0, <1>a
  <2>2. \A u \in Tasks : task'[u] = task[u] \/ task'[u].pc # "spendReply"
    BY <1>a
  <2> QED
    BY <1>a, <2>1, <2>2, CountFrame
\* Steps of a request that do not loop.
<1>c. ASSUME NEW r \in Requests, \A u \in Tasks \ {r} : task'[u] = task[u],
             task'[r].pc # "spendReply",
             \A b \in Budgets : YetToCount(task'[r], b) => YetToCount(task[r], b),
             UNCHANGED spend, \A q \in Requests : ledger[q] = None \/ ledger'[q] = ledger[q]
      PROVE  CountInv'
  <2>1. \A q \in Requests, b \in Budgets : YetToCount(task'[q], b) => YetToCount(task[q], b)
    BY <1>0, <1>c
  <2>2. \A u \in Tasks : task'[u] = task[u] \/ task'[u].pc # "spendReply"
    BY <1>c
  <2> QED
    BY <1>c, <2>1, <2>2, CountFrame
<1>1. ASSUME NEW r \in Requests, NEW rep \in Balance[r], Start(r, rep) PROVE CountInv'
  <2> DEFINE w == [Idle EXCEPT !.mode = "admit", !.rep = rep, !.created_at = now]
  <2>1. rep \in Replicas /\ now \in 0 .. MaxTime
    BY <1>0, <1>1, TrackerAssumption DEF TypeInv, TypeOK, Times
  <2>2. /\ w \in Coroutines /\ w.rep \in Replicas /\ w.mode = "admit" /\ w.todo = {}
        /\ w.created_at = now
    BY <2>1, IdleType DEF Coroutines, Idle
  <2>3. RowMatches(r, w)
    BY <1>1, <1>r, <2>1, <2>2 DEF Start, RequestOK, RowMatches
  <2>4. Consult(r, w) /\ UNCHANGED ledger
    BY <1>1 DEF Start
  <2>5. \A b \in Budgets : YetToCount(task[r], b)
    BY <1>1, <1>r DEF Start, RequestOK, YetToCount
  <2> HIDE DEF w
  <2> QED
    BY <2>2, <2>3, <2>4, <2>5, ConsultCounts
<1>2. ASSUME NEW r \in Requests, Finish(r) PROVE CountInv'
  <2>1. /\ \A u \in Tasks \ {r} : task'[u] = task[u]
        /\ task'[r].pc = "write" /\ task'[r].mode = task[r].mode
    BY <1>0, <1>2, <1>b DEF Finish, Coroutines
  <2>2. \A b \in Budgets : YetToCount(task[r], b)
    BY <1>2, <1>r DEF Finish, RequestOK, YetToCount
  <2> QED
    BY <1>2, <1>c, <2>1, <2>2 DEF Finish
<1>3. ASSUME NEW r \in Requests, WriteRow(r) PROVE CountInv'
  <2>1. /\ \A u \in Tasks \ {r} : task'[u] = task[u]
        /\ task'[r].pc = "written" /\ task'[r].mode = task[r].mode
    BY <1>0, <1>3, <1>b DEF WriteRow, Coroutines
  <2>2. \A b \in Budgets : YetToCount(task[r], b)
    BY <1>3, <1>r DEF WriteRow, RequestOK, YetToCount
  <2>3. \A q \in Requests : ledger[q] = None \/ ledger'[q] = ledger[q]
    BY <1>3, <1>r DEF WriteRow, RequestOK, TypeInv, TypeOK
  <2> QED
    BY <1>3, <1>c, <2>1, <2>2, <2>3 DEF WriteRow
<1>4. ASSUME NEW r \in Requests, WriteFails(r) PROVE CountInv'
  <2>1. /\ \A u \in Tasks \ {r} : task'[u] = task[u]
        /\ task'[r].pc = "done" /\ task'[r].mode = task[r].mode
    BY <1>0, <1>4, <1>b DEF WriteFails, Coroutines
  <2>2. task[r].mode = "none"
    BY <1>4, <1>r DEF WriteFails, RequestOK
  <2> QED
    BY <1>4, <1>c, <2>1, <2>2 DEF WriteFails, YetToCount
<1>5. ASSUME NEW r \in Requests, Count(r) PROVE CountInv'
  <2> DEFINE w == [task[r] EXCEPT !.mode = "count"]
  <2>1. /\ w \in Coroutines /\ w.rep \in Replicas /\ w.mode = "count" /\ w.todo = {}
        /\ RowMatches(r, w)
    BY <1>0, <1>5, <1>b, <1>r DEF Count, Coroutines, LocalsOK, RequestOK, RowMatches
  <2>2. Consult(r, w) /\ UNCHANGED ledger
    BY <1>5 DEF Count
  <2>3. \A b \in Budgets : YetToCount(task[r], b)
    BY <1>5, <1>r DEF Count, RequestOK, YetToCount
  <2> HIDE DEF w
  <2> QED
    BY <2>1, <2>2, <2>3, ConsultCounts
<1>6. ASSUME NEW a \in Admins, NEW rep \in Balance[a],
             ReadBudgets(a, rep) \/ CreateBudget(a, rep)
      PROVE  CountInv'
  <2>1. \/ \E rows, todo :
              task' = [task EXCEPT ![a] =
                 [Idle EXCEPT !.rep = rep, !.pc = "read", !.rows = rows, !.since = now,
                              !.todo = todo]]
        \/ \E b, row : Save(a, rep, b, row)
    <3>1. CASE ReadBudgets(a, rep)
      BY <3>1, Zenon DEF ReadBudgets
    <3>2. CASE CreateBudget(a, rep)
      BY <3>2, Zenon DEF CreateBudget
    <3> QED
      BY <1>6, <3>1, <3>2
  <2>2. /\ \A u \in Tasks \ {a} : task'[u] = task[u]
        /\ task'[a].pc # "spendReply"
    BY <1>0, <2>1 DEF Save, Idle
  <2> QED
    BY <1>6, <1>a, <2>2 DEF ReadBudgets, CreateBudget, Save
<1>7. ASSUME NEW a \in Admins, UpdateBudget(a) \/ DeleteBudget(a) PROVE CountInv'
  <2>1. \E b, row : Save(a, task[a].rep, b, row)
    BY <1>7, Zenon DEF UpdateBudget, DeleteBudget
  <2>2. /\ \A u \in Tasks \ {a} : task'[u] = task[u]
        /\ task'[a].pc # "spendReply"
    BY <1>0, <2>1 DEF Save, Idle
  <2> QED
    BY <1>a, <2>1, <2>2 DEF Save
<1>8. ASSUME NEW a \in Admins, Refuse(a) PROVE CountInv'
  <2>1. /\ \A u \in Tasks \ {a} : task'[u] = task[u]
        /\ task'[a].pc # "spendReply"
    BY <1>0, <1>8, <1>b, LeaveType DEF Refuse
  <2> QED
    BY <1>8, <1>a, <2>1 DEF Refuse
<1>9. ASSUME NEW a \in Admins, Report(a) \/ Answer(a) PROVE CountInv'
  <2> DEFINE w == [task[a] EXCEPT !.mode = "report"]
  <2>1. w \in Coroutines /\ Runnable(a, w) /\ w.rep = task[a].rep
    BY <1>0, <1>9, <1>b DEF Report, Answer, Coroutines, LocalsOK, Runnable
  <2>2. RunLoop(a, w, spend[w.rep]) /\ spend[w.rep] \in Caches /\ UNCHANGED ledger
    BY <1>9, <2>1 DEF Report, Answer, Runnable, TypeInv, TypeOK
  <2>3. a \notin Requests /\ a \in Tasks
    BY <1>0
  <2> HIDE DEF w
  <2> QED
    BY <2>1, <2>2, <2>3, RunLoopCounts
<1>10. ASSUME NEW a \in Admins, Invalidate(a) PROVE CountInv'
  <2>1. /\ \A u \in Tasks \ {a} : task'[u] = task[u]
        /\ task'[a].pc = "audit"
    BY <1>0, <1>10, <1>b DEF Invalidate, Coroutines
  <2>2. \A rep \in Replicas, b \in Budgets, p \in Periods :
           spend'[rep][b][p] \in {spend[rep][b][p], None}
    BY <1>10 DEF Invalidate, TypeInv, TypeOK
  <2>3. \A r \in Requests, b \in Budgets : YetToCount(task'[r], b) => YetToCount(task[r], b)
    BY <1>0, <2>1
  <2>4. \A u \in Tasks : task'[u] = task[u] \/ task'[u].pc # "spendReply"
    BY <2>1
  <2> QED
    BY <1>10, <2>2, <2>3, <2>4, CountFrame DEF Invalidate
<1>11. ASSUME NEW t \in Tasks, ReadList(t) PROVE CountInv'
  <2>1. /\ \A u \in Tasks \ {t} : task'[u] = task[u]
        /\ task'[t].pc = "listReply" /\ task'[t].mode = task[t].mode
    BY <1>0, <1>11, <1>b DEF ReadList, Coroutines
  <2>2. \A b \in Budgets : YetToCount(task'[t], b) => YetToCount(task[t], b)
    BY <1>11, <2>1 DEF ReadList, YetToCount
  <2> QED
    BY <1>11, <1>a, <1>c, <2>1, <2>2 DEF ReadList, Tasks
<1>12. ASSUME NEW t \in Tasks, ListReply(t) PROVE CountInv'
  <2> DEFINE rows == task[t].rows
             w == [task[t] EXCEPT !.todo = Visits(task[t], t, rows)]
  <2>1. rows \in BudgetTables /\ task[t].pc = "listReply"
    BY <1>12, <1>b DEF ListReply, Coroutines
  <2>2. w \in Coroutines /\ w.rep = task[t].rep /\ w.mode = task[t].mode /\ Runnable(t, w)
    BY <1>b, <2>1, VisitsType DEF Coroutines, LocalsOK, Runnable
  <2>3. RunLoop(t, w, spend[w.rep]) /\ spend[w.rep] \in Caches /\ UNCHANGED ledger
    BY <1>12, <2>2 DEF ListReply, Runnable, TypeInv, TypeOK
  <2>4. t \in Requests => RowMatches(t, w)
    BY <1>b, <1>r DEF RequestOK, RowMatches, Coroutines
  <2>5. \A b \in Budgets : YetToCount(task[t], b)
    BY <2>1 DEF YetToCount
  <2> HIDE DEF w
  <2> QED
    BY <2>2, <2>3, <2>4, <2>5, RunLoopCounts
<1>13. ASSUME NEW t \in Tasks, ReadSpend(t) PROVE CountInv'
  <2>1. PICK b \in Budgets :
           /\ IsFirst(b, task[t].todo)
           /\ task' = [task EXCEPT ![t].pc = "spendReply",
                ![t].counted = TotalCost(b, Period(b, task[t].since), task[t].rows[b].scope)]
    BY <1>13 DEF ReadSpend
  <2> DEFINE c == TotalCost(b, Period(b, task[t].since), task[t].rows[b].scope)
  <2>2. \A r \in Requests : c[r] <= 1 /\ (c[r] > 0 => Recorded(r, b, Period(b, task[t].since)))
    BY DEF TotalCost, Recorded
  <2> HIDE DEF c
  <2>3. /\ \A u \in Tasks \ {t} : task'[u] = task[u]
        /\ task'[t].pc = "spendReply" /\ task'[t].counted = c
        /\ task'[t].mode = task[t].mode /\ task'[t].todo = task[t].todo
        /\ task'[t].since = task[t].since
    BY <1>0, <1>b, <2>1 DEF c, Coroutines
  <2>4. \A r \in Requests, d \in Budgets : YetToCount(task'[r], d) => YetToCount(task[r], d)
    BY <1>13, <2>3 DEF YetToCount, ReadSpend, Tasks
  <2>5. \A d \in Budgets : IsFirst(d, task[t].todo) => d = b
    BY <2>1, TrackerAssumption DEF IsFirst
  <2>6. \A d \in Budgets, r \in Requests : AnswerOK(t, d, r)'
    BY <1>13, <2>2, <2>3, <2>5 DEF AnswerOK, Recorded, Period, ReadSpend
  <2>7. /\ \A rep \in Replicas, d \in Budgets, p \in Periods :
              spend'[rep][d][p] \in {spend[rep][d][p], None}
        /\ ledger' = ledger
    BY <1>13 DEF ReadSpend
  <2> QED
    BY <2>3, <2>4, <2>6, <2>7, CountFrame
<1>14. ASSUME NEW t \in Tasks, SpendReply(t) PROVE CountInv'
  <2>1. PICK b \in Budgets :
           IsFirst(b, task[t].todo) /\ RunLoop(t, Resumed(task[t], b), Refreshed(task[t], b))
    BY <1>14 DEF SpendReply
  <2>2. task[t].pc = "spendReply" /\ UNCHANGED ledger
    BY <1>14 DEF SpendReply
  <2> DEFINE w == Resumed(task[t], b)
             cache == Refreshed(task[t], b)
             q == Period(b, task[t].since)
             e == [counted |-> task[t].counted, fetched_at |-> now,
                   scope |-> task[t].rows[b].scope]
  <2>3. /\ w \in Coroutines /\ cache \in Caches /\ Runnable(t, w)
        /\ task[t].rep \in Replicas /\ q \in Periods
    BY <2>1, <2>2, ResumedType
  <2>4. /\ w.mode = task[t].mode /\ w.created_at = task[t].created_at /\ w.rep = task[t].rep
        /\ w.todo = task[t].todo \ {b}
    BY <1>b DEF Resumed, Coroutines
  <2>5. t \in Requests => RowMatches(t, w)
    BY <1>r, <2>4 DEF RequestOK, RowMatches
  <2>6. \A d \in Budgets : Ahead(w, d) => YetToCount(task[t], d)
    <3>1. Budgets \subseteq Nat
      BY TrackerAssumption DEF TrackerAssumption
    <3> HIDE DEF w
    <3> QED
      BY <2>1, <2>2, <2>4, <3>1 DEF Ahead, YetToCount, IsFirst
  <2>7. \A r \in Requests : FigureOK(e, b, q, r, TRUE)
    BY <2>1, <2>2 DEF CountInv, AnswerOK, FigureOK
  <2>8. \A d \in Budgets, p \in Periods :
           cache[d][p] = IF d = b /\ p = q THEN e ELSE spend[w.rep][d][p]
    <3>1. spend[w.rep] \in Caches
      BY <2>3, <2>4 DEF TypeInv, TypeOK
    <3> QED
      BY <2>3, <2>4, <3>1 DEF Refreshed, Caches
  <2> HIDE DEF w, cache, q, e
  <2>9. \A d \in Budgets, p \in Periods :
           \/ cache[d][p] = spend[w.rep][d][p]
           \/ \A r \in Requests : FigureOK(cache[d][p], d, p, r, TRUE)
    BY <2>7, <2>8
  <2>10. RunLoop(t, w, cache)
    BY <2>1 DEF w, cache
  <2> QED
    BY <2>2, <2>3, <2>5, <2>6, <2>9, <2>10, RunLoopCounts
<1>15. ASSUME NEW t \in Tasks, QueryFails(t) PROVE CountInv'
  <2> DEFINE w == IF task[t].mode = "admit"
                  THEN [Leave(task[t], "upstream") EXCEPT !.verdict = "unchecked"]
                  ELSE Leave(task[t], "done")
  <2>1. /\ task' = [task EXCEPT ![t] = w] /\ UNCHANGED <<spend, ledger>>
        /\ task[t].pc \in {"listQuery", "spendQuery"}
    BY <1>15 DEF QueryFails
  <2>2. /\ w.pc = IF task[t].mode = "admit" THEN "upstream" ELSE "done"
        /\ w.mode = "none"
    BY <1>b, LeaveType DEF Coroutines
  <2> HIDE DEF w
  <2>3. task'[t] = w /\ \A u \in Tasks \ {t} : task'[u] = task[u]
    BY <1>0, <2>1
  <2>4. \A b \in Budgets : YetToCount(w, b) => YetToCount(task[t], b)
    BY <2>1, <2>2 DEF YetToCount
  <2> QED
    BY <1>a, <1>c, <2>1, <2>2, <2>3, <2>4 DEF Tasks
<1>16. CASE Tick \/ UNCHANGED vars
  <2>1. UNCHANGED <<spend, ledger, task>>
    BY <1>16 DEF Tick, vars
  <2> QED
    BY <2>1, CountFrame
<1> QED
  BY <1>1, <1>2, <1>3, <1>4, <1>5, <1>6, <1>7, <1>8, <1>9, <1>10, <1>11, <1>12, <1>13, <1>14,
     <1>15, <1>16 DEF Next, Step

\* A cached figure holds no row of another period and no row more than twice, however the
\* refreshes, writes and counts of any number of requests interleave.
THEOREM AtMostTwice == Spec => []CountedAtMostTwice
<1>1. TypeInv /\ CountInv => CountedAtMostTwice
  <2> SUFFICES ASSUME TypeInv, CountInv, NEW rep \in Replicas, NEW b \in Budgets,
                      NEW p \in Periods, NEW r \in Requests, spend[rep][b][p] # None
               PROVE  spend[rep][b][p].counted[r] <= IF Recorded(r, b, p) THEN 2 ELSE 0
    BY DEF CountedAtMostTwice
  <2>1. spend[rep][b][p].counted[r] \in Nat
    BY DEF TypeInv, TypeOK, Caches, Entries
  <2>2. FigureOK(spend[rep][b][p], b, p, r, YetToCount(task[r], b))
    BY DEF CountInv
  <2> QED
    BY <2>1, <2>2 DEF FigureOK
<1>2. Spec => [](TypeInv /\ RequestInv /\ CountInv)
  BY TypeInit, TypeStep, CountInit, RequestStep, CountStep, PTL DEF Spec
<1> QED
  BY <1>1, <1>2, PTL

-----------------------------------------------------------------------------
(* No row is forgotten *)

\* A cached figure holds the rows of its filter that were committed early enough.
Covers(e, b, p, r) ==
    e # None =>
        /\ e.fetched_at <= now
        /\ /\ r \in e.scope /\ Recorded(r, b, p)
           /\ ledger[r].committed_at < e.fetched_at - QueryTime
           => e.counted[r] >= 1

\* A database call has not been in flight for longer than QueryTime.
InTime(t) ==
    task[t].pc \in InDatabase => task[t].since <= now /\ now - task[t].since <= QueryTime

\* An answer not yet stored holds every row committed before its query started.
AnswerCovers(t, b, r) ==
    /\ task[t].pc = "spendReply" /\ IsFirst(b, task[t].todo)
    /\ r \in task[t].rows[b].scope /\ Recorded(r, b, Period(b, task[t].since))
    /\ ledger[r].committed_at < task[t].since
    => task[t].counted[r] >= 1

CoverInv ==
    /\ \A rep \in Replicas, b \in Budgets, p \in Periods, r \in Requests :
          Covers(spend[rep][b][p], b, p, r)
    /\ \A t \in Tasks : InTime(t) /\ \A b \in Budgets, r \in Requests : AnswerCovers(t, b, r)

\* Counting a row takes no other away and leaves the age of the figure.
LEMMA AddingCovers ==
    ASSUME TypeOK, NEW t \in Tasks, NEW w \in Coroutines, NEW cache \in Caches, Runnable(t, w),
           NEW b \in Budgets, NEW p \in Periods, NEW r \in Requests, Covers(cache[b][p], b, p, r)
    PROVE  Covers(AfterAdding(t, w, cache)[b][p], b, p, r)
<1> DEFINE after == AfterAdding(t, w, cache)
<1>1. CASE Adds(w, cache, b, p)
  <2>1. cache[b][p] \in Entries /\ cache[b][p] # None /\ t \in Requests
    BY <1>1 DEF Adds, Caches, Runnable
  <2>2. after[b][p] = [cache[b][p] EXCEPT !.counted[t] = @ + 1]
    BY <1>1 DEF AfterAdding
  <2>3. /\ after[b][p].fetched_at = cache[b][p].fetched_at
        /\ after[b][p].scope = cache[b][p].scope
        /\ after[b][p].counted[r] = IF r = t THEN cache[b][p].counted[r] + 1
                                             ELSE cache[b][p].counted[r]
    BY <2>1, <2>2 DEF Entries
  <2>4. cache[b][p].counted[r] \in Nat
    BY <2>1 DEF Entries
  <2> QED
    BY <2>1, <2>3, <2>4 DEF Covers
<1>2. CASE ~Adds(w, cache, b, p)
  BY <1>2 DEF AfterAdding
<1> QED
  BY <1>1, <1>2

\* What a loop leaves its own coroutine with.
LEMMA RunLoopInTime ==
    ASSUME TypeOK, NEW t \in Tasks, NEW w \in Coroutines, NEW cache \in Caches,
           Runnable(t, w), RunLoop(t, w, cache), UNCHANGED now
    PROVE  task'[t].pc # "spendReply" /\ InTime(t)'
<1> DEFINE usages == w.usages \cup {Usage(w, c, Period(c, now),
                                        AfterAdding(t, w, cache)[c][Period(c, now)].counted) :
                                     c \in Hits(w, cache)}
           wait == [w EXCEPT !.pc = "spendQuery", !.todo = w.todo \ Hits(w, cache),
                             !.usages = usages, !.since = now]
<1>1. usages \in SUBSET Usages
  BY RunLoopUsages
<1>2. task'[t] = IF w.todo = Hits(w, cache) THEN AfterLoop(w, usages) ELSE wait
  BY DEF RunLoop, TypeOK
<1> HIDE DEF usages
<1>3. wait.pc = "spendQuery" /\ wait.since = now
  BY DEF Coroutines
<1>4. AfterLoop(w, usages).pc \in {"upstream", "write", "done"}
  BY <1>1, AfterLoopType DEF Runnable
<1>5. now \in Nat /\ QueryTime \in Nat
  BY TrackerAssumption DEF TypeOK, Times
<1> HIDE DEF wait
<1>6. CASE task'[t] = wait
  BY <1>3, <1>5, <1>6 DEF InTime
<1>7. CASE task'[t] = AfterLoop(w, usages)
  BY <1>4, <1>7 DEF InTime, InDatabase
<1> QED
  BY <1>2, <1>6, <1>7

LEMMA RunLoopCovers ==
    ASSUME TypeInv, CoverInv, NEW t \in Tasks, NEW w \in Coroutines, NEW cache \in Caches,
           Runnable(t, w), RunLoop(t, w, cache), UNCHANGED <<now, ledger>>,
           \A b \in Budgets, p \in Periods :
              \/ cache[b][p] = spend[w.rep][b][p]
              \/ \A r \in Requests : Covers(cache[b][p], b, p, r)
    PROVE  CoverInv'
<1> USE DEF TypeInv
<1>1. \A u \in Tasks \ {t} : task'[u] = task[u]
  BY DEF RunLoop, TypeOK
<1>2. ASSUME NEW rep \in Replicas, NEW b \in Budgets, NEW p \in Periods, NEW r \in Requests
      PROVE  Covers(spend[rep][b][p], b, p, r)'
  <2>1. CASE rep = w.rep
    <3>1. Covers(cache[b][p], b, p, r)
      BY DEF CoverInv, Runnable
    <3>2. Covers(AfterAdding(t, w, cache)[b][p], b, p, r)
      BY <3>1, AddingCovers
    <3>3. spend'[rep][b][p] = AfterAdding(t, w, cache)[b][p]
      BY <2>1 DEF RunLoop, TypeOK
    <3> QED
      BY <3>2, <3>3 DEF Covers, Recorded
  <2>2. CASE rep # w.rep
    <3>1. spend'[rep] = spend[rep]
      BY <2>2 DEF RunLoop, TypeOK
    <3> QED
      BY <3>1 DEF CoverInv, Covers, Recorded
  <2> QED
    BY <2>1, <2>2
<1>3. ASSUME NEW u \in Tasks
      PROVE  InTime(u)' /\ \A b \in Budgets, r \in Requests : AnswerCovers(u, b, r)'
  <2>1. CASE u # t
    BY <1>1, <2>1 DEF CoverInv, InTime, AnswerCovers, Recorded
  <2>2. CASE u = t
    BY <2>2, RunLoopInTime DEF AnswerCovers
  <2> QED
    BY <2>1, <2>2
<1> QED
  BY <1>2, <1>3 DEF CoverInv

\* Steps that drop figures or move on without storing any.
LEMMA CoverFrame ==
    ASSUME CoverInv, UNCHANGED <<now, ledger>>,
           \A rep \in Replicas, b \in Budgets, p \in Periods :
              spend'[rep][b][p] \in {spend[rep][b][p], None},
           \A t \in Tasks :
              \/ task'[t] = task[t]
              \/ InTime(t)' /\ task'[t].pc # "spendReply"
              \/ InTime(t)' /\ \A b \in Budgets, r \in Requests : AnswerCovers(t, b, r)'
    PROVE  CoverInv'
<1>1. ASSUME NEW rep \in Replicas, NEW b \in Budgets, NEW p \in Periods, NEW r \in Requests
      PROVE  Covers(spend[rep][b][p], b, p, r)'
  <2>1. Covers(spend[rep][b][p], b, p, r)
    BY DEF CoverInv
  <2> QED
    BY <2>1 DEF Covers, Recorded
<1>2. ASSUME NEW t \in Tasks
      PROVE  InTime(t)' /\ \A b \in Budgets, r \in Requests : AnswerCovers(t, b, r)'
  <2>1. CASE task'[t] = task[t]
    BY <2>1 DEF CoverInv, InTime, AnswerCovers, Recorded
  <2>2. CASE InTime(t)' /\ task'[t].pc # "spendReply"
    BY <2>2 DEF AnswerCovers
  <2> QED
    BY <2>1, <2>2
<1> QED
  BY <1>1, <1>2 DEF CoverInv

LEMMA ConsultCovers ==
    ASSUME TypeInv, CoverInv, NEW t \in Requests, NEW w \in Coroutines,
           w.rep \in Replicas, w.mode \in {"admit", "count"}, w.todo = {},
           Consult(t, w), UNCHANGED <<now, ledger>>
    PROVE  CoverInv'
<1>0. t \in Tasks
  BY DEF Tasks
<1>1. CASE list[w.rep] # None /\ ~Expired(list[w.rep].at)
  <2> DEFINE rows == list[w.rep].rows
             v == [w EXCEPT !.rows = rows, !.todo = Visits(w, t, rows)]
  <2>1. rows \in BudgetTables
    BY <1>1 DEF TypeInv, TypeOK
  <2>2. v \in Coroutines /\ Runnable(t, v) /\ v.rep = w.rep
    BY <2>1, VisitsType DEF Coroutines, Runnable
  <2>3. RunLoop(t, v, spend[w.rep]) /\ spend[w.rep] \in Caches
    BY <1>1 DEF Consult, TypeInv, TypeOK
  <2> HIDE DEF v
  <2> QED
    BY <1>0, <2>2, <2>3, RunLoopCovers
<1>2. CASE ~(list[w.rep] # None /\ ~Expired(list[w.rep].at))
  <2>1. /\ task' = [task EXCEPT ![t] = [w EXCEPT !.pc = "listQuery", !.since = now]]
        /\ spend' = spend
    BY <1>2 DEF Consult
  <2>2. /\ task'[t].pc = "listQuery" /\ task'[t].since = now
        /\ \A u \in Tasks \ {t} : task'[u] = task[u]
    BY <1>0, <2>1 DEF Coroutines, TypeInv, TypeOK
  <2>3. InTime(t)'
    BY <2>2, TrackerAssumption DEF InTime, TypeInv, TypeOK, Times
  <2>4. \A u \in Tasks : task'[u] = task[u] \/ (InTime(u)' /\ task'[u].pc # "spendReply")
    BY <2>2, <2>3
  <2> QED
    BY <2>1, <2>4, CoverFrame
<1> QED
  BY <1>1, <1>2

LEMMA CoverInit == Init => CoverInv
BY DEF Init, Idle, CoverInv, Covers, InTime, AnswerCovers, InDatabase

LEMMA CoverStep == TypeInv /\ CoverInv /\ [Next]_vars => CoverInv'
<1> SUFFICES ASSUME TypeInv, CoverInv, [Next]_vars PROVE CoverInv'
  OBVIOUS
<1>0. /\ DOMAIN task = Tasks /\ Requests \subseteq Tasks /\ Admins \subseteq Tasks
      /\ Requests \cap Admins = {} /\ now \in Nat /\ QueryTime \in Nat /\ now \in 0 .. MaxTime
  BY TrackerAssumption DEF TypeInv, TypeOK, Tasks, Times
<1>b. \A t \in Tasks : task[t] \in Coroutines /\ LocalsOK(t, task[t])
  BY DEF TypeInv, TypeOK, LocalsInv
\* Steps of one task that store no figure and leave no answer.
<1>a. ASSUME NEW t \in Tasks, \A u \in Tasks \ {t} : task'[u] = task[u],
             UNCHANGED <<now, spend, ledger>>, task'[t].pc # "spendReply",
             \/ task'[t].pc \notin InDatabase
             \/ task'[t].since = now
             \/ task'[t].since = task[t].since /\ task[t].pc \in InDatabase
      PROVE  CoverInv'
  <2>1. InTime(t)'
    BY <1>0, <1>a DEF CoverInv, InTime
  <2>2. \A u \in Tasks : task'[u] = task[u] \/ (InTime(u)' /\ task'[u].pc # "spendReply")
    BY <1>a, <2>1
  <2> QED
    BY <1>a, <2>2, CoverFrame
<1>1. ASSUME NEW r \in Requests, NEW rep \in Balance[r], Start(r, rep) PROVE CoverInv'
  <2> DEFINE w == [Idle EXCEPT !.mode = "admit", !.rep = rep, !.created_at = now]
  <2>1. rep \in Replicas
    BY <1>0, <1>1, TrackerAssumption
  <2>2. w \in Coroutines /\ w.rep \in Replicas /\ w.mode = "admit" /\ w.todo = {}
    BY <1>0, <2>1, IdleType DEF Coroutines, Idle
  <2>3. Consult(r, w) /\ UNCHANGED <<now, ledger>>
    BY <1>1 DEF Start
  <2> HIDE DEF w
  <2> QED
    BY <2>2, <2>3, ConsultCovers
<1>2. ASSUME NEW r \in Requests, Finish(r) \/ WriteFails(r) PROVE CoverInv'
  <2>1. /\ \A u \in Tasks \ {r} : task'[u] = task[u]
        /\ task'[r].pc \in {"write", "done"}
    BY <1>0, <1>2, <1>b DEF Finish, WriteFails, Coroutines
  <2> QED
    BY <1>0, <1>2, <1>a, <2>1 DEF Finish, WriteFails, InDatabase
<1>3. ASSUME NEW r \in Requests, WriteRow(r) PROVE CoverInv'
  <2>1. /\ \A u \in Tasks \ {r} : task'[u] = task[u]
        /\ task'[r].pc = "written" /\ task'[r].since = now
    BY <1>0, <1>3, <1>b DEF WriteRow, Coroutines
  <2>2. /\ \A q \in Requests \ {r} : ledger'[q] = ledger[q]
        /\ ledger'[r].committed_at = now /\ UNCHANGED <<now, spend>>
    BY <1>3 DEF WriteRow, TypeInv, TypeOK
  <2>3. ASSUME NEW rep \in Replicas, NEW b \in Budgets, NEW p \in Periods, NEW q \in Requests
        PROVE  Covers(spend[rep][b][p], b, p, q)'
    <3>1. Covers(spend[rep][b][p], b, p, q)
      BY DEF CoverInv
    <3>2. spend[rep][b][p] # None => spend[rep][b][p].fetched_at \in Nat
      BY DEF TypeInv, TypeOK, Caches, Entries, Times
    <3>3. CASE q = r
      BY <1>0, <2>2, <3>1, <3>2, <3>3 DEF Covers
    <3>4. CASE q # r
      BY <2>2, <3>1, <3>4 DEF Covers, Recorded
    <3> QED
      BY <3>3, <3>4
  <2>4. ASSUME NEW u \in Tasks
        PROVE  InTime(u)'
    BY <1>0, <2>1, <2>2 DEF CoverInv, InTime
  <2>5. ASSUME NEW u \in Tasks, NEW b \in Budgets, NEW q \in Requests
        PROVE  AnswerCovers(u, b, q)'
    <3>1. CASE u = r
      BY <2>1, <3>1 DEF AnswerCovers
    <3>2. CASE u # r /\ q # r
      BY <2>1, <2>2, <3>2 DEF CoverInv, AnswerCovers, Recorded
    <3>3. CASE u # r /\ q = r
      <4>1. task[u].pc = "spendReply" => task[u].since <= now
        BY DEF CoverInv, InTime, InDatabase
      <4>2. task[u].since \in Nat
        BY <1>b DEF Coroutines
      <4> QED
        BY <1>0, <2>1, <2>2, <3>3, <4>1, <4>2 DEF AnswerCovers
    <3> QED
      BY <3>1, <3>2, <3>3
  <2> QED
    BY <2>3, <2>4, <2>5 DEF CoverInv
<1>4. ASSUME NEW r \in Requests, Count(r) PROVE CoverInv'
  <2> DEFINE w == [task[r] EXCEPT !.mode = "count"]
  <2>1. w \in Coroutines /\ w.rep \in Replicas /\ w.mode = "count" /\ w.todo = {}
    <3>1. task[r] \in Coroutines /\ task[r].rep \in Replicas /\ task[r].todo = {}
      BY <1>0, <1>4, <1>b DEF Count, LocalsOK
    <3> QED
      BY <3>1 DEF Coroutines
  <2>2. Consult(r, w) /\ UNCHANGED <<now, ledger>>
    BY <1>4 DEF Count
  <2> HIDE DEF w
  <2> QED
    BY <2>1, <2>2, ConsultCovers
<1>5. ASSUME NEW a \in Admins, NEW rep \in Balance[a], ReadBudgets(a, rep) PROVE CoverInv'
  <2>1. PICK rows, todo :
           task' = [task EXCEPT ![a] =
              [Idle EXCEPT !.rep = rep, !.pc = "read", !.rows = rows, !.since = now,
                           !.todo = todo]]
    BY <1>5, Zenon DEF ReadBudgets
  <2>2. /\ \A u \in Tasks \ {a} : task'[u] = task[u]
        /\ task'[a].pc = "read" /\ task'[a].since = now
    BY <1>0, <2>1 DEF Idle
  <2> QED
    BY <1>0, <1>5, <1>a, <2>2 DEF ReadBudgets
<1>6. ASSUME NEW a \in Admins,
             \/ \E rep \in Balance[a] : CreateBudget(a, rep)
             \/ UpdateBudget(a) \/ DeleteBudget(a)
      PROVE  CoverInv'
  <2>1. \E rep, b, row : Save(a, rep, b, row)
    <3>1. CASE \E rep \in Balance[a] : CreateBudget(a, rep)
      BY <3>1, Zenon DEF CreateBudget
    <3>2. CASE UpdateBudget(a) \/ DeleteBudget(a)
      BY <3>2, Zenon DEF UpdateBudget, DeleteBudget
    <3> QED
      BY <1>6, <3>1, <3>2
  <2>2. /\ \A u \in Tasks \ {a} : task'[u] = task[u]
        /\ task'[a].pc = "saved" /\ task'[a].since = now
        /\ UNCHANGED <<now, spend, ledger>>
    BY <1>0, <2>1 DEF Save, Idle
  <2> QED
    BY <1>0, <1>a, <2>2
<1>7. ASSUME NEW a \in Admins, Refuse(a) PROVE CoverInv'
  <2>1. /\ \A u \in Tasks \ {a} : task'[u] = task[u]
        /\ task'[a].pc = "done"
    BY <1>0, <1>7, <1>b, LeaveType DEF Refuse
  <2> QED
    BY <1>0, <1>7, <1>a, <2>1 DEF Refuse, InDatabase
<1>8. ASSUME NEW a \in Admins, Report(a) \/ Answer(a) PROVE CoverInv'
  <2> DEFINE w == [task[a] EXCEPT !.mode = "report"]
  <2>1. w \in Coroutines /\ Runnable(a, w) /\ w.rep = task[a].rep
    BY <1>0, <1>8, <1>b DEF Report, Answer, Coroutines, LocalsOK, Runnable
  <2>2. RunLoop(a, w, spend[w.rep]) /\ spend[w.rep] \in Caches /\ UNCHANGED <<now, ledger>>
    BY <1>8, <2>1 DEF Report, Answer, Runnable, TypeInv, TypeOK
  <2>3. a \in Tasks
    BY <1>0
  <2> HIDE DEF w
  <2> QED
    BY <2>1, <2>2, <2>3, RunLoopCovers
<1>9. ASSUME NEW a \in Admins, Invalidate(a) PROVE CoverInv'
  <2>1. /\ \A u \in Tasks \ {a} : task'[u] = task[u]
        /\ task'[a].pc = "audit" /\ task'[a].since = now
    BY <1>0, <1>9, <1>b DEF Invalidate, Coroutines
  <2>2. \A rep \in Replicas, b \in Budgets, p \in Periods :
           spend'[rep][b][p] \in {spend[rep][b][p], None}
    BY <1>9 DEF Invalidate, TypeInv, TypeOK
  <2>3. InTime(a)'
    BY <1>0, <1>9, <2>1 DEF InTime, Invalidate
  <2>4. \A u \in Tasks : task'[u] = task[u] \/ (InTime(u)' /\ task'[u].pc # "spendReply")
    BY <2>1, <2>3
  <2> QED
    BY <1>9, <2>2, <2>4, CoverFrame DEF Invalidate
<1>10. ASSUME NEW t \in Tasks, ReadList(t) PROVE CoverInv'
  <2>1. /\ \A u \in Tasks \ {t} : task'[u] = task[u]
        /\ task'[t].pc = "listReply" /\ task'[t].since = task[t].since
    BY <1>0, <1>10, <1>b DEF ReadList, Coroutines
  <2> QED
    BY <1>10, <1>a, <2>1 DEF ReadList, InDatabase
<1>11. ASSUME NEW t \in Tasks, ListReply(t) PROVE CoverInv'
  <2> DEFINE rows == task[t].rows
             w == [task[t] EXCEPT !.todo = Visits(task[t], t, rows)]
  <2>1. rows \in BudgetTables /\ task[t].pc = "listReply"
    BY <1>11, <1>b DEF ListReply, Coroutines
  <2>2. w \in Coroutines /\ w.rep = task[t].rep /\ Runnable(t, w)
    BY <1>b, <2>1, VisitsType DEF Coroutines, LocalsOK, Runnable
  <2>3. RunLoop(t, w, spend[w.rep]) /\ spend[w.rep] \in Caches /\ UNCHANGED <<now, ledger>>
    BY <1>11, <2>2 DEF ListReply, Runnable, TypeInv, TypeOK
  <2> HIDE DEF w
  <2> QED
    BY <2>2, <2>3, RunLoopCovers
<1>12. ASSUME NEW t \in Tasks, ReadSpend(t) PROVE CoverInv'
  <2>1. PICK b \in Budgets :
           /\ IsFirst(b, task[t].todo)
           /\ task' = [task EXCEPT ![t].pc = "spendReply",
                ![t].counted = TotalCost(b, Period(b, task[t].since), task[t].rows[b].scope)]
    BY <1>12 DEF ReadSpend
  <2> DEFINE c == TotalCost(b, Period(b, task[t].since), task[t].rows[b].scope)
  <2>2. \A r \in Requests :
           r \in task[t].rows[b].scope /\ Recorded(r, b, Period(b, task[t].since)) => c[r] >= 1
    BY DEF TotalCost, Recorded
  <2> HIDE DEF c
  <2>3. /\ \A u \in Tasks \ {t} : task'[u] = task[u]
        /\ task'[t].pc = "spendReply" /\ task'[t].counted = c
        /\ task'[t].rows = task[t].rows /\ task'[t].todo = task[t].todo
        /\ task'[t].since = task[t].since
    BY <1>0, <1>b, <2>1 DEF c, Coroutines
  <2>4. \A d \in Budgets : IsFirst(d, task[t].todo) => d = b
    BY <2>1, TrackerAssumption DEF IsFirst
  <2>5. UNCHANGED <<now, ledger, spend>> /\ task[t].pc = "spendQuery"
    BY <1>12 DEF ReadSpend
  <2>6. \A d \in Budgets, r \in Requests : AnswerCovers(t, d, r)'
    BY <2>2, <2>3, <2>4, <2>5 DEF AnswerCovers, Recorded, Period
  <2>7. InTime(t)'
    BY <2>3, <2>5 DEF CoverInv, InTime, InDatabase
  <2> QED
    BY <2>3, <2>5, <2>6, <2>7, CoverFrame
<1>13. ASSUME NEW t \in Tasks, SpendReply(t) PROVE CoverInv'
  <2>1. PICK b \in Budgets :
           IsFirst(b, task[t].todo) /\ RunLoop(t, Resumed(task[t], b), Refreshed(task[t], b))
    BY <1>13 DEF SpendReply
  <2>2. task[t].pc = "spendReply" /\ UNCHANGED <<now, ledger>>
    BY <1>13 DEF SpendReply
  <2> DEFINE w == Resumed(task[t], b)
             cache == Refreshed(task[t], b)
             q == Period(b, task[t].since)
             e == [counted |-> task[t].counted, fetched_at |-> now,
                   scope |-> task[t].rows[b].scope]
  <2>3. /\ w \in Coroutines /\ cache \in Caches /\ Runnable(t, w)
        /\ task[t].rep \in Replicas /\ q \in Periods
    BY <2>1, <2>2, ResumedType
  <2>4. w.rep = task[t].rep
    BY <1>b DEF Resumed, Coroutines
  <2>5. ASSUME NEW r \in Requests
        PROVE  Covers(e, b, q, r)
    <3>1. task[t].since <= now /\ now - task[t].since <= QueryTime /\ task[t].since \in Nat
      BY <1>b, <2>2 DEF CoverInv, InTime, InDatabase, Coroutines
    <3>2. AnswerCovers(t, b, r)
      BY DEF CoverInv
    <3>3. Recorded(r, b, q) => ledger[r].committed_at \in Nat
      BY DEF Recorded, TypeInv, TypeOK, LedgerRows, Times
    <3>4. Recorded(r, b, q) /\ ledger[r].committed_at < now - QueryTime
              => ledger[r].committed_at < task[t].since
      BY <1>0, <3>1, <3>3
    <3> QED
      BY <1>0, <2>1, <2>2, <3>2, <3>4 DEF AnswerCovers, Covers
  <2>6. \A d \in Budgets, p \in Periods :
           cache[d][p] = IF d = b /\ p = q THEN e ELSE spend[w.rep][d][p]
    <3>1. spend[w.rep] \in Caches
      BY <2>3, <2>4 DEF TypeInv, TypeOK
    <3> QED
      BY <2>3, <2>4, <3>1 DEF Refreshed, Caches
  <2> HIDE DEF w, cache, q, e
  <2>7. \A d \in Budgets, p \in Periods :
           \/ cache[d][p] = spend[w.rep][d][p]
           \/ \A r \in Requests : Covers(cache[d][p], d, p, r)
    BY <2>5, <2>6
  <2>8. RunLoop(t, w, cache)
    BY <2>1 DEF w, cache
  <2> QED
    BY <2>2, <2>3, <2>7, <2>8, RunLoopCovers
<1>14. ASSUME NEW t \in Tasks, QueryFails(t) PROVE CoverInv'
  <2> DEFINE w == IF task[t].mode = "admit"
                  THEN [Leave(task[t], "upstream") EXCEPT !.verdict = "unchecked"]
                  ELSE Leave(task[t], "done")
  <2>1. task' = [task EXCEPT ![t] = w] /\ UNCHANGED <<now, spend, ledger>>
    BY <1>14 DEF QueryFails
  <2>2. w.pc \in {"upstream", "done"}
    BY <1>b, LeaveType DEF Coroutines
  <2> HIDE DEF w
  <2>3. task'[t] = w /\ \A u \in Tasks \ {t} : task'[u] = task[u]
    BY <1>0, <2>1
  <2> QED
    BY <1>a, <2>1, <2>2, <2>3 DEF InDatabase
<1>15. CASE Tick
  <2>1. /\ now' = now + 1 /\ UNCHANGED <<spend, ledger, task>>
        /\ \A t \in Tasks : task[t].pc \in InDatabase => now - task[t].since < QueryTime
    BY <1>15 DEF Tick
  <2>2. ASSUME NEW t \in Tasks PROVE InTime(t)'
    <3>1. task[t].since \in Nat
      BY <1>b DEF Coroutines
    <3> QED
      BY <1>0, <2>1, <3>1 DEF CoverInv, InTime
  <2>3. ASSUME NEW rep \in Replicas, NEW b \in Budgets, NEW p \in Periods, NEW r \in Requests
        PROVE  Covers(spend[rep][b][p], b, p, r)'
    <3>1. Covers(spend[rep][b][p], b, p, r)
      BY DEF CoverInv
    <3>2. spend[rep][b][p] # None => spend[rep][b][p].fetched_at \in Nat
      BY DEF TypeInv, TypeOK, Caches, Entries, Times
    <3> QED
      BY <1>0, <2>1, <3>1, <3>2 DEF Covers, Recorded
  <2> QED
    BY <2>1, <2>2, <2>3 DEF CoverInv, AnswerCovers, Recorded
<1>16. CASE UNCHANGED vars
  BY <1>16, CoverFrame DEF vars
<1> QED
  BY <1>1, <1>2, <1>3, <1>4, <1>5, <1>6, <1>7, <1>8, <1>9, <1>10, <1>11, <1>12, <1>13, <1>14,
     <1>15, <1>16 DEF Next, Step

\* A cached figure holds every row of its filter committed more than the time of one query
\* before it was stored: what a racing refresh overwrites is never older than that.
THEOREM NoneForgotten == Spec => []NothingForgotten
<1>1. CoverInv => NothingForgotten
  BY DEF CoverInv, Covers, NothingForgotten
<1>2. Spec => [](TypeInv /\ CoverInv)
  BY TypeInit, TypeStep, CoverInit, CoverStep, PTL DEF Spec
<1> QED
  BY <1>1, <1>2, PTL
=============================================================================
