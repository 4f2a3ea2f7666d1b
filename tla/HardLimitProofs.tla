-------------------------- MODULE HardLimitProofs --------------------------
(***************************************************************************)
(* How late the tracker may be: a hard limit that the ledger has shown     *)
(* exhausted for long enough blocks, and nothing but real spend does.      *)
(* Both follow from how old the rows and the figures can be that a loop    *)
(* works with, at each of its awaits.                                      *)
(***************************************************************************)
EXTENDS BudgetTrackerProofs, Sums

-----------------------------------------------------------------------------
(* Ages *)

\* Budget b is as it was at the time `at`.
Unchanged(b, at) == budgets[b].updated_at = 0 \/ budgets[b].updated_at < at

\* A row read at the time `at` or later.
RowOK(row, b, at) == Exists(budgets, b) /\ Unchanged(b, at) => row = budgets[b]

\* How long a loop may have waited for the budgets it has been through, and for all of them.
Lag(todo) == (Cardinality(Budgets) - Cardinality(todo)) * QueryTime
LoopTime == Cardinality(Budgets) * QueryTime

\* How old the rows are when a loop starts, when a figure is stored, and behind a figure found
\* in the cache less the lag of the loop that finds it.
StartAge == QueryTime + Max({TTL, QueryTime})
FetchAge == StartAge + LoopTime
HitAge == TTL + Max({TTL, QueryTime}) + LoopTime

LEMMA MaxOfTwo ==
    ASSUME NEW m \in Nat, NEW n \in Nat
    PROVE  Max({m, n}) \in Nat /\ m <= Max({m, n}) /\ n <= Max({m, n})
<1>1. \E x \in {m, n} : \A y \in {m, n} : x >= y
  BY DEF Max
<1> QED
  BY <1>1 DEF Max

\* A finite set of numbers has a largest one.
LEMMA MaxIsLargest ==
    ASSUME NEW S \in SUBSET Nat, IsFiniteSet(S)
    PROVE  \A x \in S : Max(S) >= x
<1> DEFINE P == {s \in SUBSET S : s = {} \/ \E x \in s : \A y \in s : x >= y}
<1>1. ASSUME NEW s \in SUBSET S, s # {}, \A x \in s : s \ {x} \in P PROVE s \in P
  <2>1. PICK x \in s : TRUE
    BY <1>1
  <2>2. CASE s \ {x} = {}
    <3>1. \A y \in s : x >= y
      BY <2>2
    <3> QED
      BY <3>1
  <2>3. CASE s \ {x} # {}
    <3>1. PICK z \in s \ {x} : \A y \in s \ {x} : z >= y
      BY <1>1, <2>3
    <3>2. x \in Nat /\ z \in Nat /\ \A y \in s : y \in Nat
      OBVIOUS
    <3>3. CASE x >= z
      <4>1. \A y \in s : x >= y
        BY <3>1, <3>2, <3>3
      <4> QED
        BY <4>1
    <3>4. CASE ~(x >= z)
      <4>1. \A y \in s : z >= y
        BY <3>1, <3>2, <3>4
      <4> QED
        BY <4>1
    <3> QED
      BY <3>3, <3>4
  <2> QED
    BY <2>2, <2>3
<1>2. S \in P
  <2>1. P \in SUBSET (SUBSET S) /\ {} \in P
    OBVIOUS
  <2> HIDE DEF P
  <2> QED
    BY <1>1, <2>1, SetInduct
<1> QED
  BY <1>2 DEF Max

LEMMA TimesMonotone ==
    ASSUME NEW m \in Nat, NEW n \in Nat, NEW k \in Nat, m <= n
    PROVE  m * k \in Nat /\ m * k <= n * k
  BY SMTT(30)

LEMMA TimesSuccessor ==
    ASSUME NEW m \in Nat, NEW k \in Nat
    PROVE  (m + 1) * k = m * k + k
  BY SMTT(30)

\* The lag of a loop is at most the time of all queries, and more by a query for each budget
\* it has been through.
LEMMA Lags ==
    ASSUME NEW S \in SUBSET Budgets
    PROVE  /\ LoopTime \in Nat /\ Lag(S) \in Nat /\ Lag(S) <= LoopTime
           /\ Lag({}) = LoopTime
           /\ S # {} => QueryTime <= LoopTime /\ Lag(S) + QueryTime <= LoopTime
           /\ \A T \in SUBSET S : /\ Lag(S) <= Lag(T)
                                  /\ T # S => Lag(S) + QueryTime <= Lag(T)
<1> DEFINE n == Cardinality(Budgets)
           m == Cardinality(S)
<1>1. n \in Nat /\ m \in Nat /\ m <= n /\ QueryTime \in Nat
  BY TrackerAssumption, FS_Subset, FS_CardinalityType
<1>2. Cardinality({}) = 0
  BY FS_EmptySet
<1>3. (n - m) * QueryTime \in Nat /\ (n - m) * QueryTime <= n * QueryTime
  BY <1>1, TimesMonotone
<1>4. ASSUME S # {}
      PROVE  QueryTime <= n * QueryTime /\ (n - m) * QueryTime + QueryTime <= n * QueryTime
  <2>1. m # 0
    <3>1. IsFiniteSet(S)
      BY TrackerAssumption, FS_Subset
    <3> QED
      BY <1>4, <3>1, FS_EmptySet
  <2>2. n - m \in Nat /\ (n - m) + 1 <= n /\ (n - m) + 1 \in Nat
    BY <1>1, <2>1
  <2>3. ((n - m) + 1) * QueryTime = (n - m) * QueryTime + QueryTime
    BY <1>1, <2>2, TimesSuccessor
  <2>4. ((n - m) + 1) * QueryTime <= n * QueryTime
    BY <1>1, <2>2, TimesMonotone
  <2> HIDE DEF n, m
  <2> QED
    BY <1>1, <1>3, <2>3, <2>4
<1>5. ASSUME NEW T \in SUBSET S
      PROVE  /\ (n - m) * QueryTime <= (n - Cardinality(T)) * QueryTime
             /\ T # S => (n - m) * QueryTime + QueryTime <= (n - Cardinality(T)) * QueryTime
  <2> DEFINE k == Cardinality(T)
  <2>1. k \in Nat /\ k <= m /\ (T # S => k < m)
    <3>1. IsFiniteSet(S)
      BY TrackerAssumption, FS_Subset
    <3>2. k \in Nat /\ k <= m /\ (k = m => T = S)
      BY <3>1, FS_Subset, FS_CardinalityType
    <3> QED
      BY <1>1, <3>2
  <2> HIDE DEF n, m, k
  <2>2. n - m \in Nat /\ n - k \in Nat /\ n - m <= n - k
    BY <1>1, <2>1
  <2>3. (n - m) * QueryTime <= (n - k) * QueryTime
    BY <1>1, <2>2, TimesMonotone
  <2>4. ASSUME T # S PROVE (n - m) * QueryTime + QueryTime <= (n - k) * QueryTime
    <3>1. (n - m) + 1 \in Nat /\ (n - m) + 1 <= n - k
      BY <1>1, <2>1, <2>2, <2>4
    <3>2. ((n - m) + 1) * QueryTime <= (n - k) * QueryTime
      BY <1>1, <2>2, <3>1, TimesMonotone
    <3> QED
      BY <1>1, <2>2, <3>2, TimesSuccessor
  <2> QED
    BY <2>3, <2>4 DEF n, m, k
<1>6. n * QueryTime \in Nat
  BY <1>1, TimesMonotone
<1> QED
  BY <1>1, <1>2, <1>3, <1>4, <1>5, <1>6 DEF Lag, LoopTime

LEMMA Ages ==
    /\ TTL \in Nat /\ QueryTime \in Nat /\ LoopTime \in Nat
    /\ Max({TTL, QueryTime}) \in Nat
    /\ StartAge \in Nat /\ FetchAge \in Nat /\ HitAge \in Nat
    /\ TTL + QueryTime <= StartAge /\ QueryTime + QueryTime <= StartAge
    /\ HitAge + QueryTime = TTL + FetchAge
    /\ RowDrift = HitAge + LoopTime /\ SpendDrift = TTL + LoopTime
<1>1. TTL \in Nat /\ QueryTime \in Nat
  BY TrackerAssumption
<1>2. LoopTime \in Nat
  <2>1. {} \in SUBSET Budgets
    OBVIOUS
  <2> QED
    BY <2>1, Lags
<1>3. Max({TTL, QueryTime}) \in Nat /\ TTL <= Max({TTL, QueryTime}) /\ QueryTime <= Max({TTL, QueryTime})
  BY <1>1, MaxOfTwo
<1>4. 2 * Cardinality(Budgets) * QueryTime = LoopTime + LoopTime
  <2>1. Cardinality(Budgets) \in Nat
    BY TrackerAssumption, FS_CardinalityType
  <2> QED
    BY <1>1, <2>1 DEF LoopTime
<1> HIDE DEF LoopTime
<1>5. RowDrift = HitAge + LoopTime
  BY <1>1, <1>2, <1>3, <1>4 DEF RowDrift, HitAge
<1>6. SpendDrift = TTL + LoopTime
  BY DEF SpendDrift, LoopTime
<1> QED
  BY <1>1, <1>2, <1>3, <1>5, <1>6 DEF StartAge, FetchAge, HitAge

-----------------------------------------------------------------------------
(* What the coroutines and the caches know *)

ListOK(l) ==
    l # None => l.at <= now /\ \A b \in Budgets : RowOK(l.rows[b], b, l.at - QueryTime)

EntryOK(e, b) ==
    e # None =>
        /\ e.fetched_at <= now
        /\ Exists(budgets, b) /\ Unchanged(b, e.fetched_at - FetchAge) => e.scope = budgets[b].scope

\* A usage that a loop took between two times: each row of its period is in it at most twice,
\* and those old enough at least once.
Taken(u, from, to) ==
    /\ \A q \in Requests : u.counted[q] <= IF Recorded(q, u.budget, u.period) THEN 2 ELSE 0
    /\ \E v \in 0 .. MaxTime : from <= v /\ v <= to /\ u.period = Period(u.budget, v)
    /\ \A q \in Requests :
          /\ Exists(budgets, u.budget) /\ Unchanged(u.budget, from - HitAge)
          /\ q \in budgets[u.budget].scope /\ Recorded(q, u.budget, u.period)
          /\ ledger[q].committed_at < from - TTL
          => u.counted[q] >= 1

\* The usages a request collects are of budgets it visits, each under the limit it read.
Collected(t, w, u) ==
    u.budget \in Visits(w, t, w.rows) /\ u.limit = w.rows[u.budget].limit

\* A loop that began at the time `from` or later: the budgets of a request are read or in todo.
LoopOK(t, w, from, to) ==
    /\ \A b \in IF t \in Requests THEN Budgets ELSE w.todo : RowOK(w.rows[b], b, from - StartAge)
    /\ t \in Requests /\ w.mode = "admit" =>
          /\ w.todo \subseteq Visits(w, t, w.rows)
          /\ \A b \in Visits(w, t, w.rows) : b \in w.todo \/ \E u \in w.usages : u.budget = b
          /\ \A u \in w.usages : Collected(t, w, u) /\ Taken(u, from, to)

TaskOK(t, w) ==
    /\ w.pc \in {"listReply", "read"} => \A b \in Budgets : RowOK(w.rows[b], b, w.since)
    /\ w.pc \in {"listQuery", "listReply"} /\ w.mode = "admit" => w.usages = {}
    /\ w.pc = "saved" => \A b \in w.todo : RowOK(w.rows[b], b, w.since)
    /\ w.pc = "audit" => \A b \in w.todo : RowOK(w.rows[b], b, w.since - QueryTime)
    /\ w.pc \in {"spendQuery", "spendReply"} => LoopOK(t, w, w.since - Lag(w.todo), w.since)

LedgerOK ==
    \A q \in Requests : ledger[q] # None =>
        ledger[q].created_at <= ledger[q].committed_at /\ ledger[q].committed_at <= now

DriftInv ==
    /\ \A rep \in Replicas : ListOK(list[rep])
    /\ \A rep \in Replicas, b \in Budgets, p \in Periods : EntryOK(spend[rep][b][p], b)
    /\ \A t \in Tasks : TaskOK(t, task[t])
    /\ LedgerOK

-----------------------------------------------------------------------------
(* The decision *)

\* The spend of a usage adds up rows that are there, and each has a cost.
LEMMA TakenCosts ==
    ASSUME TypeOK, NEW u \in Usages, NEW from, NEW to, Taken(u, from, to)
    PROVE  \A q \in Requests :
              /\ u.counted[q] \in Nat
              /\ u.counted[q] > 0 => Recorded(q, u.budget, u.period)
              /\ Recorded(q, u.budget, u.period) =>
                    /\ ledger[q].cost \in Nat /\ u.counted[q] * ledger[q].cost \in Nat
                    /\ u.counted[q] * ledger[q].cost <= 2 * ledger[q].cost
                    /\ u.counted[q] >= 1 => ledger[q].cost <= u.counted[q] * ledger[q].cost
<1> SUFFICES ASSUME NEW q \in Requests
             PROVE  /\ u.counted[q] \in Nat
                    /\ u.counted[q] > 0 => Recorded(q, u.budget, u.period)
                    /\ Recorded(q, u.budget, u.period) =>
                          /\ ledger[q].cost \in Nat /\ u.counted[q] * ledger[q].cost \in Nat
                          /\ u.counted[q] * ledger[q].cost <= 2 * ledger[q].cost
                          /\ u.counted[q] >= 1 => ledger[q].cost <= u.counted[q] * ledger[q].cost
  OBVIOUS
<1>1. /\ u.counted[q] \in Nat /\ u.counted[q] <= 2
      /\ u.counted[q] > 0 => Recorded(q, u.budget, u.period)
  BY DEF Taken, Usages
<1>2. ASSUME Recorded(q, u.budget, u.period) PROVE ledger[q].cost \in Nat
  BY <1>2 DEF Recorded, TypeOK, LedgerRows
<1>3. ASSUME NEW c \in Nat, NEW k \in Nat, c <= 2
      PROVE  c * k \in Nat /\ c * k <= 2 * k /\ (c >= 1 => k <= c * k)
  <2>1. c \in {0, 1, 2}
    BY <1>3
  <2> QED
    BY <2>1
<1> QED
  BY <1>1, <1>2, <1>3

\* At the end of a loop no budget that stood long enough has been missed, and rows as old as
\* the drift are in its figure.
LEMMA ExhaustedIsFound ==
    ASSUME TypeOK, LedgerOK, NEW r \in Requests, NEW w \in Coroutines, w.todo = {},
           w.mode = "admit", LoopOK(r, w, now - LoopTime, now),
           NEW b \in Budgets, ExhaustedFor(b, r, RowDrift, SpendDrift)
    PROVE  \E u \in Blocking(w.usages) :
              PeriodEnd(u.budget, u.period) = PeriodEnd(b, Period(b, now))
<1> DEFINE from == now - LoopTime
           p == Period(b, now)
           old == {q \in budgets[b].scope : Recorded(q, b, p) /\ ledger[q].committed_at < now - SpendDrift}
<1>1. now \in Nat /\ now \in 0 .. MaxTime
  BY TrackerAssumption DEF TypeOK, Times
<1>2. Exists(budgets, b) /\ budgets[b] \in Rows
  BY DEF ExhaustedFor, Applicable, Exists, TypeOK, BudgetTables
<1>3. QueryTime <= LoopTime
  <2>1. {b} \in SUBSET Budgets /\ {b} # {}
    OBVIOUS
  <2> QED
    BY <2>1, Lags
<1>4. Unchanged(b, from - HitAge) /\ Unchanged(b, from - StartAge)
  <2>1. budgets[b].updated_at \in Nat
    BY <1>2 DEF Rows
  <2>2. StartAge <= HitAge
    BY <1>3, Ages DEF StartAge, HitAge
  <2>3. from - HitAge = now - RowDrift /\ from - HitAge <= from - StartAge
    BY <1>1, <2>2, Ages
  <2>4. budgets[b].updated_at = 0 \/ budgets[b].updated_at < now - RowDrift
    BY <1>1, <2>1, Ages DEF ExhaustedFor, UnchangedFor
  <2> HIDE DEF from
  <2>5. from \in Int
    BY <1>1, Ages DEF from
  <2> QED
    BY <1>1, <2>1, <2>3, <2>4, <2>5, Ages DEF Unchanged
<1>5. w.rows[b] = budgets[b]
  BY <1>2, <1>4 DEF LoopOK, RowOK
<1>6. b \in Visits(w, r, w.rows)
  BY <1>2, <1>5 DEF Visits, Applicable, Exists, ExhaustedFor
<1>7. PICK u \in w.usages : u.budget = b
  BY <1>6 DEF LoopOK
<1>8. u \in Usages /\ Taken(u, from, now) /\ u.limit = budgets[b].limit
  BY <1>5, <1>7 DEF LoopOK, Collected, Coroutines
<1>9. SpentBefore(b, budgets[b].scope, now - SpendDrift) >= budgets[b].limit
  BY DEF ExhaustedFor
<1>10. SpentBefore(b, budgets[b].scope, now - SpendDrift)
          = SumFunctionOnSet([q \in old |-> ledger[q].cost], old)
  BY DEF SpentBefore, SumFunction
<1>11. old \in SUBSET Requests /\ IsFiniteSet(old)
  <2>1. old \in SUBSET Requests
    BY <1>2 DEF Rows
  <2> QED
    BY <2>1, TrackerAssumption, FS_Subset
<1>12. u.period = p
  <2>1. old # {}
    <3> SUFFICES ASSUME old = {} PROVE FALSE
      OBVIOUS
    <3>1. SumFunctionOnSet([q \in old |-> ledger[q].cost], old) = 0
      <4>1. \A f : SumFunctionOnSet(f, {}) = 0
        <5> TAKE f
        <5>1. IsFiniteSet({}) /\ \A x \in {} : f[x] \in Nat
          BY FS_EmptySet
        <5> QED
          BY <5>1, SumSubsets
      <4> HIDE DEF old
      <4> QED
        BY <4>1
    <3>2. budgets[b].limit \in Nat /\ budgets[b].limit # 0
      BY <1>2 DEF Rows
    <3> HIDE DEF old
    <3> QED
      BY <1>9, <1>10, <3>1, <3>2
  <2>2. PICK q \in old : TRUE
    BY <2>1
  <2>3. q \in Requests /\ Recorded(q, b, p) /\ ledger[q].committed_at < now - SpendDrift
    BY <1>11
  <2>4. /\ ledger[q].created_at \in Nat /\ ledger[q].committed_at \in Nat
        /\ ledger[q].created_at <= ledger[q].committed_at
    BY <2>3 DEF LedgerOK, Recorded, TypeOK, LedgerRows, Times
  <2>5. PICK v \in 0 .. MaxTime : from <= v /\ v <= now /\ u.period = Period(b, v)
    BY <1>7, <1>8 DEF Taken
  <2>6. v \in Nat /\ ledger[q].created_at <= v
    BY <1>1, <2>3, <2>4, <2>5, Ages, TrackerAssumption
  <2>7. Period(b, ledger[q].created_at) <= Period(b, v) /\ Period(b, v) <= Period(b, now)
    BY <1>1, <2>4, <2>5, <2>6, DivMonotonic, TrackerAssumption DEF Period
  <2>8. Period(b, v) \in Int /\ Period(b, now) \in Int
    BY <1>1, <2>5, PeriodType DEF Periods
  <2> QED
    BY <2>3, <2>5, <2>7, <2>8 DEF Recorded
<1>13. \A q \in old : u.counted[q] >= 1
  BY <1>1, <1>2, <1>4, <1>7, <1>8, <1>11, <1>12, Ages DEF Taken
<1>14. SpentBefore(b, budgets[b].scope, now - SpendDrift) <= Spend(u.counted)
  <2> DEFINE T == {q \in Requests : u.counted[q] > 0}
             f == [q \in old |-> ledger[q].cost]
             g == [q \in T |-> u.counted[q] * ledger[q].cost]
  <2>1. \A q \in Requests : /\ u.counted[q] \in Nat
                            /\ u.counted[q] > 0 => Recorded(q, b, p)
                            /\ Recorded(q, b, p) =>
                                 /\ ledger[q].cost \in Nat /\ u.counted[q] * ledger[q].cost \in Nat
                                 /\ u.counted[q] >= 1 => ledger[q].cost <= u.counted[q] * ledger[q].cost
    BY <1>7, <1>8, <1>12, TakenCosts
  <2>2. \A q \in old : q \in Requests /\ Recorded(q, b, p)
    BY <1>11
  <2>3. old \subseteq T
    BY <1>13, <2>1, <2>2
  <2>4. IsFiniteSet(T)
    BY TrackerAssumption, FS_Subset
  <2>5. \A x \in T : g[x] \in Nat
    BY <2>1
  <2>6. \A x \in old : f[x] \in Nat /\ f[x] <= g[x]
    BY <1>13, <2>1, <2>2, <2>3
  <2>7. SumFunctionOnSet(g, T) = Spend(u.counted)
    BY DEF Spend, SumFunction
  <2> HIDE DEF T, f, g, old
  <2>8. SumFunctionOnSet(f, old) <= SumFunctionOnSet(g, T)
    BY <2>3, <2>4, <2>5, <2>6, SumMonotone
  <2> QED
    BY <1>10, <2>7, <2>8 DEF f
<1>15. Exhausted(u)
  <2>1. Spend(u.counted) \in Nat
    <3> DEFINE T == {q \in Requests : u.counted[q] > 0}
               g == [q \in T |-> u.counted[q] * ledger[q].cost]
    <3>1. IsFiniteSet(T)
      BY TrackerAssumption, FS_Subset
    <3>2. \A x \in T : g[x] \in Nat
      BY <1>8, TakenCosts
    <3>3. SumFunctionOnSet(g, T) = Spend(u.counted)
      BY DEF Spend, SumFunction
    <3> HIDE DEF T, g
    <3> QED
      BY <3>1, <3>2, <3>3, SumType
  <2>2. SpentBefore(b, budgets[b].scope, now - SpendDrift) \in Nat
    <3> DEFINE f == [q \in old |-> ledger[q].cost]
    <3>1. \A x \in old : f[x] \in Nat
      BY <1>11 DEF Recorded, TypeOK, LedgerRows
    <3> HIDE DEF f, old
    <3> QED
      BY <1>10, <1>11, <3>1, SumType DEF f
  <2>3. budgets[b].limit \in Nat
    BY <1>2 DEF Rows
  <2> QED
    BY <1>8, <1>9, <1>14, <2>1, <2>2, <2>3 DEF Exhausted
<1> QED
  BY <1>7, <1>12, <1>15 DEF Blocking

\* What exhausts a figure is, for half of the limit at least, in the ledger.
LEMMA BlockIsReal ==
    ASSUME TypeOK, NEW r \in Requests, NEW w \in Coroutines,
           w.mode = "admit", LoopOK(r, w, now - LoopTime, now), NEW u \in Blocking(w.usages),
           Exists(budgets, u.budget), UnchangedFor(u.budget, RowDrift)
    PROVE  /\ u.budget \in Applicable(budgets, r) /\ budgets[u.budget].hard
           /\ u.period \in Periods
           /\ 2 * RecordedSpend(u.budget, u.period) >= budgets[u.budget].limit
<1> DEFINE b == u.budget
           p == u.period
           from == now - LoopTime
           T == {q \in Requests : u.counted[q] > 0}
           S == {q \in Requests : Recorded(q, b, p)}
           g == [q \in T |-> u.counted[q] * ledger[q].cost]
           h == [q \in S |-> u.counted[q] * ledger[q].cost]
           f == [q \in S |-> ledger[q].cost]
<1>1. u \in Usages /\ u \in w.usages /\ Spend(u.counted) >= u.limit
  BY DEF Blocking, Exhausted, Coroutines
<1>2. b \in Budgets /\ p \in Periods /\ Collected(r, w, u) /\ Taken(u, from, now)
  BY <1>1 DEF Usages, LoopOK
<1>3. w.rows[b] = budgets[b]
  <2>1. QueryTime <= LoopTime
    <3>1. {b} \in SUBSET Budgets /\ {b} # {}
      BY <1>2
    <3> QED
      BY <3>1, Lags
  <2>2. budgets[b].updated_at \in Nat /\ now \in Nat
    BY <1>2 DEF Exists, TypeOK, BudgetTables, Rows, Times
  <2>3. StartAge <= HitAge
    BY <2>1, Ages DEF StartAge, HitAge
  <2>4. Unchanged(b, from - StartAge)
    BY <2>2, <2>3, Ages DEF UnchangedFor, Unchanged
  <2> QED
    BY <1>2, <2>4 DEF LoopOK, RowOK
<1>4. b \in Applicable(budgets, r) /\ budgets[b].hard /\ u.limit = budgets[b].limit
  BY <1>2, <1>3 DEF Collected, Visits, Applicable, Exists
<1>5. /\ \A q \in T : q \in S /\ g[q] \in Nat
      /\ \A q \in S : f[q] \in Nat /\ h[q] \in Nat /\ h[q] <= 2 * f[q]
      /\ \A q \in T : h[q] = g[q]
  BY <1>1, <1>2, TakenCosts
<1>6. IsFiniteSet(S)
  BY TrackerAssumption, FS_Subset
<1>7. SumFunctionOnSet(g, T) = Spend(u.counted) /\ SumFunctionOnSet(f, S) = RecordedSpend(b, p)
  BY DEF Spend, RecordedSpend, SumFunction
<1> HIDE DEF T, S, g, h, f
<1>8. SumFunctionOnSet(g, T) <= SumFunctionOnSet(h, S)
  <2>1. T \subseteq S /\ \A q \in T : g[q] \in Nat /\ g[q] <= h[q]
    BY <1>5
  <2> QED
    BY <1>5, <1>6, <2>1, SumMonotone
<1>9. SumFunctionOnSet(h, S) <= 2 * SumFunctionOnSet(f, S)
  BY <1>5, <1>6, SumTwice
<1>10. /\ SumFunctionOnSet(g, T) \in Nat /\ SumFunctionOnSet(h, S) \in Nat
       /\ SumFunctionOnSet(f, S) \in Nat
  <2>1. T \subseteq S /\ IsFiniteSet(T)
    BY <1>5, <1>6, FS_Subset
  <2> QED
    BY <1>5, <1>6, <2>1, SumType
<1>11. u.limit \in Nat
  BY <1>1 DEF Usages
<1> QED
  BY <1>1, <1>2, <1>4, <1>7, <1>8, <1>9, <1>10, <1>11

\* The two promises, of a step in which request r is decided.
Punctual(r) ==
    \A b \in Budgets : ExhaustedFor(b, r, RowDrift, SpendDrift) => Enforces(r, b)

Real(r) ==
    /\ task'[r].verdict = "blocked"
    /\ \A b \in Budgets : Exists(budgets, b) /\ UnchangedFor(b, RowDrift)
    => \E b \in Applicable(budgets, r), p \in Periods :
          /\ budgets[b].hard
          /\ PeriodEnd(b, p) \in task'[r].resets
          /\ 2 * RecordedSpend(b, p) >= budgets[b].limit

\* The ends of periods are finitely many, so the last of them is not before any.
LEMMA ResetsFinite ==
    ASSUME NEW usages \in SUBSET Usages
    PROVE  LET resets == {PeriodEnd(u.budget, u.period) : u \in Blocking(usages)}
           IN  resets \in SUBSET Nat /\ IsFiniteSet(resets)
<1> DEFINE resets == {PeriodEnd(u.budget, u.period) : u \in Blocking(usages)}
           D == Budgets \X Periods
           h == [d \in D |-> PeriodEnd(d[1], d[2])]
           all == {PeriodEnd(d[1], d[2]) : d \in D}
<1>1. IsFiniteSet(D)
  <2>1. 0 \in Int /\ MaxTime \in Int
    BY TrackerAssumption
  <2>2. IsFiniteSet(0 .. MaxTime)
    BY <2>1, FS_Interval
  <2> QED
    BY <2>2, TrackerAssumption, FS_Product DEF Periods
<1>2. h \in Surjection(D, all)
  BY DEF Surjection
<1>3. IsFiniteSet(all)
  <2> HIDE DEF h, all, D
  <2> QED
    BY <1>1, <1>2, FS_Surjection
<1>4. resets \subseteq all /\ resets \in SUBSET Nat
  <2> SUFFICES ASSUME NEW u \in Blocking(usages)
               PROVE  /\ PeriodEnd(u.budget, u.period) \in all
                      /\ PeriodEnd(u.budget, u.period) \in Nat
    OBVIOUS
  <2>1. u.budget \in Budgets /\ u.period \in Periods
    BY DEF Blocking, Usages
  <2>2. <<u.budget, u.period>> \in D
    BY <2>1
  <2> QED
    BY <2>1, <2>2, PeriodEndType
<1> QED
  BY <1>3, <1>4, FS_Subset

LEMMA DecisionSound ==
    ASSUME TypeOK, LedgerOK, NEW r \in Requests, NEW w \in Coroutines, w.todo = {},
           w.mode = "admit", LoopOK(r, w, now - LoopTime, now),
           NEW v, v.mode = "admit", task'[r] = AfterLoop(v, w.usages)
    PROVE  Punctual(r) /\ Real(r)
<1> DEFINE resets == {PeriodEnd(u.budget, u.period) : u \in Blocking(w.usages)}
<1>1. resets \in SUBSET Nat /\ IsFiniteSet(resets)
  BY ResetsFinite DEF Coroutines
<1>2. resets # {} => task'[r].verdict = "blocked" /\ task'[r].resets = resets
  BY DEF AfterLoop, Leave, Idle
<1>3. resets = {} => task'[r].verdict = "admitted"
  BY DEF AfterLoop, Leave, Idle
<1>4. ASSUME NEW b \in Budgets, ExhaustedFor(b, r, RowDrift, SpendDrift)
      PROVE  Enforces(r, b)
  <2>1. PeriodEnd(b, Period(b, now)) \in resets
    <3>1. PICK u \in Blocking(w.usages) : PeriodEnd(u.budget, u.period) = PeriodEnd(b, Period(b, now))
      BY <1>4, ExhaustedIsFound
    <3> QED
      BY <3>1
  <2> HIDE DEF resets
  <2>2. Max(resets) >= PeriodEnd(b, Period(b, now))
    BY <1>1, <2>1, MaxIsLargest
  <2> QED
    BY <1>2, <2>1, <2>2 DEF Enforces
<1>5. ASSUME task'[r].verdict = "blocked",
             \A b \in Budgets : Exists(budgets, b) /\ UnchangedFor(b, RowDrift)
      PROVE  \E b \in Applicable(budgets, r), p \in Periods :
                /\ budgets[b].hard
                /\ PeriodEnd(b, p) \in task'[r].resets
                /\ 2 * RecordedSpend(b, p) >= budgets[b].limit
  <2>1. PICK u \in Blocking(w.usages) : TRUE
    BY <1>3, <1>5
  <2>2. u.budget \in Budgets
    BY DEF Blocking, Coroutines, Usages
  <2>3. /\ u.budget \in Applicable(budgets, r) /\ budgets[u.budget].hard
        /\ u.period \in Periods
        /\ 2 * RecordedSpend(u.budget, u.period) >= budgets[u.budget].limit
    BY <1>5, <2>2, BlockIsReal
  <2>4. PeriodEnd(u.budget, u.period) \in task'[r].resets
    BY <1>2, <2>1
  <2> QED
    BY <2>3, <2>4
<1> QED
  BY <1>4, <1>5 DEF Punctual, Real

-----------------------------------------------------------------------------
(* Loops *)

\* What is known with a delay is known with a longer one.
LEMMA TakenLater ==
    ASSUME TypeOK, NEW u \in Usages, NEW from \in Int, NEW to \in Int, NEW from2 \in Int, NEW to2 \in Int,
           Taken(u, from, to), from2 <= from, to <= to2
    PROVE  Taken(u, from2, to2)
<1>1. Exists(budgets, u.budget) => budgets[u.budget].updated_at \in Nat
  BY DEF Usages, Exists, TypeOK, BudgetTables, Rows
<1>2. Exists(budgets, u.budget) /\ Unchanged(u.budget, from2 - HitAge) => Unchanged(u.budget, from - HitAge)
  BY <1>1, Ages DEF Unchanged
<1>3. \A q \in Requests : Recorded(q, u.budget, u.period) => ledger[q].committed_at \in Nat
  BY DEF Recorded, TypeOK, LedgerRows, Times
<1>4. \A q \in Requests :
         Recorded(q, u.budget, u.period) /\ ledger[q].committed_at < from2 - TTL
            => ledger[q].committed_at < from - TTL
  BY <1>3, Ages
<1>5. PICK v \in 0 .. MaxTime : from <= v /\ v <= to /\ u.period = Period(u.budget, v)
  BY DEF Taken
<1>6. v \in Int /\ from2 <= v /\ v <= to2
  BY <1>5, TrackerAssumption
<1> QED
  BY <1>2, <1>4, <1>5, <1>6 DEF Taken

LEMMA RowLater ==
    ASSUME TypeOK, NEW row, NEW b \in Budgets, NEW at \in Int, NEW at2 \in Int, at2 <= at,
           RowOK(row, b, at)
    PROVE  RowOK(row, b, at2)
<1>1. Exists(budgets, b) => budgets[b].updated_at \in Nat
  BY DEF Exists, TypeOK, BudgetTables, Rows
<1> QED
  BY <1>1 DEF RowOK, Unchanged

\* What a cache holds: figures of their period and filter.
CacheOK(cache) ==
    \A b \in Budgets, p \in Periods :
        /\ EntryOK(cache[b][p], b)
        /\ \A q \in Requests :
              /\ cache[b][p] # None => cache[b][p].counted[q] <= IF Recorded(q, b, p) THEN 2 ELSE 0
              /\ Covers(cache[b][p], b, p, q)

\* A fresh figure is a usage taken now, by a loop that has been through one budget at least.
LEMMA HitTaken ==
    ASSUME TypeOK, NEW cache \in Caches, CacheOK(cache), NEW b \in Budgets, Fresh(cache, b),
           NEW from \in Int, from <= now - QueryTime,
           NEW u, u.budget = b, u.period = Period(b, now), u.counted = cache[b][Period(b, now)].counted
    PROVE  Taken(u, from, now)
<1> DEFINE p == Period(b, now)
           e == cache[b][p]
<1>1. now \in Nat /\ now \in 0 .. MaxTime
  BY TrackerAssumption DEF TypeOK, Times
<1>2. p \in Periods
  BY <1>1, PeriodType
<1>3. e # None /\ now - e.fetched_at <= TTL /\ e.fetched_at \in Nat
  <2>1. e # None /\ ~(now - e.fetched_at > TTL)
    BY DEF Fresh, Expired
  <2>2. e.fetched_at \in Nat
    BY <1>2, <2>1 DEF Caches, Entries, Times
  <2> QED
    BY <1>1, <2>1, <2>2, Ages
<1>4. /\ EntryOK(e, b)
      /\ \A q \in Requests : /\ e.counted[q] <= IF Recorded(q, b, p) THEN 2 ELSE 0
                             /\ Covers(e, b, p, q)
  BY <1>2, <1>3 DEF CacheOK
<1>5. Exists(budgets, b) /\ Unchanged(b, from - HitAge) => e.scope = budgets[b].scope
  <2> SUFFICES ASSUME Exists(budgets, b), Unchanged(b, from - HitAge)
               PROVE  e.scope = budgets[b].scope
    OBVIOUS
  <2>1. budgets[b].updated_at \in Nat
    BY DEF Exists, TypeOK, BudgetTables, Rows
  <2>2. from - HitAge <= e.fetched_at - FetchAge
    BY <1>1, <1>3, Ages
  <2>3. Unchanged(b, e.fetched_at - FetchAge)
    BY <1>3, <2>1, <2>2, Ages DEF Unchanged
  <2> QED
    BY <1>3, <1>4, <2>3 DEF EntryOK
<1>6. ASSUME NEW q \in Requests, Exists(budgets, b), Unchanged(b, from - HitAge),
             q \in budgets[b].scope, Recorded(q, b, p), ledger[q].committed_at < from - TTL
      PROVE  e.counted[q] >= 1
  <2>1. ledger[q].committed_at \in Nat
    BY <1>6 DEF Recorded, TypeOK, LedgerRows, Times
  <2>2. ledger[q].committed_at < e.fetched_at - QueryTime
    BY <1>1, <1>3, <1>6, <2>1, Ages
  <2> QED
    BY <1>3, <1>4, <1>5, <1>6, <2>2 DEF Covers
<1>7. from <= now
  BY <1>1, Ages
<1> QED
  BY <1>1, <1>4, <1>6, <1>7 DEF Taken

\* Passing the fresh figures keeps what a loop knows.
LEMMA LoopPasses ==
    ASSUME TypeOK, NEW t \in Tasks, NEW w \in Coroutines, NEW cache \in Caches, Runnable(t, w),
           CacheOK(cache), LoopOK(t, w, now - Lag(w.todo), now),
           NEW v \in Coroutines, v.mode = w.mode, v.rows = w.rows, v.todo = w.todo \ Hits(w, cache),
           v.usages = w.usages \cup {Usage(w, b, Period(b, now),
                                           AfterAdding(t, w, cache)[b][Period(b, now)].counted) :
                                        b \in Hits(w, cache)}
    PROVE  LoopOK(t, v, now - Lag(v.todo), now)
<1> DEFINE from == now - Lag(w.todo)
           from2 == now - Lag(v.todo)
<1>1. now \in Nat /\ now \in 0 .. MaxTime
  BY TrackerAssumption DEF TypeOK, Times
<1>2. Hits(w, cache) \subseteq w.todo /\ w.todo \in SUBSET Budgets /\ v.todo \subseteq w.todo
  BY DEF Hits, Coroutines
<1>3. Lag(w.todo) \in Nat /\ Lag(v.todo) \in Nat /\ Lag(w.todo) <= Lag(v.todo)
  BY <1>2, Lags
<1>4. from \in Int /\ from2 \in Int /\ from2 <= from /\ from <= now
  BY <1>1, <1>3
<1>5. ASSUME NEW b \in IF t \in Requests THEN Budgets ELSE v.todo
      PROVE  RowOK(v.rows[b], b, from2 - StartAge)
  <2>1. b \in Budgets /\ RowOK(w.rows[b], b, from - StartAge)
    BY <1>2 DEF LoopOK
  <2>2. from - StartAge \in Int /\ from2 - StartAge \in Int /\ from2 - StartAge <= from - StartAge
    BY <1>4, Ages
  <2> HIDE DEF from, from2
  <2> QED
    BY <2>1, <2>2, RowLater
<1>6. ASSUME t \in Requests, w.mode = "admit"
      PROVE  /\ v.todo \subseteq Visits(v, t, v.rows)
             /\ \A b \in Visits(v, t, v.rows) : b \in v.todo \/ \E u \in v.usages : u.budget = b
             /\ \A u \in v.usages : Collected(t, v, u) /\ Taken(u, from2, now)
  <2>1. Visits(v, t, v.rows) = Visits(w, t, w.rows)
    BY DEF Visits
  <2>2. /\ w.todo \subseteq Visits(w, t, w.rows)
        /\ \A b \in Visits(w, t, w.rows) : b \in w.todo \/ \E u \in w.usages : u.budget = b
        /\ \A u \in w.usages : Collected(t, w, u) /\ Taken(u, from, now)
    BY <1>6 DEF LoopOK
  <2>3. ASSUME NEW b \in Visits(v, t, v.rows)
        PROVE  b \in v.todo \/ \E u \in v.usages : u.budget = b
    <3>1. CASE b \in Hits(w, cache)
      <4> DEFINE u == Usage(w, b, Period(b, now),
                            AfterAdding(t, w, cache)[b][Period(b, now)].counted)
      <4>1. u \in v.usages
        BY <3>1
      <4>2. u.budget = b
        BY DEF Usage
      <4> QED
        BY <4>1, <4>2
    <3>2. CASE b \notin Hits(w, cache)
      BY <2>1, <2>2, <3>2
    <3> QED
      BY <3>1, <3>2
  <2>4. ASSUME NEW u \in w.usages PROVE Collected(t, v, u) /\ Taken(u, from2, now)
    <3>1. u \in Usages
      BY DEF Coroutines
    <3>2. Collected(t, v, u)
      BY <2>1, <2>2 DEF Collected
    <3>3. Taken(u, from, now)
      BY <2>2
    <3> HIDE DEF from, from2
    <3> QED
      BY <1>1, <1>4, <3>1, <3>2, <3>3, TakenLater
  <2>5. ASSUME NEW b \in Hits(w, cache),
               NEW u, u = Usage(w, b, Period(b, now),
                                AfterAdding(t, w, cache)[b][Period(b, now)].counted)
        PROVE  Collected(t, v, u) /\ Taken(u, from2, now)
    <3>0. b \in Budgets /\ b \in w.todo /\ b \in Nat
      BY <1>2, TrackerAssumption
    <3>1. b \in Budgets /\ b \in w.todo /\ Fresh(cache, b)
      BY <3>0 DEF Hits
    <3>2. Period(b, now) \in Periods
      BY <1>1, <3>1, PeriodType
    <3>3. AfterAdding(t, w, cache)[b][Period(b, now)] = cache[b][Period(b, now)]
      BY <1>6, <3>1, <3>2 DEF AfterAdding, Adds
    <3>4. /\ u.budget = b /\ u.period = Period(b, now) /\ u.limit = w.rows[b].limit
          /\ u.counted = cache[b][Period(b, now)].counted
      BY <2>5, <3>3 DEF Usage
    <3>5. Collected(t, v, u)
      BY <2>1, <2>2, <3>1, <3>4 DEF Collected
    <3>6. Lag(w.todo) + QueryTime <= Lag(v.todo)
      <4>1. v.todo # w.todo
        BY <3>1
      <4> QED
        BY <1>2, <4>1, Lags
    <3>7. from2 <= now - QueryTime
      BY <1>1, <1>3, <3>6, Ages
    <3> HIDE DEF from2
    <3>8. Taken(u, from2, now)
      BY <1>4, <3>1, <3>4, <3>7, HitTaken
    <3> QED
      BY <3>5, <3>8
  <2> QED
    BY <2>1, <2>2, <2>3, <2>4, <2>5
<1> QED
  BY <1>5, <1>6 DEF LoopOK

\* A loop runs to its next await and knows there what it must, or comes to a decision.
LEMMA RunLoopKnows ==
    ASSUME TypeOK, LedgerOK, NEW t \in Tasks, NEW w \in Coroutines, NEW cache \in Caches,
           Runnable(t, w), CacheOK(cache), LoopOK(t, w, now - Lag(w.todo), now),
           RunLoop(t, w, cache)
    PROVE  /\ TaskOK(t, task'[t])
           /\ t \in Requests /\ w.mode = "admit" /\ task'[t].verdict # w.verdict =>
                 Punctual(t) /\ Real(t)
           /\ w.mode # "admit" => task'[t].verdict = w.verdict
<1> DEFINE usages == w.usages \cup {Usage(w, b, Period(b, now),
                                        AfterAdding(t, w, cache)[b][Period(b, now)].counted) :
                                     b \in Hits(w, cache)}
           left == w.todo \ Hits(w, cache)
           wait == [w EXCEPT !.pc = "spendQuery", !.todo = left, !.usages = usages, !.since = now]
<1>1. usages \in SUBSET Usages
  BY RunLoopUsages
<1>2. now \in 0 .. MaxTime /\ now \in Nat
  BY TrackerAssumption DEF TypeOK, Times
<1>3. wait \in Coroutines /\ wait.mode = w.mode /\ wait.rows = w.rows /\ wait.todo = left
      /\ wait.usages = usages /\ wait.pc = "spendQuery" /\ wait.since = now
      /\ wait.verdict = w.verdict
  <2> HIDE DEF usages
  <2> QED
    BY <1>1, <1>2 DEF Coroutines
<1>4. LoopOK(t, wait, now - Lag(left), now)
  <2> HIDE DEF wait
  <2>1. LoopOK(t, wait, now - Lag(wait.todo), now)
    BY <1>3, LoopPasses
  <2> QED
    BY <1>3, <2>1
<1>5. task'[t] = IF w.todo = Hits(w, cache) THEN AfterLoop(w, usages) ELSE wait
  BY DEF RunLoop, TypeOK
<1> HIDE DEF usages, wait
<1>6. CASE w.todo # Hits(w, cache)
  <2>1. task'[t] = wait
    BY <1>5, <1>6
  <2> QED
    BY <1>3, <1>4, <2>1 DEF TaskOK
<1>7. CASE w.todo = Hits(w, cache)
  <2>1. task'[t] = AfterLoop(w, usages)
    BY <1>5, <1>7
  <2>2. /\ w.mode = "admit" => task'[t].pc \in {"upstream", "write"}
        /\ w.mode # "admit" => task'[t].pc = "done"
    BY <1>1, <2>1, AfterLoopType DEF Runnable
  <2>3. TaskOK(t, task'[t])
    BY <2>2 DEF TaskOK
  <2>4. w.mode # "admit" => task'[t].verdict = w.verdict
    BY <2>1 DEF AfterLoop, Leave, Idle
  <2>5. ASSUME t \in Requests, w.mode = "admit" PROVE Punctual(t) /\ Real(t)
    <3>1. wait.todo = {}
      BY <1>3, <1>7
    <3>2. Lag({}) = LoopTime
      <4>1. {} \in SUBSET Budgets
        OBVIOUS
      <4> QED
        BY <4>1, Lags
    <3>3. LoopOK(t, wait, now - LoopTime, now)
      BY <1>3, <1>4, <3>1, <3>2
    <3>4. task'[t] = AfterLoop(w, wait.usages) /\ wait.mode = "admit"
      BY <1>3, <2>1, <2>5
    <3> QED
      BY <1>3, <2>5, <3>1, <3>3, <3>4, DecisionSound
  <2> QED
    BY <2>3, <2>4, <2>5
<1> QED
  BY <1>6, <1>7

\* Counting leaves the time and the filter of a figure.
LEMMA RunLoopEntries ==
    ASSUME TypeOK, NEW t \in Tasks, NEW w \in Coroutines, NEW cache \in Caches, Runnable(t, w),
           \A b \in Budgets, p \in Periods : EntryOK(cache[b][p], b),
           RunLoop(t, w, cache)
    PROVE  /\ \A rep \in Replicas \ {w.rep} : spend'[rep] = spend[rep]
           /\ \A b \in Budgets, p \in Periods : EntryOK(spend'[w.rep][b][p], b)
<1>1. spend' = [spend EXCEPT ![w.rep] = AfterAdding(t, w, cache)] /\ w.rep \in Replicas
  BY DEF RunLoop, Runnable
<1>2. spend'[w.rep] = AfterAdding(t, w, cache) /\ \A rep \in Replicas \ {w.rep} : spend'[rep] = spend[rep]
  BY <1>1 DEF TypeOK
<1>3. ASSUME NEW b \in Budgets, NEW p \in Periods
      PROVE  EntryOK(AfterAdding(t, w, cache)[b][p], b)
  <2>1. EntryOK(cache[b][p], b)
    OBVIOUS
  <2>2. CASE Adds(w, cache, b, p)
    <3>1. cache[b][p] \in Entries
      BY <2>2 DEF Adds, Caches
    <3>2. AfterAdding(t, w, cache)[b][p] = [cache[b][p] EXCEPT !.counted[t] = @ + 1]
      BY <2>2 DEF AfterAdding
    <3>3. /\ AfterAdding(t, w, cache)[b][p].fetched_at = cache[b][p].fetched_at
          /\ AfterAdding(t, w, cache)[b][p].scope = cache[b][p].scope
      BY <3>1, <3>2 DEF Entries
    <3> QED
      BY <2>1, <2>2, <3>3 DEF EntryOK, Adds
  <2>3. CASE ~Adds(w, cache, b, p)
    BY <2>1, <2>3 DEF AfterAdding
  <2> QED
    BY <2>2, <2>3
<1> QED
  BY <1>2, <1>3

-----------------------------------------------------------------------------
(* What other steps leave *)

\* What any step may do to the clock and the tables.
Kept ==
    /\ now <= now'
    /\ \A b \in Budgets : \/ budgets'[b] = budgets[b]
                          \/ ~Exists(budgets', b)
                          \/ budgets'[b].updated_at = now
    /\ \A q \in Requests : \/ ledger'[q] = ledger[q]
                           \/ /\ ledger[q] = None
                              /\ ledger'[q].committed_at = now /\ ledger'[q].created_at <= now

LEMMA RowKept ==
    ASSUME TypeOK, Kept, NEW row, NEW b \in Budgets, NEW at \in Int, at <= now, RowOK(row, b, at)
    PROVE  RowOK(row, b, at)'
<1>1. now \in Nat /\ now # 0
  BY DEF TypeOK, Times
<1>2. CASE budgets'[b] = budgets[b]
  BY <1>2 DEF RowOK, Unchanged, Exists
<1>3. CASE ~Exists(budgets', b)
  BY <1>3 DEF RowOK
<1>4. CASE budgets'[b].updated_at = now
  BY <1>1, <1>4 DEF RowOK, Unchanged
<1> QED
  BY <1>2, <1>3, <1>4 DEF Kept

LEMMA TakenKept ==
    ASSUME TypeOK, Kept, NEW u \in Usages, NEW from \in Int, NEW to \in Int, from <= now,
           Taken(u, from, to)
    PROVE  Taken(u, from, to)'
<1>1. now \in Nat /\ now # 0 /\ u.budget \in Budgets
  BY DEF TypeOK, Times, Usages
<1>2. \A q \in Requests : Recorded(q, u.budget, u.period) => Recorded(q, u.budget, u.period)'
  BY DEF Kept, Recorded
<1>3. \A q \in Requests : u.counted[q] <= IF Recorded(q, u.budget, u.period)' THEN 2 ELSE 0
  <2>1. \A q \in Requests : u.counted[q] \in Nat
    BY DEF Usages
  <2> QED
    BY <1>2, <2>1 DEF Taken
<1>4. ASSUME NEW q \in Requests,
             (Exists(budgets, u.budget) /\ Unchanged(u.budget, from - HitAge))',
             q \in budgets'[u.budget].scope, Recorded(q, u.budget, u.period)',
             ledger'[q].committed_at < from - TTL
      PROVE  u.counted[q] >= 1
  <2>1. budgets'[u.budget] = budgets[u.budget]
    <3>1. CASE budgets'[u.budget].updated_at = now
      BY <1>1, <1>4, <3>1, Ages DEF Unchanged
    <3> QED
      BY <1>1, <1>4, <3>1 DEF Kept
  <2>2. ledger'[q] = ledger[q]
    <3>1. CASE ledger'[q].committed_at = now
      BY <1>1, <1>4, <3>1, Ages
    <3> QED
      BY <1>4, <3>1 DEF Kept
  <2> QED
    BY <1>4, <2>1, <2>2 DEF Taken, Recorded, Unchanged, Exists
<1> QED
  BY <1>3, <1>4 DEF Taken, Period

LEMMA LoopKept ==
    ASSUME TypeOK, Kept, NEW t \in Tasks, NEW w \in Coroutines, NEW from \in Int, NEW to \in Int,
           from <= now, LoopOK(t, w, from, to)
    PROVE  LoopOK(t, w, from, to)'
<1>1. from - StartAge \in Int /\ from - StartAge <= now
  BY Ages DEF TypeOK, Times
<1>2. ASSUME NEW b \in IF t \in Requests THEN Budgets ELSE w.todo
      PROVE  RowOK(w.rows[b], b, from - StartAge)'
  <2>1. b \in Budgets /\ RowOK(w.rows[b], b, from - StartAge)
    BY DEF LoopOK, Coroutines
  <2> QED
    BY <1>1, <2>1, RowKept
<1>3. ASSUME t \in Requests, w.mode = "admit", NEW u \in w.usages
      PROVE  Taken(u, from, to)'
  <2>1. u \in Usages /\ Taken(u, from, to)
    BY <1>3 DEF LoopOK, Coroutines
  <2> QED
    BY <2>1, TakenKept
<1> QED
  BY <1>2, <1>3 DEF LoopOK, Collected, Visits, Applicable, Exists

LEMMA TaskKept ==
    ASSUME TypeOK, Kept, NEW t \in Tasks, NEW w \in Coroutines, TaskOK(t, w),
           w.pc \in InDatabase => w.since <= now
    PROVE  TaskOK(t, w)'
<1>1. w.since \in Int /\ now \in Int /\ QueryTime \in Nat
  BY Ages DEF Coroutines, TypeOK, Times
<1>2. ASSUME w.pc \in {"listReply", "read"}, NEW b \in Budgets PROVE RowOK(w.rows[b], b, w.since)'
  BY <1>1, <1>2, RowKept DEF TaskOK, InDatabase
<1>3. ASSUME w.pc = "saved", NEW b \in w.todo PROVE RowOK(w.rows[b], b, w.since)'
  <2>1. b \in Budgets
    BY DEF Coroutines
  <2> QED
    BY <1>1, <1>3, <2>1, RowKept DEF TaskOK, InDatabase
<1>4. ASSUME w.pc = "audit", NEW b \in w.todo PROVE RowOK(w.rows[b], b, w.since - QueryTime)'
  <2>1. b \in Budgets
    BY DEF Coroutines
  <2>2. w.since - QueryTime \in Int /\ w.since - QueryTime <= now
    BY <1>1, <1>4 DEF InDatabase
  <2> QED
    BY <1>1, <1>4, <2>1, <2>2, RowKept DEF TaskOK
<1>5. ASSUME w.pc \in {"spendQuery", "spendReply"}
      PROVE  LoopOK(t, w, w.since - Lag(w.todo), w.since)'
  <2>1. Lag(w.todo) \in Nat
    BY Lags DEF Coroutines
  <2>2. w.since - Lag(w.todo) \in Int /\ w.since - Lag(w.todo) <= now
    BY <1>1, <1>5, <2>1 DEF InDatabase
  <2>3. LoopOK(t, w, w.since - Lag(w.todo), w.since)
    BY <1>5 DEF TaskOK
  <2>4. \A from, to : from \in Int /\ to \in Int /\ from <= now /\ LoopOK(t, w, from, to)
                         => LoopOK(t, w, from, to)'
    BY LoopKept
  <2>5. ASSUME NEW from, from = w.since - Lag(w.todo) PROVE LoopOK(t, w, from, w.since)'
    BY <1>1, <2>2, <2>3, <2>4, <2>5
  <2> QED
    BY <2>5 DEF Lag
<1> QED
  BY <1>2, <1>3, <1>4, <1>5 DEF TaskOK

LEMMA EntryKept ==
    ASSUME TypeOK, TypeOK', Kept, NEW b \in Budgets, NEW e, e = None \/ e \in Entries, EntryOK(e, b)
    PROVE  EntryOK(e, b)'
<1>1. now \in Nat /\ now # 0 /\ now' \in Nat /\ now <= now'
  BY DEF TypeOK, Times, Kept
<1>2. CASE e = None
  BY <1>2 DEF EntryOK
<1>3. CASE e # None
  <2>1. e.fetched_at \in Nat /\ e.fetched_at <= now
    BY <1>3 DEF Entries, EntryOK, Times
  <2>2. CASE budgets'[b] = budgets[b]
    BY <1>1, <1>3, <2>1, <2>2 DEF EntryOK, Exists, Unchanged
  <2>3. CASE ~Exists(budgets', b)
    BY <1>1, <2>1, <2>3 DEF EntryOK
  <2>4. CASE budgets'[b].updated_at = now
    <3>1. ~(now < e.fetched_at - FetchAge)
      BY <1>1, <2>1, Ages
    <3> QED
      BY <1>1, <2>1, <2>4, <3>1 DEF EntryOK, Unchanged
  <2> QED
    BY <2>2, <2>3, <2>4 DEF Kept
<1> QED
  BY <1>2, <1>3

\* A step of one task: its own coroutine, a list or a figure it stores are all there is to show.
LEMMA DriftFrame ==
    ASSUME TypeInv, TypeInv', CoverInv, DriftInv, Kept,
           \A u \in Tasks : task'[u] = task[u] \/ TaskOK(u, task[u])',
           \A rep \in Replicas : list'[rep] = list[rep] \/ ListOK(list[rep])',
           \A rep \in Replicas, b \in Budgets, p \in Periods :
              spend'[rep][b][p] \in {spend[rep][b][p], None} \/ EntryOK(spend[rep][b][p], b)'
    PROVE  DriftInv'
<1>1. now \in Nat /\ now' \in Nat /\ now <= now'
  BY DEF TypeInv, TypeOK, Times, Kept
<1>2. ASSUME NEW u \in Tasks PROVE TaskOK(u, task[u])'
  <2>1. CASE task'[u] = task[u]
    <3>1. task[u] \in Coroutines /\ TaskOK(u, task[u])
      BY DEF TypeInv, TypeOK, DriftInv
    <3>2. task[u].pc \in InDatabase => task[u].since <= now
      BY DEF CoverInv, InTime
    <3>3. \A w : w \in Coroutines /\ TaskOK(u, w) /\ (w.pc \in InDatabase => w.since <= now)
                   => TaskOK(u, w)'
      BY TaskKept DEF TypeInv
    <3>4. ASSUME NEW w, w = task[u] PROVE TaskOK(u, w)'
      BY <3>1, <3>2, <3>3, <3>4
    <3>5. ASSUME NEW w, w = task'[u] PROVE TaskOK(u, w)'
      BY <2>1, <3>4, <3>5
    <3> QED
      BY <3>5
  <2> QED
    BY <2>1
<1>3. ASSUME NEW rep \in Replicas PROVE ListOK(list[rep])'
  <2>1. CASE list'[rep] = list[rep]
    <3>0. SUFFICES ASSUME list'[rep] # None PROVE ListOK(list[rep])'
      BY DEF ListOK
    <3>1. list[rep].at \in Nat /\ list[rep].at <= now
      <4>1. ListOK(list[rep]) /\ list[rep] # None
        BY <2>1, <3>0 DEF DriftInv
      <4> QED
        BY <4>1 DEF TypeInv, TypeOK, Times, ListOK
    <3>2. list[rep].at - QueryTime \in Int /\ list[rep].at - QueryTime <= now
      BY <1>1, <3>1, Ages
    <3>3. ASSUME NEW b \in Budgets PROVE RowOK(list[rep].rows[b], b, list[rep].at - QueryTime)'
      <4>1. RowOK(list[rep].rows[b], b, list[rep].at - QueryTime)
        BY <2>1, <3>0 DEF DriftInv, ListOK
      <4>2. \A row, at : at \in Int /\ at <= now /\ RowOK(row, b, at) => RowOK(row, b, at)'
        BY RowKept DEF TypeInv
      <4>3. ASSUME NEW row, NEW at, row = list[rep].rows[b], at = list[rep].at - QueryTime
            PROVE  RowOK(row, b, at)'
        BY <3>2, <4>1, <4>2, <4>3
      <4>4. ASSUME NEW row, NEW at, row = list'[rep].rows[b], at = list'[rep].at - QueryTime
            PROVE  RowOK(row, b, at)'
        BY <2>1, <4>3, <4>4
      <4> QED
        BY <4>4
    <3> QED
      BY <1>1, <2>1, <3>1, <3>3 DEF ListOK
  <2> QED
    BY <2>1
<1>4. ASSUME NEW rep \in Replicas, NEW b \in Budgets, NEW p \in Periods
      PROVE  EntryOK(spend[rep][b][p], b)'
  <2>1. CASE spend'[rep][b][p] = spend[rep][b][p]
    <3>1. /\ spend[rep][b][p] = None \/ spend[rep][b][p] \in Entries
          /\ EntryOK(spend[rep][b][p], b)
      BY DEF TypeInv, TypeOK, Caches, DriftInv
    <3>2. \A e : (e = None \/ e \in Entries) /\ EntryOK(e, b) => EntryOK(e, b)'
      BY EntryKept DEF TypeInv
    <3>3. ASSUME NEW e, e = spend[rep][b][p] PROVE EntryOK(e, b)'
      BY <3>1, <3>2, <3>3
    <3>4. ASSUME NEW e, e = spend'[rep][b][p] PROVE EntryOK(e, b)'
      BY <2>1, <3>3, <3>4
    <3> QED
      BY <3>4
  <2>2. CASE spend'[rep][b][p] = None
    BY <2>2 DEF EntryOK
  <2> QED
    BY <2>1, <2>2
<1>5. LedgerOK'
  <2> SUFFICES ASSUME NEW q \in Requests, ledger'[q] # None
               PROVE  ledger'[q].created_at <= ledger'[q].committed_at /\ ledger'[q].committed_at <= now'
    BY DEF LedgerOK
  <2>1. CASE ledger'[q] = ledger[q]
    <3>1. ledger[q].committed_at \in Nat
      BY <2>1 DEF TypeInv, TypeOK, LedgerRows, Times
    <3> QED
      BY <1>1, <2>1, <3>1 DEF DriftInv, LedgerOK
  <2>2. CASE ledger'[q].committed_at = now /\ ledger'[q].created_at <= now
    BY <1>1, <2>2
  <2> QED
    BY <2>1, <2>2 DEF Kept
<1> QED
  BY <1>2, <1>3, <1>4, <1>5 DEF DriftInv

-----------------------------------------------------------------------------
(* Loops, with what they leave alone *)

LEMMA CachesOK ==
    ASSUME TypeInv, CountInv, CoverInv, DriftInv, NEW rep \in Replicas
    PROVE  CacheOK(spend[rep])
<1> SUFFICES ASSUME NEW b \in Budgets, NEW p \in Periods, NEW q \in Requests
             PROVE  /\ spend[rep][b][p] # None =>
                          spend[rep][b][p].counted[q] <= IF Recorded(q, b, p) THEN 2 ELSE 0
                    /\ Covers(spend[rep][b][p], b, p, q)
  BY DEF CacheOK, DriftInv
<1>1. FigureOK(spend[rep][b][p], b, p, q, YetToCount(task[q], b))
  BY DEF CountInv
<1>2. spend[rep][b][p] # None => spend[rep][b][p].counted[q] \in Nat
  BY DEF TypeInv, TypeOK, Caches, Entries
<1>3. Covers(spend[rep][b][p], b, p, q)
  BY DEF CoverInv
<1> QED
  BY <1>1, <1>2, <1>3 DEF FigureOK

LEMMA LoopDrift ==
    ASSUME TypeInv, TypeInv', CoverInv, CoverInv', DriftInv, UNCHANGED <<now, budgets, ledger>>,
           NEW t \in Tasks, NEW w \in Coroutines, NEW cache \in Caches,
           Runnable(t, w), CacheOK(cache), LoopOK(t, w, now - Lag(w.todo), now),
           RunLoop(t, w, cache),
           \A rep \in Replicas : list'[rep] = list[rep] \/ ListOK(list[rep])'
    PROVE  /\ DriftInv'
           /\ t \in Requests /\ w.mode = "admit" /\ task'[t].verdict # w.verdict =>
                 Punctual(t) /\ Real(t)
           /\ w.mode # "admit" => task'[t].verdict = w.verdict
<1>1. Kept
  BY DEF Kept, TypeInv, TypeOK, Times
<1>2. /\ TaskOK(t, task'[t])
      /\ t \in Requests /\ w.mode = "admit" /\ task'[t].verdict # w.verdict =>
            Punctual(t) /\ Real(t)
      /\ w.mode # "admit" => task'[t].verdict = w.verdict
  BY RunLoopKnows DEF TypeInv, DriftInv
<1>3. TaskOK(t, task[t])'
  <2>1. task'[t] \in Coroutines
    BY DEF TypeInv, TypeOK
  <2>2. task'[t].pc \in InDatabase => task'[t].since <= now
    BY DEF CoverInv, InTime, InDatabase
  <2>3. \A v : v \in Coroutines /\ TaskOK(t, v) /\ (v.pc \in InDatabase => v.since <= now)
                 => TaskOK(t, v)'
    BY <1>1, TaskKept DEF TypeInv
  <2>4. ASSUME NEW v, v = task'[t] PROVE TaskOK(t, v)'
    BY <1>2, <2>1, <2>2, <2>3, <2>4
  <2> QED
    BY <2>4
<1>4. \A u \in Tasks : task'[u] = task[u] \/ TaskOK(u, task[u])'
  <2>1. \A u \in Tasks \ {t} : task'[u] = task[u]
    BY DEF RunLoop, TypeInv, TypeOK
  <2> QED
    BY <1>3, <2>1
<1>5. ASSUME NEW rep \in Replicas, NEW b \in Budgets, NEW p \in Periods
      PROVE  spend'[rep][b][p] \in {spend[rep][b][p], None} \/ EntryOK(spend[rep][b][p], b)'
  <2>1. /\ \A x \in Replicas \ {w.rep} : spend'[x] = spend[x]
        /\ \A c \in Budgets, d \in Periods : EntryOK(spend'[w.rep][c][d], c)
    BY RunLoopEntries DEF TypeInv, CacheOK
  <2>2. CASE rep = w.rep
    <3>1. EntryOK(spend'[rep][b][p], b)
      BY <2>1, <2>2
    <3>2. \A e : EntryOK(e, b) => EntryOK(e, b)'
      BY DEF EntryOK, Exists, Unchanged
    <3>3. ASSUME NEW e, e = spend'[rep][b][p] PROVE EntryOK(e, b)'
      BY <3>1, <3>2, <3>3
    <3> QED
      BY <3>3
  <2>3. CASE rep # w.rep
    BY <2>1, <2>3
  <2> QED
    BY <2>2, <2>3
<1>6. DriftInv'
  BY <1>1, <1>4, <1>5, DriftFrame
<1> QED
  BY <1>2, <1>6

\* A loop starts with rows of a known age, and that of a request with all it visits ahead.
LEMMA LoopStarts ==
    ASSUME TypeOK, NEW t, NEW w \in Coroutines, NEW at \in Int, now - StartAge <= at,
           \A b \in IF t \in Requests THEN Budgets ELSE w.todo : RowOK(w.rows[b], b, at),
           t \in Requests => /\ w.todo = Visits(w, t, w.rows)
                             /\ w.mode = "admit" => w.usages = {}
    PROVE  LoopOK(t, w, now - Lag(w.todo), now)
<1>1. now \in Nat /\ Lag(w.todo) \in Nat /\ w.todo \in SUBSET Budgets
  BY Lags DEF TypeOK, Times, Coroutines
<1>2. (now - Lag(w.todo)) - StartAge \in Int /\ (now - Lag(w.todo)) - StartAge <= at
  BY <1>1, Ages
<1>3. ASSUME NEW b \in IF t \in Requests THEN Budgets ELSE w.todo
      PROVE  RowOK(w.rows[b], b, (now - Lag(w.todo)) - StartAge)
  BY <1>1, <1>2, RowLater
<1> QED
  BY <1>3 DEF LoopOK

\* The list in the cache is used for TTL after a query of QueryTime.
LEMMA ConsultDrift ==
    ASSUME TypeInv, TypeInv', CountInv, CoverInv, CoverInv', DriftInv,
           UNCHANGED <<now, budgets, ledger, list>>,
           NEW t \in Requests, NEW w \in Coroutines, w.rep \in Replicas, w.mode \in {"admit", "count"},
           w.todo = {}, w.mode = "admit" => w.usages = {}, Consult(t, w)
    PROVE  /\ DriftInv'
           /\ w.mode = "admit" /\ task'[t].verdict # w.verdict => Punctual(t) /\ Real(t)
           /\ w.mode # "admit" => task'[t].verdict = w.verdict
<1>0. t \in Tasks
  BY DEF Tasks
<1>1. CASE list[w.rep] # None /\ ~Expired(list[w.rep].at)
  <2> DEFINE rows == list[w.rep].rows
             v == [w EXCEPT !.rows = rows, !.todo = Visits(w, t, rows)]
  <2>1. rows \in BudgetTables /\ list[w.rep].at \in Nat /\ now \in Nat
    BY <1>1 DEF TypeInv, TypeOK, Times
  <2>2. v \in Coroutines /\ Runnable(t, v) /\ v.rep = w.rep
    BY <2>1, VisitsType DEF Coroutines, Runnable
  <2>3. v.rows = rows /\ v.mode = w.mode /\ v.usages = w.usages /\ v.verdict = w.verdict
        /\ v.todo = Visits(w, t, rows)
    BY <2>1 DEF Coroutines
  <2>4. RunLoop(t, v, spend[w.rep]) /\ spend[w.rep] \in Caches
    BY <1>1 DEF Consult, TypeInv, TypeOK
  <2>5. \A b \in Budgets : RowOK(rows[b], b, list[w.rep].at - QueryTime)
    BY <1>1 DEF DriftInv, ListOK
  <2>6. now - StartAge <= list[w.rep].at - QueryTime /\ list[w.rep].at - QueryTime \in Int
    BY <1>1, <2>1, Ages DEF Expired
  <2>7. CacheOK(spend[w.rep])
    BY CachesOK
  <2> HIDE DEF v
  <2>8. v.todo = Visits(v, t, v.rows)
    BY <2>3 DEF Visits
  <2>9. LoopOK(t, v, now - Lag(v.todo), now)
    BY <2>1, <2>2, <2>3, <2>5, <2>6, <2>8, LoopStarts DEF TypeInv
  <2> QED
    BY <1>0, <2>2, <2>3, <2>4, <2>7, <2>9, LoopDrift
<1>2. CASE ~(list[w.rep] # None /\ ~Expired(list[w.rep].at))
  <2>1. /\ task' = [task EXCEPT ![t] = [w EXCEPT !.pc = "listQuery", !.since = now]]
        /\ spend' = spend
    BY <1>2 DEF Consult
  <2>2. /\ task'[t].pc = "listQuery" /\ task'[t].usages = w.usages /\ task'[t].mode = w.mode
        /\ task'[t].verdict = w.verdict
        /\ \A u \in Tasks \ {t} : task'[u] = task[u]
    BY <1>0, <2>1 DEF Coroutines, TypeInv, TypeOK
  <2>3. TaskOK(t, task[t])'
    BY <2>2 DEF TaskOK
  <2>4. Kept
    BY DEF Kept, TypeInv, TypeOK, Times
  <2>5. DriftInv'
    BY <2>1, <2>2, <2>3, <2>4, DriftFrame
  <2> QED
    BY <2>2, <2>5
<1> QED
  BY <1>1, <1>2

\* The answer of a query, once stored, is a figure of its period and filter.
LEMMA RefreshedOK ==
    ASSUME TypeInv, CountInv, CoverInv, DriftInv, NEW t \in Tasks, NEW b \in Budgets,
           task[t].pc = "spendReply", IsFirst(b, task[t].todo)
    PROVE  CacheOK(Refreshed(task[t], b))
<1> DEFINE w == task[t]
           k == Period(b, w.since)
           e == [counted |-> w.counted, fetched_at |-> now, scope |-> w.rows[b].scope]
<1>1. w \in Coroutines /\ w.rep \in Replicas /\ b \in w.todo /\ w.todo \in SUBSET Budgets
  BY DEF TypeInv, TypeOK, LocalsInv, LocalsOK, IsFirst, Coroutines
<1>2. /\ now \in Nat /\ w.since \in Nat /\ w.since <= now /\ now - w.since <= QueryTime
  BY <1>1 DEF TypeInv, TypeOK, Times, Coroutines, CoverInv, InTime, InDatabase
<1>3. EntryOK(e, b)
  <2> SUFFICES ASSUME Exists(budgets, b), Unchanged(b, now - FetchAge)
               PROVE  w.rows[b].scope = budgets[b].scope
    BY <1>2 DEF EntryOK
  <2>1. RowOK(w.rows[b], b, (w.since - Lag(w.todo)) - StartAge)
    BY <1>1 DEF DriftInv, TaskOK, LoopOK
  <2>2. Lag(w.todo) \in Nat /\ Lag(w.todo) + QueryTime <= LoopTime
    BY <1>1, Lags
  <2>3. now - FetchAge <= (w.since - Lag(w.todo)) - StartAge
    BY <1>2, <2>2, Ages DEF FetchAge
  <2>4. budgets[b].updated_at \in Nat
    BY DEF Exists, TypeInv, TypeOK, BudgetTables, Rows
  <2>5. Unchanged(b, (w.since - Lag(w.todo)) - StartAge)
    BY <1>2, <2>2, <2>3, <2>4, Ages DEF Unchanged
  <2> QED
    BY <2>1, <2>5 DEF RowOK
<1>4. ASSUME NEW q \in Requests
      PROVE  w.counted[q] <= (IF Recorded(q, b, k) THEN 2 ELSE 0) /\ Covers(e, b, k, q)
  <2>1. AnswerOK(t, b, q) /\ AnswerCovers(t, b, q) /\ w.counted[q] \in Nat
    BY <1>1 DEF CountInv, CoverInv, Coroutines
  <2>2. Recorded(q, b, k) => ledger[q].committed_at \in Nat
    BY DEF Recorded, TypeInv, TypeOK, LedgerRows, Times
  <2>3. Recorded(q, b, k) /\ ledger[q].committed_at < now - QueryTime
            => ledger[q].committed_at < w.since
    BY <1>2, <2>2, Ages
  <2> QED
    BY <1>2, <2>1, <2>3 DEF AnswerOK, AnswerCovers, Covers
<1>5. CacheOK(spend[w.rep])
  BY <1>1, CachesOK
<1>6. \A d \in Budgets, p \in Periods :
         Refreshed(w, b)[d][p] = IF d = b /\ p = k THEN e ELSE spend[w.rep][d][p]
  BY <1>1 DEF Refreshed, TypeInv, TypeOK, Caches
<1>7. e.counted = w.counted
  OBVIOUS
<1> HIDE DEF w, k, e
<1>8. ASSUME NEW d \in Budgets, NEW p \in Periods
      PROVE  /\ EntryOK(Refreshed(w, b)[d][p], d)
             /\ \A q \in Requests :
                   /\ Refreshed(w, b)[d][p] # None =>
                         Refreshed(w, b)[d][p].counted[q] <= IF Recorded(q, d, p) THEN 2 ELSE 0
                   /\ Covers(Refreshed(w, b)[d][p], d, p, q)
  <2>1. CASE d = b /\ p = k
    BY <1>3, <1>4, <1>6, <1>7, <2>1
  <2>2. CASE ~(d = b /\ p = k)
    BY <1>5, <1>6, <2>2 DEF CacheOK
  <2> QED
    BY <2>1, <2>2
<1> QED
  BY <1>8 DEF CacheOK, w

\* The usage the answer makes is one taken when its query began, by a loop that is one further.
LEMMA ResumedKnows ==
    ASSUME TypeInv, CountInv, CoverInv, DriftInv, NEW t \in Tasks, NEW b \in Budgets,
           task[t].pc = "spendReply", IsFirst(b, task[t].todo)
    PROVE  LET w == Resumed(task[t], b) IN LoopOK(t, w, now - Lag(w.todo), now)
<1> DEFINE w == task[t]
           v == Resumed(w, b)
           k == Period(b, w.since)
           x == Usage(w, b, k, w.counted)
           from == w.since - Lag(w.todo)
           from2 == now - Lag(v.todo)
<1>1. w \in Coroutines /\ b \in w.todo /\ w.todo \in SUBSET Budgets /\ v \in Coroutines
  BY ResumedType DEF TypeInv, TypeOK, IsFirst, Coroutines
<1>2. /\ now \in Nat /\ w.since \in Nat /\ w.since <= now /\ now - w.since <= QueryTime
      /\ w.since \in 0 .. MaxTime
  BY <1>1 DEF TypeInv, TypeOK, Times, Coroutines, CoverInv, InTime, InDatabase
<1>3. /\ v.todo = w.todo \ {b} /\ v.rows = w.rows /\ v.mode = w.mode
      /\ v.usages = w.usages \cup {x}
  BY <1>1 DEF Resumed, Coroutines
<1>4. /\ Lag(w.todo) \in Nat /\ Lag(v.todo) \in Nat /\ Lag(w.todo) + QueryTime <= Lag(v.todo)
      /\ QueryTime <= LoopTime
  <2>1. v.todo \in SUBSET w.todo /\ v.todo # w.todo /\ w.todo # {}
    BY <1>1, <1>3
  <2> QED
    BY <1>1, <2>1, Lags
<1>5. from \in Int /\ from2 \in Int /\ from2 <= from /\ from2 <= w.since /\ from2 <= now - QueryTime
  BY <1>2, <1>4, Ages
<1>6. LoopOK(t, w, from, w.since)
  BY DEF DriftInv, TaskOK
<1>7. ASSUME NEW c \in IF t \in Requests THEN Budgets ELSE w.todo
      PROVE  RowOK(w.rows[c], c, from2 - StartAge)
  <2>1. c \in Budgets /\ RowOK(w.rows[c], c, from - StartAge)
    BY <1>1, <1>6 DEF LoopOK
  <2>2. from - StartAge \in Int /\ from2 - StartAge \in Int /\ from2 - StartAge <= from - StartAge
    BY <1>5, Ages
  <2> HIDE DEF from, from2, w
  <2> QED
    BY <2>1, <2>2, RowLater DEF TypeInv
<1>8. ASSUME t \in Requests, w.mode = "admit"
      PROVE  /\ v.todo \subseteq Visits(v, t, v.rows)
             /\ \A c \in Visits(v, t, v.rows) : c \in v.todo \/ \E u \in v.usages : u.budget = c
             /\ \A u \in v.usages : Collected(t, v, u) /\ Taken(u, from2, now)
  <2>1. Visits(v, t, v.rows) = Visits(w, t, w.rows)
    BY <1>3 DEF Visits
  <2>2. /\ w.todo \subseteq Visits(w, t, w.rows)
        /\ \A c \in Visits(w, t, w.rows) : c \in w.todo \/ \E u \in w.usages : u.budget = c
        /\ \A u \in w.usages : Collected(t, w, u) /\ Taken(u, from, w.since)
    BY <1>6, <1>8 DEF LoopOK
  <2>3. ASSUME NEW u \in w.usages PROVE Collected(t, v, u) /\ Taken(u, from2, now)
    <3>1. u \in Usages
      BY <1>1 DEF Coroutines
    <3>2. Collected(t, v, u) /\ Taken(u, from, w.since)
      BY <1>3, <2>1, <2>2 DEF Collected
    <3>3. w.since \in Int /\ now \in Int
      BY <1>2
    <3> HIDE DEF from, from2, w, v
    <3> QED
      BY <1>2, <1>5, <3>1, <3>2, <3>3, TakenLater DEF TypeInv
  <2>4. x.budget = b /\ x.limit = w.rows[b].limit /\ x.period = k /\ x.counted = w.counted
    BY DEF Usage
  <2>5. Collected(t, v, x)
    BY <1>1, <1>3, <2>1, <2>2, <2>4 DEF Collected
  <2>6. Taken(x, from2, now)
    <3>1. ASSUME NEW q \in Requests
          PROVE  w.counted[q] <= IF Recorded(q, b, k) THEN 2 ELSE 0
      <4>1. AnswerOK(t, b, q) /\ w.counted[q] \in Nat
        BY <1>1 DEF CountInv, Coroutines
      <4> QED
        BY <4>1 DEF AnswerOK
    <3>2. ASSUME NEW q \in Requests, Exists(budgets, b), Unchanged(b, from2 - HitAge),
                 q \in budgets[b].scope, Recorded(q, b, k), ledger[q].committed_at < from2 - TTL
          PROVE  w.counted[q] >= 1
      <4>1. w.rows[b] = budgets[b]
        <5>1. RowOK(w.rows[b], b, from - StartAge)
          BY <1>1, <1>6 DEF LoopOK
        <5>2. budgets[b].updated_at \in Nat
          BY <3>2 DEF Exists, TypeInv, TypeOK, BudgetTables, Rows
        <5>3. StartAge <= HitAge
          BY <1>4, Ages DEF StartAge, HitAge
        <5> HIDE DEF from, from2
        <5>4. Unchanged(b, from - StartAge)
          BY <1>5, <3>2, <5>2, <5>3, Ages DEF Unchanged
        <5> QED
          BY <3>2, <5>1, <5>4 DEF RowOK
      <4>2. ledger[q].committed_at \in Nat
        BY <3>2 DEF Recorded, TypeInv, TypeOK, LedgerRows, Times
      <4>3. ledger[q].committed_at < w.since
        <5> HIDE DEF from2
        <5> QED
          BY <1>2, <1>5, <3>2, <4>2, Ages
      <4>4. AnswerCovers(t, b, q)
        BY DEF CoverInv
      <4> QED
        BY <3>2, <4>1, <4>3, <4>4 DEF AnswerCovers
    <3> HIDE DEF from2, k, x, w
    <3>3. from2 <= w.since /\ w.since <= now /\ x.period = Period(b, w.since)
      BY <1>2, <1>5, <2>4 DEF k
    <3> QED
      BY <1>2, <2>4, <3>1, <3>2, <3>3 DEF Taken
  <2>7. ASSUME NEW c \in Visits(v, t, v.rows)
        PROVE  c \in v.todo \/ \E u \in v.usages : u.budget = c
    BY <1>3, <2>1, <2>2, <2>4
  <2> HIDE DEF x, from2, w, v
  <2> QED
    BY <1>3, <2>1, <2>2, <2>3, <2>5, <2>6, <2>7
<1> HIDE DEF w, v, from2
<1> QED
  BY <1>3, <1>7, <1>8 DEF LoopOK, v, w, from2

-----------------------------------------------------------------------------
(* Every step *)

LEMMA SaveKept ==
    ASSUME TypeInv, NEW a \in Admins, NEW rep, NEW b \in Budgets, NEW row,
           row = Gone \/ row.updated_at = now, Save(a, rep, b, row)
    PROVE  Kept
<1>1. \A c \in Budgets : budgets'[c] = IF c = b THEN row ELSE budgets[c]
  BY DEF Save, TypeInv, TypeOK, BudgetTables
<1>2. UNCHANGED <<now, ledger>> /\ now \in Nat
  BY DEF Save, TypeInv, TypeOK, Times
<1> QED
  BY <1>1, <1>2 DEF Kept, Exists

LEMMA EditKept ==
    ASSUME TypeInv, NEW a \in Admins,
           \/ \E rep \in Balance[a] : CreateBudget(a, rep)
           \/ UpdateBudget(a) \/ DeleteBudget(a)
    PROVE  /\ Kept
           /\ \E rep, b, row : b \in Budgets /\ Save(a, rep, b, row)
<1>1. CASE \E rep \in Balance[a] : CreateBudget(a, rep)
  <2>1. PICK rep \in Balance[a] : CreateBudget(a, rep)
    BY <1>1
  <2>2. PICK b \in Budgets, row \in NewRows : Save(a, rep, b, [row EXCEPT !.updated_at = now])
    BY <2>1 DEF CreateBudget
  <2> DEFINE new == [row EXCEPT !.updated_at = now]
  <2>3. row \in Rows
    BY TrackerAssumption
  <2>4. new.updated_at = now
    BY <2>3 DEF Rows
  <2>5. Save(a, rep, b, new)
    BY <2>2
  <2> HIDE DEF new
  <2>6. Kept
    BY <2>4, <2>5, SaveKept
  <2> QED
    BY <2>5, <2>6, Zenon
<1>2. CASE UpdateBudget(a)
  <2>1. PICK b \in Budgets, body \in Patches :
           Save(a, task[a].rep, b, ApplyUpdate(task[a].rows[b], body))
    BY <1>2, Zenon DEF UpdateBudget
  <2>2. ApplyUpdate(task[a].rows[b], body).updated_at = now
    BY DEF ApplyUpdate
  <2> DEFINE new == ApplyUpdate(task[a].rows[b], body)
             rep == task[a].rep
  <2>3. Save(a, rep, b, new) /\ new.updated_at = now
    BY <2>1, <2>2
  <2> HIDE DEF new, rep
  <2>4. Kept
    BY <2>3, SaveKept
  <2> QED
    BY <2>3, <2>4, Zenon
<1>3. CASE DeleteBudget(a)
  <2>1. PICK b \in Budgets : Save(a, task[a].rep, b, Gone)
    BY <1>3, Zenon DEF DeleteBudget
  <2> DEFINE rep == task[a].rep
  <2>2. Save(a, rep, b, Gone)
    BY <2>1
  <2> HIDE DEF rep
  <2>3. Kept
    BY <2>2, SaveKept
  <2> QED
    BY <2>2, <2>3, Zenon
<1> QED
  BY <1>1, <1>2, <1>3

\* An invariant of every step, and what a step decides.
Knows == TypeInv /\ RequestInv /\ CountInv /\ CoverInv

Promised(r) == Decides(r) => Punctual(r) /\ Real(r)

LEMMA DriftStep ==
    ASSUME Knows, Knows', DriftInv, [Next]_vars
    PROVE  DriftInv' /\ \A r \in Requests : Promised(r)
<1>0. /\ DOMAIN task = Tasks /\ Requests \subseteq Tasks /\ Admins \subseteq Tasks
      /\ Requests \cap Admins = {} /\ now \in Nat /\ now # 0 /\ now \in 0 .. MaxTime
  BY TrackerAssumption DEF Knows, TypeInv, TypeOK, Tasks, Times
<1>b. \A t \in Tasks : task[t] \in Coroutines /\ LocalsOK(t, task[t]) /\ InTime(t)
  BY DEF Knows, TypeInv, TypeOK, LocalsInv, CoverInv
<1>r. \A r \in Requests : RequestOK(r, task[r])
  BY DEF Knows, RequestInv
<1>t. \A t \in Tasks : TaskOK(t, task[t])
  BY DEF DriftInv
<1>k. UNCHANGED <<now, budgets, ledger>> => Kept
  BY <1>0 DEF Kept
\* Steps of one task that decide nothing.
<1>a. ASSUME NEW t \in Tasks, \A u \in Tasks \ {t} : task'[u] = task[u], Kept,
             TaskOK(t, task[t])', t \in Requests => ~Decides(t) \/ (Punctual(t) /\ Real(t)),
             UNCHANGED list,
             \A rep \in Replicas, b \in Budgets, p \in Periods :
                spend'[rep][b][p] \in {spend[rep][b][p], None}
      PROVE  DriftInv' /\ \A r \in Requests : Promised(r)
  <2>1. DriftInv'
    BY <1>a, DriftFrame DEF Knows
  <2>2. \A r \in Requests : Promised(r)
    BY <1>0, <1>a DEF Promised, Decides
  <2> QED
    BY <2>1, <2>2
\* Steps that run a loop.
<1>l. ASSUME NEW t \in Tasks, \A u \in Tasks \ {t} : task'[u] = task[u], DriftInv',
             t \in Requests => Promised(t)
      PROVE  DriftInv' /\ \A r \in Requests : Promised(r)
  BY <1>0, <1>l DEF Promised, Decides
<1>1. ASSUME NEW r \in Requests, NEW rep \in Balance[r], Start(r, rep)
      PROVE  DriftInv' /\ \A q \in Requests : Promised(q)
  <2> DEFINE w == [Idle EXCEPT !.mode = "admit", !.rep = rep, !.created_at = now]
  <2>1. rep \in Replicas
    BY <1>0, <1>1, TrackerAssumption
  <2>2. /\ w \in Coroutines /\ w.rep \in Replicas /\ w.mode = "admit" /\ w.todo = {}
        /\ w.usages = {} /\ w.verdict = "none"
    BY <1>0, <2>1, IdleType DEF Coroutines, Idle
  <2>3. Consult(r, w) /\ UNCHANGED <<now, budgets, ledger, list>>
    BY <1>1 DEF Start
  <2>4. \A u \in Tasks \ {r} : task'[u] = task[u]
    BY <1>0, <1>1, <2>1, OneTaskSteps DEF Knows, TypeInv
  <2> HIDE DEF w
  <2>5. DriftInv' /\ (task'[r].verdict # "none" => Punctual(r) /\ Real(r))
    BY <2>2, <2>3, ConsultDrift DEF Knows
  <2> QED
    BY <1>0, <1>l, <2>4, <2>5 DEF Promised, Decides
<1>2. ASSUME NEW r \in Requests, Finish(r) \/ WriteFails(r)
      PROVE  DriftInv' /\ \A q \in Requests : Promised(q)
  <2>1. /\ \A u \in Tasks \ {r} : task'[u] = task[u]
        /\ task'[r].pc \in {"write", "done"} /\ task'[r].verdict = task[r].verdict
    BY <1>0, <1>2, <1>b DEF Finish, WriteFails, Coroutines
  <2>2. TaskOK(r, task[r])' /\ ~Decides(r)
    BY <2>1 DEF TaskOK, Decides
  <2> QED
    BY <1>0, <1>2, <1>a, <1>k, <2>1, <2>2 DEF Finish, WriteFails
<1>3. ASSUME NEW r \in Requests, WriteRow(r)
      PROVE  DriftInv' /\ \A q \in Requests : Promised(q)
  <2>1. /\ \A u \in Tasks \ {r} : task'[u] = task[u]
        /\ task'[r].pc = "written" /\ task'[r].verdict = task[r].verdict
    BY <1>0, <1>3, <1>b DEF WriteRow, Coroutines
  <2>2. TaskOK(r, task[r])' /\ ~Decides(r)
    BY <2>1 DEF TaskOK, Decides
  <2>3. Kept
    <3>1. ledger[r] = None /\ task[r].created_at <= now
      BY <1>3, <1>r DEF WriteRow, RequestOK, RowMatches
    <3>2. /\ \A q \in Requests \ {r} : ledger'[q] = ledger[q]
          /\ ledger'[r].committed_at = now /\ ledger'[r].created_at = task[r].created_at
      BY <1>3 DEF WriteRow, Knows, TypeInv, TypeOK
    <3> QED
      BY <1>0, <1>3, <3>1, <3>2 DEF Kept, WriteRow
  <2> QED
    BY <1>0, <1>3, <1>a, <2>1, <2>2, <2>3 DEF WriteRow
<1>4. ASSUME NEW r \in Requests, Count(r)
      PROVE  DriftInv' /\ \A q \in Requests : Promised(q)
  <2> DEFINE w == [task[r] EXCEPT !.mode = "count"]
  <2>0. /\ task[r] \in Coroutines /\ task[r].pc = "written" /\ task[r].rep \in Replicas
        /\ task[r].todo = {}
    BY <1>0, <1>4, <1>b DEF Count, LocalsOK
  <2>1. /\ w \in Coroutines /\ w.rep \in Replicas /\ w.mode = "count" /\ w.todo = {}
        /\ w.verdict = task[r].verdict
    BY <2>0 DEF Coroutines
  <2>2. Consult(r, w) /\ UNCHANGED <<now, budgets, ledger, list>>
    BY <1>4 DEF Count
  <2>3. \A u \in Tasks \ {r} : task'[u] = task[u]
    BY <1>0, <1>4, OneTaskSteps DEF Knows, TypeInv
  <2> HIDE DEF w
  <2>4. DriftInv' /\ task'[r].verdict = task[r].verdict
    BY <2>1, <2>2, ConsultDrift DEF Knows
  <2> QED
    BY <1>0, <1>l, <2>3, <2>4 DEF Promised, Decides
<1>5. ASSUME NEW a \in Admins, NEW rep \in Balance[a], ReadBudgets(a, rep)
      PROVE  DriftInv' /\ \A q \in Requests : Promised(q)
  <2>1. PICK todo :
           task' = [task EXCEPT ![a] =
              [Idle EXCEPT !.rep = rep, !.pc = "read", !.rows = budgets, !.since = now,
                           !.todo = todo]]
    BY <1>5, Zenon DEF ReadBudgets
  <2>2. /\ \A u \in Tasks \ {a} : task'[u] = task[u]
        /\ task'[a].pc = "read" /\ task'[a].since = now /\ task'[a].rows = budgets
        /\ UNCHANGED <<now, budgets, ledger, list, spend>>
    BY <1>0, <1>5, <2>1 DEF Idle, ReadBudgets
  <2>3. TaskOK(a, task[a])'
    BY <2>2 DEF TaskOK, RowOK
  <2> QED
    BY <1>0, <1>a, <1>k, <2>2, <2>3
<1>6. ASSUME NEW a \in Admins,
             \/ \E rep \in Balance[a] : CreateBudget(a, rep)
             \/ UpdateBudget(a) \/ DeleteBudget(a)
      PROVE  DriftInv' /\ \A q \in Requests : Promised(q)
  <2>1. Kept
    BY <1>6, EditKept DEF Knows
  <2>2. PICK rep, b, row : b \in Budgets /\ Save(a, rep, b, row)
    BY <1>6, EditKept DEF Knows
  <2>3. /\ \A u \in Tasks \ {a} : task'[u] = task[u]
        /\ task'[a].pc = "saved" /\ task'[a].todo = IF row = Gone THEN {} ELSE {b}
        /\ task'[a].rows = [NoRows EXCEPT ![b] = row]
        /\ UNCHANGED <<now, ledger, list, spend>>
    BY <1>0, <2>2 DEF Save, Idle
  <2>4. budgets'[b] = row /\ task'[a].rows[b] = row
    BY <2>2, <2>3 DEF Save, NoRows, Knows, TypeInv, TypeOK, BudgetTables
  <2>5. TaskOK(a, task[a])'
    BY <2>3, <2>4 DEF TaskOK, RowOK
  <2> QED
    BY <1>0, <1>a, <2>1, <2>3, <2>5
<1>7. ASSUME NEW a \in Admins, Refuse(a)
      PROVE  DriftInv' /\ \A q \in Requests : Promised(q)
  <2>1. /\ \A u \in Tasks \ {a} : task'[u] = task[u]
        /\ task'[a].pc = "done"
    BY <1>0, <1>7, <1>b, LeaveType DEF Refuse
  <2>2. TaskOK(a, task[a])'
    BY <2>1 DEF TaskOK
  <2> QED
    BY <1>0, <1>7, <1>a, <1>k, <2>1, <2>2 DEF Refuse
<1>8. ASSUME NEW a \in Admins, Report(a) \/ Answer(a)
      PROVE  DriftInv' /\ \A q \in Requests : Promised(q)
  <2> DEFINE w == [task[a] EXCEPT !.mode = "report"]
             at == task[a].since - QueryTime
  <2>0. /\ task[a] \in Coroutines /\ task[a].pc # "idle" /\ task[a].rep \in Replicas
        /\ \A b \in task[a].todo : task[a].rows[b] \in Rows
    BY <1>0, <1>8, <1>b DEF Report, Answer, LocalsOK
  <2>1. /\ w \in Coroutines /\ w.rep = task[a].rep /\ w.mode = "report"
        /\ w.todo = task[a].todo /\ w.rows = task[a].rows
    BY <2>0 DEF Coroutines
  <2>r. Runnable(a, w)
    BY <2>0, <2>1 DEF Runnable
  <2>2. /\ RunLoop(a, w, spend[w.rep]) /\ spend[w.rep] \in Caches
        /\ UNCHANGED <<now, budgets, ledger, list>>
    BY <1>8, <2>0, <2>1 DEF Report, Answer, Knows, TypeInv, TypeOK
  <2>3. a \notin Requests /\ a \in Tasks
    BY <1>0
  <2>4. task[a].since \in Nat /\ task[a].since <= now /\ now - task[a].since <= QueryTime
    BY <1>8, <1>b, <2>3 DEF Report, Answer, InTime, InDatabase, Coroutines
  <2>5. at \in Int /\ now - StartAge <= at
    BY <1>0, <2>4, Ages
  <2>6. ASSUME NEW b \in w.todo PROVE RowOK(w.rows[b], b, at)
    <3>1. b \in Budgets /\ TaskOK(a, task[a])
      BY <1>t, <2>1, <2>3 DEF Coroutines
    <3>2. CASE Answer(a)
      BY <2>1, <3>1, <3>2 DEF Answer, TaskOK
    <3>3. CASE Report(a)
      <4>1. RowOK(w.rows[b], b, task[a].since)
        BY <2>1, <3>1, <3>3 DEF Report, TaskOK
      <4> QED
        BY <2>4, <2>5, <3>1, <4>1, Ages, RowLater DEF Knows, TypeInv
    <3> QED
      BY <1>8, <3>2, <3>3
  <2>7. CacheOK(spend[w.rep])
    BY <2>0, <2>1, CachesOK DEF Knows
  <2> HIDE DEF w, at
  <2>8. LoopOK(a, w, now - Lag(w.todo), now)
    BY <2>1, <2>r, <2>3, <2>5, <2>6, LoopStarts DEF Knows, TypeInv
  <2>9. DriftInv'
    BY <2>1, <2>r, <2>2, <2>3, <2>7, <2>8, LoopDrift DEF Knows
  <2>10. \A u \in Tasks \ {a} : task'[u] = task[u]
    BY <1>8, <2>3, OneTaskSteps DEF Knows, TypeInv
  <2> QED
    BY <1>l, <2>3, <2>9, <2>10
<1>9. ASSUME NEW a \in Admins, Invalidate(a)
      PROVE  DriftInv' /\ \A q \in Requests : Promised(q)
  <2>1. /\ \A u \in Tasks \ {a} : task'[u] = task[u]
        /\ task'[a].pc = "audit" /\ task'[a].since = now
        /\ task'[a].rows = task[a].rows /\ task'[a].todo = task[a].todo
        /\ UNCHANGED <<now, budgets, ledger>> /\ task[a].pc = "saved"
    BY <1>0, <1>9, <1>b DEF Invalidate, Coroutines
  <2>2. \A rep \in Replicas, b \in Budgets, p \in Periods :
           spend'[rep][b][p] \in {spend[rep][b][p], None}
    BY <1>9 DEF Invalidate, Knows, TypeInv, TypeOK
  <2>3. \A rep \in Replicas : list'[rep] = list[rep] \/ ListOK(list[rep])'
    BY <1>9 DEF Invalidate, Knows, TypeInv, TypeOK, ListOK
  <2>4. ASSUME NEW b \in task[a].todo PROVE RowOK(task[a].rows[b], b, now - QueryTime)
    <3>1. /\ b \in Budgets /\ RowOK(task[a].rows[b], b, task[a].since)
          /\ task[a].since \in Nat /\ task[a].since <= now /\ now - task[a].since <= QueryTime
      BY <1>0, <1>b, <1>t, <2>1 DEF TaskOK, Coroutines, InTime, InDatabase
    <3>2. now - QueryTime \in Int /\ now - QueryTime <= task[a].since
      BY <1>0, <3>1, Ages
    <3> QED
      BY <3>1, <3>2, RowLater DEF Knows, TypeInv
  <2>5. TaskOK(a, task[a])'
    BY <2>1, <2>4 DEF TaskOK, RowOK, Exists, Unchanged
  <2>6. \A u \in Tasks : task'[u] = task[u] \/ TaskOK(u, task[u])'
    BY <2>1, <2>5
  <2>7. DriftInv'
    BY <1>k, <2>1, <2>2, <2>3, <2>6, DriftFrame DEF Knows
  <2> QED
    BY <1>0, <1>l, <2>1, <2>7
<1>10. ASSUME NEW t \in Tasks, ReadList(t)
       PROVE  DriftInv' /\ \A q \in Requests : Promised(q)
  <2>1. /\ \A u \in Tasks \ {t} : task'[u] = task[u]
        /\ task'[t].pc = "listReply" /\ task'[t].since = task[t].since
        /\ task'[t].rows = budgets /\ task'[t].usages = task[t].usages
        /\ task'[t].mode = task[t].mode /\ task'[t].verdict = task[t].verdict
        /\ task[t].pc = "listQuery" /\ UNCHANGED <<now, budgets, ledger, list, spend>>
    BY <1>0, <1>10, <1>b DEF ReadList, Coroutines
  <2>2. TaskOK(t, task[t])' /\ ~Decides(t)
    BY <1>t, <2>1 DEF TaskOK, RowOK, Decides
  <2> QED
    BY <1>a, <1>k, <2>1, <2>2
<1>11. ASSUME NEW t \in Tasks, ListReply(t)
       PROVE  DriftInv' /\ \A q \in Requests : Promised(q)
  <2> DEFINE rows == task[t].rows
             w == [task[t] EXCEPT !.todo = Visits(task[t], t, rows)]
             at == task[t].since
  <2>1. /\ rows \in BudgetTables /\ task[t].pc = "listReply" /\ task[t].rep \in Replicas
        /\ UNCHANGED <<now, budgets, ledger>>
    BY <1>11, <1>b DEF ListReply, Coroutines, LocalsOK
  <2>2. /\ w \in Coroutines /\ w.rep = task[t].rep /\ w.mode = task[t].mode /\ Runnable(t, w)
        /\ w.rows = rows /\ w.todo = Visits(task[t], t, rows) /\ w.usages = task[t].usages
        /\ w.verdict = task[t].verdict
    BY <1>b, <2>1, VisitsType DEF Coroutines, LocalsOK, Runnable
  <2>3. RunLoop(t, w, spend[w.rep]) /\ spend[w.rep] \in Caches
    BY <1>11, <2>2 DEF ListReply, Runnable, Knows, TypeInv, TypeOK
  <2>4. at \in Nat /\ at <= now /\ now - at <= QueryTime
    BY <1>b, <2>1 DEF InTime, InDatabase, Coroutines
  <2>5. now - StartAge <= at
    BY <1>0, <2>4, Ages
  <2>6. \A b \in Budgets : RowOK(rows[b], b, at)
    BY <1>t, <2>1 DEF TaskOK
  <2>7. \A rep \in Replicas : list'[rep] = list[rep] \/ ListOK(list[rep])'
    <3>1. \A rep \in Replicas : list'[rep] = IF rep = task[t].rep THEN [rows |-> rows, at |-> now]
                                                                  ELSE list[rep]
      BY <1>11 DEF ListReply, Knows, TypeInv, TypeOK
    <3>2. ASSUME NEW b \in Budgets PROVE RowOK(rows[b], b, now - QueryTime)
      <4>1. now - QueryTime \in Int /\ now - QueryTime <= at
        BY <1>0, <2>4, Ages
      <4> QED
        BY <2>4, <2>6, <4>1, RowLater DEF Knows, TypeInv
    <3>3. ASSUME NEW l, l = [rows |-> rows, at |-> now] PROVE ListOK(l)'
      BY <1>0, <2>1, <3>2, <3>3 DEF ListOK, RowOK, Exists, Unchanged
    <3>4. ASSUME NEW l, l = list'[task[t].rep] PROVE ListOK(l)'
      BY <2>1, <3>1, <3>3, <3>4
    <3> QED
      BY <2>1, <3>1, <3>4
  <2>8. CacheOK(spend[w.rep])
    BY <2>1, <2>2, CachesOK DEF Knows
  <2>9. t \in Requests => w.todo = Visits(w, t, w.rows) /\ (w.mode = "admit" => w.usages = {})
    BY <1>t, <2>1, <2>2 DEF Visits, TaskOK
  <2>10. w.todo \in SUBSET Budgets
    BY <2>2 DEF Coroutines
  <2> HIDE DEF w, at
  <2>11. LoopOK(t, w, now - Lag(w.todo), now)
    BY <2>2, <2>4, <2>5, <2>6, <2>9, <2>10, LoopStarts DEF Knows, TypeInv
  <2>12. /\ DriftInv'
         /\ t \in Requests /\ w.mode = "admit" /\ task'[t].verdict # w.verdict =>
               Punctual(t) /\ Real(t)
         /\ w.mode # "admit" => task'[t].verdict = w.verdict
    BY <2>1, <2>2, <2>3, <2>7, <2>8, <2>11, LoopDrift DEF Knows
  <2>13. \A u \in Tasks \ {t} : task'[u] = task[u]
    BY <1>11, OneTaskSteps DEF Step, Knows, TypeInv
  <2> QED
    BY <1>l, <2>2, <2>12, <2>13 DEF Promised, Decides
<1>12. ASSUME NEW t \in Tasks, ReadSpend(t)
       PROVE  DriftInv' /\ \A q \in Requests : Promised(q)
  <2>1. PICK c : task' = [task EXCEPT ![t].pc = "spendReply", ![t].counted = c]
    BY <1>12, Zenon DEF ReadSpend
  <2>2. /\ \A u \in Tasks \ {t} : task'[u] = task[u]
        /\ task'[t].pc = "spendReply" /\ task'[t].rows = task[t].rows
        /\ task'[t].todo = task[t].todo /\ task'[t].since = task[t].since
        /\ task'[t].usages = task[t].usages /\ task'[t].mode = task[t].mode
        /\ task'[t].verdict = task[t].verdict
        /\ task[t].pc = "spendQuery" /\ UNCHANGED <<now, budgets, ledger, list, spend>>
    BY <1>0, <1>12, <1>b, <2>1 DEF ReadSpend, Coroutines
  <2>3. LoopOK(t, task'[t], task'[t].since - Lag(task'[t].todo), task'[t].since)
    <3>1. LoopOK(t, task[t], task[t].since - Lag(task[t].todo), task[t].since)
      BY <1>t, <2>2 DEF TaskOK
    <3> QED
      BY <2>2, <3>1 DEF LoopOK, Collected, Visits
  <2>4. TaskOK(t, task'[t])
    BY <2>2, <2>3 DEF TaskOK
  <2>5. TaskOK(t, task[t])'
    <3>1. task'[t] \in Coroutines /\ (task'[t].pc \in InDatabase => task'[t].since <= now)
      BY <1>b, <2>2 DEF Knows, TypeInv, TypeOK, InTime, InDatabase
    <3>2. \A v : v \in Coroutines /\ TaskOK(t, v) /\ (v.pc \in InDatabase => v.since <= now)
                   => TaskOK(t, v)'
      BY <1>k, <2>2, TaskKept DEF Knows, TypeInv
    <3>3. ASSUME NEW v, v = task'[t] PROVE TaskOK(t, v)'
      BY <2>4, <3>1, <3>2, <3>3
    <3> QED
      BY <3>3
  <2> QED
    BY <1>a, <1>k, <2>2, <2>5 DEF Decides
<1>13. ASSUME NEW t \in Tasks, SpendReply(t)
       PROVE  DriftInv' /\ \A q \in Requests : Promised(q)
  <2>1. PICK b \in Budgets :
           IsFirst(b, task[t].todo) /\ RunLoop(t, Resumed(task[t], b), Refreshed(task[t], b))
    BY <1>13 DEF SpendReply
  <2>2. task[t].pc = "spendReply" /\ UNCHANGED <<now, budgets, ledger, list>>
    BY <1>13 DEF SpendReply
  <2> DEFINE w == Resumed(task[t], b)
             cache == Refreshed(task[t], b)
  <2>3. w \in Coroutines /\ cache \in Caches /\ Runnable(t, w)
    BY <2>1, <2>2, ResumedType DEF Knows
  <2>4. w.verdict = task[t].verdict
    BY <1>b DEF Resumed, Coroutines
  <2>5. CacheOK(cache)
    BY <2>1, <2>2, RefreshedOK DEF Knows
  <2>6. LoopOK(t, w, now - Lag(w.todo), now)
    BY <2>1, <2>2, ResumedKnows DEF Knows
  <2>7. RunLoop(t, w, cache)
    BY <2>1
  <2> HIDE DEF w, cache
  <2>8. /\ DriftInv'
        /\ t \in Requests /\ w.mode = "admit" /\ task'[t].verdict # w.verdict =>
              Punctual(t) /\ Real(t)
        /\ w.mode # "admit" => task'[t].verdict = w.verdict
    BY <2>2, <2>3, <2>5, <2>6, <2>7, LoopDrift DEF Knows
  <2>9. \A u \in Tasks \ {t} : task'[u] = task[u]
    BY <1>13, OneTaskSteps DEF Step, Knows, TypeInv
  <2> QED
    BY <1>l, <2>4, <2>8, <2>9 DEF Promised, Decides
<1>14. ASSUME NEW t \in Tasks, QueryFails(t)
       PROVE  DriftInv' /\ \A q \in Requests : Promised(q)
  <2> DEFINE w == IF task[t].mode = "admit"
                  THEN [Leave(task[t], "upstream") EXCEPT !.verdict = "unchecked"]
                  ELSE Leave(task[t], "done")
  <2>1. task' = [task EXCEPT ![t] = w] /\ UNCHANGED <<now, budgets, ledger, list, spend>>
    BY <1>14 DEF QueryFails
  <2>2. w.pc \in {"upstream", "done"} /\ w.verdict \in {task[t].verdict, "unchecked"}
    BY <1>b DEF Coroutines, Leave, Idle
  <2> HIDE DEF w
  <2>3. task'[t] = w /\ \A u \in Tasks \ {t} : task'[u] = task[u]
    BY <1>0, <2>1
  <2>4. TaskOK(t, task[t])'
    BY <2>2, <2>3 DEF TaskOK
  <2>5. ~Decides(t) \/ (Punctual(t) /\ Real(t))
    <3>1. CASE task'[t].verdict = "unchecked"
      BY <3>1 DEF Punctual, Real, Enforces
    <3>2. CASE task'[t].verdict = task[t].verdict
      BY <3>2 DEF Decides
    <3> QED
      BY <2>2, <2>3, <3>1, <3>2
  <2> QED
    BY <1>a, <1>k, <2>1, <2>3, <2>4, <2>5
<1>15. CASE Tick
  <2>1. now' = now + 1 /\ UNCHANGED <<budgets, ledger, list, spend, task>>
    BY <1>15 DEF Tick
  <2>2. Kept
    BY <1>0, <2>1 DEF Kept
  <2>3. DriftInv'
    BY <2>1, <2>2, DriftFrame DEF Knows
  <2> QED
    BY <2>1, <2>3 DEF Promised, Decides
<1>16. CASE UNCHANGED vars
  <2>1. UNCHANGED <<now, budgets, ledger, list, spend, task>>
    BY <1>16 DEF vars
  <2>2. DriftInv'
    BY <1>k, <2>1, DriftFrame DEF Knows
  <2> QED
    BY <2>1, <2>2 DEF Promised, Decides
<1> QED
  BY <1>1, <1>2, <1>3, <1>4, <1>5, <1>6, <1>7, <1>8, <1>9, <1>10, <1>11, <1>12, <1>13, <1>14,
     <1>15, <1>16 DEF Next, Step

LEMMA DriftInit == Init => DriftInv
<1> SUFFICES ASSUME Init PROVE DriftInv
  OBVIOUS
<1>1. \A t \in Tasks : task[t].pc = "idle"
  BY DEF Init, Idle
<1>2. \A t \in Tasks : TaskOK(t, task[t])
  BY <1>1 DEF TaskOK
<1>3. \A rep \in Replicas : ListOK(list[rep])
  BY DEF Init, ListOK
<1>4. \A rep \in Replicas, b \in Budgets, p \in Periods : EntryOK(spend[rep][b][p], b)
  BY DEF Init, EntryOK
<1>5. LedgerOK
  BY DEF Init, LedgerOK
<1> QED
  BY <1>2, <1>3, <1>4, <1>5 DEF DriftInv

LEMMA AlwaysKnown == Spec => [](Knows /\ DriftInv)
<1>1. Init => Knows /\ DriftInv
  BY TypeInit, CountInit, CoverInit, DriftInit DEF Knows
<1>2. Knows /\ DriftInv /\ [Next]_vars => Knows' /\ DriftInv'
  <2>1. ASSUME Knows, DriftInv, [Next]_vars PROVE Knows'
    BY <2>1, TypeStep, RequestStep, CountStep, CoverStep DEF Knows
  <2> QED
    BY <2>1, DriftStep
<1> QED
  BY <1>1, <1>2, PTL DEF Spec

LEMMA StepPromised == Knows /\ DriftInv /\ Knows' /\ [Next]_vars => \A r \in Requests : Promised(r)
BY DriftStep

\* A hard budget that the ledger has shown exhausted for longer than the drift of its rows
\* and of its figures blocks every request it applies to (BudgetTracker.blocking behind
\* _cached_budgets and _spend_since), and the Retry-After is not before its period ends.
THEOREM HardLimit == Spec => HardLimitEnforced
<1>1. Knows /\ DriftInv /\ Knows' /\ [Next]_vars =>
         [\A r \in Requests, b \in Budgets :
             Decides(r) /\ ExhaustedFor(b, r, RowDrift, SpendDrift) => Enforces(r, b)]_vars
  BY StepPromised DEF Promised, Punctual
<1> QED
  BY <1>1, AlwaysKnown, PTL DEF Spec, HardLimitEnforced

\* While the budgets stand unchanged for longer than the drift, a blocked request is blocked
\* by a hard budget that holds at least half its limit in rows of the period the 429 names:
\* record() and a racing refresh can count a row twice, and no row of another period.
THEOREM RealSpend == Spec => BlockedByRealSpend
<1>1. Knows /\ DriftInv /\ Knows' /\ [Next]_vars =>
         [\A r \in Requests :
             /\ Decides(r) /\ task'[r].verdict = "blocked"
             /\ \A b \in Budgets : Exists(budgets, b) /\ UnchangedFor(b, RowDrift)
             => \E b \in Applicable(budgets, r), p \in Periods :
                   /\ budgets[b].hard
                   /\ PeriodEnd(b, p) \in task'[r].resets
                   /\ 2 * RecordedSpend(b, p) >= budgets[b].limit]_vars
  BY StepPromised DEF Promised, Real
<1> QED
  BY <1>1, AlwaysKnown, PTL DEF Spec, BlockedByRealSpend
=============================================================================
