---------------------------- MODULE AlertManager ----------------------------
(***************************************************************************)
(* The alert manager (alerts.py): evaluate() turns the usages that         *)
(* BudgetTracker.record returned into alert rows, once per budget, period  *)
(* and threshold, and a background task delivers the highest of the alerts *)
(* an evaluation raised to the budget's channels, with retries.            *)
(*                                                                         *)
(* Every server process has a manager with its own memory of the markers   *)
(* it has handled; the alerts, deliveries and channels tables are shared.  *)
(* Code between two awaits is one step.  A database await whose answer     *)
(* leads to shared memory is two steps, the statement and the reply; one   *)
(* whose answer only touches the task's own locals is one.                 *)
(***************************************************************************)
EXTENDS Integers, Sequences, FiniteSets

CONSTANTS
    Managers,      \* server processes
    Evaluations,   \* calls of evaluate
    UsageLists,    \* the lists of usages a call may get
    Channels,      \* channel ids, in the order budgets hold them
    MaxAttempts,   \* 1 + the number of retry_delays
    FiredLimit,    \* markers a process remembers before it forgets them all
    DbFails,       \* whether database calls may fail
    Crashes,       \* whether processes may crash or be stopped
    None

VARIABLES
    alerts,      \* budget_alerts, by marker: None or the evaluation that inserted it
    deliveries,  \* alert_deliveries, by id: None or the row
    channels,    \* alert_channels: the ids that exist
    fired,       \* per process: _fired
    eval,        \* per call of evaluate: its coroutine
    courier,     \* per call and usage: the _deliver_all task
    posts,       \* history: requests sent to a channel for an alert
    acks         \* history: those the channel answered with success

vars == <<alerts, deliveries, channels, fired, eval, courier, posts, acks>>

AllUsages == UNION {{us[i] : i \in DOMAIN us} : us \in UsageLists}
Thresholds == UNION {u.thresholds : u \in AllUsages}
Positions == UNION {DOMAIN us : us \in UsageLists}

\* (budget id, period_start, threshold): the unique key of an alert.
Marker(u, t) == <<u.budget, u.period, t>>
Markers == {Marker(u, t) : u \in AllUsages, t \in Thresholds}

\* The random id of a delivery names the call that made it, its alert and its channel.
DeliveryIds == Evaluations \X Markers \X Channels
Rows == [status : {"pending", "delivered", "failed", "skipped"}, attempts : 0 .. MaxAttempts]
Final == {"delivered", "failed", "skipped"}

Usages == [budget : STRING, period : Nat, spend : Nat, limit : Nat,
           thresholds : SUBSET (1 .. 1000), channels : SUBSET Channels]

ASSUME AlertAssumption ==
    /\ Channels \subseteq Nat
    /\ UsageLists \subseteq Seq(Usages)
    /\ MaxAttempts \in Nat \ {0}
    /\ FiredLimit \in Nat
    /\ DbFails \in BOOLEAN /\ Crashes \in BOOLEAN
    /\ None \notin Evaluations \cup Managers \cup Rows
    \* record() returns one usage per budget.
    /\ \A us \in UsageLists : \A i, j \in DOMAIN us : us[i].budget = us[j].budget => i = j

-----------------------------------------------------------------------------
IsFirst(x, S) == x \in S /\ \A y \in S : x <= y
IsLast(x, S) == x \in S /\ \A y \in S : y <= x
IsFirstPair(p, S) ==
    p \in S /\ \A q \in S : p[1] < q[1] \/ (p[1] = q[1] /\ p[2] <= q[2])

EvalStates ==
    [pc : {"idle", "insert", "inserted", "lookup", "skip", "skipped", "done", "failed"},
     mgr : Managers \cup {None}, usages : UsageLists \cup {<<>>}, at : Nat, th : Nat,
     fresh : SUBSET Thresholds, skips : SUBSET (Thresholds \X Channels), inserted : BOOLEAN]

CourierStates ==
    [pc : {"idle", "lookup", "announce", "send", "post", "save", "done", "failed"},
     mgr : Managers \cup {None}, alert : Markers \cup {None}, todo : SUBSET Channels,
     attempt : 0 .. MaxAttempts, ok : BOOLEAN]

Idle == [pc |-> "idle", mgr |-> None, usages |-> <<>>, at |-> 0, th |-> 0,
         fresh |-> {}, skips |-> {}, inserted |-> FALSE]

NoCourier == [pc |-> "idle", mgr |-> None, alert |-> None, todo |-> {},
              attempt |-> 0, ok |-> FALSE]

Init ==
    /\ alerts = [m \in Markers |-> None]
    /\ deliveries = [d \in DeliveryIds |-> None]
    /\ channels = Channels
    /\ fired = [p \in Managers |-> {}]
    /\ eval = [e \in Evaluations |-> Idle]
    /\ courier = [k \in Evaluations \X Positions |-> NoCourier]
    /\ posts = [k \in Markers \X Channels |-> 0]
    /\ acks = [k \in Markers \X Channels |-> 0]

\* BudgetUsage.crossed.
Crossed(u, t) == u.spend * 100 >= u.limit * t

\* Mutant of Candidates: break for continue.
CandidatesUpToFired(w, i, t) ==
    LET u == w.usages[i]
    IN  {h \in u.thresholds :
            /\ h > t /\ Crossed(u, h)
            /\ \A g \in u.thresholds : g <= h => Marker(u, g) \notin fired[w.mgr] \/ g <= t}

\* The thresholds of usage i above t for which the loop does not `continue`.
Candidates(w, i, t) ==
    LET u == w.usages[i]
    IN  {h \in u.thresholds : h > t /\ Crossed(u, h) /\ Marker(u, h) \notin fired[w.mgr]}

\* The marker is remembered before the row is inserted.
Remember(p, m) ==
    fired' = [fired EXCEPT ![p] = (IF Cardinality(@) > FiredLimit THEN {} ELSE @) \cup {m}]

\* The next await of evaluate is the insert of the alert for threshold t of usage i.
ToInsert(e, w, i, t, fresh) ==
    /\ Remember(w.mgr, Marker(w.usages[i], t))
    /\ eval' = [eval EXCEPT ![e] = [w EXCEPT !.pc = "insert", !.at = i, !.th = t,
                                             !.fresh = fresh, !.skips = {}]]

\* The loop over the usages from the i-th on, up to its next await.
FromUsage(e, w, i) ==
    LET stops == {j \in DOMAIN w.usages : j >= i /\ Candidates(w, j, 0) # {}}
    IN  \/ \E j \in stops, t \in Thresholds :
              /\ IsFirst(j, stops) /\ IsFirst(t, Candidates(w, j, 0))
              /\ ToInsert(e, w, j, t, {})
        \/ /\ stops = {}
           /\ eval' = [eval EXCEPT ![e] = [Idle EXCEPT !.pc = "done", !.mgr = w.mgr,
                                                       !.usages = w.usages]]
           /\ UNCHANGED fired

\* Mutant of Message: the lowest of the fresh alerts is sent.
MessageLowest(t, fresh) == IsFirst(t, fresh)

\* The one of an evaluation's alerts that is sent; the others are skipped.
Message(t, fresh) == IsLast(t, fresh)

\* _spawn(_deliver_all(highest)), and on to the next usage.
Spawn(e, w) ==
    /\ \E t \in w.fresh :
          /\ Message(t, w.fresh)
          /\ courier' = [courier EXCEPT ![<<e, w.at>>] =
                [NoCourier EXCEPT !.pc = "lookup", !.mgr = w.mgr,
                                  !.alert = Marker(w.usages[w.at], t),
                                  !.todo = w.usages[w.at].channels]]
    /\ FromUsage(e, w, w.at + 1)

\* The thresholds of a usage are done and some alerts are fresh.
Dispatch(e, w) ==
    LET skips == {t \in w.fresh : ~Message(t, w.fresh)} \X w.usages[w.at].channels
    IN  \/ /\ skips # {}
           /\ eval' = [eval EXCEPT ![e] = [w EXCEPT !.pc = "lookup", !.skips = skips]]
           /\ UNCHANGED <<fired, courier>>
        \/ (skips = {} /\ Spawn(e, w))

-----------------------------------------------------------------------------
(* evaluate *)

\* A request was counted on process p and its usages are evaluated.
Evaluate(e, p, us) ==
    /\ eval[e].pc = "idle"
    /\ FromUsage(e, [Idle EXCEPT !.mgr = p, !.usages = us], 1)
    /\ UNCHANGED <<alerts, deliveries, channels, courier, posts, acks>>

\* Mutant of Insert: no unique key, the row is replaced.
InsertAnyway(e) ==
    LET w == eval[e] m == Marker(w.usages[w.at], w.th)
    IN  /\ w.pc = "insert"
        /\ alerts' = [alerts EXCEPT ![m] = e]
        /\ eval' = [eval EXCEPT ![e].pc = "inserted", ![e].inserted = TRUE]
        /\ UNCHANGED <<deliveries, channels, fired, courier, posts, acks>>

\* create_if_absent: the unique key lets one process insert the row ...
Insert(e) ==
    LET w == eval[e] m == Marker(w.usages[w.at], w.th)
    IN  /\ w.pc = "insert"
        /\ alerts' = [alerts EXCEPT ![m] = IF @ = None THEN e ELSE @]
        /\ eval' = [eval EXCEPT ![e].pc = "inserted", ![e].inserted = (alerts[m] = None)]
        /\ UNCHANGED <<deliveries, channels, fired, courier, posts, acks>>

\* ... and the loop goes on with the next threshold of the usage.
Inserted(e) ==
    LET w == [eval[e] EXCEPT !.fresh = IF eval[e].inserted THEN @ \cup {eval[e].th} ELSE @,
                             !.inserted = FALSE]
        rest == Candidates(w, w.at, w.th)
    IN  /\ eval[e].pc = "inserted"
        /\ \/ /\ \E t \in rest : IsFirst(t, rest) /\ ToInsert(e, w, w.at, t, w.fresh)
              /\ UNCHANGED courier
           \/ (rest = {} /\ w.fresh = {} /\ FromUsage(e, w, w.at + 1) /\ UNCHANGED courier)
           \/ (rest = {} /\ w.fresh # {} /\ Dispatch(e, w))
        /\ UNCHANGED <<alerts, deliveries, channels, posts, acks>>

\* Mutant of Save: a row that exists is left alone.
SaveOnce(id, status, attempts) ==
    deliveries' = [deliveries EXCEPT ![id] =
        IF @ = None THEN [status |-> status, attempts |-> attempts] ELSE @]

\* save_delivery: update by id, or insert.
Save(id, status, attempts) ==
    deliveries' = [deliveries EXCEPT ![id] = [status |-> status, attempts |-> attempts]]

\* _skip: look up the channel of the next skipped delivery; one that is gone has none.
SkipLookup(e) ==
    /\ eval[e].pc = "lookup"
    /\ \E s \in eval[e].skips :
          /\ IsFirstPair(s, eval[e].skips)
          /\ eval' = [eval EXCEPT ![e].pc = IF s[2] \in channels THEN "skip" ELSE "skipped"]
    /\ UNCHANGED <<alerts, deliveries, channels, fired, courier, posts, acks>>

Skip(e) ==
    LET w == eval[e]
    IN  /\ w.pc = "skip"
        /\ \E s \in w.skips :
              /\ IsFirstPair(s, w.skips)
              /\ Save(<<e, Marker(w.usages[w.at], s[1]), s[2]>>, "skipped", 0)
        /\ eval' = [eval EXCEPT ![e].pc = "skipped"]
        /\ UNCHANGED <<alerts, channels, fired, courier, posts, acks>>

Skipped(e) ==
    /\ eval[e].pc = "skipped"
    /\ \E s \in eval[e].skips :
          LET w == [eval[e] EXCEPT !.skips = @ \ {s}]
          IN  /\ IsFirstPair(s, eval[e].skips)
              /\ \/ /\ w.skips # {}
                    /\ eval' = [eval EXCEPT ![e] = [w EXCEPT !.pc = "lookup"]]
                    /\ UNCHANGED <<fired, courier>>
                 \/ (w.skips = {} /\ Spawn(e, w))
    /\ UNCHANGED <<alerts, deliveries, channels, posts, acks>>

\* A database call raises, before or after it took effect; the request's handler logs it.
Stopped(w) == [Idle EXCEPT !.pc = "failed", !.mgr = w.mgr, !.usages = w.usages]

EvaluateFails(e) ==
    /\ DbFails
    /\ eval[e].pc \in {"insert", "inserted", "lookup", "skip", "skipped"}
    /\ eval[e].pc = "inserted" => eval[e].inserted
    /\ eval' = [eval EXCEPT ![e] = Stopped(eval[e])]
    /\ UNCHANGED <<alerts, deliveries, channels, fired, courier, posts, acks>>

-----------------------------------------------------------------------------
(* _deliver_all, one channel after the other *)

\* The task goes on with the next channel, if any.
NextChannel(w, c) ==
    LET rest == w.todo \ {c}
    IN  [w EXCEPT !.pc = IF rest = {} THEN "done" ELSE "lookup",
                  !.todo = rest, !.attempt = 0, !.ok = FALSE]

Step(k, w) == courier' = [courier EXCEPT ![k] = w]

\* A budget may have no channels.
NothingToDeliver(k) ==
    /\ courier[k].pc = "lookup" /\ courier[k].todo = {}
    /\ Step(k, [courier[k] EXCEPT !.pc = "done"])
    /\ UNCHANGED <<alerts, deliveries, channels, fired, eval, posts, acks>>

\* Mutant of Lookup: return for continue.
LookupOrStop(k, c) ==
    /\ courier[k].pc = "lookup" /\ IsFirst(c, courier[k].todo)
    /\ Step(k, IF c \in channels THEN [courier[k] EXCEPT !.pc = "announce"]
                                 ELSE [courier[k] EXCEPT !.pc = "done", !.todo = {}])
    /\ UNCHANGED <<alerts, deliveries, channels, fired, eval, posts, acks>>

\* A channel deleted meanwhile is passed over.
Lookup(k, c) ==
    /\ courier[k].pc = "lookup" /\ IsFirst(c, courier[k].todo)
    /\ Step(k, IF c \in channels THEN [courier[k] EXCEPT !.pc = "announce"]
                                 ELSE NextChannel(courier[k], c))
    /\ UNCHANGED <<alerts, deliveries, channels, fired, eval, posts, acks>>

\* _deliver: the pending row, before the first attempt.
Announce(k, c) ==
    /\ courier[k].pc = "announce" /\ IsFirst(c, courier[k].todo)
    /\ Save(<<k[1], courier[k].alert, c>>, "pending", 0)
    /\ Step(k, [courier[k] EXCEPT !.pc = "send", !.attempt = 1])
    /\ UNCHANGED <<alerts, channels, fired, eval, posts, acks>>

\* _send, after the retry delay: the secrets of a deleted channel are gone, which counts
\* as a failed attempt.
Send(k, c) ==
    /\ courier[k].pc = "send" /\ IsFirst(c, courier[k].todo)
    /\ Step(k, IF c \in channels THEN [courier[k] EXCEPT !.pc = "post"]
                                 ELSE [courier[k] EXCEPT !.pc = "save", !.ok = FALSE])
    /\ UNCHANGED <<alerts, deliveries, channels, fired, eval, posts, acks>>

\* The request goes out and the answer is a success, an error, a timeout or no connection.
Post(k, c, ok) ==
    /\ courier[k].pc = "post" /\ IsFirst(c, courier[k].todo)
    /\ posts' = [posts EXCEPT ![<<courier[k].alert, c>>] = @ + 1]
    /\ acks' = [acks EXCEPT ![<<courier[k].alert, c>>] = IF ok THEN @ + 1 ELSE @]
    /\ Step(k, [courier[k] EXCEPT !.pc = "save", !.ok = ok])
    /\ UNCHANGED <<alerts, deliveries, channels, fired, eval>>

\* Mutant of Done: one attempt too many.
DoneLate(w) == w.ok \/ w.attempt = MaxAttempts + 1

\* Mutant of Done: a success does not end the attempts.
DoneAtLast(w) == w.attempt = MaxAttempts

Done(w) == w.ok \/ w.attempt = MaxAttempts

Status(w) == IF w.ok THEN "delivered" ELSE IF Done(w) THEN "failed" ELSE "pending"

\* The row after an attempt, and the next attempt or the next channel.
SaveAttempt(k, c) ==
    LET w == courier[k]
    IN  /\ w.pc = "save" /\ IsFirst(c, w.todo)
        /\ Save(<<k[1], w.alert, c>>, Status(w), w.attempt)
        /\ Step(k, IF Done(w) THEN NextChannel(w, c)
                   ELSE [w EXCEPT !.pc = "send", !.attempt = @ + 1])
        /\ UNCHANGED <<alerts, channels, fired, eval, posts, acks>>

\* A database call raises.  Only the lookup is outside the try: it ends the task, the
\* others give up on the channel.
CourierFails(k, c) ==
    /\ DbFails
    /\ courier[k].pc \in {"lookup", "announce", "send", "save"} /\ IsFirst(c, courier[k].todo)
    /\ Step(k, IF courier[k].pc = "lookup" THEN [courier[k] EXCEPT !.pc = "failed"]
                                           ELSE NextChannel(courier[k], c))
    /\ UNCHANGED <<alerts, deliveries, channels, fired, eval, posts, acks>>

-----------------------------------------------------------------------------
\* alert_routes.delete_channel.
DeleteChannel(c) ==
    /\ c \in channels
    /\ channels' = channels \ {c}
    /\ UNCHANGED <<alerts, deliveries, fired, eval, courier, posts, acks>>

\* A process stops: aclose cancels what is in flight after its grace period, a crash at
\* once.  Memory and tasks are gone, and a new process starts empty.
Crash(p) ==
    /\ Crashes
    /\ fired[p] # {}
    /\ fired' = [fired EXCEPT ![p] = {}]
    /\ eval' = [e \in Evaluations |->
          IF eval[e].mgr = p /\ eval[e].pc # "done" THEN Stopped(eval[e]) ELSE eval[e]]
    /\ courier' = [k \in DOMAIN courier |->
          IF courier[k].mgr = p /\ courier[k].pc # "done"
          THEN [courier[k] EXCEPT !.pc = "failed"] ELSE courier[k]]
    /\ UNCHANGED <<alerts, deliveries, channels, posts, acks>>

EvalStep(e) == Insert(e) \/ Inserted(e) \/ SkipLookup(e) \/ Skip(e) \/ Skipped(e)

CourierStep(k) ==
    \/ NothingToDeliver(k)
    \/ \E c \in Channels :
          \/ Lookup(k, c) \/ Announce(k, c) \/ Send(k, c) \/ SaveAttempt(k, c)
          \/ \E ok \in BOOLEAN : Post(k, c, ok)

Next ==
    \/ \E e \in Evaluations :
          \/ \E p \in Managers, us \in UsageLists : Evaluate(e, p, us)
          \/ EvalStep(e) \/ EvaluateFails(e)
    \/ \E k \in DOMAIN courier :
          CourierStep(k) \/ \E c \in Channels : CourierFails(k, c)
    \/ \E c \in Channels : DeleteChannel(c)
    \/ \E p \in Managers : Crash(p)

Spec == Init /\ [][Next]_vars

\* The event loop resumes every task whose await is over, and every await ends: the
\* driver answers or raises, and the notifier's requests time out after ten seconds.
FairSpec ==
    /\ Spec
    /\ \A e \in Evaluations : WF_vars(EvalStep(e))
    /\ \A k \in Evaluations \X Positions : WF_vars(CourierStep(k))
-----------------------------------------------------------------------------
\* The tables, the memories and the coroutines have the values the code gives them.
TypeOK ==
    /\ alerts \in [Markers -> Evaluations \cup {None}]
    /\ deliveries \in [DeliveryIds -> Rows \cup {None}]
    /\ channels \subseteq Channels
    /\ fired \in [Managers -> SUBSET Markers]
    /\ eval \in [Evaluations -> EvalStates]
    /\ courier \in [Evaluations \X Positions -> CourierStates]
    /\ posts \in [Markers \X Channels -> Nat]
    /\ acks \in [Markers \X Channels -> Nat]

Row(m, c) == deliveries[<<alerts[m], m, c>>]

\* Delivery records only exist under the call that raised the alert, so whatever the
\* processes do and however often they restart, an alert has one record per channel and no
\* request without a record (alerts.py evaluate, create_if_absent).
OneRecordPerChannel ==
    /\ \A id \in DeliveryIds : deliveries[id] # None => alerts[id[2]] = id[1]
    /\ \A m \in Markers, c \in Channels : posts[<<m, c>>] > 0 => alerts[m] # None /\ Row(m, c) # None

\* A record tells what happened to the channel: delivered only after a success, failed only
\* after every attempt was made without one, skipped only if nothing was sent, and pending
\* while attempts remain (_deliver, _skip).
RecordsTruthful ==
    \A m \in Markers, c \in Channels :
       alerts[m] # None /\ Row(m, c) # None =>
          LET row == Row(m, c)
          IN  CASE row.status = "delivered" -> acks[<<m, c>>] = 1 /\ posts[<<m, c>>] <= row.attempts
                [] row.status = "failed" -> acks[<<m, c>>] = 0 /\ row.attempts = MaxAttempts
                [] row.status = "skipped" -> posts[<<m, c>>] = 0
                [] row.status = "pending" -> /\ row.attempts < MaxAttempts
                                             /\ posts[<<m, c>>] <= row.attempts + 1

\* An alert is posted to a channel at most 1 + retries times, over all processes and
\* restarts (_deliver).
AttemptsBounded == \A m \in Markers, c \in Channels : posts[<<m, c>>] <= MaxAttempts

\* Once a channel has acknowledged an alert, nothing is sent to it for that alert (_deliver).
QuietOnceAcked ==
    [][\A m \in Markers, c \in Channels : posts'[<<m, c>>] # posts[<<m, c>>] => acks[<<m, c>>] = 0]_vars

\* Of the thresholds of a budget that one call of evaluate raises, only the highest is ever
\* sent, and the others are skipped only once the highest exists (evaluate, _skip).
OneMessagePerCall ==
    \A e \in Evaluations, c \in Channels : \A m, h \in Markers :
       /\ <<m[1], m[2]>> = <<h[1], h[2]>> /\ m[3] < h[3]
       /\ alerts[m] = e /\ alerts[h] = e
       => posts[<<m, c>>] = 0

\* The alerts and their delivery records behave as the abstract book of alerts.
RecordStatus(m, c) ==
    IF alerts[m] = None \/ Row(m, c) = None THEN "none" ELSE Row(m, c).status

Book == INSTANCE AlertBook WITH
    raised <- {m \in Markers : alerts[m] # None},
    record <- [k \in Markers \X Channels |-> RecordStatus(k[1], k[2])]

BookSpec == Book!Spec

\* The channels of the budget as the call that raised the alert knew it.
ChannelsOf(m) ==
    UNION {u.channels : u \in {v \in {eval[alerts[m]].usages[i] :
                                        i \in DOMAIN eval[alerts[m]].usages} : v.budget = m[1]}}

Settled(m) ==
    \A c \in ChannelsOf(m) \cap channels : Row(m, c) # None /\ Row(m, c).status \in Final

\* While nothing fails, every alert reaches a final record on each of its channels that is
\* not deleted: evaluate's loops and _deliver_all's loop pass over no channel.
AlertsSettle == \A m \in Markers : alerts[m] # None ~> alerts[m] # None /\ Settled(m)

\* No task is running.
Quiet ==
    /\ \A e \in Evaluations : eval[e].pc \in {"idle", "done", "failed"}
    /\ \A k \in DOMAIN courier : courier[k].pc \in {"idle", "done", "failed"}

\* The usages of a call cross the threshold of marker m.
ToldOf(e, m) ==
    \E i \in DOMAIN eval[e].usages : \E t \in eval[e].usages[i].thresholds :
        m = Marker(eval[e].usages[i], t) /\ Crossed(eval[e].usages[i], t)

\* Once nothing is running, every crossing that a finished evaluation was told of has its
\* alert, unless another evaluation that was told of it failed: the memory of markers hides
\* none that someone is not handling, and forgetting it at its limit is harmless.
CrossingsRecorded ==
    Quiet => \A e \in Evaluations, m \in Markers : eval[e].pc = "done" /\ ToldOf(e, m) =>
        alerts[m] # None \/ \E f \in Evaluations : eval[f].pc = "failed" /\ ToldOf(f, m)
=============================================================================
