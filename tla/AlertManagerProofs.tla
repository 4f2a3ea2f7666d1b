------------------------- MODULE AlertManagerProofs -------------------------
(***************************************************************************)
(* Theorems about AlertManager, for any processes, calls, usages, channels *)
(* and bounds that satisfy AlertAssumption.                                *)
(***************************************************************************)
EXTENDS AlertManager, TLAPS

Active == {"insert", "inserted", "lookup", "skip", "skipped"}

\* What the locals of a call of evaluate satisfy beyond their types.
EvalLocals(w) ==
    /\ w.pc = "idle" => w.usages = <<>> /\ w.mgr = None
    /\ w.pc # "idle" => w.usages \in UsageLists /\ w.mgr \in Managers
    /\ w.pc \in Active =>
          /\ w.at \in DOMAIN w.usages
          /\ w.th \in w.usages[w.at].thresholds
          /\ w.fresh \subseteq w.usages[w.at].thresholds
          /\ w.skips \subseteq {t \in w.fresh : ~IsLast(t, w.fresh)} \X w.usages[w.at].channels
    /\ w.pc \in {"insert", "inserted"} => w.skips = {}
    /\ w.pc \in {"lookup", "skip", "skipped"} => w.fresh # {} /\ w.skips # {}

CourierLocals(x) ==
    /\ x.pc = "idle" => x.mgr = None
    /\ x.pc # "idle" => x.alert \in Markers
    /\ x.pc \in {"send", "post", "save"} => x.attempt \in 1 .. MaxAttempts

LocalsInv ==
    /\ \A e \in Evaluations : EvalLocals(eval[e])
    /\ \A k \in Evaluations \X Positions : CourierLocals(courier[k])

TypeInv == TypeOK /\ LocalsInv

-----------------------------------------------------------------------------
\* The usages of a list, their thresholds, channels and markers.
LEMMA UsageFacts ==
    ASSUME NEW us \in UsageLists, NEW i \in DOMAIN us
    PROVE  /\ i \in Positions /\ i \in Nat
           /\ us[i] \in Usages /\ us[i] \in AllUsages
           /\ us[i].thresholds \subseteq Thresholds
           /\ us[i].channels \subseteq Channels
           /\ \A t \in Thresholds : Marker(us[i], t) \in Markers
<1>1. i \in Positions
  BY Zenon DEF Positions
<1>2. us \in Seq(Usages)
  BY AlertAssumption DEF AlertAssumption
<1>3. us[i] \in Usages /\ i \in Nat
  BY <1>2
<1>4. us[i] \in AllUsages
  <2>1. us[i] \in {us[j] : j \in DOMAIN us}
    OBVIOUS
  <2> QED
    BY <2>1, Zenon DEF AllUsages
<1>5. us[i].thresholds \subseteq Thresholds
  BY <1>4, Zenon DEF Thresholds
<1>6. us[i].channels \subseteq Channels
  BY <1>3 DEF Usages
<1>7. \A t \in Thresholds : Marker(us[i], t) \in Markers
  BY <1>4 DEF Markers
<1> QED
  BY <1>1, <1>3, <1>4, <1>5, <1>6, <1>7

LEMMA PositionsAreNat == Positions \subseteq Nat
BY UsageFacts, Zenon DEF Positions

LEMMA ThresholdsAreNat == Thresholds \subseteq Nat
<1> SUFFICES ASSUME NEW u \in AllUsages PROVE u.thresholds \subseteq Nat
  BY Zenon DEF Thresholds
<1>1. PICK us \in UsageLists : u \in {us[i] : i \in DOMAIN us}
  BY Zenon DEF AllUsages
<1>2. PICK i \in DOMAIN us : u = us[i]
  BY <1>1
<1>3. u \in Usages
  BY <1>2, UsageFacts
<1> QED
  BY <1>3 DEF Usages

\* ToInsert and FromUsage, as far as eval is concerned: the call is done, or it stops at the
\* insert for a threshold of a usage.
Waiting(w, j, t, fresh) ==
    [w EXCEPT !.pc = "insert", !.at = j, !.th = t, !.fresh = fresh, !.skips = {}]
Ended(w) == [Idle EXCEPT !.pc = "done", !.mgr = w.mgr, !.usages = w.usages]

LEMMA FromUsageEffect ==
    ASSUME NEW e, NEW w, NEW i, w.usages \in UsageLists, FromUsage(e, w, i)
    PROVE  \/ eval' = [eval EXCEPT ![e] = Ended(w)] /\ fired' = fired
           \/ \E j \in DOMAIN w.usages : \E t \in w.usages[j].thresholds :
                 /\ j >= i
                 /\ eval' = [eval EXCEPT ![e] = Waiting(w, j, t, {})]
                 /\ Remember(w.mgr, Marker(w.usages[j], t))
<1> DEFINE stops == {j \in DOMAIN w.usages : j >= i /\ Candidates(w, j, 0) # {}}
<1>1. CASE \E j \in stops, t \in Thresholds :
              /\ IsFirst(j, stops) /\ IsFirst(t, Candidates(w, j, 0))
              /\ ToInsert(e, w, j, t, {})
  <2>1. PICK j \in stops, t \in Thresholds : /\ IsFirst(t, Candidates(w, j, 0))
                                             /\ ToInsert(e, w, j, t, {})
    BY <1>1, Zenon
  <2>2. j \in DOMAIN w.usages /\ j >= i
    OBVIOUS
  <2>3. t \in w.usages[j].thresholds
    BY <2>1 DEF IsFirst, Candidates
  <2> QED
    BY <2>1, <2>2, <2>3 DEF ToInsert, Waiting
<1>2. CASE /\ stops = {}
           /\ eval' = [eval EXCEPT ![e] = [Idle EXCEPT !.pc = "done", !.mgr = w.mgr,
                                                       !.usages = w.usages]]
           /\ UNCHANGED fired
  BY <1>2 DEF Ended
<1> QED
  BY <1>1, <1>2, Zenon DEF FromUsage

LEMMA RememberType ==
    ASSUME TypeOK, NEW p, NEW m \in Markers, Remember(p, m)
    PROVE  fired' \in [Managers -> SUBSET Markers]
BY DEF TypeOK, Remember

LEMMA WaitingType ==
    ASSUME NEW w \in EvalStates, w.usages \in UsageLists, w.mgr \in Managers,
           NEW j \in DOMAIN w.usages, NEW t \in w.usages[j].thresholds,
           NEW fresh \in SUBSET w.usages[j].thresholds
    PROVE  Waiting(w, j, t, fresh) \in EvalStates /\ EvalLocals(Waiting(w, j, t, fresh))
<1>1. j \in Nat /\ t \in Nat /\ fresh \in SUBSET Thresholds
  BY UsageFacts, ThresholdsAreNat
<1>2. Waiting(w, j, t, fresh) \in EvalStates
  BY <1>1 DEF Waiting, EvalStates
<1>3. EvalLocals(Waiting(w, j, t, fresh))
  BY DEF Waiting, EvalLocals, Active, EvalStates
<1> QED
  BY <1>2, <1>3

LEMMA EndedType ==
    ASSUME NEW w, w.usages \in UsageLists, w.mgr \in Managers
    PROVE  /\ Ended(w) \in EvalStates /\ EvalLocals(Ended(w))
           /\ Stopped(w) \in EvalStates /\ EvalLocals(Stopped(w))
BY DEF Ended, Stopped, Idle, EvalStates, EvalLocals, Active

LEMMA FromUsageType ==
    ASSUME TypeInv, NEW e \in Evaluations, NEW w \in EvalStates, NEW i,
           w.usages \in UsageLists, w.mgr \in Managers, FromUsage(e, w, i)
    PROVE  /\ eval' \in [Evaluations -> EvalStates] /\ fired' \in [Managers -> SUBSET Markers]
           /\ \A f \in Evaluations : EvalLocals(eval'[f])
<1>1. CASE eval' = [eval EXCEPT ![e] = Ended(w)] /\ fired' = fired
  BY <1>1, EndedType DEF TypeInv, TypeOK, LocalsInv
<1>2. ASSUME NEW j \in DOMAIN w.usages, NEW t \in w.usages[j].thresholds,
             eval' = [eval EXCEPT ![e] = Waiting(w, j, t, {})],
             Remember(w.mgr, Marker(w.usages[j], t))
      PROVE  /\ eval' \in [Evaluations -> EvalStates] /\ fired' \in [Managers -> SUBSET Markers]
             /\ \A f \in Evaluations : EvalLocals(eval'[f])
  <2>1. Marker(w.usages[j], t) \in Markers
    BY UsageFacts
  <2>2. fired' \in [Managers -> SUBSET Markers]
    BY <1>2, <2>1, RememberType DEF TypeInv
  <2>3. Waiting(w, j, t, {}) \in EvalStates /\ EvalLocals(Waiting(w, j, t, {}))
    BY WaitingType
  <2> QED
    BY <1>2, <2>2, <2>3 DEF TypeInv, TypeOK, LocalsInv
<1> QED
  BY <1>1, <1>2, FromUsageEffect, Zenon

\* The courier that Spawn starts.
Sent(w, t) ==
    [NoCourier EXCEPT !.pc = "lookup", !.mgr = w.mgr, !.alert = Marker(w.usages[w.at], t),
                      !.todo = w.usages[w.at].channels]

LEMMA SpawnType ==
    ASSUME TypeInv, NEW e \in Evaluations, NEW w \in EvalStates,
           w.usages \in UsageLists, w.mgr \in Managers, w.at \in DOMAIN w.usages,
           w.fresh \subseteq w.usages[w.at].thresholds, Spawn(e, w)
    PROVE  /\ eval' \in [Evaluations -> EvalStates] /\ fired' \in [Managers -> SUBSET Markers]
           /\ courier' \in [Evaluations \X Positions -> CourierStates]
           /\ \A f \in Evaluations : EvalLocals(eval'[f])
           /\ \A k \in Evaluations \X Positions : CourierLocals(courier'[k])
<1>1. PICK t \in w.fresh : courier' = [courier EXCEPT ![<<e, w.at>>] = Sent(w, t)]
  BY Zenon DEF Spawn, Sent
<1>2. Marker(w.usages[w.at], t) \in Markers /\ w.usages[w.at].channels \subseteq Channels
  BY UsageFacts
<1>3. Sent(w, t) \in CourierStates /\ CourierLocals(Sent(w, t))
  <2>1. 0 \in 0 .. MaxAttempts
    BY AlertAssumption DEF AlertAssumption
  <2> QED
    BY <1>2, <2>1 DEF Sent, NoCourier, CourierStates, CourierLocals
<1>4. <<e, w.at>> \in Evaluations \X Positions
  BY UsageFacts
<1>5. FromUsage(e, w, w.at + 1)
  BY DEF Spawn
<1> QED
  BY <1>1, <1>3, <1>4, <1>5, FromUsageType DEF TypeInv, TypeOK, LocalsInv

-----------------------------------------------------------------------------
LEMMA InitType == Init => TypeInv
<1> SUFFICES ASSUME Init PROVE TypeInv
  OBVIOUS
<1>1. Idle \in EvalStates /\ EvalLocals(Idle)
  BY DEF Idle, EvalStates, EvalLocals, Active
<1>2. NoCourier \in CourierStates /\ CourierLocals(NoCourier)
  <2>1. 0 \in 0 .. MaxAttempts
    BY AlertAssumption DEF AlertAssumption
  <2> QED
    BY <2>1 DEF NoCourier, CourierStates, CourierLocals
<1> QED
  BY <1>1, <1>2 DEF Init, TypeInv, TypeOK, LocalsInv

\* A step that gives one call new locals of the right type, and leaves memory alone.
LEMMA EvalChange ==
    ASSUME TypeInv, NEW e \in Evaluations, NEW v \in EvalStates, EvalLocals(v),
           eval' = [eval EXCEPT ![e] = v], UNCHANGED <<channels, fired, courier, posts, acks>>,
           alerts' \in [Markers -> Evaluations \cup {None}],
           deliveries' \in [DeliveryIds -> Rows \cup {None}]
    PROVE  TypeInv'
BY DEF TypeInv, TypeOK, LocalsInv

LEMMA CourierChange ==
    ASSUME TypeInv, NEW k \in Evaluations \X Positions, NEW x \in CourierStates,
           CourierLocals(x), Step(k, x), UNCHANGED <<alerts, channels, fired, eval>>,
           deliveries' \in [DeliveryIds -> Rows \cup {None}],
           posts' \in [Markers \X Channels -> Nat], acks' \in [Markers \X Channels -> Nat]
    PROVE  TypeInv'
BY DEF TypeInv, TypeOK, LocalsInv, Step

LEMMA SaveType ==
    ASSUME TypeOK, NEW id \in DeliveryIds, NEW status \in {"pending", "delivered", "failed", "skipped"},
           NEW n \in 0 .. MaxAttempts, Save(id, status, n)
    PROVE  deliveries' \in [DeliveryIds -> Rows \cup {None}]
BY DEF TypeOK, Save, Rows

LEMMA NextChannelType ==
    ASSUME NEW x \in CourierStates, x.pc # "idle", CourierLocals(x), NEW c
    PROVE  NextChannel(x, c) \in CourierStates /\ CourierLocals(NextChannel(x, c))
<1>1. 0 \in 0 .. MaxAttempts
  BY AlertAssumption DEF AlertAssumption
<1> QED
  BY <1>1 DEF NextChannel, CourierStates, CourierLocals

LEMMA DispatchType ==
    ASSUME TypeInv, NEW e \in Evaluations, NEW w \in EvalStates, w.pc \in Active,
           EvalLocals(w), w.fresh # {}, Dispatch(e, w)
    PROVE  /\ eval' \in [Evaluations -> EvalStates] /\ fired' \in [Managers -> SUBSET Markers]
           /\ courier' \in [Evaluations \X Positions -> CourierStates]
           /\ \A f \in Evaluations : EvalLocals(eval'[f])
           /\ \A k \in Evaluations \X Positions : CourierLocals(courier'[k])
<1> DEFINE skips == {t \in w.fresh : ~Message(t, w.fresh)} \X w.usages[w.at].channels
<1>1. /\ w.usages \in UsageLists /\ w.mgr \in Managers /\ w.at \in DOMAIN w.usages
      /\ w.fresh \subseteq w.usages[w.at].thresholds
  BY DEF EvalLocals, Active
<1>2. CASE skips = {} /\ Spawn(e, w)
  BY <1>1, <1>2, SpawnType
<1>3. CASE /\ skips # {}
           /\ eval' = [eval EXCEPT ![e] = [w EXCEPT !.pc = "lookup", !.skips = skips]]
           /\ UNCHANGED <<fired, courier>>
  <2> DEFINE v == [w EXCEPT !.pc = "lookup", !.skips = skips]
  <2>1. w.usages[w.at].channels \subseteq Channels /\ w.fresh \subseteq Thresholds
    BY <1>1, UsageFacts
  <2>2. v \in EvalStates
    BY <2>1 DEF EvalStates
  <2>3. EvalLocals(v)
    BY <1>3 DEF EvalLocals, Active, EvalStates, Message
  <2> HIDE DEF v
  <2>4. eval' = [eval EXCEPT ![e] = v]
    BY <1>3 DEF v
  <2>5. fired' = fired /\ courier' = courier
    BY <1>3
  <2> HIDE DEF skips
  <2> QED
    BY <2>2, <2>3, <2>4, <2>5 DEF TypeInv, TypeOK, LocalsInv
<1> QED
  BY <1>2, <1>3, Zenon DEF Dispatch

LEMMA TypeStep == TypeInv /\ [Next]_vars => TypeInv'
<1> SUFFICES ASSUME TypeInv, [Next]_vars PROVE TypeInv'
  OBVIOUS
<1> USE DEF TypeInv
<1>0. 0 \in 0 .. MaxAttempts
  BY AlertAssumption DEF AlertAssumption
<1>1. ASSUME NEW e \in Evaluations, NEW p \in Managers, NEW us \in UsageLists,
             Evaluate(e, p, us)
      PROVE  TypeInv'
  <2> DEFINE w == [Idle EXCEPT !.mgr = p, !.usages = us]
  <2>1. w \in EvalStates /\ w.usages \in UsageLists /\ w.mgr \in Managers
    BY DEF Idle, EvalStates
  <2> HIDE DEF w
  <2>2. FromUsage(e, w, 1)
    BY <1>1 DEF Evaluate, w
  <2> QED
    BY <1>1, <2>1, <2>2, FromUsageType DEF Evaluate, TypeOK, LocalsInv
<1>2. ASSUME NEW e \in Evaluations, Insert(e)
      PROVE  TypeInv'
  <2> DEFINE w == eval[e]
             v == [w EXCEPT !.pc = "inserted", !.inserted = (alerts[Marker(w.usages[w.at], w.th)] = None)]
  <2>1. w \in EvalStates /\ EvalLocals(w) /\ w.pc = "insert"
    BY <1>2 DEF TypeOK, LocalsInv, Insert
  <2>2. v \in EvalStates
    BY <2>1 DEF EvalStates
  <2>3. EvalLocals(v)
    BY <2>1 DEF EvalStates, EvalLocals, Active
  <2>4. eval' = [eval EXCEPT ![e] = v]
    BY <1>2 DEF Insert, TypeOK
  <2>5. alerts' \in [Markers -> Evaluations \cup {None}]
    BY <1>2 DEF Insert, TypeOK
  <2> HIDE DEF v
  <2> QED
    BY <1>2, <2>2, <2>3, <2>4, <2>5, EvalChange DEF Insert, TypeOK
<1>3. ASSUME NEW e \in Evaluations, Inserted(e)
      PROVE  TypeInv'
  <2> DEFINE w == [eval[e] EXCEPT !.fresh = IF eval[e].inserted THEN @ \cup {eval[e].th} ELSE @,
                                  !.inserted = FALSE]
             rest == Candidates(w, w.at, w.th)
  <2>1. eval[e] \in EvalStates /\ EvalLocals(eval[e]) /\ eval[e].pc = "inserted"
    BY <1>3 DEF TypeOK, LocalsInv, Inserted
  <2>2. /\ eval[e].usages \in UsageLists /\ eval[e].mgr \in Managers
        /\ eval[e].at \in DOMAIN eval[e].usages
        /\ eval[e].th \in eval[e].usages[eval[e].at].thresholds
        /\ eval[e].fresh \subseteq eval[e].usages[eval[e].at].thresholds
    BY <2>1 DEF EvalLocals, Active
  <2>3. eval[e].th \in Thresholds
    BY <2>2, UsageFacts
  <2>4. w \in EvalStates
    BY <2>1, <2>3 DEF EvalStates
  <2>5. /\ w.usages = eval[e].usages /\ w.mgr = eval[e].mgr /\ w.at = eval[e].at
        /\ w.th = eval[e].th /\ w.pc = "inserted"
        /\ w.fresh \subseteq w.usages[w.at].thresholds
    BY <2>1, <2>2 DEF EvalStates
  <2> HIDE DEF w
  <2>6. CASE \E t \in rest : IsFirst(t, rest) /\ ToInsert(e, w, w.at, t, w.fresh)
    <3>1. PICK t \in rest : ToInsert(e, w, w.at, t, w.fresh)
      BY <2>6
    <3>2. t \in w.usages[w.at].thresholds
      BY DEF Candidates
    <3>3. Waiting(w, w.at, t, w.fresh) \in EvalStates /\ EvalLocals(Waiting(w, w.at, t, w.fresh))
      BY <2>2, <2>4, <2>5, <3>2, WaitingType
    <3>4. Marker(w.usages[w.at], t) \in Markers
      BY <2>2, <2>5, <3>2, UsageFacts
    <3>5. fired' \in [Managers -> SUBSET Markers]
      BY <3>1, <3>4, RememberType DEF ToInsert
    <3>6. eval' = [eval EXCEPT ![e] = Waiting(w, w.at, t, w.fresh)]
      BY <3>1 DEF ToInsert, Waiting
    <3>7. courier' = courier
      <4>1. CASE rest = {} /\ w.fresh = {} /\ FromUsage(e, w, w.at + 1) /\ UNCHANGED courier
        BY <4>1
      <4>2. CASE rest = {}
        BY <4>2, <3>1
      <4>3. CASE (\E h \in rest : IsFirst(h, rest) /\ ToInsert(e, w, w.at, h, w.fresh)) /\ UNCHANGED courier
        BY <4>3
      <4> QED
        BY <1>3, <4>2, <4>3 DEF Inserted, w
    <3> QED
      BY <1>3, <3>3, <3>5, <3>6, <3>7 DEF Inserted, TypeOK, LocalsInv
  <2>7. CASE w.fresh = {} /\ FromUsage(e, w, w.at + 1) /\ UNCHANGED courier
    BY <1>3, <2>2, <2>4, <2>5, <2>7, FromUsageType DEF Inserted, TypeOK, LocalsInv
  <2>8. CASE w.fresh # {} /\ Dispatch(e, w)
    <3>1. EvalLocals(w)
      <4>1. w.skips = eval[e].skips
        BY <2>1 DEF w, EvalStates
      <4> QED
        BY <2>1, <2>2, <2>5, <4>1 DEF EvalLocals, Active
    <3> QED
      BY <1>3, <2>4, <2>5, <2>8, <3>1, DispatchType DEF Inserted, TypeOK, LocalsInv, Active
  <2> QED
    BY <1>3, <2>6, <2>7, <2>8 DEF Inserted, w
<1>4. ASSUME NEW e \in Evaluations, SkipLookup(e)
      PROVE  TypeInv'
  <2>1. eval[e] \in EvalStates /\ EvalLocals(eval[e]) /\ eval[e].pc = "lookup"
    BY <1>4 DEF TypeOK, LocalsInv, SkipLookup
  <2>2. PICK pc \in {"skip", "skipped"} : eval' = [eval EXCEPT ![e] = [eval[e] EXCEPT !.pc = pc]]
    BY <1>4 DEF SkipLookup, TypeOK
  <2> DEFINE v == [eval[e] EXCEPT !.pc = pc]
  <2>3. v \in EvalStates /\ EvalLocals(v)
    BY <2>1 DEF EvalStates, EvalLocals, Active
  <2> HIDE DEF v
  <2>4. eval' = [eval EXCEPT ![e] = v]
    BY <2>2 DEF v
  <2> QED
    BY <1>4, <2>3, <2>4, EvalChange DEF SkipLookup, TypeOK
<1>5. ASSUME NEW e \in Evaluations, Skip(e)
      PROVE  TypeInv'
  <2> DEFINE w == eval[e]
             v == [w EXCEPT !.pc = "skipped"]
  <2>1. w \in EvalStates /\ EvalLocals(w) /\ w.pc = "skip"
    BY <1>5 DEF TypeOK, LocalsInv, Skip
  <2>2. v \in EvalStates /\ EvalLocals(v)
    BY <2>1 DEF EvalStates, EvalLocals, Active
  <2>3. PICK s \in w.skips : Save(<<e, Marker(w.usages[w.at], s[1]), s[2]>>, "skipped", 0)
    BY <1>5 DEF Skip
  <2>4. w.usages \in UsageLists /\ w.at \in DOMAIN w.usages /\ s \in Thresholds \X Channels
    BY <2>1 DEF EvalLocals, EvalStates, Active
  <2>5. <<e, Marker(w.usages[w.at], s[1]), s[2]>> \in DeliveryIds
    BY <2>4, UsageFacts DEF DeliveryIds
  <2>6. deliveries' \in [DeliveryIds -> Rows \cup {None}]
    BY <1>0, <2>3, <2>5, SaveType
  <2>7. eval' = [eval EXCEPT ![e] = v]
    BY <1>5 DEF Skip, TypeOK
  <2> HIDE DEF v
  <2> QED
    BY <1>5, <2>2, <2>6, <2>7, EvalChange DEF Skip, TypeOK
<1>6. ASSUME NEW e \in Evaluations, Skipped(e)
      PROVE  TypeInv'
  <2>1. eval[e] \in EvalStates /\ EvalLocals(eval[e]) /\ eval[e].pc = "skipped"
    BY <1>6 DEF TypeOK, LocalsInv, Skipped
  <2>2. PICK s \in eval[e].skips :
           LET w == [eval[e] EXCEPT !.skips = @ \ {s}]
           IN  \/ /\ w.skips # {}
                  /\ eval' = [eval EXCEPT ![e] = [w EXCEPT !.pc = "lookup"]]
                  /\ UNCHANGED <<fired, courier>>
               \/ (w.skips = {} /\ Spawn(e, w))
    BY <1>6 DEF Skipped
  <2> DEFINE w == [eval[e] EXCEPT !.skips = @ \ {s}]
  <2>3. /\ w \in EvalStates /\ w.usages \in UsageLists /\ w.mgr \in Managers
        /\ w.at \in DOMAIN w.usages /\ w.fresh \subseteq w.usages[w.at].thresholds
    BY <2>1 DEF EvalStates, EvalLocals, Active
  <2>4. CASE /\ w.skips # {}
             /\ eval' = [eval EXCEPT ![e] = [w EXCEPT !.pc = "lookup"]]
             /\ UNCHANGED <<fired, courier>>
    <3> DEFINE v == [w EXCEPT !.pc = "lookup"]
    <3>1. v \in EvalStates /\ EvalLocals(v)
      BY <2>1, <2>4 DEF EvalStates, EvalLocals, Active
    <3> HIDE DEF v
    <3>2. eval' = [eval EXCEPT ![e] = v]
      BY <2>4 DEF v
    <3> QED
      BY <1>6, <2>4, <3>1, <3>2, EvalChange DEF Skipped, TypeOK
  <2>5. CASE w.skips = {} /\ Spawn(e, w)
    <3> HIDE DEF w
    <3> QED
      BY <1>6, <2>3, <2>5, SpawnType DEF Skipped, TypeOK, LocalsInv
  <2> QED
    BY <2>2, <2>4, <2>5
<1>7. ASSUME NEW e \in Evaluations, EvaluateFails(e)
      PROVE  TypeInv'
  <2>1. eval[e] \in EvalStates /\ EvalLocals(eval[e]) /\ eval[e].pc # "idle"
    BY <1>7 DEF TypeOK, LocalsInv, EvaluateFails
  <2>2. Stopped(eval[e]) \in EvalStates /\ EvalLocals(Stopped(eval[e]))
    BY <2>1, EndedType DEF EvalLocals
  <2> QED
    BY <1>7, <2>2, EvalChange DEF EvaluateFails, TypeOK
<1>8. ASSUME NEW k \in Evaluations \X Positions, NothingToDeliver(k)
      PROVE  TypeInv'
  <2>1. courier[k] \in CourierStates /\ CourierLocals(courier[k]) /\ courier[k].pc = "lookup"
    BY <1>8 DEF TypeOK, LocalsInv, NothingToDeliver
  <2> DEFINE x == [courier[k] EXCEPT !.pc = "done"]
  <2>2. x \in CourierStates /\ CourierLocals(x)
    BY <2>1 DEF CourierStates, CourierLocals
  <2>3. Step(k, x)
    BY <1>8 DEF NothingToDeliver
  <2> HIDE DEF x
  <2> QED
    BY <1>8, <2>2, <2>3, CourierChange DEF NothingToDeliver, TypeOK
<1>9. ASSUME NEW k \in Evaluations \X Positions, NEW c \in Channels, Lookup(k, c)
      PROVE  TypeInv'
  <2>1. courier[k] \in CourierStates /\ CourierLocals(courier[k]) /\ courier[k].pc = "lookup"
    BY <1>9 DEF TypeOK, LocalsInv, Lookup
  <2> DEFINE x == IF c \in channels THEN [courier[k] EXCEPT !.pc = "announce"]
                                    ELSE NextChannel(courier[k], c)
  <2>2. NextChannel(courier[k], c) \in CourierStates /\ CourierLocals(NextChannel(courier[k], c))
    BY <2>1, NextChannelType
  <2>3. x \in CourierStates /\ CourierLocals(x)
    <3>1. CASE c \in channels
      BY <2>1, <3>1 DEF CourierStates, CourierLocals
    <3>2. CASE c \notin channels
      BY <2>2, <3>2
    <3> QED
      BY <3>1, <3>2
  <2>4. Step(k, x)
    BY <1>9 DEF Lookup
  <2> HIDE DEF x
  <2> QED
    BY <1>9, <2>3, <2>4, CourierChange DEF Lookup, TypeOK
<1>10. ASSUME NEW k \in Evaluations \X Positions, NEW c \in Channels, Announce(k, c)
       PROVE  TypeInv'
  <2>1. courier[k] \in CourierStates /\ CourierLocals(courier[k]) /\ courier[k].pc = "announce"
    BY <1>10 DEF TypeOK, LocalsInv, Announce
  <2> DEFINE x == [courier[k] EXCEPT !.pc = "send", !.attempt = 1]
  <2>2. x \in CourierStates /\ CourierLocals(x)
    <3>1. 1 \in 0 .. MaxAttempts /\ 1 \in 1 .. MaxAttempts
      BY AlertAssumption DEF AlertAssumption
    <3> QED
      BY <2>1, <3>1 DEF CourierStates, CourierLocals
  <2>3. <<k[1], courier[k].alert, c>> \in DeliveryIds
    BY <2>1 DEF CourierLocals, DeliveryIds
  <2>4. deliveries' \in [DeliveryIds -> Rows \cup {None}]
    BY <1>0, <1>10, <2>3, SaveType DEF Announce
  <2>5. Step(k, x)
    BY <1>10 DEF Announce
  <2> HIDE DEF x
  <2> QED
    BY <1>10, <2>2, <2>4, <2>5, CourierChange DEF Announce, TypeOK
<1>11. ASSUME NEW k \in Evaluations \X Positions, NEW c \in Channels, Send(k, c)
       PROVE  TypeInv'
  <2>1. courier[k] \in CourierStates /\ CourierLocals(courier[k]) /\ courier[k].pc = "send"
    BY <1>11 DEF TypeOK, LocalsInv, Send
  <2> DEFINE x == IF c \in channels THEN [courier[k] EXCEPT !.pc = "post"]
                                    ELSE [courier[k] EXCEPT !.pc = "save", !.ok = FALSE]
  <2>2. x \in CourierStates /\ CourierLocals(x)
    BY <2>1 DEF CourierStates, CourierLocals
  <2>3. Step(k, x)
    BY <1>11 DEF Send
  <2> HIDE DEF x
  <2> QED
    BY <1>11, <2>2, <2>3, CourierChange DEF Send, TypeOK
<1>12. ASSUME NEW k \in Evaluations \X Positions, NEW c \in Channels, NEW ok \in BOOLEAN,
              Post(k, c, ok)
       PROVE  TypeInv'
  <2>1. courier[k] \in CourierStates /\ CourierLocals(courier[k]) /\ courier[k].pc = "post"
    BY <1>12 DEF TypeOK, LocalsInv, Post
  <2> DEFINE x == [courier[k] EXCEPT !.pc = "save", !.ok = ok]
  <2>2. x \in CourierStates /\ CourierLocals(x)
    BY <2>1 DEF CourierStates, CourierLocals
  <2>3. Step(k, x)
    BY <1>12 DEF Post
  <2>4. courier[k].alert \in Markers
    BY <2>1 DEF CourierLocals
  <2>5. posts' \in [Markers \X Channels -> Nat] /\ acks' \in [Markers \X Channels -> Nat]
    BY <1>12, <2>4 DEF Post, TypeOK
  <2> HIDE DEF x
  <2> QED
    BY <1>12, <2>2, <2>3, <2>5, CourierChange DEF Post, TypeOK
<1>13. ASSUME NEW k \in Evaluations \X Positions, NEW c \in Channels, SaveAttempt(k, c)
       PROVE  TypeInv'
  <2> DEFINE w == courier[k]
             x == IF Done(w) THEN NextChannel(w, c) ELSE [w EXCEPT !.pc = "send", !.attempt = @ + 1]
  <2>1. w \in CourierStates /\ CourierLocals(w) /\ w.pc = "save"
    BY <1>13 DEF TypeOK, LocalsInv, SaveAttempt
  <2>2. w.attempt \in 1 .. MaxAttempts /\ MaxAttempts \in Nat
    BY <2>1, AlertAssumption DEF CourierLocals, AlertAssumption
  <2>3. NextChannel(w, c) \in CourierStates /\ CourierLocals(NextChannel(w, c))
    BY <2>1, NextChannelType
  <2>5. x \in CourierStates /\ CourierLocals(x)
    <3>1. CASE Done(w)
      BY <2>3, <3>1
    <3>2. CASE ~Done(w)
      <4>1. w.attempt + 1 \in 1 .. MaxAttempts /\ w.attempt + 1 \in 0 .. MaxAttempts
        BY <2>2, <3>2 DEF Done
      <4>2. x = [w EXCEPT !.pc = "send", !.attempt = @ + 1]
        BY <3>2
      <4> QED
        BY <2>1, <4>1, <4>2 DEF CourierStates, CourierLocals
    <3> QED
      BY <3>1, <3>2
  <2>6. <<k[1], w.alert, c>> \in DeliveryIds
    BY <2>1 DEF CourierLocals, DeliveryIds
  <2>7. Status(w) \in {"pending", "delivered", "failed", "skipped"} /\ w.attempt \in 0 .. MaxAttempts
    BY <2>2 DEF Status
  <2>8. deliveries' \in [DeliveryIds -> Rows \cup {None}]
    <3>1. Save(<<k[1], w.alert, c>>, Status(w), w.attempt)
      BY <1>13 DEF SaveAttempt
    <3> QED
      BY <3>1, <2>6, <2>7, SaveType
  <2>9. Step(k, x)
    BY <1>13 DEF SaveAttempt
  <2> HIDE DEF x
  <2> QED
    BY <1>13, <2>5, <2>8, <2>9, CourierChange DEF SaveAttempt, TypeOK
<1>14. ASSUME NEW k \in Evaluations \X Positions, NEW c \in Channels, CourierFails(k, c)
       PROVE  TypeInv'
  <2>1. courier[k] \in CourierStates /\ CourierLocals(courier[k]) /\ courier[k].pc # "idle"
    BY <1>14 DEF TypeOK, LocalsInv, CourierFails
  <2> DEFINE x == IF courier[k].pc = "lookup" THEN [courier[k] EXCEPT !.pc = "failed"]
                                              ELSE NextChannel(courier[k], c)
  <2>2. NextChannel(courier[k], c) \in CourierStates /\ CourierLocals(NextChannel(courier[k], c))
    BY <2>1, NextChannelType
  <2>3. [courier[k] EXCEPT !.pc = "failed"] \in CourierStates
        /\ CourierLocals([courier[k] EXCEPT !.pc = "failed"])
    BY <2>1 DEF CourierStates, CourierLocals
  <2>4. x \in CourierStates /\ CourierLocals(x)
    BY <2>2, <2>3
  <2>5. Step(k, x)
    BY <1>14 DEF CourierFails
  <2> HIDE DEF x
  <2> QED
    BY <1>14, <2>4, <2>5, CourierChange DEF CourierFails, TypeOK
<1>15. ASSUME NEW c \in Channels, DeleteChannel(c)
       PROVE  TypeInv'
  BY <1>15 DEF DeleteChannel, TypeOK, LocalsInv
<1>16. ASSUME NEW p \in Managers, Crash(p)
       PROVE  TypeInv'
  <2>1. ASSUME NEW e \in Evaluations
        PROVE  eval'[e] \in EvalStates /\ EvalLocals(eval'[e])
    <3>1. eval[e] \in EvalStates /\ EvalLocals(eval[e])
      BY DEF TypeOK, LocalsInv
    <3>2. CASE eval[e].mgr = p /\ eval[e].pc # "done"
      <4>1. eval[e].pc # "idle"
        BY <3>1, <3>2, AlertAssumption DEF EvalLocals, AlertAssumption
      <4>2. eval'[e] = Stopped(eval[e])
        BY <1>16, <3>2 DEF Crash
      <4> QED
        BY <3>1, <4>1, <4>2, EndedType DEF EvalLocals
    <3>3. CASE ~(eval[e].mgr = p /\ eval[e].pc # "done")
      BY <1>16, <3>1, <3>3 DEF Crash
    <3> QED
      BY <3>2, <3>3
  <2>2. ASSUME NEW k \in Evaluations \X Positions
        PROVE  courier'[k] \in CourierStates /\ CourierLocals(courier'[k])
    <3>1. courier[k] \in CourierStates /\ CourierLocals(courier[k]) /\ k \in DOMAIN courier
      BY DEF TypeOK, LocalsInv
    <3>2. CASE courier[k].mgr = p /\ courier[k].pc # "done"
      <4>1. courier[k].pc # "idle"
        BY <3>1, <3>2, AlertAssumption DEF CourierLocals, AlertAssumption
      <4>2. courier'[k] = [courier[k] EXCEPT !.pc = "failed"]
        BY <1>16, <3>1, <3>2 DEF Crash
      <4> QED
        BY <3>1, <4>1, <4>2 DEF CourierStates, CourierLocals
    <3>3. CASE ~(courier[k].mgr = p /\ courier[k].pc # "done")
      BY <1>16, <3>1, <3>3 DEF Crash
    <3> QED
      BY <3>2, <3>3
  <2>3. eval' \in [Evaluations -> EvalStates] /\ courier' \in [Evaluations \X Positions -> CourierStates]
    <3>1. eval' = [e \in Evaluations |-> eval'[e]]
      BY <1>16 DEF Crash
    <3>2. courier' = [k \in Evaluations \X Positions |-> courier'[k]]
      BY <1>16 DEF Crash, TypeOK
    <3> QED
      BY <2>1, <2>2, <3>1, <3>2
  <2>4. fired' \in [Managers -> SUBSET Markers]
    BY <1>16 DEF Crash, TypeOK
  <2> QED
    BY <1>16, <2>1, <2>2, <2>3, <2>4 DEF Crash, TypeOK, LocalsInv
<1>17. CASE UNCHANGED vars
  BY <1>17 DEF vars, TypeOK, LocalsInv
<1>18. DOMAIN courier = Evaluations \X Positions
  BY DEF TypeOK
<1> QED
  BY <1>1, <1>2, <1>3, <1>4, <1>5, <1>6, <1>7, <1>8, <1>9, <1>10, <1>11, <1>12, <1>13, <1>14,
     <1>15, <1>16, <1>17, <1>18, Zenon DEF Next, EvalStep, CourierStep

\* The tables, memories and coroutines always have the values the code gives them.
THEOREM Typed == Spec => []TypeOK
<1>1. Init => TypeInv
  BY InitType
<1>2. TypeInv /\ [Next]_vars => TypeInv'
  BY TypeStep
<1>3. TypeInv => TypeOK
  BY DEF TypeInv
<1> QED
  BY <1>1, <1>2, <1>3, PTL DEF Spec

-----------------------------------------------------------------------------
(* Which call raised which alert *)

\* While a call is at a usage, the alerts it raised for that usage are the fresh ones (and
\* the one whose insert has just succeeded); it has raised none for the usages that follow,
\* and their couriers and its own are not yet started.
RaisedOK(e, w) ==
    /\ w.pc = "idle" => /\ \A m \in Markers : alerts[m] # e
                        /\ \A i \in Positions : courier[<<e, i>>].pc = "idle"
    /\ w.pc \in Active =>
          /\ \A t \in w.fresh : alerts[Marker(w.usages[w.at], t)] = e
          /\ \A t \in Thresholds : alerts[Marker(w.usages[w.at], t)] = e =>
                t \in w.fresh \/ (w.pc = "inserted" /\ w.inserted /\ t = w.th)
          /\ \A i \in DOMAIN w.usages : \A t \in Thresholds :
                i > w.at => alerts[Marker(w.usages[i], t)] # e
          /\ \A i \in Positions : i >= w.at => courier[<<e, i>>].pc = "idle"
    /\ w.pc = "inserted" /\ w.inserted => alerts[Marker(w.usages[w.at], w.th)] = e

\* A courier carries the highest of the alerts its call raised for its usage.
CourierOK(e, i) ==
    LET x == courier[<<e, i>>] us == eval[e].usages
    IN  x.pc # "idle" =>
          /\ us \in UsageLists /\ i \in DOMAIN us
          /\ \E t \in Thresholds :
                /\ x.alert = Marker(us[i], t) /\ alerts[x.alert] = e
                /\ \A h \in Thresholds : alerts[Marker(us[i], h)] = e => h <= t

OwnInv ==
    /\ \A e \in Evaluations : RaisedOK(e, eval[e])
    /\ \A e \in Evaluations, i \in Positions : CourierOK(e, i)

\* The usages of a list are of different budgets, so their markers differ.
LEMMA MarkersDiffer ==
    ASSUME NEW us \in UsageLists, NEW i \in DOMAIN us, NEW j \in DOMAIN us, NEW t, NEW h,
           Marker(us[i], t) = Marker(us[j], h)
    PROVE  i = j /\ t = h
<1>1. us[i].budget = us[j].budget /\ t = h
  BY DEF Marker
<1> QED
  BY <1>1, AlertAssumption DEF AlertAssumption

\* The call of a courier is past the courier's usage, so it never raises its alert's peers.
LEMMA CourierApart ==
    ASSUME TypeInv, OwnInv, NEW e \in Evaluations, NEW i \in Positions, eval[e].pc \in Active,
           courier[<<e, i>>].pc # "idle", NEW t
    PROVE  /\ i \in DOMAIN eval[e].usages /\ i # eval[e].at
           /\ \A h : Marker(eval[e].usages[i], h) # Marker(eval[e].usages[eval[e].at], t)
           /\ courier[<<e, i>>].alert # Marker(eval[e].usages[eval[e].at], t)
<1>1. RaisedOK(e, eval[e]) /\ CourierOK(e, i) /\ EvalLocals(eval[e])
  BY DEF OwnInv, TypeInv, LocalsInv
<1>2. /\ eval[e].usages \in UsageLists /\ i \in DOMAIN eval[e].usages
      /\ \E u \in Thresholds : courier[<<e, i>>].alert = Marker(eval[e].usages[i], u)
  BY <1>1 DEF CourierOK
<1>3. eval[e].at \in DOMAIN eval[e].usages /\ eval[e].at \in Nat /\ i \in Nat
  BY <1>1, <1>2, UsageFacts DEF EvalLocals, Active
<1>4. i # eval[e].at
  BY <1>1, <1>3 DEF RaisedOK
<1> QED
  BY <1>2, <1>3, <1>4, MarkersDiffer

\* FromUsage keeps OwnInv when nothing was raised for the usages ahead.
LEMMA FromUsageOwn ==
    ASSUME TypeInv, NEW e \in Evaluations, NEW w \in EvalStates, NEW i \in Nat,
           w.usages \in UsageLists, w.mgr \in Managers, FromUsage(e, w, i), alerts' = alerts,
           \A j \in DOMAIN w.usages : \A t \in Thresholds :
              j >= i => alerts[Marker(w.usages[j], t)] # e,
           \A j \in Positions : j >= i => courier'[<<e, j>>].pc = "idle"
    PROVE  /\ RaisedOK(e, eval[e])' /\ eval'[e].usages = w.usages
           /\ \A f \in Evaluations : f # e => eval'[f] = eval[f]
<1>1. CASE eval' = [eval EXCEPT ![e] = Ended(w)]
  <2>1. /\ eval'[e].pc = "done" /\ eval'[e].usages = w.usages
        /\ \A f \in Evaluations : f # e => eval'[f] = eval[f]
    BY <1>1 DEF TypeInv, TypeOK, Ended, Idle
  <2> QED
    BY <2>1 DEF RaisedOK, Active
<1>2. ASSUME NEW j \in DOMAIN w.usages, NEW t \in w.usages[j].thresholds, j >= i,
             eval' = [eval EXCEPT ![e] = Waiting(w, j, t, {})]
      PROVE  /\ RaisedOK(e, eval[e])' /\ eval'[e].usages = w.usages
             /\ \A f \in Evaluations : f # e => eval'[f] = eval[f]
  <2>1. /\ \A f \in Evaluations : f # e => eval'[f] = eval[f]
        /\ eval'[e].pc = "insert" /\ eval'[e].at = j /\ eval'[e].fresh = {}
        /\ eval'[e].usages = w.usages
    BY <1>2 DEF TypeInv, TypeOK, Waiting, EvalStates
  <2>2. j \in Nat /\ \A h \in DOMAIN w.usages : h \in Nat
    BY UsageFacts
  <2>3. \A h \in DOMAIN w.usages : h >= j => h >= i
    BY <1>2, <2>2
  <2>4. \A h \in Positions : h >= j => courier'[<<e, h>>].pc = "idle"
    <3>1. \A h \in Positions : h \in Nat
      BY AlertAssumption, PositionsAreNat
    <3> QED
      BY <1>2, <2>2, <3>1
  <2> QED
    BY <1>2, <2>1, <2>2, <2>3, <2>4 DEF RaisedOK, Active
<1>3. \/ eval' = [eval EXCEPT ![e] = Ended(w)]
      \/ \E j \in DOMAIN w.usages : \E t \in w.usages[j].thresholds :
            j >= i /\ eval' = [eval EXCEPT ![e] = Waiting(w, j, t, {})]
  <2>1. \/ eval' = [eval EXCEPT ![e] = Ended(w)] /\ fired' = fired
        \/ \E j \in DOMAIN w.usages : \E t \in w.usages[j].thresholds :
              /\ j >= i
              /\ eval' = [eval EXCEPT ![e] = Waiting(w, j, t, {})]
              /\ Remember(w.mgr, Marker(w.usages[j], t))
    BY FromUsageEffect
  <2> QED
    BY <2>1
<1> QED
  BY <1>1, <1>2, <1>3

\* A step of one call that raises no alert and starts no courier.
LEMMA EvalOnlyOwn ==
    ASSUME OwnInv, NEW e \in Evaluations, UNCHANGED <<alerts, courier>>,
           RaisedOK(e, eval[e])', \A f \in Evaluations : f # e => eval'[f] = eval[f],
           eval[e].pc = "idle" \/ eval'[e].usages = eval[e].usages
    PROVE  OwnInv'
<1>1. ASSUME NEW f \in Evaluations PROVE RaisedOK(f, eval[f])'
  BY <1>1 DEF OwnInv, RaisedOK
<1>2. ASSUME NEW f \in Evaluations, NEW i \in Positions PROVE CourierOK(f, i)'
  <2>1. CourierOK(f, i) /\ RaisedOK(f, eval[f])
    BY DEF OwnInv
  <2>2. CASE eval[f].pc = "idle"
    BY <2>1, <2>2 DEF RaisedOK, CourierOK
  <2>3. CASE eval'[f].usages = eval[f].usages
    BY <2>1, <2>3 DEF CourierOK
  <2> QED
    BY <2>2, <2>3
<1> QED
  BY <1>1, <1>2 DEF OwnInv

\* A step of a courier.
LEMMA CourierOnlyOwn ==
    ASSUME TypeInv, OwnInv, NEW k \in Evaluations \X Positions, NEW x, Step(k, x),
           UNCHANGED <<alerts, eval>>,
           courier[k].pc # "idle", x.pc # "idle", x.alert = courier[k].alert
    PROVE  OwnInv'
<1>1. ASSUME NEW f \in Evaluations, NEW i \in Positions
      PROVE  /\ courier'[<<f, i>>].pc = "idle" <=> courier[<<f, i>>].pc = "idle"
             /\ courier'[<<f, i>>].alert = courier[<<f, i>>].alert
  BY DEF Step, TypeInv, TypeOK
<1>2. ASSUME NEW f \in Evaluations PROVE RaisedOK(f, eval[f])'
  BY <1>1 DEF OwnInv, RaisedOK
<1>3. ASSUME NEW f \in Evaluations, NEW i \in Positions PROVE CourierOK(f, i)'
  <2>1. CourierOK(f, i)
    BY DEF OwnInv
  <2> QED
    BY <1>1, <2>1 DEF CourierOK
<1> QED
  BY <1>2, <1>3 DEF OwnInv

\* Starting the courier of the highest fresh alert.
LEMMA SpawnOwn ==
    ASSUME TypeInv, OwnInv, NEW e \in Evaluations, NEW w \in EvalStates,
           eval[e].pc \in Active, w.usages = eval[e].usages, w.mgr = eval[e].mgr,
           w.at = eval[e].at, w.fresh \subseteq w.usages[w.at].thresholds,
           \A t \in w.fresh : alerts[Marker(w.usages[w.at], t)] = e,
           \A t \in Thresholds : alerts[Marker(w.usages[w.at], t)] = e => t \in w.fresh,
           Spawn(e, w), alerts' = alerts
    PROVE  OwnInv'
<1>1. RaisedOK(e, eval[e]) /\ EvalLocals(eval[e])
  BY DEF OwnInv, TypeInv, LocalsInv
<1>2. w.usages \in UsageLists /\ w.mgr \in Managers /\ w.at \in DOMAIN w.usages
  BY <1>1 DEF EvalLocals
<1>3. PICK t \in w.fresh : IsLast(t, w.fresh) /\ courier' = [courier EXCEPT ![<<e, w.at>>] = Sent(w, t)]
  BY Zenon DEF Spawn, Sent, Message
<1>4. w.at \in Nat /\ w.at \in Positions /\ t \in Thresholds
  BY <1>2, UsageFacts
<1>5. /\ courier'[<<e, w.at>>] = Sent(w, t)
      /\ \A f \in Evaluations, j \in Positions : <<f, j>> # <<e, w.at>> => courier'[<<f, j>>] = courier[<<f, j>>]
  BY <1>3, <1>4 DEF TypeInv, TypeOK
<1>6. FromUsage(e, w, w.at + 1)
  BY DEF Spawn
<1>7. \A j \in Positions : j >= w.at + 1 => courier'[<<e, j>>].pc = "idle"
  BY <1>1, <1>4, <1>5, PositionsAreNat DEF RaisedOK
<1>8. \A j \in DOMAIN w.usages : \A h \in Thresholds :
         j >= w.at + 1 => alerts[Marker(w.usages[j], h)] # e
  <2>1. \A j \in DOMAIN w.usages : j \in Nat
    BY <1>2, UsageFacts
  <2> QED
    BY <1>1, <1>4, <2>1 DEF RaisedOK
<1>9. /\ RaisedOK(e, eval[e])' /\ eval'[e].usages = w.usages
      /\ \A f \in Evaluations : f # e => eval'[f] = eval[f]
  BY <1>2, <1>4, <1>6, <1>7, <1>8, FromUsageOwn
<1>10. ASSUME NEW f \in Evaluations PROVE RaisedOK(f, eval[f])'
  <2>1. CASE f = e
    BY <1>9, <2>1
  <2>2. CASE f # e
    <3>1. eval'[f] = eval[f] /\ \A j \in Positions : courier'[<<f, j>>] = courier[<<f, j>>]
      BY <1>5, <1>9, <2>2
    <3> QED
      BY <3>1 DEF OwnInv, RaisedOK
  <2> QED
    BY <2>1, <2>2
<1>11. ASSUME NEW f \in Evaluations, NEW j \in Positions PROVE CourierOK(f, j)'
  <2>1. eval'[f].usages = eval[f].usages
    BY <1>9
  <2>2. CASE <<f, j>> # <<e, w.at>>
    <3>1. courier'[<<f, j>>] = courier[<<f, j>>] /\ CourierOK(f, j)
      BY <1>5, <2>2 DEF OwnInv
    <3> QED
      BY <2>1, <3>1 DEF CourierOK
  <2>3. CASE f = e /\ j = w.at
    <3>1. courier'[<<f, j>>].alert = Marker(w.usages[w.at], t)
      BY <1>5, <2>3 DEF Sent, NoCourier
    <3>2. alerts[Marker(w.usages[w.at], t)] = e
      OBVIOUS
    <3>3. \A h \in Thresholds : alerts[Marker(w.usages[w.at], h)] = e => h <= t
      BY <1>3 DEF IsLast
    <3> QED
      BY <1>2, <1>4, <2>1, <2>3, <3>1, <3>2, <3>3 DEF CourierOK
  <2> QED
    BY <2>2, <2>3
<1> QED
  BY <1>10, <1>11 DEF OwnInv

\* The insert of an alert, successful or not.
LEMMA InsertOwn ==
    ASSUME TypeInv, OwnInv, NEW e \in Evaluations, Insert(e)
    PROVE  OwnInv'
<1> DEFINE w == eval[e]
           m == Marker(w.usages[w.at], w.th)
<1>1. RaisedOK(e, w) /\ EvalLocals(w) /\ w \in EvalStates /\ w.pc = "insert"
  BY DEF OwnInv, TypeInv, TypeOK, LocalsInv, Insert
<1>2. w.usages \in UsageLists /\ w.at \in DOMAIN w.usages /\ w.th \in w.usages[w.at].thresholds
  BY <1>1 DEF EvalLocals, Active
<1>3. m \in Markers /\ w.th \in Thresholds /\ w.at \in Nat
  BY <1>2, UsageFacts
<1>4. /\ eval'[e] = [w EXCEPT !.pc = "inserted", !.inserted = (alerts[m] = None)]
      /\ \A f \in Evaluations : f # e => eval'[f] = eval[f]
      /\ alerts' = [alerts EXCEPT ![m] = IF @ = None THEN e ELSE @]
      /\ courier' = courier
  BY DEF Insert, TypeInv, TypeOK
<1>5. /\ eval'[e].pc = "inserted" /\ eval'[e].usages = w.usages /\ eval'[e].at = w.at
      /\ eval'[e].th = w.th /\ eval'[e].fresh = w.fresh /\ eval'[e].inserted = (alerts[m] = None)
  BY <1>1, <1>4 DEF EvalStates
<1>6. /\ None \notin Evaluations
      /\ \A n \in Markers : \/ alerts'[n] = alerts[n]
                            \/ (n = m /\ alerts'[n] = e /\ alerts[n] = None)
  BY <1>3, <1>4, AlertAssumption DEF TypeInv, TypeOK, AlertAssumption
<1>7. \A us \in UsageLists : \A i \in DOMAIN us : \A t \in Thresholds : Marker(us[i], t) \in Markers
  BY UsageFacts
<1> HIDE DEF m
<1>8. ASSUME NEW f \in Evaluations, f # e PROVE RaisedOK(f, eval[f])'
  <2>1. RaisedOK(f, eval[f]) /\ EvalLocals(eval[f]) /\ eval'[f] = eval[f]
    BY <1>4, <1>8 DEF OwnInv, TypeInv, LocalsInv
  <2>2. \A n \in Markers : alerts'[n] = f <=> alerts[n] = f
    BY <1>6, <1>8
  <2>3. CASE eval[f].pc \in Active
    <3>1. eval[f].usages \in UsageLists /\ eval[f].at \in DOMAIN eval[f].usages
          /\ eval[f].fresh \subseteq Thresholds /\ eval[f].th \in Thresholds
      BY <2>1, <2>3, UsageFacts DEF EvalLocals, Active
    <3> QED
      BY <1>4, <1>7, <2>1, <2>2, <2>3, <3>1 DEF RaisedOK, Active
  <2>4. CASE eval[f].pc \notin Active
    BY <1>4, <2>1, <2>2, <2>4 DEF RaisedOK, Active
  <2> QED
    BY <2>3, <2>4
<1>9. RaisedOK(e, eval[e])'
  <2>1. \A t \in w.fresh : alerts'[Marker(w.usages[w.at], t)] = e
    <3> SUFFICES ASSUME NEW t \in w.fresh PROVE alerts'[Marker(w.usages[w.at], t)] = e
      OBVIOUS
    <3>1. t \in Thresholds /\ alerts[Marker(w.usages[w.at], t)] = e
      BY <1>1, <1>2, UsageFacts DEF RaisedOK, EvalLocals, Active
    <3> QED
      BY <1>2, <1>6, <1>7, <3>1
  <2>2. \A t \in Thresholds : alerts'[Marker(w.usages[w.at], t)] = e =>
           t \in w.fresh \/ (alerts[m] = None /\ t = w.th)
    <3> SUFFICES ASSUME NEW t \in Thresholds, alerts'[Marker(w.usages[w.at], t)] = e
                 PROVE  t \in w.fresh \/ (alerts[m] = None /\ t = w.th)
      OBVIOUS
    <3>1. CASE alerts[Marker(w.usages[w.at], t)] = e
      BY <1>1, <3>1 DEF RaisedOK, Active
    <3>2. CASE alerts[Marker(w.usages[w.at], t)] # e
      <4>1. Marker(w.usages[w.at], t) = m /\ alerts[m] = None
        BY <1>2, <1>6, <1>7, <3>2
      <4> QED
        BY <1>2, <4>1, MarkersDiffer DEF m
    <3> QED
      BY <3>1, <3>2
  <2>3. \A i \in DOMAIN w.usages : \A t \in Thresholds :
           i > w.at => alerts'[Marker(w.usages[i], t)] # e
    <3> SUFFICES ASSUME NEW i \in DOMAIN w.usages, NEW t \in Thresholds, i > w.at
                 PROVE  alerts'[Marker(w.usages[i], t)] # e
      OBVIOUS
    <3>1. i \in Nat /\ i # w.at
      BY <1>2, <1>3, UsageFacts
    <3>2. Marker(w.usages[i], t) # m
      BY <1>2, <3>1, MarkersDiffer DEF m
    <3>3. alerts[Marker(w.usages[i], t)] # e
      BY <1>1 DEF RaisedOK, Active
    <3> QED
      BY <1>2, <1>6, <1>7, <3>2, <3>3
  <2>4. alerts[m] = None => alerts'[m] = e
    BY <1>3, <1>4 DEF TypeInv, TypeOK
  <2>5. \A i \in Positions : i >= w.at => courier'[<<e, i>>].pc = "idle"
    BY <1>1, <1>4 DEF RaisedOK, Active
  <2>6. alerts[m] = None => alerts'[Marker(w.usages[w.at], w.th)] = e
    BY <2>4 DEF m
  <2>7. eval'[e].inserted <=> alerts[m] = None
    BY <1>5
  <2>8. /\ \A t \in eval'[e].fresh : alerts'[Marker(eval'[e].usages[eval'[e].at], t)] = e
        /\ \A i \in DOMAIN eval'[e].usages : \A t \in Thresholds :
              i > eval'[e].at => alerts'[Marker(eval'[e].usages[i], t)] # e
        /\ \A i \in Positions : i >= eval'[e].at => courier'[<<e, i>>].pc = "idle"
    BY <1>5, <2>1, <2>3, <2>5
  <2>9. \A t \in Thresholds : alerts'[Marker(eval'[e].usages[eval'[e].at], t)] = e =>
           t \in eval'[e].fresh \/ (eval'[e].pc = "inserted" /\ eval'[e].inserted /\ t = eval'[e].th)
    BY <1>5, <2>2, <2>7
  <2>10. eval'[e].inserted => alerts'[Marker(eval'[e].usages[eval'[e].at], eval'[e].th)] = e
    BY <1>5, <2>6, <2>7
  <2>11. eval'[e].pc # "idle" /\ eval'[e].pc \in Active
    BY <1>5 DEF Active
  <2> QED
    BY <2>8, <2>9, <2>10, <2>11 DEF RaisedOK
<1>10. ASSUME NEW f \in Evaluations, NEW i \in Positions PROVE CourierOK(f, i)'
  <2>1. CourierOK(f, i) /\ eval'[f].usages = eval[f].usages /\ courier' = courier
    BY <1>4, <1>5 DEF OwnInv
  <2> SUFFICES ASSUME courier[<<f, i>>].pc # "idle" PROVE CourierOK(f, i)'
    BY <2>1 DEF CourierOK
  <2> DEFINE us == eval[f].usages
  <2>2. us \in UsageLists /\ i \in DOMAIN us
    BY <2>1 DEF CourierOK
  <2>3. PICK t \in Thresholds : /\ courier[<<f, i>>].alert = Marker(us[i], t)
                                /\ alerts[courier[<<f, i>>].alert] = f
                                /\ \A h \in Thresholds : alerts[Marker(us[i], h)] = f => h <= t
    BY <2>1 DEF CourierOK
  <2>4. alerts'[courier[<<f, i>>].alert] = f
    BY <1>6, <1>7, <2>2, <2>3
  <2>5. \A h \in Thresholds : alerts'[Marker(us[i], h)] = f => alerts[Marker(us[i], h)] = f
    <3> SUFFICES ASSUME NEW h \in Thresholds, alerts'[Marker(us[i], h)] = f,
                        alerts[Marker(us[i], h)] # f
                 PROVE  FALSE
      OBVIOUS
    <3>1. Marker(us[i], h) = m /\ f = e
      BY <1>6, <1>7, <2>2
    <3>2. Marker(w.usages[i], h) # Marker(w.usages[w.at], w.th)
      BY <1>1, <3>1, CourierApart DEF Active
    <3> QED
      BY <3>1, <3>2 DEF m
  <2> QED
    BY <2>1, <2>2, <2>3, <2>4, <2>5 DEF CourierOK
<1> QED
  BY <1>8, <1>9, <1>10 DEF OwnInv

\* The locals of Inserted: the new alert has become fresh.
Freshened(w) ==
    [w EXCEPT !.fresh = IF w.inserted THEN @ \cup {w.th} ELSE @, !.inserted = FALSE]

LEMMA FreshenedFacts ==
    ASSUME TypeInv, OwnInv, NEW e \in Evaluations, eval[e].pc = "inserted", NEW w, w = Freshened(eval[e])
    PROVE  /\ w \in EvalStates /\ EvalLocals(w) /\ w.pc = "inserted" /\ w.inserted = FALSE
           /\ w.usages = eval[e].usages /\ w.mgr = eval[e].mgr /\ w.at = eval[e].at
           /\ w.th = eval[e].th
           /\ w.usages \in UsageLists /\ w.mgr \in Managers /\ w.at \in DOMAIN w.usages
           /\ w.at \in Nat /\ w.fresh \subseteq w.usages[w.at].thresholds /\ w.fresh \subseteq Thresholds
           /\ RaisedOK(e, w)
           /\ \A t \in Thresholds : alerts[Marker(w.usages[w.at], t)] = e => t \in w.fresh
<1> DEFINE v == eval[e]
<1>1. v \in EvalStates /\ EvalLocals(v) /\ RaisedOK(e, v) /\ v.pc = "inserted"
  BY DEF TypeInv, TypeOK, LocalsInv, OwnInv
<1>2. /\ v.usages \in UsageLists /\ v.mgr \in Managers /\ v.at \in DOMAIN v.usages
      /\ v.th \in v.usages[v.at].thresholds /\ v.fresh \subseteq v.usages[v.at].thresholds
      /\ v.skips = {}
  BY <1>1 DEF EvalLocals, Active
<1>3. v.th \in Thresholds /\ v.at \in Nat /\ v.usages[v.at].thresholds \subseteq Thresholds
  BY <1>2, UsageFacts
<1>4. /\ w.pc = "inserted" /\ w.inserted = FALSE /\ w.usages = v.usages /\ w.mgr = v.mgr
      /\ w.at = v.at /\ w.th = v.th /\ w.skips = v.skips
      /\ w.fresh = IF v.inserted THEN v.fresh \cup {v.th} ELSE v.fresh
  BY <1>1 DEF Freshened, EvalStates
<1>5. w \in EvalStates
  BY <1>1, <1>3 DEF Freshened, EvalStates
<1>6. EvalLocals(w)
  BY <1>2, <1>4 DEF EvalLocals, Active
<1>7. \A t \in Thresholds : alerts[Marker(w.usages[w.at], t)] = e => t \in w.fresh
  BY <1>1, <1>4 DEF RaisedOK, Active
<1>8. \A t \in w.fresh : alerts[Marker(w.usages[w.at], t)] = e
  BY <1>1, <1>4 DEF RaisedOK, Active
<1>9. RaisedOK(e, w)
  BY <1>1, <1>4, <1>7, <1>8 DEF RaisedOK, Active
<1> QED
  BY <1>2, <1>3, <1>4, <1>5, <1>6, <1>7, <1>9

LEMMA DispatchOwn ==
    ASSUME TypeInv, OwnInv, NEW e \in Evaluations, eval[e].pc = "inserted",
           NEW w, w = Freshened(eval[e]), Dispatch(e, w), alerts' = alerts
    PROVE  OwnInv'
<1> DEFINE skips == {t \in w.fresh : ~Message(t, w.fresh)} \X w.usages[w.at].channels
<1>1. /\ w \in EvalStates /\ w.usages = eval[e].usages /\ w.mgr = eval[e].mgr /\ w.at = eval[e].at
      /\ w.fresh \subseteq w.usages[w.at].thresholds /\ RaisedOK(e, w) /\ w.pc = "inserted"
      /\ \A t \in Thresholds : alerts[Marker(w.usages[w.at], t)] = e => t \in w.fresh
  BY FreshenedFacts
<1>2. CASE skips = {} /\ Spawn(e, w)
  <2>1. \A t \in w.fresh : alerts[Marker(w.usages[w.at], t)] = e
    BY <1>1 DEF RaisedOK, Active
  <2>2. eval[e].pc \in Active
    BY DEF Active
  <2> QED
    BY <1>1, <1>2, <2>1, <2>2, SpawnOwn
<1>3. CASE /\ skips # {}
           /\ eval' = [eval EXCEPT ![e] = [w EXCEPT !.pc = "lookup", !.skips = skips]]
           /\ UNCHANGED <<fired, courier>>
  <2>1. /\ eval'[e] = [w EXCEPT !.pc = "lookup", !.skips = skips]
        /\ \A f \in Evaluations : f # e => eval'[f] = eval[f]
    BY <1>3 DEF TypeInv, TypeOK
  <2> HIDE DEF skips
  <2>2. /\ eval'[e].pc = "lookup" /\ eval'[e].usages = w.usages /\ eval'[e].at = w.at
        /\ eval'[e].fresh = w.fresh
    BY <1>1, <2>1 DEF EvalStates
  <2>3. RaisedOK(e, eval[e])'
    BY <1>1, <1>3, <2>2 DEF RaisedOK, Active
  <2> QED
    BY <1>1, <1>3, <2>1, <2>2, <2>3, EvalOnlyOwn
<1> QED
  BY <1>2, <1>3, Zenon DEF Dispatch

LEMMA InsertedOwn ==
    ASSUME TypeInv, OwnInv, NEW e \in Evaluations, Inserted(e)
    PROVE  OwnInv'
<1> DEFINE w == Freshened(eval[e])
           rest == Candidates(w, w.at, w.th)
<1>0. eval[e].pc = "inserted" /\ alerts' = alerts
  BY DEF Inserted
<1> HIDE DEF w
<1>1. /\ w \in EvalStates /\ EvalLocals(w) /\ w.usages = eval[e].usages /\ w.mgr = eval[e].mgr
      /\ w.at = eval[e].at /\ w.th = eval[e].th /\ w.pc = "inserted"
      /\ w.usages \in UsageLists /\ w.mgr \in Managers /\ w.at \in DOMAIN w.usages
      /\ w.at \in Nat /\ RaisedOK(e, w)
      /\ \A t \in Thresholds : alerts[Marker(w.usages[w.at], t)] = e => t \in w.fresh
  BY <1>0, FreshenedFacts DEF w
<1>2. \/ (\E t \in rest : IsFirst(t, rest) /\ ToInsert(e, w, w.at, t, w.fresh)) /\ UNCHANGED courier
      \/ (rest = {} /\ w.fresh = {} /\ FromUsage(e, w, w.at + 1) /\ UNCHANGED courier)
      \/ (rest = {} /\ w.fresh # {} /\ Dispatch(e, w))
  BY DEF Inserted, w, Freshened
<1>3. CASE (\E t \in rest : IsFirst(t, rest) /\ ToInsert(e, w, w.at, t, w.fresh)) /\ UNCHANGED courier
  <2>1. PICK t \in rest : ToInsert(e, w, w.at, t, w.fresh)
    BY <1>3
  <2>2. /\ eval'[e] = Waiting(w, w.at, t, w.fresh)
        /\ \A f \in Evaluations : f # e => eval'[f] = eval[f]
    BY <2>1 DEF ToInsert, Waiting, TypeInv, TypeOK
  <2>3. /\ eval'[e].pc = "insert" /\ eval'[e].usages = w.usages /\ eval'[e].at = w.at
        /\ eval'[e].fresh = w.fresh
    BY <1>1, <2>2 DEF Waiting, EvalStates
  <2>4. RaisedOK(e, eval[e])'
    BY <1>0, <1>1, <1>3, <2>3 DEF RaisedOK, Active
  <2> QED
    BY <1>0, <1>1, <1>3, <2>2, <2>3, <2>4, EvalOnlyOwn
<1>4. CASE w.fresh = {} /\ FromUsage(e, w, w.at + 1) /\ UNCHANGED courier
  <2>1. \A j \in DOMAIN w.usages : j \in Nat
    BY <1>1, UsageFacts
  <2>2. \A j \in DOMAIN w.usages : \A t \in Thresholds :
           j >= w.at + 1 => alerts[Marker(w.usages[j], t)] # e
    BY <1>1, <2>1 DEF RaisedOK, Active
  <2>3. \A j \in Positions : j >= w.at + 1 => courier'[<<e, j>>].pc = "idle"
    BY <1>1, <1>4, PositionsAreNat DEF RaisedOK, Active
  <2>4. /\ RaisedOK(e, eval[e])' /\ eval'[e].usages = w.usages
        /\ \A f \in Evaluations : f # e => eval'[f] = eval[f]
    BY <1>0, <1>1, <1>4, <2>2, <2>3, FromUsageOwn
  <2> QED
    BY <1>0, <1>1, <1>4, <2>4, EvalOnlyOwn
<1>5. CASE Dispatch(e, w)
  BY <1>0, <1>5, DispatchOwn DEF w
<1> QED
  BY <1>2, <1>3, <1>4, <1>5

LEMMA SkippedOwn ==
    ASSUME TypeInv, OwnInv, NEW e \in Evaluations, Skipped(e)
    PROVE  OwnInv'
<1>1. /\ eval[e] \in EvalStates /\ EvalLocals(eval[e]) /\ RaisedOK(e, eval[e])
      /\ eval[e].pc = "skipped" /\ alerts' = alerts
  BY DEF TypeInv, TypeOK, LocalsInv, OwnInv, Skipped
<1>2. PICK s \in eval[e].skips :
         LET w == [eval[e] EXCEPT !.skips = @ \ {s}]
         IN  \/ /\ w.skips # {}
                /\ eval' = [eval EXCEPT ![e] = [w EXCEPT !.pc = "lookup"]]
                /\ UNCHANGED <<fired, courier>>
             \/ (w.skips = {} /\ Spawn(e, w))
  BY DEF Skipped
<1> DEFINE w == [eval[e] EXCEPT !.skips = @ \ {s}]
<1>3. /\ w \in EvalStates /\ w.usages = eval[e].usages /\ w.mgr = eval[e].mgr
      /\ w.at = eval[e].at /\ w.fresh = eval[e].fresh
      /\ w.fresh \subseteq w.usages[w.at].thresholds
  BY <1>1 DEF EvalStates, EvalLocals, Active
<1>4. CASE eval' = [eval EXCEPT ![e] = [w EXCEPT !.pc = "lookup"]] /\ courier' = courier
  <2>1. /\ eval'[e] = [w EXCEPT !.pc = "lookup"]
        /\ \A f \in Evaluations : f # e => eval'[f] = eval[f]
    BY <1>4 DEF TypeInv, TypeOK
  <2> HIDE DEF w
  <2>2. /\ eval'[e].pc = "lookup" /\ eval'[e].usages = eval[e].usages
        /\ eval'[e].at = eval[e].at /\ eval'[e].fresh = eval[e].fresh
    BY <1>3, <2>1 DEF EvalStates
  <2>3. RaisedOK(e, eval[e])'
    BY <1>1, <1>4, <2>2 DEF RaisedOK, Active
  <2> QED
    BY <1>1, <1>4, <2>1, <2>2, <2>3, EvalOnlyOwn
<1>5. CASE Spawn(e, w)
  <2>1. /\ \A t \in w.fresh : alerts[Marker(w.usages[w.at], t)] = e
        /\ \A t \in Thresholds : alerts[Marker(w.usages[w.at], t)] = e => t \in w.fresh
    BY <1>1, <1>3 DEF RaisedOK, Active
  <2>2. eval[e].pc \in Active
    BY <1>1 DEF Active
  <2> HIDE DEF w
  <2> QED
    BY <1>1, <1>3, <1>5, <2>1, <2>2, SpawnOwn
<1> QED
  BY <1>2, <1>4, <1>5

LEMMA OwnStep == TypeInv /\ OwnInv /\ [Next]_vars => OwnInv'
<1> SUFFICES ASSUME TypeInv, OwnInv, [Next]_vars PROVE OwnInv'
  OBVIOUS
<1>1. ASSUME NEW e \in Evaluations, NEW p \in Managers, NEW us \in UsageLists,
             Evaluate(e, p, us)
      PROVE  OwnInv'
  <2> DEFINE w == [Idle EXCEPT !.mgr = p, !.usages = us]
  <2>1. w \in EvalStates /\ w.usages = us /\ w.mgr = p
    BY DEF Idle, EvalStates
  <2> HIDE DEF w
  <2>2. FromUsage(e, w, 1) /\ eval[e].pc = "idle" /\ UNCHANGED <<alerts, courier>>
    BY <1>1 DEF Evaluate, w
  <2>3. /\ \A m \in Markers : alerts[m] # e
        /\ \A i \in Positions : courier'[<<e, i>>].pc = "idle"
    BY <2>2 DEF OwnInv, RaisedOK
  <2>4. \A j \in DOMAIN w.usages : \A t \in Thresholds :
           j >= 1 => alerts[Marker(w.usages[j], t)] # e
    BY <2>1, <2>3, UsageFacts
  <2>5. /\ RaisedOK(e, eval[e])'
        /\ \A f \in Evaluations : f # e => eval'[f] = eval[f]
    BY <2>1, <2>2, <2>3, <2>4, FromUsageOwn
  <2> QED
    BY <2>2, <2>5, EvalOnlyOwn
<1>2. ASSUME NEW e \in Evaluations, Insert(e)
      PROVE  OwnInv'
  BY <1>2, InsertOwn
<1>3. ASSUME NEW e \in Evaluations, Inserted(e)
      PROVE  OwnInv'
  BY <1>3, InsertedOwn
<1>4. ASSUME NEW e \in Evaluations, SkipLookup(e) \/ Skip(e)
      PROVE  OwnInv'
  <2>1. PICK pc \in {"skip", "skipped"} : eval' = [eval EXCEPT ![e] = [eval[e] EXCEPT !.pc = pc]]
    BY <1>4 DEF SkipLookup, Skip, TypeInv, TypeOK
  <2>2. eval[e].pc \in {"lookup", "skip"} /\ UNCHANGED <<alerts, courier>>
    BY <1>4 DEF SkipLookup, Skip
  <2>3. /\ eval'[e].pc \in {"skip", "skipped"} /\ eval'[e].usages = eval[e].usages
        /\ eval'[e].at = eval[e].at /\ eval'[e].fresh = eval[e].fresh
        /\ \A f \in Evaluations : f # e => eval'[f] = eval[f]
    BY <2>1 DEF TypeInv, TypeOK, EvalStates
  <2>4. RaisedOK(e, eval[e])'
    <3>1. RaisedOK(e, eval[e])
      BY DEF OwnInv
    <3> QED
      BY <2>2, <2>3, <3>1 DEF RaisedOK, Active
  <2> QED
    BY <2>2, <2>3, <2>4, EvalOnlyOwn
<1>5. ASSUME NEW e \in Evaluations, Skipped(e)
      PROVE  OwnInv'
  BY <1>5, SkippedOwn
<1>6. ASSUME NEW e \in Evaluations, EvaluateFails(e)
      PROVE  OwnInv'
  <2>1. /\ eval'[e] = Stopped(eval[e]) /\ UNCHANGED <<alerts, courier>>
        /\ \A f \in Evaluations : f # e => eval'[f] = eval[f]
    BY <1>6 DEF EvaluateFails, TypeInv, TypeOK
  <2>2. eval'[e].pc = "failed" /\ eval'[e].usages = eval[e].usages
    BY <2>1 DEF Stopped, Idle
  <2>3. RaisedOK(e, eval[e])'
    BY <2>2 DEF RaisedOK, Active
  <2> QED
    BY <2>1, <2>2, <2>3, EvalOnlyOwn
<1>7. ASSUME NEW k \in Evaluations \X Positions, NEW c \in Channels,
             \/ NothingToDeliver(k) \/ Lookup(k, c) \/ Announce(k, c) \/ Send(k, c)
             \/ (\E ok \in BOOLEAN : Post(k, c, ok)) \/ SaveAttempt(k, c) \/ CourierFails(k, c)
      PROVE  OwnInv'
  <2> DEFINE x == courier[k]
  <2>1. x.pc # "idle" /\ x \in CourierStates /\ UNCHANGED <<alerts, eval>>
    BY <1>7 DEF TypeInv, TypeOK, NothingToDeliver, Lookup, Announce, Send, Post, SaveAttempt, CourierFails
  <2>2. NextChannel(x, c).pc # "idle" /\ NextChannel(x, c).alert = x.alert
    BY <2>1 DEF NextChannel, CourierStates
  <2>3. \E y : Step(k, y) /\ y.pc # "idle" /\ y.alert = x.alert
    <3>1. CASE NothingToDeliver(k)
      BY <2>1, <3>1 DEF NothingToDeliver, CourierStates
    <3>2. CASE Lookup(k, c)
      <4>1. CASE c \in channels
        BY <2>1, <3>2, <4>1 DEF Lookup, CourierStates
      <4>2. CASE c \notin channels
        BY <2>2, <3>2, <4>2 DEF Lookup
      <4> QED
        BY <4>1, <4>2
    <3>3. CASE Announce(k, c)
      <4> DEFINE y == [x EXCEPT !.pc = "send", !.attempt = 1]
      <4>a. y.pc # "idle" /\ y.alert = x.alert
        BY <2>1 DEF CourierStates
      <4>b. Step(k, y)
        BY <3>3 DEF Announce
      <4> QED
        BY <4>a, <4>b
    <3>4. CASE Send(k, c)
      <4>1. CASE c \in channels
        <5> DEFINE y == [x EXCEPT !.pc = "post"]
        <5>a. y.pc # "idle" /\ y.alert = x.alert
          BY <2>1 DEF CourierStates
        <5>b. Step(k, y)
          BY <3>4, <4>1 DEF Send
        <5> QED
          BY <5>a, <5>b
      <4>2. CASE c \notin channels
        <5> DEFINE y == [x EXCEPT !.pc = "save", !.ok = FALSE]
        <5>a. y.pc # "idle" /\ y.alert = x.alert
          BY <2>1 DEF CourierStates
        <5>b. Step(k, y)
          BY <3>4, <4>2 DEF Send
        <5> QED
          BY <5>a, <5>b
      <4> QED
        BY <4>1, <4>2
    <3>5. CASE \E ok \in BOOLEAN : Post(k, c, ok)
      <4>1. PICK ok \in BOOLEAN : Post(k, c, ok)
        BY <3>5
      <4> DEFINE y == [x EXCEPT !.pc = "save", !.ok = ok]
      <4>a. y.pc # "idle" /\ y.alert = x.alert
        BY <2>1 DEF CourierStates
      <4>b. Step(k, y)
        BY <4>1 DEF Post
      <4> QED
        BY <4>a, <4>b
    <3>6. CASE SaveAttempt(k, c)
      <4>1. CASE Done(x)
        BY <2>2, <3>6, <4>1 DEF SaveAttempt
      <4>2. CASE ~Done(x)
        <5> DEFINE y == [x EXCEPT !.pc = "send", !.attempt = @ + 1]
        <5>a. y.pc # "idle" /\ y.alert = x.alert
          BY <2>1 DEF CourierStates
        <5>b. Step(k, y)
          BY <3>6, <4>2 DEF SaveAttempt
        <5> QED
          BY <5>a, <5>b
      <4> QED
        BY <4>1, <4>2
    <3>7. CASE CourierFails(k, c)
      <4>1. CASE x.pc = "lookup"
        BY <2>1, <3>7, <4>1 DEF CourierFails, CourierStates
      <4>2. CASE x.pc # "lookup"
        BY <2>2, <3>7, <4>2 DEF CourierFails
      <4> QED
        BY <4>1, <4>2
    <3> QED
      BY <1>7, <3>1, <3>2, <3>3, <3>4, <3>5, <3>6, <3>7
  <2> QED
    BY <2>1, <2>3, CourierOnlyOwn
<1>8. ASSUME NEW k \in Evaluations \X Positions, NothingToDeliver(k)
      PROVE  OwnInv'
  <2>1. /\ courier[k].pc # "idle" /\ courier[k] \in CourierStates /\ UNCHANGED <<alerts, eval>>
        /\ Step(k, [courier[k] EXCEPT !.pc = "done"])
    BY <1>8 DEF TypeInv, TypeOK, NothingToDeliver
  <2>2. /\ [courier[k] EXCEPT !.pc = "done"].pc # "idle"
        /\ [courier[k] EXCEPT !.pc = "done"].alert = courier[k].alert
    BY <2>1 DEF CourierStates
  <2> QED
    BY <2>1, <2>2, CourierOnlyOwn
<1>9. ASSUME NEW c \in Channels, DeleteChannel(c)
      PROVE  OwnInv'
  BY <1>9 DEF DeleteChannel, OwnInv, RaisedOK, CourierOK
<1>10. ASSUME NEW p \in Managers, Crash(p)
       PROVE  OwnInv'
  <2>1. alerts' = alerts
    BY <1>10 DEF Crash
  <2>2. ASSUME NEW f \in Evaluations
        PROVE  /\ eval'[f].usages = eval[f].usages
               /\ eval'[f] = eval[f] \/ eval'[f].pc = "failed"
    BY <1>10 DEF Crash, Stopped, Idle
  <2>3. ASSUME NEW k \in Evaluations \X Positions
        PROVE  /\ courier'[k].pc = "idle" <=> courier[k].pc = "idle"
               /\ courier'[k].alert = courier[k].alert
    <3>1. courier[k] \in CourierStates /\ CourierLocals(courier[k]) /\ k \in DOMAIN courier
      BY DEF TypeInv, TypeOK, LocalsInv
    <3>2. courier[k].mgr = p => courier[k].pc # "idle"
      BY <3>1, AlertAssumption DEF CourierLocals, AlertAssumption
    <3>3. courier'[k] = IF courier[k].mgr = p /\ courier[k].pc # "done"
                        THEN [courier[k] EXCEPT !.pc = "failed"] ELSE courier[k]
      BY <1>10, <3>1 DEF Crash
    <3> QED
      BY <3>1, <3>2, <3>3 DEF CourierStates
  <2>4. ASSUME NEW f \in Evaluations PROVE RaisedOK(f, eval[f])'
    <3>1. CASE eval'[f].pc = "failed"
      BY <3>1 DEF RaisedOK, Active
    <3>2. CASE eval'[f] = eval[f]
      <4>1. RaisedOK(f, eval[f]) /\ \A i \in Positions : courier'[<<f, i>>].pc = "idle" <=> courier[<<f, i>>].pc = "idle"
        BY <2>3 DEF OwnInv
      <4> QED
        BY <2>1, <3>2, <4>1 DEF RaisedOK
    <3> QED
      BY <2>2, <3>1, <3>2
  <2>5. ASSUME NEW f \in Evaluations, NEW i \in Positions PROVE CourierOK(f, i)'
    <3>1. CourierOK(f, i) /\ eval'[f].usages = eval[f].usages
      BY <2>2 DEF OwnInv
    <3>2. /\ courier'[<<f, i>>].pc = "idle" <=> courier[<<f, i>>].pc = "idle"
          /\ courier'[<<f, i>>].alert = courier[<<f, i>>].alert
      BY <2>3
    <3> QED
      BY <2>1, <3>1, <3>2 DEF CourierOK
  <2> QED
    BY <2>4, <2>5 DEF OwnInv
<1>11. CASE UNCHANGED vars
  BY <1>11 DEF vars, OwnInv, RaisedOK, CourierOK
<1>12. DOMAIN courier = Evaluations \X Positions
  BY DEF TypeInv, TypeOK
<1> QED
  BY <1>1, <1>2, <1>3, <1>4, <1>5, <1>6, <1>7, <1>8, <1>9, <1>10, <1>11, <1>12, Zenon
     DEF Next, EvalStep, CourierStep

-----------------------------------------------------------------------------
(* The delivery records *)

Truthful(row, p, a) ==
    /\ row.status = "delivered" => a = 1 /\ p <= row.attempts
    /\ row.status = "failed" => a = 0 /\ row.attempts = MaxAttempts
    /\ row.status = "skipped" => p = 0
    /\ row.status = "pending" => row.attempts < MaxAttempts /\ p <= row.attempts + 1

\* One alert and one channel.
RowInv(m, c) ==
    /\ \A e \in Evaluations : deliveries[<<e, m, c>>] # None => alerts[m] = e
    /\ posts[<<m, c>>] # 0 \/ acks[<<m, c>>] # 0 =>
          alerts[m] # None /\ deliveries[<<alerts[m], m, c>>] # None
    /\ posts[<<m, c>>] <= MaxAttempts
    /\ alerts[m] # None /\ deliveries[<<alerts[m], m, c>>] # None =>
          Truthful(deliveries[<<alerts[m], m, c>>], posts[<<m, c>>], acks[<<m, c>>])
    /\ posts[<<m, c>>] # 0 => \E i \in Positions : /\ courier[<<alerts[m], i>>].pc # "idle"
                                                   /\ courier[<<alerts[m], i>>].alert = m

\* What a call of evaluate has still to skip or to send has no record.
SkipOK(e, w) ==
    /\ w.pc \in {"insert", "inserted"} =>
          \A t \in w.fresh, c \in Channels : deliveries[<<e, Marker(w.usages[w.at], t), c>>] = None
    /\ w.pc = "inserted" /\ w.inserted =>
          \A c \in Channels : deliveries[<<e, Marker(w.usages[w.at], w.th), c>>] = None
    /\ w.pc \in {"lookup", "skip", "skipped"} =>
          /\ \A t \in w.fresh : IsLast(t, w.fresh) =>
                \A c \in Channels : deliveries[<<e, Marker(w.usages[w.at], t), c>>] = None
          /\ \A s \in w.skips :
                \/ w.pc = "skipped" /\ IsFirstPair(s, w.skips)
                \/ deliveries[<<e, Marker(w.usages[w.at], s[1]), s[2]>>] = None

\* The record of the channel a courier is at, and none for the channels after it.
CarryOK(e, x) ==
    /\ x.pc \in {"lookup", "announce"} =>
          \A c \in x.todo : deliveries[<<e, x.alert, c>>] = None
    /\ x.pc \in {"send", "post", "save"} =>
          \A c \in x.todo :
             IF IsFirst(c, x.todo)
             THEN /\ deliveries[<<e, x.alert, c>>] = [status |-> "pending", attempts |-> x.attempt - 1]
                  /\ posts[<<x.alert, c>>] <= IF x.pc = "save" THEN x.attempt ELSE x.attempt - 1
                  /\ acks[<<x.alert, c>>] = IF x.pc = "save" /\ x.ok THEN 1 ELSE 0
             ELSE deliveries[<<e, x.alert, c>>] = None

RecordInv ==
    /\ \A m \in Markers, c \in Channels : RowInv(m, c)
    /\ \A e \in Evaluations : SkipOK(e, eval[e])
    /\ \A e \in Evaluations, i \in Positions : CarryOK(e, courier[<<e, i>>])

AlertInv == TypeInv /\ OwnInv /\ RecordInv

LEMMA NoneIsNoRow == None \notin Rows /\ None \notin Evaluations
BY AlertAssumption DEF AlertAssumption

\* Two couriers never carry the same alert.
LEMMA CouriersDiffer ==
    ASSUME OwnInv, NEW e \in Evaluations, NEW i \in Positions, NEW f \in Evaluations,
           NEW j \in Positions, courier[<<e, i>>].pc # "idle", courier[<<f, j>>].pc # "idle",
           courier[<<e, i>>].alert = courier[<<f, j>>].alert
    PROVE  e = f /\ i = j
<1>1. CourierOK(e, i) /\ CourierOK(f, j)
  BY DEF OwnInv
<1>2. e = f
  BY <1>1 DEF CourierOK
<1> QED
  BY <1>1, <1>2, MarkersDiffer DEF CourierOK

\* A step of one call that touches neither records nor couriers.
LEMMA EvalOnlyRecord ==
    ASSUME RecordInv, NEW e \in Evaluations, SkipOK(e, eval[e])',
           UNCHANGED <<alerts, deliveries, courier, posts, acks>>,
           \A f \in Evaluations : f # e => eval'[f] = eval[f]
    PROVE  RecordInv'
<1>1. ASSUME NEW f \in Evaluations PROVE SkipOK(f, eval[f])'
  BY DEF RecordInv, SkipOK
<1>2. ASSUME NEW m \in Markers, NEW c \in Channels PROVE RowInv(m, c)'
  BY DEF RecordInv, RowInv
<1>3. ASSUME NEW f \in Evaluations, NEW i \in Positions PROVE CarryOK(f, courier[<<f, i>>])'
  BY DEF RecordInv, CarryOK
<1> QED
  BY <1>1, <1>2, <1>3 DEF RecordInv

\* A step of one courier at channel c.
LEMMA CourierOnlyRecord ==
    ASSUME TypeInv, OwnInv, RecordInv, NEW e \in Evaluations, NEW i \in Positions,
           NEW x, Step(<<e, i>>, x), UNCHANGED <<alerts, eval>>, NEW m \in Markers,
           NEW c \in Channels,
           courier[<<e, i>>].pc # "idle", courier[<<e, i>>].alert = m,
           x.pc # "idle", x.alert = m,
           \A d \in DeliveryIds : d # <<e, m, c>> => deliveries'[d] = deliveries[d],
           \A n \in Markers, b \in Channels : <<n, b>> # <<m, c>> =>
              posts'[<<n, b>>] = posts[<<n, b>>] /\ acks'[<<n, b>>] = acks[<<n, b>>],
           RowInv(m, c)', CarryOK(e, courier[<<e, i>>])'
    PROVE  RecordInv'
<1>1. /\ courier'[<<e, i>>] = x
      /\ \A f \in Evaluations, j \in Positions : <<f, j>> # <<e, i>> => courier'[<<f, j>>] = courier[<<f, j>>]
  BY DEF Step, TypeInv, TypeOK
<1>2. \A f \in Evaluations, n \in Markers, b \in Channels : <<f, n, b>> \in DeliveryIds
  BY DEF DeliveryIds
<1>3. ASSUME NEW n \in Markers, NEW b \in Channels, <<n, b>> # <<m, c>> PROVE RowInv(n, b)'
  <2>1. RowInv(n, b) /\ posts'[<<n, b>>] = posts[<<n, b>>] /\ acks'[<<n, b>>] = acks[<<n, b>>]
    BY <1>3 DEF RecordInv
  <2>2. \A f \in Evaluations : deliveries'[<<f, n, b>>] = deliveries[<<f, n, b>>]
    BY <1>2, <1>3
  <2>3. alerts[n] # None => deliveries'[<<alerts[n], n, b>>] = deliveries[<<alerts[n], n, b>>]
    BY <2>2 DEF TypeInv, TypeOK
  <2>4. alerts[n] \in Evaluations => \A j \in Positions :
            courier[<<alerts[n], j>>].pc # "idle" /\ courier[<<alerts[n], j>>].alert = n =>
            courier'[<<alerts[n], j>>].pc # "idle" /\ courier'[<<alerts[n], j>>].alert = n
    BY <1>1
  <2>5. posts[<<n, b>>] # 0 => alerts[n] \in Evaluations
    BY <2>1 DEF RowInv, TypeInv, TypeOK
  <2>6. posts'[<<n, b>>] # 0 => \E j \in Positions : /\ courier'[<<alerts'[n], j>>].pc # "idle"
                                                     /\ courier'[<<alerts'[n], j>>].alert = n
    BY <2>1, <2>4, <2>5 DEF RowInv
  <2> QED
    BY <2>1, <2>2, <2>3, <2>6 DEF RowInv
<1>4. ASSUME NEW f \in Evaluations PROVE SkipOK(f, eval[f])'
  <2>1. SkipOK(f, eval[f]) /\ EvalLocals(eval[f]) /\ eval'[f] = eval[f] /\ eval[f] \in EvalStates
    BY DEF RecordInv, TypeInv, TypeOK, LocalsInv
  <2>2. CASE eval[f].pc \notin Active
    BY <2>1, <2>2 DEF SkipOK, Active
  <2>3. CASE eval[f].pc \in Active
    <3>1. \A t \in Thresholds, b \in Channels :
             LET d == <<f, Marker(eval[f].usages[eval[f].at], t), b>>
             IN  deliveries'[d] = deliveries[d]
      <4> SUFFICES ASSUME NEW t \in Thresholds, NEW b \in Channels
                   PROVE  LET d == <<f, Marker(eval[f].usages[eval[f].at], t), b>>
                          IN  deliveries'[d] = deliveries[d]
        OBVIOUS
      <4>1. Marker(eval[f].usages[eval[f].at], t) \in Markers
        BY <2>1, <2>3, UsageFacts DEF EvalLocals, Active
      <4>2. f = e => Marker(eval[f].usages[eval[f].at], t) # m
        BY <2>3, CourierApart
      <4> QED
        BY <1>2, <4>1, <4>2
    <3>2. eval[f].fresh \subseteq Thresholds /\ eval[f].th \in Thresholds
          /\ \A s \in eval[f].skips : s[1] \in Thresholds /\ s[2] \in Channels
      BY <2>1, <2>3, UsageFacts DEF EvalLocals, Active, EvalStates
    <3> QED
      BY <2>1, <2>3, <3>1, <3>2 DEF SkipOK
  <2> QED
    BY <2>2, <2>3
<1>5. ASSUME NEW f \in Evaluations, NEW j \in Positions, <<f, j>> # <<e, i>>
      PROVE  CarryOK(f, courier[<<f, j>>])'
  <2> DEFINE y == courier[<<f, j>>]
  <2>1. CarryOK(f, y) /\ CourierLocals(y) /\ y \in CourierStates /\ courier'[<<f, j>>] = y
    BY <1>1, <1>5 DEF RecordInv, TypeInv, TypeOK, LocalsInv
  <2>2. CASE y.pc \in {"idle", "done", "failed"}
    BY <2>1, <2>2 DEF CarryOK
  <2>3. CASE y.pc \notin {"idle", "done", "failed"}
    <3>1. y.alert \in Markers /\ y.todo \subseteq Channels
      BY <2>1, <2>3 DEF CourierLocals, CourierStates
    <3>2. y.alert # m
      BY <1>5, <2>3, CouriersDiffer
    <3>3. \A b \in Channels : /\ deliveries'[<<f, y.alert, b>>] = deliveries[<<f, y.alert, b>>]
                              /\ posts'[<<y.alert, b>>] = posts[<<y.alert, b>>]
                              /\ acks'[<<y.alert, b>>] = acks[<<y.alert, b>>]
      BY <1>2, <3>1, <3>2
    <3> HIDE DEF y
    <3> QED
      BY <2>1, <3>1, <3>3 DEF CarryOK
  <2> QED
    BY <2>2, <2>3
<1> QED
  BY <1>3, <1>4, <1>5 DEF RecordInv

\* FromUsage leaves the call with no fresh alert.
LEMMA FromUsageSkipOK ==
    ASSUME TypeInv, NEW e \in Evaluations, NEW w \in EvalStates, NEW i,
           w.usages \in UsageLists, FromUsage(e, w, i)
    PROVE  /\ SkipOK(e, eval[e])'
           /\ \A f \in Evaluations : f # e => eval'[f] = eval[f]
<1>1. \/ eval' = [eval EXCEPT ![e] = Ended(w)]
      \/ \E j \in DOMAIN w.usages : \E t \in w.usages[j].thresholds :
            eval' = [eval EXCEPT ![e] = Waiting(w, j, t, {})]
  <2>1. \/ eval' = [eval EXCEPT ![e] = Ended(w)] /\ fired' = fired
        \/ \E j \in DOMAIN w.usages : \E t \in w.usages[j].thresholds :
              /\ j >= i
              /\ eval' = [eval EXCEPT ![e] = Waiting(w, j, t, {})]
              /\ Remember(w.mgr, Marker(w.usages[j], t))
    BY FromUsageEffect
  <2> QED
    BY <2>1
<1>2. \A f \in Evaluations : f # e => eval'[f] = eval[f]
  BY <1>1 DEF TypeInv, TypeOK
<1>3. eval'[e].pc = "done" \/ (eval'[e].pc = "insert" /\ eval'[e].fresh = {})
  <2>1. CASE eval' = [eval EXCEPT ![e] = Ended(w)]
    BY <2>1 DEF Ended, Idle, TypeInv, TypeOK
  <2>2. CASE \E j \in DOMAIN w.usages : \E t \in w.usages[j].thresholds :
                eval' = [eval EXCEPT ![e] = Waiting(w, j, t, {})]
    BY <2>2 DEF Waiting, EvalStates, TypeInv, TypeOK
  <2> QED
    BY <1>1, <2>1, <2>2
<1>4. SkipOK(e, eval[e])'
  BY <1>3 DEF SkipOK
<1> QED
  BY <1>2, <1>4

LEMMA SpawnRecord ==
    ASSUME TypeInv, OwnInv, RecordInv, NEW e \in Evaluations, NEW w \in EvalStates,
           w.usages \in UsageLists, w.at \in DOMAIN w.usages,
           w.fresh \subseteq w.usages[w.at].thresholds,
           courier[<<e, w.at>>].pc = "idle",
           \A t \in w.fresh : IsLast(t, w.fresh) =>
              \A c \in Channels : deliveries[<<e, Marker(w.usages[w.at], t), c>>] = None,
           Spawn(e, w), UNCHANGED <<alerts, deliveries, posts, acks>>
    PROVE  RecordInv'
<1>1. PICK t \in w.fresh : IsLast(t, w.fresh) /\ courier' = [courier EXCEPT ![<<e, w.at>>] = Sent(w, t)]
  BY Zenon DEF Spawn, Sent, Message
<1>2. w.at \in Positions /\ w.usages[w.at].channels \subseteq Channels
  BY UsageFacts
<1>3. /\ courier'[<<e, w.at>>] = Sent(w, t)
      /\ \A f \in Evaluations, j \in Positions : <<f, j>> # <<e, w.at>> => courier'[<<f, j>>] = courier[<<f, j>>]
  BY <1>1, <1>2 DEF TypeInv, TypeOK
<1>4. FromUsage(e, w, w.at + 1)
  BY DEF Spawn
<1>5. /\ SkipOK(e, eval[e])'
      /\ \A f \in Evaluations : f # e => eval'[f] = eval[f]
  BY <1>4, FromUsageSkipOK
<1>6. ASSUME NEW f \in Evaluations PROVE SkipOK(f, eval[f])'
  BY <1>5 DEF RecordInv, SkipOK
<1>7. ASSUME NEW m \in Markers, NEW c \in Channels PROVE RowInv(m, c)'
  <2>1. RowInv(m, c)
    BY DEF RecordInv
  <2>2. posts[<<m, c>>] # 0 => alerts[m] \in Evaluations
    BY <2>1 DEF RowInv, TypeInv, TypeOK
  <2>3. alerts[m] \in Evaluations => \A j \in Positions :
            courier[<<alerts[m], j>>].pc # "idle" /\ courier[<<alerts[m], j>>].alert = m =>
            courier'[<<alerts[m], j>>].pc # "idle" /\ courier'[<<alerts[m], j>>].alert = m
    BY <1>3
  <2>4. posts[<<m, c>>] # 0 => \E j \in Positions : /\ courier'[<<alerts'[m], j>>].pc # "idle"
                                                    /\ courier'[<<alerts'[m], j>>].alert = m
    BY <2>1, <2>2, <2>3 DEF RowInv
  <2> QED
    BY <2>1, <2>4 DEF RowInv
<1>8. ASSUME NEW f \in Evaluations, NEW j \in Positions PROVE CarryOK(f, courier[<<f, j>>])'
  <2>1. CASE <<f, j>> = <<e, w.at>>
    <3>1. /\ courier'[<<f, j>>].pc = "lookup" /\ courier'[<<f, j>>].alert = Marker(w.usages[w.at], t)
          /\ courier'[<<f, j>>].todo = w.usages[w.at].channels
      <4>1. /\ Sent(w, t).pc = "lookup" /\ Sent(w, t).alert = Marker(w.usages[w.at], t)
            /\ Sent(w, t).todo = w.usages[w.at].channels
        BY DEF Sent, NoCourier
      <4> QED
        BY <1>3, <2>1, <4>1
    <3>2. \A c \in w.usages[w.at].channels : deliveries[<<e, Marker(w.usages[w.at], t), c>>] = None
      BY <1>1, <1>2
    <3> QED
      BY <2>1, <3>1, <3>2 DEF CarryOK
  <2>2. CASE <<f, j>> # <<e, w.at>>
    <3>1. courier'[<<f, j>>] = courier[<<f, j>>] /\ CarryOK(f, courier[<<f, j>>])
      BY <1>3, <2>2 DEF RecordInv
    <3> QED
      BY <3>1 DEF CarryOK
  <2> QED
    BY <2>1, <2>2
<1> QED
  BY <1>6, <1>7, <1>8 DEF RecordInv

LEMMA InsertRecord ==
    ASSUME TypeInv, OwnInv, RecordInv, NEW e \in Evaluations, Insert(e)
    PROVE  RecordInv'
<1> DEFINE w == eval[e]
           m == Marker(w.usages[w.at], w.th)
<1>1. EvalLocals(w) /\ w \in EvalStates /\ w.pc = "insert" /\ SkipOK(e, w)
  BY DEF RecordInv, TypeInv, TypeOK, LocalsInv, Insert
<1>2. w.usages \in UsageLists /\ w.at \in DOMAIN w.usages /\ w.th \in w.usages[w.at].thresholds
  BY <1>1 DEF EvalLocals, Active
<1>3. m \in Markers
  BY <1>2, UsageFacts
<1>4. /\ eval'[e] = [w EXCEPT !.pc = "inserted", !.inserted = (alerts[m] = None)]
      /\ \A f \in Evaluations : f # e => eval'[f] = eval[f]
      /\ alerts' = [alerts EXCEPT ![m] = IF @ = None THEN e ELSE @]
      /\ UNCHANGED <<deliveries, courier, posts, acks>>
  BY DEF Insert, TypeInv, TypeOK
<1>5. /\ eval'[e].pc = "inserted" /\ eval'[e].usages = w.usages /\ eval'[e].at = w.at
      /\ eval'[e].th = w.th /\ eval'[e].fresh = w.fresh
      /\ eval'[e].inserted => alerts[m] = None
  BY <1>1, <1>4 DEF EvalStates
<1>6. \A n \in Markers : alerts'[n] = alerts[n] \/ (n = m /\ alerts'[n] = e /\ alerts[n] = None)
  BY <1>3, <1>4 DEF TypeInv, TypeOK
<1> HIDE DEF m
<1>7. ASSUME NEW n \in Markers, NEW c \in Channels PROVE RowInv(n, c)'
  <2>1. RowInv(n, c)
    BY DEF RecordInv
  <2>2. CASE alerts'[n] = alerts[n]
    BY <1>4, <2>1, <2>2 DEF RowInv
  <2>3. CASE alerts'[n] = e /\ alerts[n] = None
    <3>1. \A f \in Evaluations : deliveries[<<f, n, c>>] = None
      BY <2>1, <2>3, NoneIsNoRow DEF RowInv
    <3>2. posts[<<n, c>>] = 0 /\ acks[<<n, c>>] = 0
      BY <2>1, <2>3 DEF RowInv
    <3> QED
      BY <1>4, <2>1, <2>3, <3>1, <3>2 DEF RowInv
  <2> QED
    BY <1>6, <2>2, <2>3
<1>8. SkipOK(e, eval[e])'
  <2>1. eval'[e].inserted => \A c \in Channels : deliveries[<<e, m, c>>] = None
    <3> SUFFICES ASSUME alerts[m] = None, NEW c \in Channels PROVE deliveries[<<e, m, c>>] = None
      BY <1>5
    <3>1. RowInv(m, c)
      BY <1>3 DEF RecordInv
    <3> QED
      BY <3>1, NoneIsNoRow DEF RowInv
  <2>2. \A t \in w.fresh, c \in Channels : deliveries[<<e, Marker(w.usages[w.at], t), c>>] = None
    BY <1>1 DEF SkipOK
  <2>3. eval'[e].inserted => \A c \in Channels : deliveries[<<e, Marker(eval'[e].usages[eval'[e].at], eval'[e].th), c>>] = None
    BY <1>5, <2>1 DEF m
  <2> QED
    BY <1>4, <1>5, <2>2, <2>3 DEF SkipOK
<1>9. ASSUME NEW f \in Evaluations PROVE SkipOK(f, eval[f])'
  <2>1. CASE f = e
    BY <1>8, <2>1
  <2>2. CASE f # e
    <3>1. SkipOK(f, eval[f]) /\ eval'[f] = eval[f] /\ deliveries' = deliveries
      BY <1>4, <2>2 DEF RecordInv
    <3> QED
      BY <3>1 DEF SkipOK
  <2> QED
    BY <2>1, <2>2
<1>10. ASSUME NEW f \in Evaluations, NEW i \in Positions PROVE CarryOK(f, courier[<<f, i>>])'
  <2>1. CarryOK(f, courier[<<f, i>>]) /\ UNCHANGED <<deliveries, courier, posts, acks>>
    BY <1>4 DEF RecordInv
  <2> QED
    BY <2>1 DEF CarryOK
<1> QED
  BY <1>7, <1>9, <1>10 DEF RecordInv

LEMMA InsertedRecord ==
    ASSUME TypeInv, OwnInv, RecordInv, NEW e \in Evaluations, Inserted(e)
    PROVE  RecordInv'
<1> DEFINE w == Freshened(eval[e])
           rest == Candidates(w, w.at, w.th)
<1>0. eval[e].pc = "inserted" /\ UNCHANGED <<alerts, deliveries, posts, acks>>
  BY DEF Inserted
<1> HIDE DEF w
<1>1. /\ w \in EvalStates /\ w.usages = eval[e].usages /\ w.at = eval[e].at /\ w.pc = "inserted"
      /\ w.usages \in UsageLists /\ w.at \in DOMAIN w.usages /\ w.at \in Nat
      /\ w.fresh \subseteq w.usages[w.at].thresholds
      /\ RaisedOK(e, w)
  BY <1>0, FreshenedFacts DEF w
<1>2. \A t \in w.fresh, c \in Channels : deliveries[<<e, Marker(w.usages[w.at], t), c>>] = None
  <2>1. SkipOK(e, eval[e]) /\ eval[e] \in EvalStates
    BY DEF RecordInv, TypeInv, TypeOK
  <2>2. w.fresh = IF eval[e].inserted THEN eval[e].fresh \cup {eval[e].th} ELSE eval[e].fresh
    BY <2>1 DEF w, Freshened, EvalStates
  <2> QED
    BY <1>0, <1>1, <2>1, <2>2 DEF SkipOK
<1>3. \/ (\E t \in rest : IsFirst(t, rest) /\ ToInsert(e, w, w.at, t, w.fresh)) /\ UNCHANGED courier
      \/ (rest = {} /\ w.fresh = {} /\ FromUsage(e, w, w.at + 1) /\ UNCHANGED courier)
      \/ (rest = {} /\ w.fresh # {} /\ Dispatch(e, w))
  BY DEF Inserted, w, Freshened
<1>4. CASE (\E t \in rest : IsFirst(t, rest) /\ ToInsert(e, w, w.at, t, w.fresh)) /\ UNCHANGED courier
  <2>1. PICK t \in rest : ToInsert(e, w, w.at, t, w.fresh)
    BY <1>4
  <2>2. /\ eval'[e] = Waiting(w, w.at, t, w.fresh)
        /\ \A f \in Evaluations : f # e => eval'[f] = eval[f]
    BY <2>1 DEF ToInsert, Waiting, TypeInv, TypeOK
  <2>3. /\ eval'[e].pc = "insert" /\ eval'[e].usages = w.usages /\ eval'[e].at = w.at
        /\ eval'[e].fresh = w.fresh
    BY <1>1, <2>2 DEF Waiting, EvalStates
  <2>4. SkipOK(e, eval[e])'
    BY <1>0, <1>2, <2>3 DEF SkipOK
  <2> QED
    BY <1>0, <1>4, <2>2, <2>4, EvalOnlyRecord
<1>5. CASE FromUsage(e, w, w.at + 1) /\ UNCHANGED courier
  <2>1. /\ SkipOK(e, eval[e])'
        /\ \A f \in Evaluations : f # e => eval'[f] = eval[f]
    BY <1>1, <1>5, FromUsageSkipOK
  <2> QED
    BY <1>0, <1>5, <2>1, EvalOnlyRecord
<1>6. CASE Dispatch(e, w)
  <2> DEFINE skips == {t \in w.fresh : ~Message(t, w.fresh)} \X w.usages[w.at].channels
  <2>1. CASE Spawn(e, w)
    <3>1. courier[<<e, w.at>>].pc = "idle"
      BY <1>1, UsageFacts DEF RaisedOK, Active
    <3> QED
      BY <1>0, <1>1, <1>2, <2>1, <3>1, SpawnRecord
  <2>2. CASE /\ eval' = [eval EXCEPT ![e] = [w EXCEPT !.pc = "lookup", !.skips = skips]]
             /\ UNCHANGED <<fired, courier>>
    <3>1. /\ eval'[e] = [w EXCEPT !.pc = "lookup", !.skips = skips]
          /\ \A f \in Evaluations : f # e => eval'[f] = eval[f]
      BY <2>2 DEF TypeInv, TypeOK
    <3>2. /\ eval'[e].pc = "lookup" /\ eval'[e].usages = w.usages /\ eval'[e].at = w.at
          /\ eval'[e].fresh = w.fresh /\ eval'[e].skips = skips
      BY <1>1, <3>1 DEF EvalStates
    <3>3. \A s \in skips : s[1] \in w.fresh /\ s[2] \in Channels
      BY <1>1, UsageFacts
    <3> HIDE DEF skips
    <3>4. SkipOK(e, eval[e])'
      BY <1>0, <1>2, <3>2, <3>3 DEF SkipOK
    <3> QED
      BY <1>0, <2>2, <3>1, <3>4, EvalOnlyRecord
  <2> QED
    BY <1>6, <2>1, <2>2, Zenon DEF Dispatch
<1> QED
  BY <1>3, <1>4, <1>5, <1>6

LEMMA SkipRecord ==
    ASSUME TypeInv, OwnInv, RecordInv, NEW e \in Evaluations, Skip(e)
    PROVE  RecordInv'
<1> DEFINE w == eval[e]
<1>1. EvalLocals(w) /\ w \in EvalStates /\ w.pc = "skip" /\ SkipOK(e, w) /\ RaisedOK(e, w)
  BY DEF RecordInv, OwnInv, TypeInv, TypeOK, LocalsInv, Skip
<1>2. PICK s \in w.skips : /\ IsFirstPair(s, w.skips)
                           /\ Save(<<e, Marker(w.usages[w.at], s[1]), s[2]>>, "skipped", 0)
  BY DEF Skip
<1> DEFINE m == Marker(w.usages[w.at], s[1])
           c == s[2]
<1>3. /\ w.usages \in UsageLists /\ w.at \in DOMAIN w.usages /\ w.fresh \subseteq Thresholds
      /\ s[1] \in w.fresh /\ ~IsLast(s[1], w.fresh) /\ c \in Channels
      /\ \A x \in w.skips : x[1] \in Thresholds /\ x[2] \in Channels /\ x = <<x[1], x[2]>>
  BY <1>1 DEF EvalLocals, Active, EvalStates
<1>4. m \in Markers /\ alerts[m] = e /\ deliveries[<<e, m, c>>] = None
  BY <1>1, <1>3, UsageFacts DEF RaisedOK, SkipOK, Active
<1>5. /\ eval'[e] = [w EXCEPT !.pc = "skipped"]
      /\ \A f \in Evaluations : f # e => eval'[f] = eval[f]
      /\ UNCHANGED <<alerts, courier, posts, acks>>
  BY DEF Skip, TypeInv, TypeOK
<1>6. \A f \in Evaluations, n \in Markers, b \in Channels : <<f, n, b>> \in DeliveryIds
  BY DEF DeliveryIds
<1>7. /\ deliveries'[<<e, m, c>>] = [status |-> "skipped", attempts |-> 0]
      /\ \A d \in DeliveryIds : d # <<e, m, c>> => deliveries'[d] = deliveries[d]
  BY <1>2, <1>3, <1>4, <1>6 DEF Save, TypeInv, TypeOK
<1>8. \A us \in UsageLists : \A i \in DOMAIN us : \A t \in Thresholds : Marker(us[i], t) \in Markers
  BY UsageFacts
<1> HIDE DEF m, c
<1>9. ASSUME NEW n \in Markers, NEW b \in Channels PROVE RowInv(n, b)'
  <2>1. RowInv(n, b) /\ UNCHANGED <<alerts, courier, posts, acks>>
    BY <1>5 DEF RecordInv
  <2>2. CASE n = m /\ b = c
    <3>1. posts[<<n, b>>] = 0 /\ acks[<<n, b>>] = 0
      BY <1>4, <2>1, <2>2 DEF RowInv
    <3>2. \A f \in Evaluations : f # e => deliveries'[<<f, n, b>>] = deliveries[<<f, n, b>>]
      BY <1>6, <1>7
    <3>3. Truthful(deliveries'[<<alerts[n], n, b>>], posts[<<n, b>>], acks[<<n, b>>])
      BY <1>4, <1>7, <2>2, <3>1 DEF Truthful
    <3> QED
      BY <1>4, <2>1, <2>2, <3>1, <3>2, <3>3 DEF RowInv
  <2>3. CASE ~(n = m /\ b = c)
    <3>1. \A f \in Evaluations : deliveries'[<<f, n, b>>] = deliveries[<<f, n, b>>]
      BY <1>6, <1>7, <2>3
    <3>2. alerts[n] # None => deliveries'[<<alerts[n], n, b>>] = deliveries[<<alerts[n], n, b>>]
      BY <3>1 DEF TypeInv, TypeOK
    <3> QED
      BY <2>1, <3>1, <3>2 DEF RowInv
  <2> QED
    BY <2>2, <2>3
<1>10. SkipOK(e, eval[e])'
  <2>1. /\ eval'[e].pc = "skipped" /\ eval'[e].usages = w.usages /\ eval'[e].at = w.at
        /\ eval'[e].fresh = w.fresh /\ eval'[e].skips = w.skips
    BY <1>1, <1>5 DEF EvalStates
  <2>2. ASSUME NEW t \in w.fresh, IsLast(t, w.fresh), NEW b \in Channels
        PROVE  deliveries'[<<e, Marker(w.usages[w.at], t), b>>] = None
    <3>1. Marker(w.usages[w.at], t) # m
      BY <1>3, <2>2, MarkersDiffer DEF m
    <3>2. deliveries[<<e, Marker(w.usages[w.at], t), b>>] = None
      BY <1>1, <2>2 DEF SkipOK
    <3> QED
      BY <1>3, <1>6, <1>7, <1>8, <3>1, <3>2
  <2>3. ASSUME NEW x \in w.skips, ~IsFirstPair(x, w.skips)
        PROVE  deliveries'[<<e, Marker(w.usages[w.at], x[1]), x[2]>>] = None
    <3>1. x # s
      BY <1>2, <2>3
    <3>2. x[1] # s[1] \/ x[2] # s[2]
      BY <1>3, <3>1
    <3>3. Marker(w.usages[w.at], x[1]) # m \/ x[2] # c
      BY <1>3, <3>2, MarkersDiffer DEF m, c
    <3>4. deliveries[<<e, Marker(w.usages[w.at], x[1]), x[2]>>] = None
      BY <1>1 DEF SkipOK
    <3> QED
      BY <1>3, <1>6, <1>7, <1>8, <3>3, <3>4
  <2> QED
    BY <2>1, <2>2, <2>3 DEF SkipOK
<1>11. ASSUME NEW f \in Evaluations, f # e PROVE SkipOK(f, eval[f])'
  <2>1. SkipOK(f, eval[f]) /\ EvalLocals(eval[f]) /\ eval'[f] = eval[f] /\ eval[f] \in EvalStates
    BY <1>5, <1>11 DEF RecordInv, TypeInv, TypeOK, LocalsInv
  <2>2. CASE eval[f].pc \notin Active
    BY <2>1, <2>2 DEF SkipOK, Active
  <2>3. CASE eval[f].pc \in Active
    <3>1. /\ eval[f].usages \in UsageLists /\ eval[f].at \in DOMAIN eval[f].usages
          /\ eval[f].fresh \subseteq Thresholds /\ eval[f].th \in Thresholds
          /\ \A x \in eval[f].skips : x[1] \in Thresholds /\ x[2] \in Channels
      BY <2>1, <2>3, UsageFacts DEF EvalLocals, Active, EvalStates
    <3>2. \A t \in Thresholds, b \in Channels :
             deliveries'[<<f, Marker(eval[f].usages[eval[f].at], t), b>>]
                = deliveries[<<f, Marker(eval[f].usages[eval[f].at], t), b>>]
      BY <1>6, <1>7, <1>8, <1>11, <3>1
    <3> QED
      BY <2>1, <3>1, <3>2 DEF SkipOK
  <2> QED
    BY <2>2, <2>3
<1>12. ASSUME NEW f \in Evaluations, NEW j \in Positions PROVE CarryOK(f, courier[<<f, j>>])'
  <2> DEFINE y == courier[<<f, j>>]
  <2>1. CarryOK(f, y) /\ CourierLocals(y) /\ y \in CourierStates /\ UNCHANGED <<courier, posts, acks>>
    BY <1>5 DEF RecordInv, TypeInv, TypeOK, LocalsInv
  <2>2. CASE y.pc \in {"idle", "done", "failed"}
    BY <2>1, <2>2 DEF CarryOK
  <2>3. CASE y.pc \notin {"idle", "done", "failed"}
    <3>1. y.alert \in Markers /\ y.todo \subseteq Channels
      BY <2>1, <2>3 DEF CourierLocals, CourierStates
    <3>2. f = e => y.alert # m
      BY <1>1, <2>3, CourierApart DEF m, Active
    <3>3. \A b \in Channels : deliveries'[<<f, y.alert, b>>] = deliveries[<<f, y.alert, b>>]
      BY <1>6, <1>7, <3>1, <3>2
    <3> QED
      BY <2>1, <3>1, <3>3 DEF CarryOK
  <2> QED
    BY <2>2, <2>3
<1> QED
  BY <1>9, <1>10, <1>11, <1>12 DEF RecordInv

LEMMA SkippedRecord ==
    ASSUME TypeInv, OwnInv, RecordInv, NEW e \in Evaluations, Skipped(e)
    PROVE  RecordInv'
<1>1. /\ eval[e] \in EvalStates /\ EvalLocals(eval[e]) /\ RaisedOK(e, eval[e]) /\ SkipOK(e, eval[e])
      /\ eval[e].pc = "skipped" /\ UNCHANGED <<alerts, deliveries, posts, acks>>
  BY DEF TypeInv, TypeOK, LocalsInv, OwnInv, RecordInv, Skipped
<1>2. PICK s \in eval[e].skips :
         /\ IsFirstPair(s, eval[e].skips)
         /\ LET w == [eval[e] EXCEPT !.skips = @ \ {s}]
            IN  \/ /\ w.skips # {}
                   /\ eval' = [eval EXCEPT ![e] = [w EXCEPT !.pc = "lookup"]]
                   /\ UNCHANGED <<fired, courier>>
                \/ (w.skips = {} /\ Spawn(e, w))
  BY DEF Skipped
<1> DEFINE w == [eval[e] EXCEPT !.skips = @ \ {s}]
<1>3. /\ w \in EvalStates /\ w.usages = eval[e].usages /\ w.at = eval[e].at
      /\ w.fresh = eval[e].fresh /\ w.skips = eval[e].skips \ {s}
      /\ w.usages \in UsageLists /\ w.at \in DOMAIN w.usages
      /\ w.fresh \subseteq w.usages[w.at].thresholds
  BY <1>1 DEF EvalStates, EvalLocals, Active
<1>4. \A t \in w.fresh : IsLast(t, w.fresh) =>
         \A c \in Channels : deliveries[<<e, Marker(w.usages[w.at], t), c>>] = None
  BY <1>1, <1>3 DEF SkipOK
<1>5. \A x \in w.skips : deliveries[<<e, Marker(w.usages[w.at], x[1]), x[2]>>] = None
  <2> SUFFICES ASSUME NEW x \in eval[e].skips, x # s
               PROVE  deliveries[<<e, Marker(w.usages[w.at], x[1]), x[2]>>] = None
    BY <1>3
  <2>1. /\ x[1] \in Nat /\ x[2] \in Nat /\ x = <<x[1], x[2]>>
        /\ s[1] \in Nat /\ s[2] \in Nat /\ s = <<s[1], s[2]>>
    BY <1>1, ThresholdsAreNat, AlertAssumption DEF EvalStates, AlertAssumption
  <2>2. ~IsFirstPair(x, eval[e].skips)
    <3> SUFFICES ASSUME IsFirstPair(x, eval[e].skips) PROVE FALSE
      OBVIOUS
    <3>1. /\ x[1] < s[1] \/ (x[1] = s[1] /\ x[2] <= s[2])
          /\ s[1] < x[1] \/ (s[1] = x[1] /\ s[2] <= x[2])
      BY <1>2 DEF IsFirstPair
    <3>2. x[1] = s[1] /\ x[2] = s[2]
      BY <2>1, <3>1
    <3> QED
      BY <2>1, <3>2
  <2> QED
    BY <1>1, <1>3, <2>2 DEF SkipOK
<1>6. CASE eval' = [eval EXCEPT ![e] = [w EXCEPT !.pc = "lookup"]] /\ courier' = courier
  <2>1. /\ eval'[e] = [w EXCEPT !.pc = "lookup"]
        /\ \A f \in Evaluations : f # e => eval'[f] = eval[f]
    BY <1>6 DEF TypeInv, TypeOK
  <2> HIDE DEF w
  <2>2. /\ eval'[e].pc = "lookup" /\ eval'[e].usages = w.usages /\ eval'[e].skips = w.skips
        /\ eval'[e].at = w.at /\ eval'[e].fresh = w.fresh
    BY <1>3, <2>1 DEF EvalStates
  <2>3. SkipOK(e, eval[e])'
    BY <1>1, <1>4, <1>5, <2>2 DEF SkipOK
  <2> QED
    BY <1>1, <1>6, <2>1, <2>3, EvalOnlyRecord
<1>7. CASE Spawn(e, w)
  <2>1. courier[<<e, w.at>>].pc = "idle"
    <3>1. w.at \in Positions /\ w.at \in Nat
      BY <1>3, UsageFacts
    <3> HIDE DEF w
    <3> QED
      BY <1>1, <1>3, <3>1 DEF RaisedOK, Active
  <2> HIDE DEF w
  <2> QED
    BY <1>1, <1>3, <1>4, <1>7, <2>1, SpawnRecord
<1> QED
  BY <1>2, <1>6, <1>7

\* The rest of a courier's channels have no record once the current one is left.
LEMMA NextChannelCarry ==
    ASSUME TypeInv, RecordInv, NEW e \in Evaluations, NEW i \in Positions, NEW c \in Channels,
           courier[<<e, i>>].pc \in {"lookup", "announce", "send", "post", "save"},
           IsFirst(c, courier[<<e, i>>].todo),
           NEW x, x = NextChannel(courier[<<e, i>>], c),
           \A b \in Channels : b # c =>
              deliveries'[<<e, courier[<<e, i>>].alert, b>>] = deliveries[<<e, courier[<<e, i>>].alert, b>>]
    PROVE  /\ x.pc \in {"lookup", "done"} /\ x.alert = courier[<<e, i>>].alert
           /\ \A b \in x.todo : deliveries'[<<e, x.alert, b>>] = None
<1> DEFINE y == courier[<<e, i>>]
<1>1. y \in CourierStates /\ CarryOK(e, y)
  BY DEF TypeInv, TypeOK, RecordInv
<1>2. x.pc \in {"lookup", "done"} /\ x.alert = y.alert /\ x.todo = y.todo \ {c}
  BY <1>1 DEF NextChannel, CourierStates
<1>3. ASSUME NEW b \in y.todo, b # c PROVE deliveries[<<e, y.alert, b>>] = None
  <2>1. b \in Nat /\ c \in Nat /\ c <= b
    BY <1>1, AlertAssumption DEF CourierStates, IsFirst, AlertAssumption
  <2>2. ~IsFirst(b, y.todo)
    BY <1>3, <2>1 DEF IsFirst
  <2> QED
    BY <1>1, <2>2 DEF CarryOK
<1> QED
  BY <1>1, <1>2, <1>3 DEF CourierStates

\* A courier's alert is its call's, and it has its record under the call's id.
LEMMA CourierRecord ==
    ASSUME TypeInv, OwnInv, RecordInv, NEW e \in Evaluations, NEW i \in Positions, NEW c \in Channels,
           courier[<<e, i>>].pc \notin {"idle", "done", "failed"}, IsFirst(c, courier[<<e, i>>].todo)
    PROVE  LET x == courier[<<e, i>>]
           IN  /\ x \in CourierStates /\ CourierLocals(x) /\ CarryOK(e, x) /\ RowInv(x.alert, c)
               /\ x.alert \in Markers /\ alerts[x.alert] = e /\ c \in x.todo /\ c \in Nat
               /\ <<e, x.alert, c>> \in DeliveryIds /\ <<x.alert, c>> \in Markers \X Channels
               /\ posts[<<x.alert, c>>] \in Nat /\ acks[<<x.alert, c>>] \in Nat
               /\ x.attempt \in Nat /\ MaxAttempts \in Nat \ {0}
<1> DEFINE x == courier[<<e, i>>]
<1>1. x \in CourierStates /\ CourierLocals(x) /\ CarryOK(e, x) /\ CourierOK(e, i)
  BY DEF TypeInv, TypeOK, LocalsInv, RecordInv, OwnInv
<1>2. x.alert \in Markers /\ alerts[x.alert] = e /\ RowInv(x.alert, c)
  BY <1>1 DEF CourierLocals, CourierOK, RecordInv
<1>3. c \in x.todo /\ c \in Nat /\ MaxAttempts \in Nat \ {0} /\ x.attempt \in Nat
  BY <1>1, AlertAssumption DEF IsFirst, AlertAssumption, CourierStates
<1>4. <<e, x.alert, c>> \in DeliveryIds /\ <<x.alert, c>> \in Markers \X Channels
  BY <1>2 DEF DeliveryIds
<1>5. posts[<<x.alert, c>>] \in Nat /\ acks[<<x.alert, c>>] \in Nat
  BY <1>4 DEF TypeInv, TypeOK
<1> QED
  BY <1>1, <1>2, <1>3, <1>4, <1>5

\* A courier step that writes no record and posts nothing.
LEMMA QuietCourierRecord ==
    ASSUME TypeInv, OwnInv, RecordInv, NEW e \in Evaluations, NEW i \in Positions,
           NEW c \in Channels, NEW x, Step(<<e, i>>, x),
           UNCHANGED <<alerts, deliveries, eval, posts, acks>>,
           courier[<<e, i>>].pc # "idle", x.pc # "idle", x.alert = courier[<<e, i>>].alert,
           CarryOK(e, x)
    PROVE  RecordInv'
<1>0. courier[<<e, i>>].alert \in Markers
  BY DEF TypeInv, LocalsInv, CourierLocals
<1> PICK m \in Markers : m = courier[<<e, i>>].alert
  BY <1>0
<1>1. RowInv(m, c)
  BY DEF RecordInv
<1>2. /\ courier'[<<e, i>>] = x
      /\ \A f \in Evaluations, j \in Positions : <<f, j>> # <<e, i>> => courier'[<<f, j>>] = courier[<<f, j>>]
  BY DEF Step, TypeInv, TypeOK
<1>3. CarryOK(e, courier[<<e, i>>])'
  BY <1>2 DEF CarryOK
<1>4. RowInv(m, c)'
  <2>1. posts[<<m, c>>] # 0 => alerts[m] \in Evaluations
    BY <1>1 DEF RowInv, TypeInv, TypeOK
  <2>2. posts[<<m, c>>] # 0 => \E j \in Positions : /\ courier'[<<alerts[m], j>>].pc # "idle"
                                                    /\ courier'[<<alerts[m], j>>].alert = m
    <3> SUFFICES ASSUME posts[<<m, c>>] # 0
                 PROVE  \E j \in Positions : /\ courier'[<<alerts[m], j>>].pc # "idle"
                                             /\ courier'[<<alerts[m], j>>].alert = m
      OBVIOUS
    <3>1. PICK j \in Positions : courier[<<alerts[m], j>>].pc # "idle" /\ courier[<<alerts[m], j>>].alert = m
      BY <1>1 DEF RowInv
    <3>2. courier'[<<alerts[m], j>>].pc # "idle" /\ courier'[<<alerts[m], j>>].alert = m
      BY <1>2, <2>1, <3>1
    <3> QED
      BY <3>2
  <2>3. posts'[<<m, c>>] # 0 => \E j \in Positions : /\ courier'[<<alerts'[m], j>>].pc # "idle"
                                                     /\ courier'[<<alerts'[m], j>>].alert = m
    BY <2>2
  <2>4. UNCHANGED <<alerts, deliveries, posts, acks>>
    OBVIOUS
  <2>5. RowInv(m, c)
    BY <1>1
  <2> QED
    BY <2>3, <2>4, <2>5 DEF RowInv
<1> QED
  BY <1>3, <1>4, CourierOnlyRecord

\* Rows are not None.
LEMMA CourierRowIsRow ==
    \A n \in 1 .. MaxAttempts : [status |-> "pending", attempts |-> n - 1] # None
<1>1. MaxAttempts \in Nat \ {0}
  BY AlertAssumption DEF AlertAssumption
<1>2. \A n \in 1 .. MaxAttempts : [status |-> "pending", attempts |-> n - 1] \in Rows
  BY <1>1 DEF Rows
<1> QED
  BY <1>2, NoneIsNoRow

LEMMA SavedRowIsRow ==
    \A w \in CourierStates : [status |-> Status(w), attempts |-> w.attempt] # None
<1>1. \A w \in CourierStates : [status |-> Status(w), attempts |-> w.attempt] \in Rows
  BY DEF CourierStates, Rows, Status
<1> QED
  BY <1>1, NoneIsNoRow

LEMMA QuietSteps ==
    ASSUME TypeInv, OwnInv, RecordInv, NEW e \in Evaluations, NEW i \in Positions, NEW c \in Channels,
           Lookup(<<e, i>>, c) \/ Send(<<e, i>>, c) \/ CourierFails(<<e, i>>, c)
    PROVE  RecordInv'
<1> DEFINE k == <<e, i>>
           y == courier[k]
<1>1. /\ y.pc \in {"lookup", "announce", "send", "save"} /\ IsFirst(c, y.todo)
      /\ UNCHANGED <<alerts, deliveries, eval, posts, acks>>
  BY DEF Lookup, Send, CourierFails
<1>2. /\ y \in CourierStates /\ CarryOK(e, y)
      /\ posts[<<y.alert, c>>] \in Nat /\ y.attempt \in Nat
  BY <1>1, CourierRecord
<1>3. ASSUME NEW x, x = NextChannel(y, c), Step(k, x)
      PROVE  RecordInv'
  <2>1. /\ x.pc \in {"lookup", "done"} /\ x.alert = y.alert
        /\ \A b \in x.todo : deliveries'[<<e, x.alert, b>>] = None
    BY <1>1, <1>3, NextChannelCarry
  <2>2. CarryOK(e, x)
    BY <1>1, <2>1 DEF CarryOK
  <2> QED
    BY <1>1, <1>3, <2>1, <2>2, QuietCourierRecord
<1>4. ASSUME NEW x, x.alert = y.alert, x.pc # "idle", CarryOK(e, x), Step(k, x)
      PROVE  RecordInv'
  BY <1>1, <1>4, QuietCourierRecord
<1>5. CASE Lookup(k, c)
  <2>1. CASE c \in channels
    <3> DEFINE x == [y EXCEPT !.pc = "announce"]
    <3>1. /\ x.alert = y.alert /\ x.pc = "announce" /\ x.todo = y.todo /\ y.pc = "lookup"
      BY <1>2, <1>5 DEF CourierStates, Lookup
    <3>2. CarryOK(e, x)
      BY <1>2, <3>1 DEF CarryOK
    <3>3. Step(k, x)
      BY <1>5, <2>1 DEF Lookup
    <3> HIDE DEF x
    <3> QED
      BY <1>4, <3>1, <3>2, <3>3
  <2>2. CASE c \notin channels
    BY <1>3, <1>5, <2>2 DEF Lookup
  <2> QED
    BY <2>1, <2>2
<1>6. CASE Send(k, c)
  <2>1. CASE c \in channels
    <3> DEFINE x == [y EXCEPT !.pc = "post"]
    <3>1. /\ x.alert = y.alert /\ x.pc = "post" /\ x.todo = y.todo /\ x.attempt = y.attempt
          /\ y.pc = "send"
      BY <1>2, <1>6 DEF CourierStates, Send
    <3>2. CarryOK(e, x)
      BY <1>2, <3>1 DEF CarryOK
    <3>3. Step(k, x)
      BY <1>6, <2>1 DEF Send
    <3> HIDE DEF x
    <3> QED
      BY <1>4, <3>1, <3>2, <3>3
  <2>2. CASE c \notin channels
    <3> DEFINE x == [y EXCEPT !.pc = "save", !.ok = FALSE]
    <3>1. /\ x.alert = y.alert /\ x.pc = "save" /\ x.todo = y.todo /\ x.attempt = y.attempt
          /\ x.ok = FALSE /\ y.pc = "send"
      BY <1>2, <1>6 DEF CourierStates, Send
    <3>2. CarryOK(e, x)
      <4> SUFFICES ASSUME NEW b \in y.todo
                   PROVE  IF IsFirst(b, y.todo)
                          THEN /\ deliveries[<<e, y.alert, b>>] = [status |-> "pending", attempts |-> y.attempt - 1]
                               /\ posts[<<y.alert, b>>] <= y.attempt
                               /\ acks[<<y.alert, b>>] = 0
                          ELSE deliveries[<<e, y.alert, b>>] = None
        BY <3>1 DEF CarryOK
      <4>1. CASE IsFirst(b, y.todo)
        <5>1. b = c
          <6>1. b \in Nat /\ c \in Nat
            BY <1>2, AlertAssumption DEF CourierStates, AlertAssumption
          <6> QED
            BY <1>1, <4>1, <6>1 DEF IsFirst
        <5> QED
          BY <1>2, <3>1, <4>1, <5>1 DEF CarryOK
      <4>2. CASE ~IsFirst(b, y.todo)
        BY <1>2, <3>1, <4>2 DEF CarryOK
      <4> QED
        BY <4>1, <4>2
    <3>3. Step(k, x)
      BY <1>6, <2>2 DEF Send
    <3> HIDE DEF x
    <3> QED
      BY <1>4, <3>1, <3>2, <3>3
  <2> QED
    BY <2>1, <2>2
<1>7. CASE CourierFails(k, c)
  <2>1. CASE y.pc = "lookup"
    <3> DEFINE x == [y EXCEPT !.pc = "failed"]
    <3>1. x.alert = y.alert /\ x.pc = "failed"
      BY <1>2 DEF CourierStates
    <3>2. CarryOK(e, x)
      BY <3>1 DEF CarryOK
    <3>3. Step(k, x)
      BY <1>7, <2>1 DEF CourierFails
    <3> HIDE DEF x
    <3> QED
      BY <1>4, <3>1, <3>2, <3>3
  <2>2. CASE y.pc # "lookup"
    BY <1>3, <1>7, <2>2 DEF CourierFails
  <2> QED
    BY <2>1, <2>2
<1> QED
  BY <1>5, <1>6, <1>7

LEMMA AnnounceRecord ==
    ASSUME TypeInv, OwnInv, RecordInv, NEW e \in Evaluations, NEW i \in Positions, NEW c \in Channels,
           Announce(<<e, i>>, c)
    PROVE  RecordInv'
<1> DEFINE k == <<e, i>>
           y == courier[k]
           x == [y EXCEPT !.pc = "send", !.attempt = 1]
<1>1. /\ y.pc = "announce" /\ IsFirst(c, y.todo) /\ UNCHANGED <<alerts, eval, posts, acks>>
      /\ Save(<<e, y.alert, c>>, "pending", 0) /\ Step(k, x)
  BY DEF Announce
<1>2. /\ y \in CourierStates /\ CarryOK(e, y) /\ RowInv(y.alert, c) /\ y.alert \in Markers
      /\ alerts[y.alert] = e /\ c \in y.todo /\ c \in Nat /\ <<e, y.alert, c>> \in DeliveryIds
      /\ posts[<<y.alert, c>>] \in Nat /\ MaxAttempts \in Nat \ {0}
  BY <1>1, CourierRecord
<1>3. PICK m \in Markers : m = y.alert
  BY <1>2
<1>4. x.alert = m /\ x.pc = "send" /\ x.todo = y.todo /\ x.attempt = 1 /\ courier'[k] = x
  BY <1>1, <1>2, <1>3 DEF CourierStates, Step, TypeInv, TypeOK
<1>5. /\ deliveries'[<<e, m, c>>] = [status |-> "pending", attempts |-> 0]
      /\ \A d \in DeliveryIds : d # <<e, m, c>> => deliveries'[d] = deliveries[d]
  BY <1>1, <1>2, <1>3 DEF Save, TypeInv, TypeOK
<1>6. deliveries[<<e, m, c>>] = None
  BY <1>1, <1>2, <1>3 DEF CarryOK
<1>7. posts[<<m, c>>] = 0 /\ acks[<<m, c>>] = 0
  BY <1>2, <1>3, <1>6 DEF RowInv
<1> HIDE DEF x
<1>8. RowInv(m, c)'
  <2>1. \A f \in Evaluations : f # e => deliveries'[<<f, m, c>>] = deliveries[<<f, m, c>>]
    BY <1>5 DEF DeliveryIds
  <2>2. Truthful(deliveries'[<<e, m, c>>], posts[<<m, c>>], acks[<<m, c>>])
    BY <1>2, <1>5, <1>7 DEF Truthful
  <2>3. RowInv(m, c) /\ alerts[m] = e /\ UNCHANGED <<alerts, posts, acks>>
    BY <1>1, <1>2, <1>3
  <2> QED
    BY <1>2, <1>7, <2>1, <2>2, <2>3 DEF RowInv
<1>9. CarryOK(e, courier[<<e, i>>])'
  <2> SUFFICES ASSUME NEW b \in y.todo
               PROVE  IF IsFirst(b, y.todo)
                      THEN /\ deliveries'[<<e, m, b>>] = [status |-> "pending", attempts |-> 1 - 1]
                           /\ posts'[<<m, b>>] <= 1 - 1
                           /\ acks'[<<m, b>>] = 0
                      ELSE deliveries'[<<e, m, b>>] = None
    BY <1>4 DEF CarryOK
  <2>1. b \in Channels /\ b \in Nat /\ <<e, m, b>> \in DeliveryIds
    BY <1>2, AlertAssumption DEF CourierStates, AlertAssumption, DeliveryIds
  <2>2. CASE IsFirst(b, y.todo)
    <3>1. b = c
      BY <1>1, <1>2, <2>1, <2>2 DEF IsFirst
    <3> QED
      BY <1>1, <1>5, <1>7, <2>2, <3>1
  <2>3. CASE ~IsFirst(b, y.todo)
    <3>1. b # c
      BY <1>1, <2>3
    <3>2. deliveries[<<e, m, b>>] = None
      BY <1>1, <1>2, <1>3 DEF CarryOK
    <3> QED
      BY <1>5, <2>1, <2>3, <3>1, <3>2
  <2> QED
    BY <2>2, <2>3
<1> QED
  BY <1>1, <1>3, <1>4, <1>5, <1>8, <1>9, CourierOnlyRecord

LEMMA PostRecord ==
    ASSUME TypeInv, OwnInv, RecordInv, NEW e \in Evaluations, NEW i \in Positions, NEW c \in Channels,
           NEW ok \in BOOLEAN, Post(<<e, i>>, c, ok)
    PROVE  RecordInv' /\ acks[<<courier[<<e, i>>].alert, c>>] = 0
<1> DEFINE k == <<e, i>>
           y == courier[k]
           x == [y EXCEPT !.pc = "save", !.ok = ok]
<1>1. /\ y.pc = "post" /\ IsFirst(c, y.todo) /\ UNCHANGED <<alerts, deliveries, eval>> /\ Step(k, x)
      /\ posts' = [posts EXCEPT ![<<y.alert, c>>] = @ + 1]
      /\ acks' = [acks EXCEPT ![<<y.alert, c>>] = IF ok THEN @ + 1 ELSE @]
  BY DEF Post
<1>2. /\ y \in CourierStates /\ CourierLocals(y) /\ CarryOK(e, y) /\ RowInv(y.alert, c)
      /\ y.alert \in Markers /\ alerts[y.alert] = e /\ c \in y.todo /\ c \in Nat
      /\ <<y.alert, c>> \in Markers \X Channels
      /\ posts[<<y.alert, c>>] \in Nat /\ MaxAttempts \in Nat \ {0}
  BY <1>1, CourierRecord
<1>3. PICK m \in Markers : m = y.alert
  BY <1>2
<1>4. /\ x.alert = m /\ x.pc = "save" /\ x.todo = y.todo /\ x.attempt = y.attempt /\ x.ok = ok
      /\ courier'[k] = x
  BY <1>1, <1>2, <1>3 DEF CourierStates, Step, TypeInv, TypeOK
<1>5. /\ deliveries[<<e, m, c>>] = [status |-> "pending", attempts |-> y.attempt - 1]
      /\ posts[<<m, c>>] <= y.attempt - 1 /\ acks[<<m, c>>] = 0
      /\ y.attempt \in 1 .. MaxAttempts
  BY <1>1, <1>2, <1>3 DEF CarryOK, CourierLocals
<1>6. /\ posts'[<<m, c>>] = posts[<<m, c>>] + 1 /\ acks'[<<m, c>>] = IF ok THEN 1 ELSE 0
      /\ \A n \in Markers, b \in Channels : <<n, b>> # <<m, c>> =>
            posts'[<<n, b>>] = posts[<<n, b>>] /\ acks'[<<n, b>>] = acks[<<n, b>>]
  BY <1>1, <1>2, <1>3, <1>5 DEF TypeInv, TypeOK
<1> HIDE DEF x
<1>7. RowInv(m, c)'
  <2>1. deliveries[<<e, m, c>>] # None
    BY <1>2, <1>3, <1>5, CourierRowIsRow
  <2>2. posts'[<<m, c>>] <= MaxAttempts
    BY <1>2, <1>3, <1>5, <1>6
  <2>3. Truthful(deliveries[<<e, m, c>>], posts'[<<m, c>>], acks'[<<m, c>>])
    BY <1>2, <1>3, <1>5, <1>6 DEF Truthful
  <2>4. RowInv(m, c) /\ alerts[m] = e /\ UNCHANGED <<alerts, deliveries>>
    BY <1>1, <1>2, <1>3
  <2>5. \E j \in Positions : courier'[<<e, j>>].pc # "idle" /\ courier'[<<e, j>>].alert = m
    BY <1>4
  <2>6. \A f \in Evaluations : deliveries'[<<f, m, c>>] # None => alerts'[m] = f
    BY <2>4 DEF RowInv
  <2>7. alerts'[m] = e /\ deliveries'[<<e, m, c>>] = deliveries[<<e, m, c>>]
    BY <2>4
  <2>8. alerts'[m] # None
    BY <1>2, <2>7, NoneIsNoRow
  <2> QED
    BY <2>1, <2>2, <2>3, <2>5, <2>6, <2>7, <2>8 DEF RowInv
<1>8. CarryOK(e, courier[<<e, i>>])'
  <2> SUFFICES ASSUME NEW b \in y.todo
               PROVE  IF IsFirst(b, y.todo)
                      THEN /\ deliveries'[<<e, m, b>>] = [status |-> "pending", attempts |-> y.attempt - 1]
                           /\ posts'[<<m, b>>] <= y.attempt
                           /\ acks'[<<m, b>>] = IF ok THEN 1 ELSE 0
                      ELSE deliveries'[<<e, m, b>>] = None
    BY <1>4 DEF CarryOK
  <2>1. b \in Nat
    BY <1>2, AlertAssumption DEF CourierStates, AlertAssumption
  <2>2. CASE IsFirst(b, y.todo)
    <3>1. b = c
      BY <1>1, <1>2, <2>1, <2>2 DEF IsFirst
    <3>2. posts'[<<m, c>>] <= y.attempt
      BY <1>2, <1>3, <1>5, <1>6
    <3> QED
      BY <1>1, <1>5, <1>6, <2>2, <3>1, <3>2
  <2>3. CASE ~IsFirst(b, y.todo)
    BY <1>1, <1>2, <1>3, <2>3 DEF CarryOK
  <2> QED
    BY <2>2, <2>3
<1>9. RecordInv'
  BY <1>1, <1>3, <1>4, <1>6, <1>7, <1>8, CourierOnlyRecord
<1> QED
  BY <1>3, <1>5, <1>9

LEMMA SaveAttemptRecord ==
    ASSUME TypeInv, OwnInv, RecordInv, NEW e \in Evaluations, NEW i \in Positions, NEW c \in Channels,
           SaveAttempt(<<e, i>>, c)
    PROVE  RecordInv'
<1> DEFINE k == <<e, i>>
           y == courier[k]
           x == IF Done(y) THEN NextChannel(y, c) ELSE [y EXCEPT !.pc = "send", !.attempt = @ + 1]
<1>1. /\ y.pc = "save" /\ IsFirst(c, y.todo) /\ UNCHANGED <<alerts, eval, posts, acks>> /\ Step(k, x)
      /\ Save(<<e, y.alert, c>>, Status(y), y.attempt)
  BY DEF SaveAttempt
<1>2. /\ y \in CourierStates /\ CourierLocals(y) /\ CarryOK(e, y) /\ RowInv(y.alert, c)
      /\ y.alert \in Markers /\ alerts[y.alert] = e /\ c \in y.todo /\ c \in Nat
      /\ <<e, y.alert, c>> \in DeliveryIds
      /\ posts[<<y.alert, c>>] \in Nat /\ MaxAttempts \in Nat \ {0}
  BY <1>1, CourierRecord
<1>3. PICK m \in Markers : m = y.alert
  BY <1>2
<1>4. /\ deliveries[<<e, m, c>>] = [status |-> "pending", attempts |-> y.attempt - 1]
      /\ posts[<<m, c>>] <= y.attempt /\ acks[<<m, c>>] = IF y.ok THEN 1 ELSE 0
      /\ y.attempt \in 1 .. MaxAttempts /\ y.ok \in BOOLEAN
  BY <1>1, <1>2, <1>3 DEF CarryOK, CourierLocals, CourierStates
<1>5. /\ deliveries'[<<e, m, c>>] = [status |-> Status(y), attempts |-> y.attempt]
      /\ \A d \in DeliveryIds : d # <<e, m, c>> => deliveries'[d] = deliveries[d]
  BY <1>1, <1>2, <1>3 DEF Save, TypeInv, TypeOK
<1>6. \A b \in Channels : b # c => deliveries'[<<e, m, b>>] = deliveries[<<e, m, b>>]
  BY <1>5 DEF DeliveryIds
<1>7. courier'[k] = x
  BY <1>1 DEF Step, TypeInv, TypeOK
<1>8. /\ x.pc # "idle" /\ x.alert = m /\ CarryOK(e, courier[<<e, i>>])'
  <2>1. CASE Done(y)
    <3>1. PICK z : z = NextChannel(y, c)
      OBVIOUS
    <3>2. x = z
      BY <2>1, <3>1
    <3>3. \A b \in Channels : b # c => deliveries'[<<e, y.alert, b>>] = deliveries[<<e, y.alert, b>>]
      BY <1>3, <1>6
    <3>4. /\ z.pc \in {"lookup", "done"} /\ z.alert = y.alert
          /\ \A b \in z.todo : deliveries'[<<e, z.alert, b>>] = None
      BY <1>1, <3>1, <3>3, NextChannelCarry
    <3>5. courier'[<<e, i>>] = z
      BY <1>7, <3>2
    <3>6. CarryOK(e, courier[<<e, i>>])'
      BY <3>4, <3>5 DEF CarryOK
    <3> HIDE DEF x
    <3> QED
      BY <1>3, <3>2, <3>4, <3>6
  <2>2. CASE ~Done(y)
    <3>1. x = [y EXCEPT !.pc = "send", !.attempt = @ + 1]
      BY <2>2
    <3>2. /\ x.pc = "send" /\ x.alert = m /\ x.todo = y.todo /\ x.attempt = y.attempt + 1
      BY <1>2, <1>3, <3>1 DEF CourierStates
    <3>3. y.ok = FALSE /\ Status(y) = "pending"
      BY <1>4, <2>2 DEF Done, Status
    <3>a. courier'[<<e, i>>] = x
      BY <1>7
    <3> HIDE DEF x
    <3>4. ASSUME NEW b \in y.todo
          PROVE  IF IsFirst(b, y.todo)
                 THEN /\ deliveries'[<<e, m, b>>] = [status |-> "pending", attempts |-> y.attempt]
                      /\ posts'[<<m, b>>] <= y.attempt
                      /\ acks'[<<m, b>>] = 0
                 ELSE deliveries'[<<e, m, b>>] = None
      <4>0. b \in Channels /\ b \in Nat
        BY <1>2, AlertAssumption DEF CourierStates, AlertAssumption
      <4>1. CASE b = c
        BY <1>1, <1>4, <1>5, <3>3, <4>1
      <4>2. CASE b # c
        <5>1. ~IsFirst(b, y.todo)
          BY <1>1, <1>2, <4>0, <4>2 DEF IsFirst
        <5>2. deliveries[<<e, m, b>>] = None
          BY <1>1, <1>2, <1>3, <5>1 DEF CarryOK
        <5> QED
          BY <1>6, <4>0, <4>2, <5>1, <5>2
      <4> QED
        BY <4>1, <4>2
    <3>5. y.attempt + 1 - 1 = y.attempt
      BY <1>4
    <3>6. PICK z : z = x
      OBVIOUS
    <3>7. z.pc = "send" /\ z.alert = m /\ z.todo = y.todo /\ z.attempt - 1 = y.attempt
      <4>1. z.pc = "send" /\ z.alert = m /\ z.todo = y.todo /\ z.attempt = y.attempt + 1
        BY <3>2, <3>6
      <4> QED
        BY <1>2, <1>4, <4>1
    <3>8. courier'[<<e, i>>] = z
      BY <3>a, <3>6
    <3>9. CarryOK(e, courier[<<e, i>>])'
      BY <3>4, <3>7, <3>8 DEF CarryOK
    <3> QED
      BY <3>2, <3>9
  <2> QED
    BY <2>1, <2>2
<1> HIDE DEF x
<1>9. RowInv(m, c)'
  <2>1. \A f \in Evaluations : f # e => deliveries'[<<f, m, c>>] = deliveries[<<f, m, c>>]
    BY <1>5 DEF DeliveryIds
  <2>2. Truthful(deliveries'[<<e, m, c>>], posts[<<m, c>>], acks[<<m, c>>])
    <3>1. CASE y.ok
      BY <1>4, <1>5, <3>1 DEF Truthful, Status
    <3>2. CASE ~y.ok /\ Done(y)
      BY <1>4, <1>5, <3>2 DEF Truthful, Status, Done
    <3>3. CASE ~y.ok /\ ~Done(y)
      <4>1. y.attempt < MaxAttempts /\ posts[<<m, c>>] <= y.attempt + 1
        BY <1>2, <1>3, <1>4, <3>3 DEF Done
      <4> QED
        BY <1>4, <1>5, <3>3, <4>1 DEF Truthful, Status
    <3> QED
      BY <3>1, <3>2, <3>3
  <2>3. RowInv(m, c) /\ alerts[m] = e /\ UNCHANGED <<alerts, posts, acks>>
    BY <1>1, <1>2, <1>3
  <2>4. deliveries[<<e, m, c>>] # None /\ deliveries'[<<e, m, c>>] # None
    BY <1>2, <1>3, <1>4, <1>5, CourierRowIsRow, SavedRowIsRow
  <2>5. courier'[<<e, i>>].pc # "idle" /\ courier'[<<e, i>>].alert = m
    BY <1>7, <1>8
  <2> QED
    BY <2>1, <2>2, <2>3, <2>4, <2>5 DEF RowInv
<1> QED
  BY <1>1, <1>3, <1>5, <1>7, <1>8, <1>9, CourierOnlyRecord

\* A process that stops leaves the records as they are.
LEMMA CrashRecord ==
    ASSUME TypeInv, OwnInv, RecordInv, NEW p \in Managers, Crash(p)
    PROVE  RecordInv'
<1>1. UNCHANGED <<alerts, deliveries, posts, acks>>
  BY DEF Crash
<1>2. ASSUME NEW f \in Evaluations
      PROVE  eval'[f] = eval[f] \/ eval'[f].pc = "failed"
  BY DEF Crash, Stopped, Idle
<1>3. ASSUME NEW k \in Evaluations \X Positions
      PROVE  /\ courier'[k].pc = "idle" <=> courier[k].pc = "idle"
             /\ courier'[k].alert = courier[k].alert
             /\ courier'[k] = courier[k] \/ courier'[k].pc = "failed"
  <2>1. courier[k] \in CourierStates /\ CourierLocals(courier[k]) /\ k \in DOMAIN courier
    BY DEF TypeInv, TypeOK, LocalsInv
  <2>2. courier[k].mgr = p => courier[k].pc # "idle"
    BY <2>1, AlertAssumption DEF CourierLocals, AlertAssumption
  <2>3. courier'[k] = IF courier[k].mgr = p /\ courier[k].pc # "done"
                      THEN [courier[k] EXCEPT !.pc = "failed"] ELSE courier[k]
    BY <2>1 DEF Crash
  <2> QED
    BY <2>1, <2>2, <2>3 DEF CourierStates
<1>4. ASSUME NEW f \in Evaluations PROVE SkipOK(f, eval[f])'
  BY <1>1, <1>2 DEF RecordInv, SkipOK
<1>5. ASSUME NEW f \in Evaluations, NEW i \in Positions PROVE CarryOK(f, courier[<<f, i>>])'
  <2>1. CASE courier'[<<f, i>>] = courier[<<f, i>>]
    BY <1>1, <2>1 DEF RecordInv, CarryOK
  <2>2. CASE courier'[<<f, i>>].pc = "failed"
    BY <2>2 DEF CarryOK
  <2> QED
    BY <1>3, <2>1, <2>2
<1>6. ASSUME NEW m \in Markers, NEW c \in Channels PROVE RowInv(m, c)'
  <2>1. RowInv(m, c) /\ (posts[<<m, c>>] # 0 => alerts[m] \in Evaluations)
    BY DEF RecordInv, RowInv, TypeInv, TypeOK
  <2>2. posts[<<m, c>>] # 0 => \E i \in Positions : /\ courier'[<<alerts[m], i>>].pc # "idle"
                                                    /\ courier'[<<alerts[m], i>>].alert = m
    BY <1>3, <2>1 DEF RowInv
  <2>3. posts'[<<m, c>>] # 0 => \E i \in Positions : /\ courier'[<<alerts'[m], i>>].pc # "idle"
                                                     /\ courier'[<<alerts'[m], i>>].alert = m
    BY <1>1, <2>2
  <2> QED
    BY <1>1, <2>1, <2>3 DEF RowInv
<1> QED
  BY <1>4, <1>5, <1>6 DEF RecordInv

LEMMA SameRecord ==
    ASSUME RecordInv, UNCHANGED <<alerts, deliveries, eval, courier, posts, acks>>
    PROVE  RecordInv'
<1>1. ASSUME NEW f \in Evaluations PROVE SkipOK(f, eval[f])'
  BY DEF RecordInv, SkipOK
<1>2. ASSUME NEW f \in Evaluations, NEW i \in Positions PROVE CarryOK(f, courier[<<f, i>>])'
  BY DEF RecordInv, CarryOK
<1>3. ASSUME NEW m \in Markers, NEW c \in Channels PROVE RowInv(m, c)'
  <2>1. RowInv(m, c)
    BY DEF RecordInv
  <2> QED
    BY <2>1 DEF RowInv
<1> QED
  BY <1>1, <1>2, <1>3 DEF RecordInv

LEMMA RecordStep == TypeInv /\ OwnInv /\ RecordInv /\ [Next]_vars => RecordInv'
<1> SUFFICES ASSUME TypeInv, OwnInv, RecordInv, [Next]_vars
             PROVE  RecordInv'
  OBVIOUS
<1>1. ASSUME NEW e \in Evaluations, NEW p \in Managers, NEW us \in UsageLists, Evaluate(e, p, us)
      PROVE  RecordInv'
  <2>1. PICK w : w = [Idle EXCEPT !.mgr = p, !.usages = us]
    OBVIOUS
  <2>2. w \in EvalStates /\ w.usages \in UsageLists
    BY <2>1 DEF Idle, EvalStates
  <2>3. FromUsage(e, w, 1) /\ UNCHANGED <<alerts, deliveries, courier, posts, acks>>
    BY <1>1, <2>1 DEF Evaluate
  <2>4. SkipOK(e, eval[e])' /\ \A f \in Evaluations : f # e => eval'[f] = eval[f]
    BY <2>2, <2>3, FromUsageSkipOK
  <2> QED
    BY <2>3, <2>4, EvalOnlyRecord
<1>2. ASSUME NEW e \in Evaluations, SkipLookup(e)
      PROVE  RecordInv'
  <2>1. /\ UNCHANGED <<alerts, deliveries, courier, posts, acks>>
        /\ \A f \in Evaluations : f # e => eval'[f] = eval[f]
    BY <1>2 DEF SkipLookup, TypeInv, TypeOK
  <2>2. /\ eval'[e].pc \in {"skip", "skipped"} /\ eval[e].pc = "lookup"
        /\ eval'[e].usages = eval[e].usages /\ eval'[e].at = eval[e].at
        /\ eval'[e].fresh = eval[e].fresh /\ eval'[e].skips = eval[e].skips
    BY <1>2 DEF SkipLookup, TypeInv, TypeOK, EvalStates
  <2>3. SkipOK(e, eval[e])
    BY DEF RecordInv
  <2>4. SkipOK(e, eval[e])'
    BY <2>1, <2>2, <2>3 DEF SkipOK
  <2> QED
    BY <2>1, <2>4, EvalOnlyRecord
<1>3. ASSUME NEW e \in Evaluations, EvaluateFails(e)
      PROVE  RecordInv'
  <2>1. /\ eval'[e] = Stopped(eval[e]) /\ UNCHANGED <<alerts, deliveries, courier, posts, acks>>
        /\ \A f \in Evaluations : f # e => eval'[f] = eval[f]
    BY <1>3 DEF EvaluateFails, TypeInv, TypeOK
  <2>2. eval'[e].pc = "failed"
    BY <2>1 DEF Stopped, Idle
  <2>3. SkipOK(e, eval[e])'
    BY <2>2 DEF SkipOK
  <2> QED
    BY <2>1, <2>3, EvalOnlyRecord
<1>4. ASSUME NEW e \in Evaluations, NEW i \in Positions, NothingToDeliver(<<e, i>>)
      PROVE  RecordInv'
  <2>1. PICK x : x = [courier[<<e, i>>] EXCEPT !.pc = "done"]
    OBVIOUS
  <2>2. /\ courier[<<e, i>>].pc = "lookup" /\ Step(<<e, i>>, x)
        /\ UNCHANGED <<alerts, deliveries, eval, posts, acks>>
    BY <1>4, <2>1 DEF NothingToDeliver
  <2>3. x.pc = "done" /\ x.alert = courier[<<e, i>>].alert
    BY <2>1 DEF TypeInv, TypeOK, CourierStates
  <2>4. /\ courier'[<<e, i>>] = x
        /\ \A f \in Evaluations, j \in Positions : <<f, j>> # <<e, i>> => courier'[<<f, j>>] = courier[<<f, j>>]
    BY <2>2 DEF Step, TypeInv, TypeOK
  <2>5. ASSUME NEW f \in Evaluations, NEW j \in Positions
        PROVE  /\ CarryOK(f, courier[<<f, j>>])'
               /\ courier'[<<f, j>>].pc = "idle" <=> courier[<<f, j>>].pc = "idle"
               /\ courier'[<<f, j>>].alert = courier[<<f, j>>].alert
    <3>1. CASE <<f, j>> = <<e, i>>
      <4>1. f = e /\ j = i
        BY <3>1
      <4>2. CarryOK(f, courier[<<f, j>>])'
        BY <2>3, <2>4, <4>1 DEF CarryOK
      <4> QED
        BY <2>2, <2>3, <2>4, <4>1, <4>2
    <3>2. CASE <<f, j>> # <<e, i>>
      <4>1. courier'[<<f, j>>] = courier[<<f, j>>] /\ CarryOK(f, courier[<<f, j>>])
        BY <2>4, <3>2 DEF RecordInv
      <4>2. CarryOK(f, courier[<<f, j>>])'
        BY <2>2, <4>1 DEF CarryOK
      <4> QED
        BY <4>1, <4>2
    <3> QED
      BY <3>1, <3>2
  <2>6. ASSUME NEW f \in Evaluations PROVE SkipOK(f, eval[f])'
    BY <2>2 DEF RecordInv, SkipOK
  <2>7. ASSUME NEW m \in Markers, NEW c \in Channels PROVE RowInv(m, c)'
    <3>0. RowInv(m, c) /\ alerts[m] \in Evaluations \cup {None}
      BY DEF RecordInv, TypeInv, TypeOK
    <3>1. RowInv(m, c) /\ (posts[<<m, c>>] # 0 => alerts[m] \in Evaluations)
      BY <3>0 DEF RowInv
    <3>2. posts[<<m, c>>] # 0 => \E j \in Positions : /\ courier'[<<alerts[m], j>>].pc # "idle"
                                                      /\ courier'[<<alerts[m], j>>].alert = m
      BY <2>5, <3>1 DEF RowInv
    <3>3. posts'[<<m, c>>] # 0 => \E j \in Positions : /\ courier'[<<alerts'[m], j>>].pc # "idle"
                                                       /\ courier'[<<alerts'[m], j>>].alert = m
      BY <2>2, <3>2
    <3> QED
      BY <2>2, <3>1, <3>3 DEF RowInv
  <2> QED
    BY <2>5, <2>6, <2>7 DEF RecordInv
<1>5. ASSUME NEW c \in Channels, DeleteChannel(c)
      PROVE  RecordInv'
  BY <1>5, SameRecord DEF DeleteChannel
<1>6. ASSUME NEW p \in Managers, Crash(p)
      PROVE  RecordInv'
  BY <1>6, CrashRecord
<1>7. CASE UNCHANGED vars
  BY <1>7, SameRecord DEF vars
<1>8. ASSUME NEW e \in Evaluations, Insert(e) \/ Inserted(e) \/ Skip(e) \/ Skipped(e)
      PROVE  RecordInv'
  BY <1>8, InsertRecord, InsertedRecord, SkipRecord, SkippedRecord
<1>9. ASSUME NEW e \in Evaluations, NEW i \in Positions, NEW c \in Channels,
             \/ Lookup(<<e, i>>, c) \/ Announce(<<e, i>>, c) \/ Send(<<e, i>>, c)
             \/ SaveAttempt(<<e, i>>, c) \/ CourierFails(<<e, i>>, c)
             \/ \E ok \in BOOLEAN : Post(<<e, i>>, c, ok)
      PROVE  RecordInv'
  BY <1>9, QuietSteps, AnnounceRecord, PostRecord, SaveAttemptRecord
<1>10. ASSUME NEW k \in DOMAIN courier, CourierStep(k) \/ \E c \in Channels : CourierFails(k, c)
       PROVE  RecordInv'
  <2>1. PICK e \in Evaluations, i \in Positions : k = <<e, i>>
    BY DEF TypeInv, TypeOK
  <2> QED
    BY <1>4, <1>9, <1>10, <2>1 DEF CourierStep
<1> QED
  BY <1>1, <1>2, <1>3, <1>5, <1>6, <1>7, <1>8, <1>10, Zenon DEF Next, EvalStep

LEMMA InitRecord == Init => OwnInv /\ RecordInv
<1> SUFFICES ASSUME Init PROVE OwnInv /\ RecordInv
  OBVIOUS
<1>1. /\ \A m \in Markers : alerts[m] = None
      /\ \A d \in DeliveryIds : deliveries[d] = None
      /\ \A e \in Evaluations : eval[e].pc = "idle"
      /\ \A e \in Evaluations, i \in Positions : courier[<<e, i>>].pc = "idle"
      /\ \A m \in Markers, c \in Channels : posts[<<m, c>>] = 0 /\ acks[<<m, c>>] = 0
  BY DEF Init, Idle, NoCourier
<1>2. \A e \in Evaluations, m \in Markers, c \in Channels : <<e, m, c>> \in DeliveryIds
  BY DEF DeliveryIds
<1>3. OwnInv
  BY <1>1, NoneIsNoRow DEF OwnInv, RaisedOK, CourierOK, Active
<1>4. ASSUME NEW m \in Markers, NEW c \in Channels PROVE RowInv(m, c)
  BY <1>1, <1>2, AlertAssumption DEF RowInv, AlertAssumption
<1>5. ASSUME NEW e \in Evaluations PROVE SkipOK(e, eval[e])
  BY <1>1 DEF SkipOK
<1>6. ASSUME NEW e \in Evaluations, NEW i \in Positions PROVE CarryOK(e, courier[<<e, i>>])
  BY <1>1 DEF CarryOK
<1> QED
  BY <1>3, <1>4, <1>5, <1>6 DEF RecordInv

LEMMA Inductive == Spec => []AlertInv
<1>1. Init => AlertInv
  BY InitType, InitRecord DEF AlertInv
<1>2. AlertInv /\ [Next]_vars => AlertInv'
  BY TypeStep, OwnStep, RecordStep DEF AlertInv
<1> QED
  BY <1>1, <1>2, PTL DEF Spec

-----------------------------------------------------------------------------
(* What follows *)

\* Over all processes and restarts an alert has one record per channel, and no request was
\* sent without one.
THEOREM OneRecord == Spec => []OneRecordPerChannel
<1>1. AlertInv => OneRecordPerChannel
  <2> SUFFICES ASSUME AlertInv PROVE OneRecordPerChannel
    OBVIOUS
  <2>1. \A m \in Markers, c \in Channels : RowInv(m, c) /\ posts[<<m, c>>] \in Nat
    BY DEF AlertInv, RecordInv, TypeInv, TypeOK
  <2>2. ASSUME NEW id \in DeliveryIds, deliveries[id] # None PROVE alerts[id[2]] = id[1]
    <3>1. PICK e \in Evaluations, m \in Markers, c \in Channels : id = <<e, m, c>>
      BY DEF DeliveryIds
    <3> QED
      BY <2>1, <2>2, <3>1 DEF RowInv
  <2>3. ASSUME NEW m \in Markers, NEW c \in Channels, posts[<<m, c>>] > 0
        PROVE  alerts[m] # None /\ Row(m, c) # None
    <3>1. RowInv(m, c) /\ posts[<<m, c>>] # 0
      BY <2>1, <2>3
    <3> QED
      BY <3>1 DEF RowInv, Row
  <2> QED
    BY <2>2, <2>3 DEF OneRecordPerChannel
<1> QED
  BY <1>1, Inductive, PTL

\* A delivery record tells what the channel got.
THEOREM Truthfulness == Spec => []RecordsTruthful
<1>1. AlertInv => RecordsTruthful
  <2> SUFFICES ASSUME AlertInv, NEW m \in Markers, NEW c \in Channels,
                      alerts[m] # None, Row(m, c) # None
               PROVE  LET row == Row(m, c)
                      IN  CASE row.status = "delivered" -> acks[<<m, c>>] = 1 /\ posts[<<m, c>>] <= row.attempts
                            [] row.status = "failed" -> acks[<<m, c>>] = 0 /\ row.attempts = MaxAttempts
                            [] row.status = "skipped" -> posts[<<m, c>>] = 0
                            [] row.status = "pending" -> /\ row.attempts < MaxAttempts
                                                         /\ posts[<<m, c>>] <= row.attempts + 1
    BY DEF RecordsTruthful
  <2> DEFINE row == Row(m, c)
  <2>1. Truthful(row, posts[<<m, c>>], acks[<<m, c>>])
    BY DEF AlertInv, RecordInv, RowInv, Row
  <2>2. row.status \in {"pending", "delivered", "failed", "skipped"}
    <3>1. <<alerts[m], m, c>> \in DeliveryIds
      BY DEF AlertInv, TypeInv, TypeOK, DeliveryIds
    <3>2. row \in Rows
      BY <3>1 DEF AlertInv, TypeInv, TypeOK, Row
    <3> QED
      BY <3>2 DEF Rows
  <2> HIDE DEF row
  <2> QED
    BY <2>1, <2>2 DEF Truthful, row
<1> QED
  BY <1>1, Inductive, PTL

\* No channel gets more requests for an alert than there are attempts.
THEOREM Bounded == Spec => []AttemptsBounded
<1>1. AlertInv => AttemptsBounded
  BY DEF AlertInv, RecordInv, RowInv, AttemptsBounded
<1> QED
  BY <1>1, Inductive, PTL

\* Of the alerts of a budget that one call raised, all but the highest stay unsent.
THEOREM OneMessage == Spec => []OneMessagePerCall
<1>1. AlertInv => OneMessagePerCall
  <2> SUFFICES ASSUME AlertInv, NEW e \in Evaluations, NEW c \in Channels, NEW m \in Markers,
                      NEW h \in Markers, m[1] = h[1], m[2] = h[2], m[3] < h[3],
                      alerts[m] = e, alerts[h] = e, posts[<<m, c>>] # 0
               PROVE  FALSE
    BY DEF OneMessagePerCall
  <2>1. PICK i \in Positions : courier[<<e, i>>].pc # "idle" /\ courier[<<e, i>>].alert = m
    <3>1. RowInv(m, c)
      BY DEF AlertInv, RecordInv
    <3> QED
      BY <3>1 DEF RowInv
  <2>2. CourierOK(e, i)
    BY DEF AlertInv, OwnInv
  <2>3. PICK t \in Thresholds :
           /\ m = Marker(eval[e].usages[i], t)
           /\ \A g \in Thresholds : alerts[Marker(eval[e].usages[i], g)] = e => g <= t
    BY <2>1, <2>2 DEF CourierOK
  <2>4. PICK u \in AllUsages, g \in Thresholds : h = Marker(u, g)
    BY DEF Markers
  <2>5. h = Marker(eval[e].usages[i], g) /\ m[3] = t /\ h[3] = g
    BY <2>3, <2>4 DEF Marker
  <2>6. g <= t /\ t < g /\ g \in Nat /\ t \in Nat
    BY <2>3, <2>4, <2>5, ThresholdsAreNat
  <2> QED
    BY <2>6
<1> QED
  BY <1>1, Inductive, PTL

\* Only Post sends something, and then the channel has not yet acknowledged the alert.
LEMMA QuietStep ==
    AlertInv /\ [Next]_vars =>
    [\A m \in Markers, c \in Channels : posts'[<<m, c>>] # posts[<<m, c>>] => acks[<<m, c>>] = 0]_vars
<1> SUFFICES ASSUME AlertInv, Next, NEW m \in Markers, NEW c \in Channels,
                    posts'[<<m, c>>] # posts[<<m, c>>]
             PROVE  acks[<<m, c>>] = 0
  OBVIOUS
<1>1. ASSUME NEW e \in Evaluations, NEW i \in Positions, NEW b \in Channels, NEW ok \in BOOLEAN,
             Post(<<e, i>>, b, ok)
      PROVE  acks[<<m, c>>] = 0
  <2>1. acks[<<courier[<<e, i>>].alert, b>>] = 0
    BY <1>1, PostRecord DEF AlertInv
  <2>2. posts' = [posts EXCEPT ![<<courier[<<e, i>>].alert, b>>] = @ + 1]
    BY <1>1 DEF Post
  <2>3. posts \in [Markers \X Channels -> Nat] /\ <<m, c>> \in Markers \X Channels
    BY DEF AlertInv, TypeInv, TypeOK
  <2>4. <<m, c>> = <<courier[<<e, i>>].alert, b>>
    BY <2>2, <2>3
  <2> QED
    BY <2>1, <2>4
<1>2. ASSUME posts' = posts PROVE FALSE
  BY <1>2
<1>3. \A k \in DOMAIN courier : \E e \in Evaluations, i \in Positions : k = <<e, i>>
  BY DEF AlertInv, TypeInv, TypeOK
<1>4. ASSUME NEW e \in Evaluations,
             \/ \E p \in Managers, us \in UsageLists : Evaluate(e, p, us)
             \/ EvalStep(e) \/ EvaluateFails(e)
      PROVE  FALSE
  BY <1>2, <1>4 DEF Evaluate, EvalStep, Insert, Inserted, SkipLookup, Skip, Skipped, EvaluateFails
<1>5. ASSUME NEW k \in DOMAIN courier, CourierStep(k) \/ \E b \in Channels : CourierFails(k, b)
      PROVE  acks[<<m, c>>] = 0
  <2>1. \E b \in Channels, ok \in BOOLEAN : Post(k, b, ok)
    BY <1>2, <1>5 DEF CourierStep, NothingToDeliver, Lookup, Announce, Send, SaveAttempt, CourierFails
  <2> QED
    BY <1>1, <1>3, <2>1
<1>6. ASSUME NEW b \in Channels, DeleteChannel(b) PROVE FALSE
  BY <1>2, <1>6 DEF DeleteChannel
<1>7. ASSUME NEW p \in Managers, Crash(p) PROVE FALSE
  BY <1>2, <1>7 DEF Crash
<1> QED
  BY <1>4, <1>5, <1>6, <1>7 DEF Next

\* Nothing is sent to a channel for an alert it has acknowledged.
THEOREM Quietness == Spec => QuietOnceAcked
<1>1. Spec => []AlertInv
  BY Inductive
<1> QED
  BY <1>1, QuietStep, PTL DEF Spec, QuietOnceAcked

-----------------------------------------------------------------------------
(* The abstract book of alerts *)

Raised == {m \in Markers : alerts[m] # None}
Record == [k \in Markers \X Channels |-> RecordStatus(k[1], k[2])]

LEMMA BookInit == Init => Book!Init
<1> SUFFICES ASSUME Init PROVE Book!Init
  OBVIOUS
<1>1. Raised = {}
  BY DEF Init, Raised
<1>2. Record = [k \in Markers \X Channels |-> "none"]
  <2>1. ASSUME NEW k \in Markers \X Channels PROVE RecordStatus(k[1], k[2]) = "none"
    BY DEF Init, RecordStatus
  <2> QED
    BY <2>1 DEF Record
<1> QED
  BY <1>1, <1>2 DEF Book!Init, Raised, Record

\* Steps that write neither table.
LEMMA BookSame ==
    ASSUME UNCHANGED <<alerts, deliveries>>
    PROVE  Raised' = Raised /\ Record' = Record
BY DEF Raised, Record, RecordStatus, Row

LEMMA BookInsert ==
    ASSUME AlertInv, NEW e \in Evaluations, Insert(e)
    PROVE  \/ Raised' = Raised /\ Record' = Record
           \/ \E m \in Markers : m \notin Raised /\ Raised' = Raised \cup {m} /\ Record' = Record
<1>1. PICK m : m = Marker(eval[e].usages[eval[e].at], eval[e].th)
  OBVIOUS
<1>2. /\ alerts' = [alerts EXCEPT ![m] = IF @ = None THEN e ELSE @] /\ deliveries' = deliveries
  BY <1>1 DEF Insert
<1>3. m \in Markers
  <2>1. EvalLocals(eval[e]) /\ eval[e].pc = "insert"
    BY DEF AlertInv, TypeInv, LocalsInv, Insert
  <2> QED
    BY <1>1, <2>1, UsageFacts DEF EvalLocals, Active
<1>4. alerts \in [Markers -> Evaluations \cup {None}]
  BY DEF AlertInv, TypeInv, TypeOK
<1>5. CASE alerts[m] # None
  <2>1. alerts' = alerts
    BY <1>2, <1>3, <1>4, <1>5
  <2> QED
    BY <1>2, <2>1, BookSame
<1>6. CASE alerts[m] = None
  <2>1. /\ alerts'[m] = e /\ \A n \in Markers : n # m => alerts'[n] = alerts[n]
    BY <1>2, <1>3, <1>4, <1>6
  <2>2. m \notin Raised /\ Raised' = Raised \cup {m}
    BY <1>3, <1>6, <2>1, NoneIsNoRow DEF Raised
  <2>3. ASSUME NEW n \in Markers, NEW c \in Channels PROVE RecordStatus(n, c)' = RecordStatus(n, c)
    <3>1. CASE n = m
      <4>1. RowInv(m, c)
        BY <1>3 DEF AlertInv, RecordInv
      <4>2. deliveries[<<e, m, c>>] = None
        BY <1>6, <4>1, NoneIsNoRow DEF RowInv
      <4> QED
        BY <1>2, <1>6, <2>1, <3>1, <4>2 DEF RecordStatus, Row
    <3>2. CASE n # m
      BY <1>2, <2>1, <3>2 DEF RecordStatus, Row
    <3> QED
      BY <3>1, <3>2
  <2>4. Record' = Record
    <3>1. \A k \in Markers \X Channels : RecordStatus(k[1], k[2])' = RecordStatus(k[1], k[2])
      BY <2>3
    <3> QED
      BY <3>1 DEF Record
  <2> QED
    BY <1>3, <2>2, <2>4
<1> QED
  BY <1>5, <1>6

\* A step of the book that changes one record.
Written(m, c, status) == Raised' = Raised /\ Record' = [Record EXCEPT ![<<m, c>>] = status]

LEMMA BookSave ==
    ASSUME AlertInv, NEW e \in Evaluations, NEW m \in Markers, NEW c \in Channels,
           alerts[m] = e, alerts' = alerts, NEW status, NEW n,
           [status |-> status, attempts |-> n] # None, Save(<<e, m, c>>, status, n)
    PROVE  Written(m, c, status)
<1>1. /\ deliveries \in [DeliveryIds -> Rows \cup {None}]
      /\ \A f \in Evaluations, k \in Markers, b \in Channels : <<f, k, b>> \in DeliveryIds
  BY DEF AlertInv, TypeInv, TypeOK, DeliveryIds
<1>2. /\ deliveries'[<<e, m, c>>] = [status |-> status, attempts |-> n]
      /\ \A d \in DeliveryIds : d # <<e, m, c>> => deliveries'[d] = deliveries[d]
  BY <1>1 DEF Save
<1>3. RecordStatus(m, c)' = status
  BY <1>2, NoneIsNoRow DEF RecordStatus, Row
<1>4. ASSUME NEW k \in Markers, NEW b \in Channels, <<k, b>> # <<m, c>>
      PROVE  RecordStatus(k, b)' = RecordStatus(k, b)
  <2>1. CASE alerts[k] = None
    BY <2>1 DEF RecordStatus
  <2>2. CASE alerts[k] # None
    <3>1. alerts[k] \in Evaluations
      BY <2>2 DEF AlertInv, TypeInv, TypeOK
    <3>2. deliveries'[<<alerts[k], k, b>>] = deliveries[<<alerts[k], k, b>>]
      BY <1>1, <1>2, <1>4, <3>1
    <3> QED
      BY <3>2 DEF RecordStatus, Row
  <2> QED
    BY <2>1, <2>2
<1>5. Record' = [Record EXCEPT ![<<m, c>>] = status]
  <2>1. \A q \in Markers \X Channels :
           RecordStatus(q[1], q[2])' = IF q = <<m, c>> THEN status ELSE RecordStatus(q[1], q[2])
    BY <1>3, <1>4
  <2> QED
    BY <2>1 DEF Record
<1>6. Raised' = Raised
  BY DEF Raised
<1> QED
  BY <1>5, <1>6 DEF Written

\* What each write of a delivery record is in the book.
LEMMA BookSkip ==
    ASSUME AlertInv, NEW e \in Evaluations, Skip(e)
    PROVE  \E m \in Raised, c \in Channels : Record[<<m, c>>] = "none" /\ Written(m, c, "skipped")
<1>1. /\ EvalLocals(eval[e]) /\ eval[e] \in EvalStates /\ eval[e].pc = "skip"
      /\ SkipOK(e, eval[e]) /\ RaisedOK(e, eval[e]) /\ alerts' = alerts
  BY DEF AlertInv, RecordInv, OwnInv, TypeInv, TypeOK, LocalsInv, Skip
<1>2. PICK s \in eval[e].skips :
         /\ IsFirstPair(s, eval[e].skips)
         /\ Save(<<e, Marker(eval[e].usages[eval[e].at], s[1]), s[2]>>, "skipped", 0)
  BY DEF Skip
<1>3. PICK m : m = Marker(eval[e].usages[eval[e].at], s[1])
  OBVIOUS
<1>4. /\ eval[e].usages \in UsageLists /\ eval[e].at \in DOMAIN eval[e].usages
      /\ s[1] \in eval[e].fresh /\ s[1] \in Thresholds /\ s[2] \in Channels
  BY <1>1 DEF EvalLocals, Active, EvalStates
<1>5. m \in Markers /\ alerts[m] = e /\ deliveries[<<e, m, s[2]>>] = None
  BY <1>1, <1>3, <1>4, UsageFacts DEF RaisedOK, SkipOK, Active
<1>6. [status |-> "skipped", attempts |-> 0] # None
  <2>1. [status |-> "skipped", attempts |-> 0] \in Rows
    BY AlertAssumption DEF Rows, AlertAssumption
  <2> QED
    BY <2>1, NoneIsNoRow
<1>7. Written(m, s[2], "skipped")
  BY <1>1, <1>2, <1>3, <1>4, <1>5, <1>6, BookSave
<1>8. m \in Raised /\ Record[<<m, s[2]>>] = "none"
  BY <1>4, <1>5, NoneIsNoRow DEF Raised, Record, RecordStatus, Row
<1> QED
  BY <1>4, <1>7, <1>8

LEMMA BookAnnounce ==
    ASSUME AlertInv, NEW e \in Evaluations, NEW i \in Positions, NEW c \in Channels,
           Announce(<<e, i>>, c)
    PROVE  \E m \in Raised : Record[<<m, c>>] = "none" /\ Written(m, c, "pending")
<1>1. PICK m : m = courier[<<e, i>>].alert
  OBVIOUS
<1>2. /\ courier[<<e, i>>].pc = "announce" /\ IsFirst(c, courier[<<e, i>>].todo)
      /\ Save(<<e, m, c>>, "pending", 0) /\ alerts' = alerts
  BY <1>1 DEF Announce
<1>3. /\ m \in Markers /\ alerts[m] = e /\ CarryOK(e, courier[<<e, i>>])
      /\ c \in courier[<<e, i>>].todo /\ MaxAttempts \in Nat \ {0}
  BY <1>1, <1>2, CourierRecord DEF AlertInv
<1>4. deliveries[<<e, m, c>>] = None
  BY <1>1, <1>2, <1>3 DEF CarryOK
<1>5. [status |-> "pending", attempts |-> 0] # None
  <2>1. [status |-> "pending", attempts |-> 0] \in Rows
    BY <1>3 DEF Rows
  <2> QED
    BY <2>1, NoneIsNoRow
<1>6. Written(m, c, "pending")
  BY <1>2, <1>3, <1>5, BookSave
<1>7. m \in Raised /\ Record[<<m, c>>] = "none"
  BY <1>3, <1>4, NoneIsNoRow DEF Raised, Record, RecordStatus, Row
<1> QED
  BY <1>6, <1>7

LEMMA BookSaveAttempt ==
    ASSUME AlertInv, NEW e \in Evaluations, NEW i \in Positions, NEW c \in Channels,
           SaveAttempt(<<e, i>>, c)
    PROVE  \E m \in Markers :
              /\ Record[<<m, c>>] = "pending"
              /\ \E status \in {"pending", "delivered", "failed"} : Written(m, c, status)
<1> DEFINE y == courier[<<e, i>>]
<1>1. PICK m : m = y.alert
  OBVIOUS
<1>2. /\ y.pc = "save" /\ IsFirst(c, y.todo) /\ Save(<<e, m, c>>, Status(y), y.attempt)
      /\ alerts' = alerts
  BY <1>1 DEF SaveAttempt
<1>3. /\ m \in Markers /\ alerts[m] = e /\ CarryOK(e, y) /\ c \in y.todo /\ y \in CourierStates
      /\ CourierLocals(y)
  BY <1>1, <1>2, CourierRecord DEF AlertInv
<1>4. /\ deliveries[<<e, m, c>>] = [status |-> "pending", attempts |-> y.attempt - 1]
      /\ y.attempt \in 1 .. MaxAttempts
  BY <1>1, <1>2, <1>3 DEF CarryOK, CourierLocals
<1>5. deliveries[<<e, m, c>>] # None /\ [status |-> Status(y), attempts |-> y.attempt] # None
  BY <1>3, <1>4, CourierRowIsRow, SavedRowIsRow
<1>6. Status(y) \in {"pending", "delivered", "failed"}
  BY DEF Status
<1>7. PICK status, n : status = Status(y) /\ n = y.attempt
  OBVIOUS
<1>8. Written(m, c, status)
  BY <1>2, <1>3, <1>5, <1>7, BookSave
<1>9. Record[<<m, c>>] = "pending"
  BY <1>3, <1>4, <1>5, NoneIsNoRow DEF Record, RecordStatus, Row
<1> QED
  BY <1>3, <1>6, <1>7, <1>8, <1>9

\* Each step of the alert manager is a step of the book, or leaves it as it is.
LEMMA BookStep ==
    AlertInv /\ [Next]_vars =>
       \/ Raised' = Raised /\ Record' = Record
       \/ \E m \in Markers : m \notin Raised /\ Raised' = Raised \cup {m} /\ Record' = Record
       \/ \E m \in Raised, c \in Channels :
             /\ Record[<<m, c>>] = "none"
             /\ \E status \in {"skipped", "pending"} : Written(m, c, status)
       \/ \E m \in Markers, c \in Channels :
             /\ Record[<<m, c>>] = "pending"
             /\ \E status \in {"pending", "delivered", "failed"} : Written(m, c, status)
<1> SUFFICES ASSUME AlertInv, [Next]_vars,
                    ~(Raised' = Raised /\ Record' = Record)
             PROVE  \/ \E m \in Markers : m \notin Raised /\ Raised' = Raised \cup {m} /\ Record' = Record
                    \/ \E m \in Raised, c \in Channels :
                          /\ Record[<<m, c>>] = "none"
                          /\ \E status \in {"skipped", "pending"} : Written(m, c, status)
                    \/ \E m \in Markers, c \in Channels :
                          /\ Record[<<m, c>>] = "pending"
                          /\ \E status \in {"pending", "delivered", "failed"} : Written(m, c, status)
  OBVIOUS
<1>1. ~(alerts' = alerts /\ deliveries' = deliveries)
  BY BookSame
<1>2. \A k \in DOMAIN courier : \E e \in Evaluations, i \in Positions : k = <<e, i>>
  BY DEF AlertInv, TypeInv, TypeOK
<1>3. \/ \E e \in Evaluations : Insert(e) \/ Skip(e)
      \/ \E k \in DOMAIN courier, c \in Channels : Announce(k, c) \/ SaveAttempt(k, c)
  BY <1>1 DEF Next, vars, Evaluate, EvalStep, EvaluateFails, Inserted, SkipLookup, Skipped,
     CourierStep, CourierFails, NothingToDeliver, Lookup, Send, Post, DeleteChannel, Crash
<1>4. ASSUME NEW e \in Evaluations, Insert(e)
      PROVE  \E m \in Markers : m \notin Raised /\ Raised' = Raised \cup {m} /\ Record' = Record
  BY <1>4, BookInsert
<1>5. ASSUME NEW e \in Evaluations, Skip(e)
      PROVE  \E m \in Raised, c \in Channels :
                /\ Record[<<m, c>>] = "none"
                /\ \E status \in {"skipped", "pending"} : Written(m, c, status)
  BY <1>5, BookSkip
<1>6. ASSUME NEW e \in Evaluations, NEW i \in Positions, NEW c \in Channels, Announce(<<e, i>>, c)
      PROVE  \E m \in Raised, b \in Channels :
                /\ Record[<<m, b>>] = "none"
                /\ \E status \in {"skipped", "pending"} : Written(m, b, status)
  BY <1>6, BookAnnounce
<1>7. ASSUME NEW e \in Evaluations, NEW i \in Positions, NEW c \in Channels, SaveAttempt(<<e, i>>, c)
      PROVE  \E m \in Markers, b \in Channels :
                /\ Record[<<m, b>>] = "pending"
                /\ \E status \in {"pending", "delivered", "failed"} : Written(m, b, status)
  BY <1>7, BookSaveAttempt
<1> QED
  BY <1>2, <1>3, <1>4, <1>5, <1>6, <1>7

\* A record that is pending and is written as pending again is no step of the book.
LEMMA WrittenAgain ==
    ASSUME NEW m \in Markers, NEW c \in Channels, Record[<<m, c>>] = "pending", Written(m, c, "pending")
    PROVE  Raised' = Raised /\ Record' = Record
BY DEF Written, Record

\* The alert tables behave as the abstract book: an alert is raised once and for good, and
\* its record per channel is made once and settled once.
THEOREM ImplementsBook == Spec => BookSpec
<1>1. Init => Book!Init
  BY BookInit
<1>2. AlertInv /\ [Next]_vars =>
      [Book!Next]_<<{m \in Markers : alerts[m] # None},
                    [k \in Markers \X Channels |-> RecordStatus(k[1], k[2])]>>
  <2> SUFFICES ASSUME AlertInv, [Next]_vars
               PROVE  Book!Next \/ (Raised' = Raised /\ Record' = Record)
    BY DEF Raised, Record
  <2>1. ASSUME NEW m \in Markers, m \notin Raised, Raised' = Raised \cup {m}, Record' = Record
        PROVE  Book!Next
    BY <2>1 DEF Raised, Record, Book!Next, Book!Raise
  <2>2. ASSUME NEW m \in Raised, NEW c \in Channels, NEW status \in {"skipped", "pending"},
               Record[<<m, c>>] = "none", Written(m, c, status)
        PROVE  Book!Next
    <3>1. m \in Markers /\ Book!Open(m, c, status)
      BY <2>2 DEF Raised, Record, Written, Book!Open
    <3> QED
      BY <3>1 DEF Book!Next
  <2>3. ASSUME NEW m \in Markers, NEW c \in Channels, NEW status \in {"pending", "delivered", "failed"},
               Record[<<m, c>>] = "pending", Written(m, c, status)
        PROVE  Book!Next \/ (Raised' = Raised /\ Record' = Record)
    <3>1. CASE status = "pending"
      BY <2>3, <3>1, WrittenAgain
    <3>2. CASE status \in {"delivered", "failed"}
      <4>1. Book!Settle(m, c, status)
        BY <2>3 DEF Raised, Record, Written, Book!Settle
      <4> QED
        BY <3>2, <4>1 DEF Book!Next
    <3> QED
      BY <3>1, <3>2
  <2> QED
    BY <2>1, <2>2, <2>3, BookStep
<1> QED
  BY <1>1, <1>2, Inductive, PTL DEF Spec, BookSpec, Book!Spec
-----------------------------------------------------------------------------
(* No crossing is lost *)

\* A call is about to insert the alert of marker m.
Inserting(e, m) ==
    eval[e].pc = "insert" /\ m = Marker(eval[e].usages[eval[e].at], eval[e].th)

Covered(m) ==
    \/ alerts[m] # None
    \/ \E e \in Evaluations : Inserting(e, m) \/ (eval[e].pc = "failed" /\ ToldOf(e, m))

\* The call has come to threshold t of its usage i, or past it.
Reached(w, i, t) ==
    \/ w.pc = "done"
    \/ w.pc \in Active /\ i < w.at
    \/ w.pc \in Active /\ i = w.at /\ (t <= w.th \/ w.pc \in {"lookup", "skip", "skipped"})

\* Every crossing a call has come to is covered, and so is every marker a process remembers.
ReachedOK(w) ==
    /\ \A i \in DOMAIN w.usages : \A t \in w.usages[i].thresholds :
          Crossed(w.usages[i], t) /\ Reached(w, i, t) => Covered(Marker(w.usages[i], t))
    /\ w.pc = "insert" => Crossed(w.usages[w.at], w.th)

FiredOK == \A p \in Managers : \A m \in fired[p] : Covered(m)

CrossInv == FiredOK /\ \A e \in Evaluations : ReachedOK(eval[e])

\* What a call may do to a crossing that is covered: nothing, or insert the alert, or fail.
Passes(f) ==
    \/ eval'[f] = eval[f]
    \/ eval[f].pc \notin {"insert", "failed"}
    \/ /\ eval[f].pc = "insert"
       /\ alerts'[Marker(eval[f].usages[eval[f].at], eval[f].th)] # None
    \/ eval'[f].pc = "failed" /\ eval'[f].usages = eval[f].usages

LEMMA StepPasses ==
    ASSUME TypeInv, [Next]_vars
    PROVE  /\ \A m \in Markers : alerts[m] # None => alerts'[m] # None
           /\ \A f \in Evaluations : Passes(f)
<1>1. ASSUME NEW e \in Evaluations, Insert(e)
      PROVE  /\ \A m \in Markers : alerts[m] # None => alerts'[m] # None
             /\ \A f \in Evaluations : Passes(f)
  <2> DEFINE n == Marker(eval[e].usages[eval[e].at], eval[e].th)
  <2>1. n \in Markers
    <3>1. EvalLocals(eval[e]) /\ eval[e].pc = "insert"
      BY <1>1 DEF Insert, TypeInv, LocalsInv
    <3>2. /\ eval[e].usages \in UsageLists /\ eval[e].at \in DOMAIN eval[e].usages
          /\ eval[e].th \in eval[e].usages[eval[e].at].thresholds
      BY <3>1 DEF EvalLocals, Active
    <3> QED
      BY <3>2, UsageFacts
  <2>2. alerts' = [alerts EXCEPT ![n] = IF @ = None THEN e ELSE @] /\ eval[e].pc = "insert"
    BY <1>1 DEF Insert
  <2>3. e # None
    BY NoneIsNoRow
  <2>4. \A f \in Evaluations : f # e => eval'[f] = eval[f]
    BY <1>1 DEF Insert, TypeInv, TypeOK
  <2>5. alerts'[n] # None
    BY <2>1, <2>2, <2>3 DEF TypeInv, TypeOK
  <2> HIDE DEF n
  <2>6. \A m \in Markers : alerts[m] # None => alerts'[m] # None
    BY <2>1, <2>2, <2>5 DEF TypeInv, TypeOK
  <2> QED
    BY <2>2, <2>4, <2>5, <2>6 DEF Passes, n
<1>2. ASSUME NEW e \in Evaluations,
             \/ \E p \in Managers, us \in UsageLists : Evaluate(e, p, us)
             \/ Inserted(e) \/ SkipLookup(e) \/ Skip(e) \/ Skipped(e)
      PROVE  /\ \A m \in Markers : alerts[m] # None => alerts'[m] # None
             /\ \A f \in Evaluations : Passes(f)
  <2>1. alerts' = alerts /\ eval[e].pc \notin {"insert", "failed"}
    BY <1>2 DEF Evaluate, Inserted, SkipLookup, Skip, Skipped
  <2>2. \E v : eval' = [eval EXCEPT ![e] = v]
    BY <1>2, Zenon DEF Evaluate, Inserted, SkipLookup, Skip, Skipped, FromUsage, ToInsert,
       Dispatch, Spawn
  <2>3. \A f \in Evaluations : f # e => eval'[f] = eval[f]
    BY <2>2 DEF TypeInv, TypeOK
  <2> QED
    BY <2>1, <2>3 DEF Passes
<1>3. ASSUME NEW e \in Evaluations, EvaluateFails(e)
      PROVE  /\ \A m \in Markers : alerts[m] # None => alerts'[m] # None
             /\ \A f \in Evaluations : Passes(f)
  <2>1. alerts' = alerts /\ eval' = [eval EXCEPT ![e] = Stopped(eval[e])]
    BY <1>3 DEF EvaluateFails
  <2>2. eval'[e] = Stopped(eval[e]) /\ \A f \in Evaluations : f # e => eval'[f] = eval[f]
    BY <2>1 DEF TypeInv, TypeOK
  <2>3. Stopped(eval[e]).pc = "failed" /\ Stopped(eval[e]).usages = eval[e].usages
    BY DEF Stopped, Idle
  <2> QED
    BY <2>1, <2>2, <2>3 DEF Passes
<1>4. ASSUME NEW p \in Managers, Crash(p)
      PROVE  /\ \A m \in Markers : alerts[m] # None => alerts'[m] # None
             /\ \A f \in Evaluations : Passes(f)
  <2>1. alerts' = alerts
    BY <1>4 DEF Crash
  <2>2. \A f \in Evaluations : eval'[f] = Stopped(eval[f]) \/ eval'[f] = eval[f]
    BY <1>4 DEF Crash
  <2>3. \A f \in Evaluations :
           Stopped(eval[f]).pc = "failed" /\ Stopped(eval[f]).usages = eval[f].usages
    BY DEF Stopped, Idle
  <2> QED
    BY <2>1, <2>2, <2>3 DEF Passes
<1>5. ASSUME UNCHANGED <<alerts, eval>>
      PROVE  /\ \A m \in Markers : alerts[m] # None => alerts'[m] # None
             /\ \A f \in Evaluations : Passes(f)
  BY <1>5 DEF Passes
<1>6. ASSUME NEW k \in DOMAIN courier,
             CourierStep(k) \/ \E c \in Channels : CourierFails(k, c)
      PROVE  UNCHANGED <<alerts, eval>>
  BY <1>6 DEF CourierStep, CourierFails, NothingToDeliver, Lookup, Announce, Send, SaveAttempt,
     Post
<1>7. ASSUME NEW c \in Channels, DeleteChannel(c) PROVE UNCHANGED <<alerts, eval>>
  BY <1>7 DEF DeleteChannel
<1>8. CASE UNCHANGED vars
  BY <1>5, <1>8 DEF vars
<1> QED
  BY <1>1, <1>2, <1>3, <1>4, <1>5, <1>6, <1>7, <1>8, Zenon DEF Next, EvalStep

\* Once covered, a crossing stays so.
LEMMA CoveredStays ==
    ASSUME TypeInv, CrossInv, [Next]_vars, NEW m \in Markers, Covered(m)
    PROVE  Covered(m)'
<1>1. CASE alerts[m] # None
  BY <1>1, StepPasses DEF Covered
<1>2. ASSUME NEW e \in Evaluations, Inserting(e, m) PROVE Covered(m)'
  <2>1. /\ eval[e].pc = "insert" /\ m = Marker(eval[e].usages[eval[e].at], eval[e].th)
        /\ Passes(e)
    BY <1>2, StepPasses DEF Inserting
  <2>2. ToldOf(e, m)
    <3>1. EvalLocals(eval[e]) /\ ReachedOK(eval[e])
      BY DEF TypeInv, LocalsInv, CrossInv
    <3>2. /\ eval[e].at \in DOMAIN eval[e].usages
          /\ eval[e].th \in eval[e].usages[eval[e].at].thresholds
          /\ Crossed(eval[e].usages[eval[e].at], eval[e].th)
      BY <2>1, <3>1 DEF EvalLocals, Active, ReachedOK
    <3> QED
      BY <2>1, <3>2 DEF ToldOf
  <2>3. CASE eval'[e] = eval[e]
    BY <1>2, <2>3 DEF Covered, Inserting
  <2>4. CASE alerts'[m] # None
    BY <2>4 DEF Covered
  <2>5. CASE eval'[e].pc = "failed" /\ eval'[e].usages = eval[e].usages
    BY <2>2, <2>5 DEF Covered, ToldOf
  <2> QED
    BY <2>1, <2>3, <2>4, <2>5 DEF Passes
<1>3. ASSUME NEW e \in Evaluations, eval[e].pc = "failed", ToldOf(e, m) PROVE Covered(m)'
  <2>1. eval'[e] = eval[e] \/ (eval'[e].pc = "failed" /\ eval'[e].usages = eval[e].usages)
    BY <1>3, StepPasses DEF Passes
  <2> QED
    BY <1>3, <2>1 DEF Covered, ToldOf
<1> QED
  BY <1>1, <1>2, <1>3 DEF Covered

\* A threshold that is crossed and is no candidate is in the process's memory.
LEMMA Remembered ==
    ASSUME CrossInv, NEW w, w.mgr \in Managers, NEW j, NEW n, NEW t \in w.usages[j].thresholds,
           t > n, Crossed(w.usages[j], t), t \notin Candidates(w, j, n)
    PROVE  Covered(Marker(w.usages[j], t))
BY DEF Candidates, CrossInv, FiredOK

\* What the call leaves when it goes to its next insert.
LEMMA ToInsertReached ==
    ASSUME TypeInv, NEW e \in Evaluations, NEW w \in EvalStates,
           w.usages \in UsageLists, w.mgr \in Managers, NEW j \in DOMAIN w.usages,
           NEW t \in w.usages[j].thresholds, NEW fresh, ToInsert(e, w, j, t, fresh),
           Crossed(w.usages[j], t), \A m \in Markers : Covered(m) => Covered(m)',
           \A i \in DOMAIN w.usages : \A u \in w.usages[i].thresholds :
              Crossed(w.usages[i], u) /\ (i < j \/ (i = j /\ u < t))
                 => Covered(Marker(w.usages[i], u))
    PROVE  /\ ReachedOK(eval[e])' /\ \A f \in Evaluations : f # e => eval'[f] = eval[f]
           /\ \A p \in Managers : \A m \in fired'[p] : m \in fired[p] \/ Inserting(e, m)'
<1> DEFINE v == Waiting(w, j, t, fresh)
<1>1. /\ eval'[e] = v /\ \A f \in Evaluations : f # e => eval'[f] = eval[f]
      /\ Remember(w.mgr, Marker(w.usages[j], t))
  BY DEF ToInsert, Waiting, TypeInv, TypeOK
<1>2. v.pc = "insert" /\ v.usages = w.usages /\ v.at = j /\ v.th = t
  BY DEF Waiting, EvalStates
<1> HIDE DEF v
<1>3. \A m : Inserting(e, m)' <=> m = Marker(w.usages[j], t)
  BY <1>1, <1>2 DEF Inserting
<1>4. \A p \in Managers : \A m \in fired'[p] : m \in fired[p] \/ m = Marker(w.usages[j], t)
  BY <1>1 DEF Remember, TypeInv, TypeOK
<1>5. ASSUME NEW i \in DOMAIN w.usages, NEW u \in w.usages[i].thresholds,
             Crossed(w.usages[i], u), Reached(v, i, u)
      PROVE  Covered(Marker(w.usages[i], u))'
  <2>1. i < j \/ (i = j /\ u <= t)
    BY <1>2, <1>5 DEF Reached, Active
  <2>2. u \in Nat /\ t \in Nat /\ Marker(w.usages[i], u) \in Markers
    BY UsageFacts, ThresholdsAreNat
  <2>3. CASE i = j /\ u = t
    BY <1>3, <2>3 DEF Covered
  <2>4. CASE i < j \/ (i = j /\ u < t)
    BY <1>5, <2>2, <2>4
  <2> QED
    BY <2>1, <2>2, <2>3, <2>4
<1>6. ReachedOK(eval[e])'
  <2>1. v.pc = "insert" => Crossed(v.usages[v.at], v.th)
    BY <1>2
  <2>2. \A i \in DOMAIN v.usages : \A u \in v.usages[i].thresholds :
           Crossed(v.usages[i], u) /\ Reached(v, i, u) => Covered(Marker(v.usages[i], u))'
    BY <1>2, <1>5
  <2> QED
    BY <1>1, <2>1, <2>2 DEF ReachedOK
<1> QED
  BY <1>1, <1>3, <1>4, <1>6

LEMMA FromUsageReached ==
    ASSUME TypeInv, CrossInv, NEW e \in Evaluations, NEW w \in EvalStates,
           w.usages \in UsageLists, w.mgr \in Managers, NEW i \in Nat, FromUsage(e, w, i),
           \A m \in Markers : Covered(m) => Covered(m)',
           \A j \in DOMAIN w.usages : \A u \in w.usages[j].thresholds :
              j < i /\ Crossed(w.usages[j], u) => Covered(Marker(w.usages[j], u))
    PROVE  /\ ReachedOK(eval[e])' /\ \A f \in Evaluations : f # e => eval'[f] = eval[f]
           /\ \A p \in Managers : \A m \in fired'[p] : m \in fired[p] \/ Inserting(e, m)'
<1> DEFINE stops == {j \in DOMAIN w.usages : j >= i /\ Candidates(w, j, 0) # {}}
<1>1. \A j \in DOMAIN w.usages : \A u \in w.usages[j].thresholds :
         /\ j \in Nat /\ u \in Nat /\ u > 0 /\ Marker(w.usages[j], u) \in Markers
  <2> SUFFICES ASSUME NEW j \in DOMAIN w.usages, NEW u \in w.usages[j].thresholds
               PROVE  j \in Nat /\ u \in Nat /\ u > 0 /\ Marker(w.usages[j], u) \in Markers
    OBVIOUS
  <2>1. w.usages[j] \in Usages
    BY UsageFacts
  <2>2. u \in 1 .. 1000
    BY <2>1 DEF Usages
  <2> QED
    BY <2>2, UsageFacts
<1>2. CASE \E j \in stops, t \in Thresholds :
              /\ IsFirst(j, stops) /\ IsFirst(t, Candidates(w, j, 0))
              /\ ToInsert(e, w, j, t, {})
  <2>1. PICK j \in stops, t \in Thresholds :
            /\ IsFirst(j, stops) /\ IsFirst(t, Candidates(w, j, 0))
            /\ ToInsert(e, w, j, t, {})
    BY <1>2, Zenon
  <2>2. j \in DOMAIN w.usages /\ \A l \in DOMAIN w.usages :
                                    l >= i /\ Candidates(w, l, 0) # {} => j <= l
    BY <2>1 DEF IsFirst
  <2>3. /\ t \in w.usages[j].thresholds /\ Crossed(w.usages[j], t)
        /\ \A u \in Candidates(w, j, 0) : t <= u
    BY <2>1 DEF IsFirst, Candidates
  <2> HIDE DEF stops
  <2>4. ASSUME NEW l \in DOMAIN w.usages, NEW u \in w.usages[l].thresholds,
               Crossed(w.usages[l], u), l < j \/ (l = j /\ u < t)
        PROVE  Covered(Marker(w.usages[l], u))
    <3>1. l \in Nat /\ u \in Nat /\ u > 0 /\ j \in Nat /\ t \in Nat
      BY <1>1, <2>2, <2>3
    <3>2. CASE l < i
      BY <2>4, <3>2
    <3>3. CASE l >= i
      <4>1. u \notin Candidates(w, l, 0)
        BY <2>2, <2>3, <2>4, <3>1, <3>3
      <4> QED
        BY <2>4, <3>1, <4>1, Remembered
    <3> QED
      BY <3>1, <3>2, <3>3
  <2> QED
    BY <2>1, <2>2, <2>3, <2>4, ToInsertReached
<1>3. CASE /\ stops = {}
           /\ eval' = [eval EXCEPT ![e] = [Idle EXCEPT !.pc = "done", !.mgr = w.mgr,
                                                       !.usages = w.usages]]
           /\ UNCHANGED fired
  <2>1. /\ eval'[e] = Ended(w) /\ \A f \in Evaluations : f # e => eval'[f] = eval[f]
        /\ fired' = fired
    BY <1>3 DEF Ended, TypeInv, TypeOK
  <2>2. Ended(w).pc = "done" /\ Ended(w).usages = w.usages
    BY DEF Ended, Idle
  <2>3. \A l \in DOMAIN w.usages : l >= i => Candidates(w, l, 0) = {}
    BY <1>3
  <2>4. ASSUME NEW l \in DOMAIN w.usages, NEW u \in w.usages[l].thresholds,
               Crossed(w.usages[l], u)
        PROVE  Covered(Marker(w.usages[l], u))'
    <3>1. l \in Nat /\ u > 0 /\ Marker(w.usages[l], u) \in Markers
      BY <1>1
    <3>2. CASE l < i
      BY <2>4, <3>1, <3>2
    <3>3. CASE l >= i
      <4>1. u \notin Candidates(w, l, 0)
        BY <2>3, <3>3
      <4>2. Covered(Marker(w.usages[l], u))
        BY <2>4, <3>1, <4>1, Remembered
      <4> QED
        BY <3>1, <4>2
    <3> QED
      BY <3>1, <3>2, <3>3
  <2>5. ReachedOK(eval[e])'
    BY <2>1, <2>2, <2>4 DEF ReachedOK
  <2> QED
    BY <2>1, <2>5
<1> QED
  BY <1>2, <1>3, Zenon DEF FromUsage

\* A call that keeps its usages and has reached nothing new.
LEMMA SamePlace ==
    ASSUME TypeInv, NEW e \in Evaluations, ReachedOK(eval[e]),
           \A m \in Markers : Covered(m) => Covered(m)', eval[e].usages \in UsageLists,
           eval'[e].usages = eval[e].usages, eval'[e].pc # "insert",
           \A i \in DOMAIN eval[e].usages : \A t \in eval[e].usages[i].thresholds :
              Reached(eval'[e], i, t) => Reached(eval[e], i, t)
    PROVE  ReachedOK(eval[e])'
<1>1. ASSUME NEW i \in DOMAIN eval[e].usages, NEW t \in eval[e].usages[i].thresholds,
             Crossed(eval[e].usages[i], t), Reached(eval'[e], i, t)
      PROVE  Covered(Marker(eval[e].usages[i], t))'
  <2>1. Covered(Marker(eval[e].usages[i], t))
    BY <1>1 DEF ReachedOK
  <2>2. Marker(eval[e].usages[i], t) \in Markers
    BY UsageFacts
  <2> QED
    BY <2>1, <2>2
<1> QED
  BY <1>1 DEF ReachedOK

\* The step of one call.
LEMMA CrossOwn ==
    ASSUME TypeInv, CrossInv, NEW e \in Evaluations, ReachedOK(eval[e])',
           \A m \in Markers : Covered(m) => Covered(m)',
           \A f \in Evaluations : f # e => eval'[f] = eval[f],
           \A p \in Managers : \A m \in fired'[p] : m \in fired[p] \/ Inserting(e, m)'
    PROVE  CrossInv'
<1>1. FiredOK'
  <2> SUFFICES ASSUME NEW p \in Managers, NEW m \in fired'[p] PROVE Covered(m)'
    BY DEF FiredOK
  <2>1. CASE m \in fired[p]
    BY <2>1 DEF CrossInv, FiredOK, TypeInv, TypeOK
  <2>2. CASE Inserting(e, m)'
    BY <2>2 DEF Covered
  <2> QED
    BY <2>1, <2>2
<1>2. ASSUME NEW f \in Evaluations PROVE ReachedOK(eval[f])'
  <2>1. CASE f = e
    BY <2>1
  <2>2. CASE f # e
    <3>1. eval'[f] = eval[f] /\ ReachedOK(eval[f]) /\ EvalLocals(eval[f])
      BY <2>2 DEF CrossInv, TypeInv, LocalsInv
    <3>2. CASE eval[f].pc = "idle"
      <4>1. ~\E i \in DOMAIN eval[f].usages : TRUE
        BY <3>1, <3>2 DEF EvalLocals
      <4> QED
        BY <3>1, <3>2, <4>1 DEF ReachedOK
    <3>3. CASE eval[f].pc # "idle"
      <4>1. \A i \in DOMAIN eval[f].usages : \A t \in eval[f].usages[i].thresholds :
               Marker(eval[f].usages[i], t) \in Markers
        BY <3>1, <3>3, UsageFacts DEF EvalLocals
      <4> QED
        BY <3>1, <4>1 DEF ReachedOK
    <3> QED
      BY <3>2, <3>3
  <2> QED
    BY <2>1, <2>2
<1> QED
  BY <1>1, <1>2 DEF CrossInv

LEMMA SpawnCross ==
    ASSUME TypeInv, CrossInv, NEW e \in Evaluations, NEW w \in EvalStates,
           w.usages \in UsageLists, w.mgr \in Managers, w.at \in DOMAIN w.usages, Spawn(e, w),
           \A m \in Markers : Covered(m) => Covered(m)',
           \A j \in DOMAIN w.usages : \A u \in w.usages[j].thresholds :
              j <= w.at /\ Crossed(w.usages[j], u) => Covered(Marker(w.usages[j], u))
    PROVE  CrossInv'
<1>1. w.at \in Nat /\ w.at + 1 \in Nat /\ \A j \in DOMAIN w.usages : j \in Nat
  BY UsageFacts
<1>2. FromUsage(e, w, w.at + 1)
  BY DEF Spawn
<1>3. \A j \in DOMAIN w.usages : \A u \in w.usages[j].thresholds :
         j < w.at + 1 /\ Crossed(w.usages[j], u) => Covered(Marker(w.usages[j], u))
  BY <1>1
<1> QED
  BY <1>1, <1>2, <1>3, FromUsageReached, CrossOwn

LEMMA InsertedCross ==
    ASSUME TypeInv, OwnInv, CrossInv, NEW e \in Evaluations, Inserted(e),
           NEW w, w = Freshened(eval[e]), \A m \in Markers : Covered(m) => Covered(m)'
    PROVE  CrossInv'
<1> DEFINE rest == Candidates(w, w.at, w.th)
<1>0. eval[e].pc = "inserted" /\ ReachedOK(eval[e])
  BY DEF Inserted, CrossInv
<1>1. /\ w \in EvalStates /\ w.usages = eval[e].usages /\ w.mgr = eval[e].mgr
      /\ w.at = eval[e].at /\ w.th = eval[e].th /\ w.pc = "inserted"
      /\ w.usages \in UsageLists /\ w.mgr \in Managers /\ w.at \in DOMAIN w.usages
      /\ w.at \in Nat /\ w.fresh \subseteq w.usages[w.at].thresholds
  BY <1>0, FreshenedFacts
<1>2. \/ (\E t \in rest : IsFirst(t, rest) /\ ToInsert(e, w, w.at, t, w.fresh)) /\ UNCHANGED courier
      \/ (rest = {} /\ w.fresh = {} /\ FromUsage(e, w, w.at + 1) /\ UNCHANGED courier)
      \/ (rest = {} /\ w.fresh # {} /\ Dispatch(e, w))
  BY DEF Inserted, Freshened
<1>3. \A j \in DOMAIN w.usages : \A u \in w.usages[j].thresholds :
         /\ j \in Nat /\ u \in Nat /\ w.th \in Nat /\ Marker(w.usages[j], u) \in Markers
         /\ Crossed(w.usages[j], u) /\ (j < w.at \/ (j = w.at /\ u <= w.th))
               => Covered(Marker(w.usages[j], u))
  <2> SUFFICES ASSUME NEW j \in DOMAIN w.usages, NEW u \in w.usages[j].thresholds
               PROVE  /\ j \in Nat /\ u \in Nat /\ w.th \in Nat
                      /\ Marker(w.usages[j], u) \in Markers
                      /\ Crossed(w.usages[j], u) /\ (j < w.at \/ (j = w.at /\ u <= w.th))
                            => Covered(Marker(w.usages[j], u))
    OBVIOUS
  <2>1. j \in Nat /\ u \in Nat /\ w.th \in Nat /\ Marker(w.usages[j], u) \in Markers
    BY <1>1, UsageFacts, ThresholdsAreNat DEF EvalStates
  <2>2. j < w.at \/ (j = w.at /\ u <= w.th) => Reached(eval[e], j, u)
    BY <1>0, <1>1 DEF Reached, Active
  <2> QED
    BY <1>0, <1>1, <2>1, <2>2 DEF ReachedOK
<1>4. CASE \E t \in rest : IsFirst(t, rest) /\ ToInsert(e, w, w.at, t, w.fresh)
  <2>1. PICK t \in rest : IsFirst(t, rest) /\ ToInsert(e, w, w.at, t, w.fresh)
    BY <1>4
  <2>2. /\ t \in w.usages[w.at].thresholds /\ Crossed(w.usages[w.at], t) /\ t > w.th
        /\ \A u \in Candidates(w, w.at, w.th) : t <= u
    BY <2>1 DEF IsFirst, Candidates
  <2>3. ASSUME NEW l \in DOMAIN w.usages, NEW u \in w.usages[l].thresholds,
               Crossed(w.usages[l], u), l < w.at \/ (l = w.at /\ u < t)
        PROVE  Covered(Marker(w.usages[l], u))
    <3>1. l \in Nat /\ u \in Nat /\ w.th \in Nat /\ t \in Nat
      BY <1>1, <1>3, <2>2
    <3>2. CASE l < w.at \/ (l = w.at /\ u <= w.th)
      BY <1>3, <2>3, <3>2
    <3>3. CASE l = w.at /\ u > w.th
      <4>1. u \notin Candidates(w, w.at, w.th)
        BY <2>2, <2>3, <3>1, <3>3
      <4> QED
        BY <1>1, <2>3, <3>3, <4>1, Remembered
    <3> QED
      BY <2>3, <3>1, <3>2, <3>3
  <2> HIDE DEF rest
  <2>4. /\ ReachedOK(eval[e])' /\ \A f \in Evaluations : f # e => eval'[f] = eval[f]
        /\ \A p \in Managers : \A m \in fired'[p] : m \in fired[p] \/ Inserting(e, m)'
    BY <1>1, <2>1, <2>2, <2>3, ToInsertReached
  <2> QED
    BY <2>4, CrossOwn
<1>5. ASSUME rest = {}, NEW l \in DOMAIN w.usages, NEW u \in w.usages[l].thresholds,
             l <= w.at, Crossed(w.usages[l], u)
      PROVE  Covered(Marker(w.usages[l], u))
  <2>1. CASE l < w.at \/ (l = w.at /\ u <= w.th)
    BY <1>3, <1>5, <2>1
  <2>2. CASE l = w.at /\ u > w.th
    BY <1>1, <1>5, <2>2, Remembered
  <2> QED
    BY <1>1, <1>3, <1>5, <2>1, <2>2
<1> HIDE DEF rest
<1>6. CASE rest = {} /\ FromUsage(e, w, w.at + 1)
  <2>1. w.at + 1 \in Nat /\ \A l \in DOMAIN w.usages : l \in Nat
    BY <1>1, UsageFacts
  <2>2. \A l \in DOMAIN w.usages : \A u \in w.usages[l].thresholds :
           l < w.at + 1 /\ Crossed(w.usages[l], u) => Covered(Marker(w.usages[l], u))
    BY <1>1, <1>5, <1>6, <2>1
  <2> QED
    BY <1>1, <1>6, <2>1, <2>2, FromUsageReached, CrossOwn
<1>7. CASE rest = {} /\ Dispatch(e, w)
  <2>1. CASE Spawn(e, w)
    BY <1>1, <1>5, <1>7, <2>1, SpawnCross
  <2>2. CASE \E skips : /\ eval' = [eval EXCEPT ![e] = [w EXCEPT !.pc = "lookup", !.skips = skips]]
                        /\ UNCHANGED <<fired, courier>>
    <3>1. PICK skips : /\ eval' = [eval EXCEPT ![e] = [w EXCEPT !.pc = "lookup", !.skips = skips]]
                       /\ fired' = fired
      BY <2>2
    <3> DEFINE v == [w EXCEPT !.pc = "lookup", !.skips = skips]
    <3>2. eval'[e] = v /\ \A f \in Evaluations : f # e => eval'[f] = eval[f]
      BY <3>1 DEF TypeInv, TypeOK
    <3>3. v.pc = "lookup" /\ v.usages = w.usages /\ v.at = w.at
      BY <1>1 DEF EvalStates
    <3> HIDE DEF v
    <3>4. ASSUME NEW l \in DOMAIN w.usages, NEW u \in w.usages[l].thresholds,
                 Crossed(w.usages[l], u), Reached(v, l, u)
          PROVE  Covered(Marker(w.usages[l], u))'
      <4>1. l <= w.at
        BY <1>1, <1>3, <3>3, <3>4 DEF Reached, Active
      <4>2. rest = {}
        BY <1>7
      <4>3. Covered(Marker(w.usages[l], u))
        BY <1>5, <3>4, <4>1, <4>2
      <4>4. Marker(w.usages[l], u) \in Markers
        BY <1>3
      <4> QED
        BY <4>3, <4>4
    <3>5. \A l \in DOMAIN v.usages : \A u \in v.usages[l].thresholds :
             Crossed(v.usages[l], u) /\ Reached(v, l, u) => Covered(Marker(v.usages[l], u))'
      BY <3>3, <3>4
    <3>6. ReachedOK(eval[e])'
      BY <3>2, <3>3, <3>5 DEF ReachedOK
    <3> QED
      BY <3>1, <3>2, <3>6, CrossOwn
  <2> QED
    BY <1>7, <2>1, <2>2, Zenon DEF Dispatch
<1> QED
  BY <1>2, <1>4, <1>6, <1>7

LEMMA SkippedCross ==
    ASSUME TypeInv, CrossInv, NEW e \in Evaluations, Skipped(e),
           \A m \in Markers : Covered(m) => Covered(m)'
    PROVE  CrossInv'
<1>1. /\ eval[e] \in EvalStates /\ EvalLocals(eval[e]) /\ ReachedOK(eval[e])
      /\ eval[e].pc = "skipped"
  BY DEF TypeInv, TypeOK, LocalsInv, CrossInv, Skipped
<1>2. PICK s \in eval[e].skips :
         LET w == [eval[e] EXCEPT !.skips = @ \ {s}]
         IN  \/ /\ eval' = [eval EXCEPT ![e] = [w EXCEPT !.pc = "lookup"]]
                /\ UNCHANGED <<fired, courier>>
             \/ Spawn(e, w)
  BY DEF Skipped
<1>3. PICK w : w = [eval[e] EXCEPT !.skips = @ \ {s}]
  OBVIOUS
<1>4. /\ w \in EvalStates /\ w.usages = eval[e].usages /\ w.mgr = eval[e].mgr
      /\ w.at = eval[e].at /\ w.usages \in UsageLists /\ w.mgr \in Managers
      /\ w.at \in DOMAIN w.usages
  BY <1>1, <1>3 DEF EvalStates, EvalLocals, Active
<1>5. CASE eval' = [eval EXCEPT ![e] = [w EXCEPT !.pc = "lookup"]] /\ fired' = fired
  <2>1. /\ eval'[e] = [w EXCEPT !.pc = "lookup"]
        /\ \A f \in Evaluations : f # e => eval'[f] = eval[f]
    BY <1>5 DEF TypeInv, TypeOK
  <2>2. eval'[e].pc = "lookup" /\ eval'[e].usages = eval[e].usages /\ eval'[e].at = eval[e].at
    BY <1>4, <2>1 DEF EvalStates
  <2>3. \A i, t : Reached(eval'[e], i, t) => Reached(eval[e], i, t)
    BY <1>1, <2>2 DEF Reached, Active
  <2>4. ReachedOK(eval[e])'
    BY <1>1, <1>4, <2>2, <2>3, SamePlace
  <2> QED
    BY <1>5, <2>1, <2>4, CrossOwn
<1>6. CASE Spawn(e, w)
  <2>1. \A j \in DOMAIN w.usages : \A u \in w.usages[j].thresholds :
           j <= w.at /\ Crossed(w.usages[j], u) => Covered(Marker(w.usages[j], u))
    <3> SUFFICES ASSUME NEW j \in DOMAIN w.usages, NEW u \in w.usages[j].thresholds,
                        j <= w.at, Crossed(w.usages[j], u)
                 PROVE  Covered(Marker(w.usages[j], u))
      OBVIOUS
    <3>1. j \in Nat /\ w.at \in Nat
      BY <1>4, UsageFacts
    <3>2. Reached(eval[e], j, u)
      BY <1>1, <1>4, <3>1 DEF Reached, Active
    <3> QED
      BY <1>1, <1>4, <3>2 DEF ReachedOK
  <2> QED
    BY <1>4, <1>6, <2>1, SpawnCross
<1> QED
  BY <1>2, <1>3, <1>5, <1>6

\* A step of the evaluation that changes its locals but not where it is.
LEMMA QuietCross ==
    ASSUME TypeInv, CrossInv, NEW e \in Evaluations, SkipLookup(e) \/ Skip(e) \/ EvaluateFails(e),
           \A m \in Markers : Covered(m) => Covered(m)'
    PROVE  CrossInv'
<1>1. /\ eval[e] \in EvalStates /\ EvalLocals(eval[e]) /\ ReachedOK(eval[e])
      /\ eval[e].pc \in Active /\ fired' = fired
  BY DEF TypeInv, TypeOK, LocalsInv, CrossInv, SkipLookup, Skip, EvaluateFails, Active
<1>2. eval[e].usages \in UsageLists
  BY <1>1 DEF EvalLocals, Active
<1>3. CASE SkipLookup(e) \/ Skip(e)
  <2>1. /\ eval[e].pc \in {"lookup", "skip"}
        /\ \E pc \in {"skip", "skipped"} : eval' = [eval EXCEPT ![e].pc = pc]
    BY <1>3 DEF SkipLookup, Skip
  <2>2. /\ eval'[e].pc \in {"skip", "skipped"} /\ eval'[e].usages = eval[e].usages
        /\ eval'[e].at = eval[e].at /\ \A f \in Evaluations : f # e => eval'[f] = eval[f]
    BY <1>1, <2>1 DEF TypeInv, TypeOK, EvalStates
  <2>3. \A i, t : Reached(eval'[e], i, t) => Reached(eval[e], i, t)
    BY <2>1, <2>2 DEF Reached, Active
  <2>4. ReachedOK(eval[e])'
    BY <1>1, <1>2, <2>2, <2>3, SamePlace
  <2> QED
    BY <1>1, <2>2, <2>4, CrossOwn
<1>4. CASE EvaluateFails(e)
  <2>1. eval'[e] = Stopped(eval[e]) /\ \A f \in Evaluations : f # e => eval'[f] = eval[f]
    BY <1>4 DEF EvaluateFails, TypeInv, TypeOK
  <2>2. eval'[e].pc = "failed" /\ eval'[e].usages = eval[e].usages
    BY <2>1 DEF Stopped, Idle
  <2>3. \A i, t : Reached(eval'[e], i, t) => Reached(eval[e], i, t)
    BY <2>2 DEF Reached, Active
  <2>4. ReachedOK(eval[e])'
    BY <1>1, <1>2, <2>2, <2>3, SamePlace
  <2> QED
    BY <1>1, <2>1, <2>4, CrossOwn
<1> QED
  BY <1>3, <1>4

LEMMA InsertCross ==
    ASSUME TypeInv, CrossInv, NEW e \in Evaluations, Insert(e),
           \A m \in Markers : Covered(m) => Covered(m)'
    PROVE  CrossInv'
<1>1. /\ eval[e] \in EvalStates /\ EvalLocals(eval[e]) /\ ReachedOK(eval[e])
      /\ eval[e].pc = "insert" /\ fired' = fired
  BY DEF TypeInv, TypeOK, LocalsInv, CrossInv, Insert
<1>2. eval[e].usages \in UsageLists
  BY <1>1 DEF EvalLocals, Active
<1>3. /\ eval'[e].pc = "inserted" /\ eval'[e].usages = eval[e].usages
      /\ eval'[e].at = eval[e].at /\ eval'[e].th = eval[e].th
      /\ \A f \in Evaluations : f # e => eval'[f] = eval[f]
  BY <1>1 DEF Insert, TypeInv, TypeOK, EvalStates
<1>4. \A i, t : Reached(eval'[e], i, t) => Reached(eval[e], i, t)
  BY <1>1, <1>3 DEF Reached, Active
<1>5. ReachedOK(eval[e])'
  BY <1>1, <1>2, <1>3, <1>4, SamePlace
<1> QED
  BY <1>1, <1>3, <1>5, CrossOwn

LEMMA EvaluateCross ==
    ASSUME TypeInv, CrossInv, NEW e \in Evaluations, NEW p \in Managers, NEW us \in UsageLists,
           Evaluate(e, p, us), \A m \in Markers : Covered(m) => Covered(m)'
    PROVE  CrossInv'
<1> DEFINE w == [Idle EXCEPT !.mgr = p, !.usages = us]
<1>1. w \in EvalStates /\ w.usages = us /\ w.mgr = p
  BY DEF Idle, EvalStates
<1>2. FromUsage(e, w, 1)
  BY DEF Evaluate
<1>3. \A j \in DOMAIN w.usages : ~(j < 1)
  <2> SUFFICES ASSUME NEW j \in DOMAIN us PROVE ~(j < 1)
    BY <1>1
  <2>1. us \in Seq(Usages)
    BY AlertAssumption DEF AlertAssumption
  <2> QED
    BY <2>1
<1> HIDE DEF w
<1>4. /\ ReachedOK(eval[e])' /\ \A f \in Evaluations : f # e => eval'[f] = eval[f]
      /\ \A q \in Managers : \A m \in fired'[q] : m \in fired[q] \/ Inserting(e, m)'
  BY <1>1, <1>2, <1>3, FromUsageReached
<1> QED
  BY <1>4, CrossOwn

LEMMA CrashCross ==
    ASSUME TypeInv, CrossInv, NEW p \in Managers, Crash(p),
           \A m \in Markers : Covered(m) => Covered(m)'
    PROVE  CrossInv'
<1>1. \A q \in Managers : fired'[q] \subseteq fired[q]
  BY DEF Crash, TypeInv, TypeOK
<1>2. FiredOK'
  BY <1>1 DEF CrossInv, FiredOK, TypeInv, TypeOK
<1>3. ASSUME NEW e \in Evaluations PROVE ReachedOK(eval[e])'
  <2>1. ReachedOK(eval[e]) /\ EvalLocals(eval[e])
    BY DEF CrossInv, TypeInv, LocalsInv
  <2>2. CASE eval[e].usages = <<>> /\ eval'[e] = eval[e]
    <3>1. eval[e].pc # "insert"
      BY <2>1, <2>2 DEF EvalLocals, Active
    <3> QED
      BY <2>2, <3>1 DEF ReachedOK
  <2>3. CASE eval[e].usages \in UsageLists /\ eval'[e] = eval[e]
    <3>1. \A i \in DOMAIN eval[e].usages : \A t \in eval[e].usages[i].thresholds :
             Marker(eval[e].usages[i], t) \in Markers
      BY <2>3, UsageFacts
    <3> QED
      BY <2>1, <2>3, <3>1 DEF ReachedOK
  <2>4. CASE eval[e].usages \in UsageLists /\ eval'[e] = Stopped(eval[e])
    <3>1. eval'[e].pc = "failed" /\ eval'[e].usages = eval[e].usages
      BY <2>4 DEF Stopped, Idle
    <3>2. \A i, t : Reached(eval'[e], i, t) => Reached(eval[e], i, t)
      BY <3>1 DEF Reached, Active
    <3> QED
      BY <2>1, <2>4, <3>1, <3>2, SamePlace
  <2>5. /\ eval'[e] = IF eval[e].mgr = p /\ eval[e].pc # "done" THEN Stopped(eval[e])
                      ELSE eval[e]
        /\ p # None
    BY AlertAssumption DEF AlertAssumption, Crash
  <2> QED
    BY <2>1, <2>2, <2>3, <2>4, <2>5 DEF EvalLocals
<1> QED
  BY <1>2, <1>3 DEF CrossInv

LEMMA CrossStep == TypeInv /\ OwnInv /\ CrossInv /\ [Next]_vars => CrossInv'
<1> SUFFICES ASSUME TypeInv, OwnInv, CrossInv, [Next]_vars PROVE CrossInv'
  OBVIOUS
<1>1. \A m \in Markers : Covered(m) => Covered(m)'
  BY CoveredStays
<1>2. ASSUME NEW e \in Evaluations, NEW p \in Managers, NEW us \in UsageLists, Evaluate(e, p, us)
      PROVE  CrossInv'
  BY <1>1, <1>2, EvaluateCross
<1>3. ASSUME NEW e \in Evaluations, EvalStep(e) \/ EvaluateFails(e) PROVE CrossInv'
  <2>1. PICK w : w = Freshened(eval[e])
    OBVIOUS
  <2> QED
    BY <1>1, <1>3, <2>1, InsertCross, InsertedCross, SkippedCross, QuietCross DEF EvalStep
<1>4. ASSUME NEW p \in Managers, Crash(p) PROVE CrossInv'
  BY <1>1, <1>4, CrashCross
<1>5. ASSUME UNCHANGED <<alerts, eval, fired>> PROVE CrossInv'
  BY <1>5 DEF CrossInv, FiredOK, ReachedOK, Reached, Covered, Inserting, ToldOf
<1>6. ASSUME NEW k \in DOMAIN courier,
             CourierStep(k) \/ \E c \in Channels : CourierFails(k, c)
      PROVE  UNCHANGED <<alerts, eval, fired>>
  BY <1>6 DEF CourierStep, CourierFails, NothingToDeliver, Lookup, Announce, Send, SaveAttempt,
     Post
<1>7. ASSUME NEW c \in Channels, DeleteChannel(c) PROVE UNCHANGED <<alerts, eval, fired>>
  BY <1>7 DEF DeleteChannel
<1>8. CASE UNCHANGED vars
  BY <1>5, <1>8 DEF vars
<1> QED
  BY <1>2, <1>3, <1>4, <1>5, <1>6, <1>7, <1>8, Zenon DEF Next

\* Once nothing runs, a crossing that a finished evaluation was told of has its alert, or an
\* evaluation that was told of it too has failed.
THEOREM NoneLost == Spec => []CrossingsRecorded
<1>1. Init => TypeInv /\ OwnInv /\ CrossInv
  <2> SUFFICES ASSUME Init PROVE CrossInv
    BY InitType, InitRecord
  <2>1. \A e \in Evaluations : eval[e].pc = "idle" /\ eval[e].usages = <<>>
    BY DEF Init, Idle
  <2>2. FiredOK
    BY DEF Init, FiredOK
  <2>3. \A e \in Evaluations : ReachedOK(eval[e])
    BY <2>1 DEF ReachedOK
  <2> QED
    BY <2>2, <2>3 DEF CrossInv
<1>2. (TypeInv /\ OwnInv /\ CrossInv) /\ [Next]_vars => (TypeInv /\ OwnInv /\ CrossInv)'
  BY TypeStep, OwnStep, CrossStep
<1>3. TypeInv /\ CrossInv => CrossingsRecorded
  <2> SUFFICES ASSUME CrossInv, Quiet, NEW e \in Evaluations, NEW m \in Markers,
                      eval[e].pc = "done", ToldOf(e, m)
               PROVE  \/ alerts[m] # None
                      \/ \E f \in Evaluations : eval[f].pc = "failed" /\ ToldOf(f, m)
    BY DEF CrossingsRecorded
  <2>1. Covered(m)
    BY DEF CrossInv, ReachedOK, Reached, ToldOf
  <2>2. \A f \in Evaluations : ~Inserting(f, m)
    BY DEF Quiet, Inserting
  <2> QED
    BY <2>1, <2>2 DEF Covered
<1> QED
  BY <1>1, <1>2, <1>3, PTL DEF Spec
=============================================================================
