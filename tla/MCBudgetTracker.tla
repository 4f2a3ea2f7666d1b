--------------------------- MODULE MCBudgetTracker ---------------------------
(* Small instances of BudgetTracker for TLC. *)
EXTENDS BudgetTracker, TLC

CONSTANTS r1, r2, r3, rep1, rep2

Row(limit, hard, scope) ==
    [limit |-> limit, hard |-> hard, enabled |-> TRUE, scope |-> scope, updated_at |-> 0]
Keep == [limit |-> None, hard |-> None, enabled |-> None, scope |-> None]

\* One global hard budget that two requests of cost 1 exhaust.
OneHardBudget == {1 :> Row(2, TRUE, Requests)}
\* One hard budget that a single request exhausts.
TightBudget == {1 :> Row(1, TRUE, Requests)}
\* Two hard budgets over all requests.
TwoBudgets == {(1 :> Row(1, TRUE, Requests)) @@ (2 :> Row(1, TRUE, Requests))}
\* No budget until a POST creates it, or one that r1 is outside of until a PATCH widens its
\* scope.
NoneOrNarrow == {1 :> None, 1 :> Row(1, TRUE, Requests \ {r1})}

AnyReplica == [t \in Tasks |-> Replicas]
\* The admin call and r1 use one replica, the other requests the other.
Split == [t \in Tasks |-> IF t \in Requests \ {r1} THEN {rep2} ELSE {rep1}]

PeriodOfTwo == [b \in Budgets |-> 2]
\* Two windows that both cover the run and end one after the other.
Staggered == [b \in Budgets |-> MaxTime + b]
LongPeriod == [b \in Budgets |-> MaxTime + 1]

Raise == {[Keep EXCEPT !.limit = 3]}
Widen == {[Keep EXCEPT !.scope = Requests]}
Strict == {Row(1, TRUE, Requests)}

\* Sound for safety: every definition treats the requests other than r1 alike.
Symmetry == Permutations(Requests \ {r1})
=============================================================================
