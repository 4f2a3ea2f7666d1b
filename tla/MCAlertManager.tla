--------------------------- MODULE MCAlertManager ---------------------------
(* Small instances of AlertManager. *)
EXTENDS AlertManager, TLC

\* A daily budget of 10 with three thresholds, as a usage of a given spend.
Daily(spend, ids) ==
    [budget |-> "daily", period |-> 0, spend |-> spend, limit |-> 10,
     thresholds |-> {50, 80, 100}, channels |-> ids]
Half(spend, ids) == [Daily(spend, ids) EXCEPT !.thresholds = {50, 100}]
Weekly(spend, ids) == [Half(spend, ids) EXCEPT !.budget = "weekly"]

\* Two requests finish near the limit: one figure has crossed one threshold, one both.
Climb == {<<Half(5, {1})>>, <<Half(10, {1})>>}

\* A threshold, and then all three, together with a second budget that has no channels.
Steps == {<<Half(5, {1})>>, <<Daily(10, {1}), Weekly(5, {})>>}

\* All thresholds at once, over two channels.
Jump == {<<Daily(10, {1, 2})>>}

\* The same climb to a budget with two channels.
Fan == {<<Half(5, {1, 2})>>, <<Half(10, {1, 2})>>}

Symmetry == Permutations(Managers) \cup Permutations(Evaluations)
=============================================================================
