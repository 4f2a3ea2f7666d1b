----------------------------- MODULE MCRecords -----------------------------
(* A small instance of Records for TLC. *)
EXTENDS Records, TLC

CONSTANTS openai, azure, gpt, gpt_dated, mini, mini_dated, other, r1, r2, c1, c2, web, prod, spare

UndatedOf == [m \in Models |-> IF m = gpt_dated THEN gpt ELSE IF m = mini_dated THEN mini ELSE m]

Rates(input, output) == ("input" :> input) @@ ("output" :> output)
Table(model, aliases, rates) ==
    [provider |-> openai, model |-> model, aliases |-> aliases, rates |-> rates]

\* gpt has the alias mini, and a dated name has rates of its own.
Good ==
    {Table(gpt, <<mini>>, Rates(2, 4) @@ ("cache_write" :> 6)), Table(gpt_dated, <<>>, Rates(8, 8))}
TooFine == {Table(mini, <<>>, Rates(2, 2) @@ ("cache_write" :> 1))}
Negative == {Table(mini, <<>>, Rates(-8, 4))}
Twice == {Table(gpt, <<mini>>, Rates(2, 4)), Table(mini, <<>>, Rates(6, 8))}
Partial == {Table(gpt, <<>>, "input" :> 2)}
Strange == {[Table(gpt, <<>>, Rates(2, 4)) EXCEPT !.provider = azure]}
AllFiles == {Good, TooFine, Negative, Twice, Partial, Strange}

Usage(input, output, write) ==
    [input |-> input, output |-> output, cache_read |-> 0, cache_write |-> 0,
     cache_write_1h |-> write]
Reply(model, outcome, usage) == [model |-> model, outcome |-> outcome, usage |-> usage]
SomeReplies ==
    {Reply(gpt_dated, "success", Usage(1, 0, 0)), Reply(mini_dated, "success", Usage(1, 0, 1)),
     Reply(other, "upstream_error", Usage(0, 0, 0))}

TheCredential == {[id |-> 1, name |-> prod, provider |-> openai]}
TheKey == {[id |-> 1, team |-> web, credential |-> 1]}
OldRow(id, at) ==
    [id |-> id, at |-> at, team |-> web, key |-> 1, provider |-> openai, model |-> other,
     outcome |-> "success", usage |-> Usage(1, 1, 0), cost |-> None]
OldRows == {OldRow(2, 0), OldRow(4, 0)}
OldEvents == {[id |-> 2, at |-> 0, action |-> "key.created"]}

Intruder == {[id |-> 9, name |-> spare, provider |-> openai]}

Alike == Permutations(Requests) \cup Permutations(Changes)
Casts == {{r1, r2}, {c1, c2}, {r1, c1}}

All ==
    [start |-> None, end |-> None, team |-> None, provider |-> None, model |-> None, key |-> None,
     outcome |-> None]
Between(start, end) == [All EXCEPT !.start = start, !.end = end]
SomeQueries ==
    {All, Between(1, 1), Between(1, None), [All EXCEPT !.model = other, !.team = web]}

Sizes == "hour" :> 2
Bounds == "hour" :> 1
Ask(a, b, c) ==
    [queries |-> <<Between(a, b), Between(b, c), Between(a, c)>>, group_by |-> "model",
     interval |-> "hour", split |-> "team"]
SomeAccounting ==
    {Ask(1, 2, 3), [Ask(0, 1, 2) EXCEPT !.split = None, !.group_by = "team"], Ask(0, 1, 3)}
=============================================================================
