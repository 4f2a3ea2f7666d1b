------------------------------ MODULE Routing ------------------------------
(***************************************************************************)
(* The choice of targets for a routed request (routing.py).  A route is a  *)
(* strategy and a sequence of targets; a plan is the sequence of positions *)
(* of that sequence to try, in order.                                      *)
(***************************************************************************)
EXTENDS Integers, Sequences, FiniteSets

CONSTANTS
    CredentialNames,  \* names a credential may have
    ProviderOf,       \* the provider of each credential
    Models,           \* model names routes use
    Price,            \* input + output rate of a (provider, model), Unpriced where unknown
    Unpriced          \* math.inf

Providers == {"openai", "anthropic"}
Strategies == {"fallback", "cheapest"}
Targets == [credential : CredentialNames, model : Models]
Routes == [strategy : Strategies, targets : Seq(Targets)]

ASSUME RoutingAssumption ==
    /\ ProviderOf \in [CredentialNames -> Providers]
    /\ Unpriced \in Nat
    /\ Price \in [Providers \X Models -> 0 .. Unpriced]

\* retryable: failures another target may not share.
Retryable(status) == status \in {401, 403, 408, 409, 429} \/ status >= 500

\* The price plan() sorts by.
TargetPrice(t) == Price[<<ProviderOf[t.credential], t.model>>]

\* The positions of a route whose target can serve the request: its credential exists, and
\* it is on the client's own API or the request is plain text.
Eligible(route, known, client, translatable) ==
    {i \in DOMAIN route.targets :
        /\ route.targets[i].credential \in known
        /\ ProviderOf[route.targets[i].credential] = client \/ translatable}

\* Position i is tried before position j: list.sort is stable.
Before(route, i, j) ==
    LET p == TargetPrice(route.targets[i]) q == TargetPrice(route.targets[j])
    IN  IF route.strategy = "cheapest" /\ p # q THEN p < q ELSE i < j

\* Mutant of Plans: the list is sorted whatever the strategy.
PlansSorted(route, known, client, translatable) ==
    LET S == Eligible(route, known, client, translatable)
        sorted == [route EXCEPT !.strategy = "cheapest"]
    IN  {p \in [1 .. Cardinality(S) -> S] :
            \A m, n \in 1 .. Cardinality(S) : m < n => Before(sorted, p[m], p[n])}

\* plan(): the eligible positions in the order to try them.  As Before is a strict order,
\* there is exactly one such sequence.
Plans(route, known, client, translatable) ==
    LET S == Eligible(route, known, client, translatable)
    IN  {p \in [1 .. Cardinality(S) -> S] :
            \A m, n \in 1 .. Cardinality(S) : m < n => Before(route, p[m], p[n])}
=============================================================================
