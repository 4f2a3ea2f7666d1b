------------------------------ MODULE MCProxy ------------------------------
(* Small instances of Proxy for TLC. *)
EXTENDS Proxy, TLC

CONSTANTS r1, r2, k1, oa, an, old, m

ProviderOfName == (oa :> "openai") @@ (an :> "anthropic") @@ (old :> "openai")
Rate == (<<"openai", m>> :> 1) @@ (<<"anthropic", m>> :> 2)

Target(c) == [credential |-> c, model |-> m]
BothRoutes ==
    ("first" :> [strategy |-> "fallback", targets |-> <<Target(old), Target(an), Target(oa)>>]) @@
    ("cheap" :> [strategy |-> "cheapest", targets |-> <<Target(an), Target(oa)>>])

Body(api, route, stream, translatable, options) ==
    [api |-> api, route |-> route, stream |-> stream, translatable |-> translatable,
     options |-> options]

\* A routed stream with and without well-formed options, a routed request with tools, and
\* requests on the key's own credential.
AnyBody ==
    {Body("openai", "first", TRUE, TRUE, TRUE), Body("openai", "first", TRUE, TRUE, FALSE),
     Body("anthropic", "cheap", FALSE, TRUE, TRUE), Body("openai", "cheap", FALSE, FALSE, TRUE),
     Body("openai", None, TRUE, FALSE, TRUE), Body("anthropic", None, FALSE, FALSE, TRUE)}
EveryBody == [r \in Requests |-> AnyBody]

\* A request that is routed and not streamed, beside a stream whose client may stall.
StreamBeside ==
    [r \in Requests |-> IF r = r1 THEN {Body("anthropic", "cheap", FALSE, TRUE, TRUE)}
                        ELSE {Body("openai", None, TRUE, FALSE, TRUE)}]

NoKeys == [k \in Keys |-> None]
OneKey == [k \in Keys |-> [credential |-> oa, active |-> TRUE]]
=============================================================================
