---------------------------- MODULE Translation ----------------------------
(***************************************************************************)
(* Request and response bodies between the OpenAI chat and the Anthropic   *)
(* messages format (translate.py), and the usage that the adapters read    *)
(* from responses (providers/openai.py, providers/anthropic.py).           *)
(*                                                                         *)
(* A JSON object is a function whose domain is the set of its keys; None   *)
(* is null.  A text is a sequence of words; a message's content is the     *)
(* sequence of its parts, a string being its own only part, and a part     *)
(* that is no plain text is Other.  A string for `stop` is a list of one.  *)
(* OpenAI's usage has its prompt_tokens_details.cached_tokens under        *)
(* "cached_tokens".  A temperature is in tenths.                           *)
(***************************************************************************)
EXTENDS Integers, Sequences, SequencesExt

CONSTANTS None, Other, DefaultMaxTokens

\* The two newlines that join system messages.
Gap == 0

OpenAIKeys ==
    {"model", "messages", "max_tokens", "max_completion_tokens", "temperature", "top_p", "stop",
     "stream", "stream_options", "user", "n"}
AnthropicKeys ==
    {"model", "messages", "max_tokens", "system", "temperature", "top_p", "stop_sequences",
     "stream", "metadata"}

Get(d, k, default) == IF k \in DOMAIN d THEN d[k] ELSE default

\* d.get(k) or default, for a number and for a list.
NumberOr(d, k, default) == IF Get(d, k, None) \in {None, 0} THEN default ELSE d[k]
ListOr(d, k, default) == IF Get(d, k, None) \in {None, <<>>} THEN default ELSE d[k]

\* The pair k: v, if the condition holds.
Optional(condition, k, v) == IF condition THEN (k :> v) ELSE <<>>

AtMostOf(x, y) == IF x > y THEN y ELSE x
AtLeast0(x) == IF x < 0 THEN 0 ELSE x

-----------------------------------------------------------------------------
(* Requests. *)

Joined(texts) ==
    FlattenSeq([i \in 1..(2 * Len(texts) - 1) |->
                   IF i % 2 = 1 THEN texts[(i + 1) \div 2] ELSE <<Gap>>])

\* _text.
TextOf(content) ==
    IF content = None \/ (\E i \in DOMAIN content : content[i] = Other) THEN None
    ELSE FlattenSeq(content)

\* A message may have these keys and roles, and only text.
Plain(m, keys, roles) ==
    /\ DOMAIN m \subseteq keys
    /\ TextOf(Get(m, "content", None)) # None
    /\ Get(m, "role", None) \in roles

IsSystem(m) == m.role \in {"system", "developer"}
IsTurn(m) == ~IsSystem(m)
Turn(m) == [role |-> m.role, content |-> <<TextOf(m.content)>>]
Turns(messages) == LET turns == SelectSeq(messages, IsTurn)
                   IN  [i \in DOMAIN turns |-> Turn(turns[i])]
SystemTexts(messages) == LET system == SelectSeq(messages, IsSystem)
                         IN  [i \in DOMAIN system |-> TextOf(system[i].content)]

Sampling(body) == Optional("top_p" \in DOMAIN body, "top_p", Get(body, "top_p", None))
Streaming(body) == Optional(Get(body, "stream", FALSE) = TRUE, "stream", TRUE)

\* Mutant of OpenAIToAnthropic: the last system message wins.
OpenAIToAnthropicLast(body, model) ==
    LET messages == Get(body, "messages", None) IN
    IF \/ ~(DOMAIN body \subseteq OpenAIKeys) \/ Get(body, "n", 1) # 1
       \/ messages \in {None, <<>>}
       \/ \E i \in DOMAIN messages :
             ~Plain(messages[i], {"role", "content", "name"},
                    {"system", "developer", "user", "assistant"})
    THEN None
    ELSE [model |-> model, messages |-> Turns(messages),
          max_tokens |-> NumberOr(body, "max_completion_tokens",
                                  NumberOr(body, "max_tokens", DefaultMaxTokens))]
         @@ Optional(SystemTexts(messages) # <<>>, "system",
                     <<Last(<<<<>>>> \o SystemTexts(messages))>>)
         @@ Streaming(body)

\* _openai_to_anthropic: None if the request cannot be translated.
OpenAIToAnthropic(body, model) ==
    LET messages == Get(body, "messages", None) IN
    IF \/ ~(DOMAIN body \subseteq OpenAIKeys) \/ Get(body, "n", 1) # 1
       \/ messages \in {None, <<>>}
       \/ \E i \in DOMAIN messages :
             ~Plain(messages[i], {"role", "content", "name"},
                    {"system", "developer", "user", "assistant"})
    THEN None
    ELSE [model |-> model, messages |-> Turns(messages),
          max_tokens |-> NumberOr(body, "max_completion_tokens",
                                  NumberOr(body, "max_tokens", DefaultMaxTokens))]
         @@ Optional(SystemTexts(messages) # <<>>, "system", <<Joined(SystemTexts(messages))>>)
         @@ Optional(Get(body, "temperature", None) # None, "temperature",
                     AtMostOf(Get(body, "temperature", 0), 10))
         @@ Sampling(body)
         @@ Optional(ListOr(body, "stop", <<>>) # <<>>, "stop_sequences",
                     ListOr(body, "stop", <<>>))
         @@ Streaming(body)

\* _anthropic_to_openai.
AnthropicToOpenAI(body, model) ==
    LET messages == Get(body, "messages", None)
        system == TextOf(Get(body, "system", None))
        first == IF "system" \in DOMAIN body
                 THEN <<[role |-> "system", content |-> <<system>>]>> ELSE <<>>
    IN
    IF \/ ~(DOMAIN body \subseteq AnthropicKeys)
       \/ "system" \in DOMAIN body /\ system = None
       \/ messages \in {None, <<>>}
       \/ \E i \in DOMAIN messages :
             ~Plain(messages[i], {"role", "content"}, {"user", "assistant"})
    THEN None
    ELSE [model |-> model, messages |-> first \o Turns(messages),
          max_completion_tokens |-> NumberOr(body, "max_tokens", DefaultMaxTokens)]
         @@ Optional("temperature" \in DOMAIN body, "temperature", Get(body, "temperature", None))
         @@ Sampling(body)
         @@ Optional(ListOr(body, "stop_sequences", <<>>) # <<>>, "stop",
                     ListOr(body, "stop_sequences", <<>>))
         @@ Streaming(body)

\* translate_request, and translatable() when it is not None.
TranslateRequest(client, body, model) ==
    IF client = "openai" THEN OpenAIToAnthropic(body, model) ELSE AnthropicToOpenAI(body, model)

-----------------------------------------------------------------------------
(* Usage. *)

\* What the ledger gets: the four input buckets are disjoint (domain.Usage).
UsageRecord(input, output, read, write, write1h) ==
    [input |-> input, output |-> output, read |-> read, write |-> write, write1h |-> write1h]

\* providers/openai.py: _usage, with as_int.
MeteredOpenAI(u) ==
    LET cached == NumberOr(u, "cached_tokens", 0)
    IN  UsageRecord(AtLeast0(NumberOr(u, "prompt_tokens", 0) - cached),
                    NumberOr(u, "completion_tokens", 0), cached, 0, 0)

\* providers/anthropic.py: _usage.
MeteredAnthropic(u) ==
    LET split == Get(u, "cache_creation", None)
        write == IF split = None THEN NumberOr(u, "cache_creation_input_tokens", 0)
                 ELSE split.ephemeral_5m
        write1h == IF split = None THEN 0 ELSE split.ephemeral_1h
    IN  UsageRecord(NumberOr(u, "input_tokens", 0), NumberOr(u, "output_tokens", 0),
                    NumberOr(u, "cache_read_input_tokens", 0), write, write1h)

\* translate._openai_usage.
OpenAIUsage(u) ==
    LET cached == NumberOr(u, "cache_read_input_tokens", 0)
        prompt == NumberOr(u, "input_tokens", 0) + cached
                  + NumberOr(u, "cache_creation_input_tokens", 0)
        completion == NumberOr(u, "output_tokens", 0)
    IN  [prompt_tokens |-> prompt, completion_tokens |-> completion,
         total_tokens |-> prompt + completion, cached_tokens |-> cached]

\* translate._anthropic_usage.
AnthropicUsage(u) ==
    LET cached == NumberOr(u, "cached_tokens", 0)
    IN  [input_tokens |-> AtLeast0(NumberOr(u, "prompt_tokens", 0) - cached),
         output_tokens |-> NumberOr(u, "completion_tokens", 0),
         cache_read_input_tokens |-> cached, cache_creation_input_tokens |-> 0]

-----------------------------------------------------------------------------
(* Responses. *)

\* _TO_OPENAI_FINISH, _TO_ANTHROPIC_STOP.
ToOpenAIFinish(stop) ==
    CASE stop \in {"end_turn", "stop_sequence"} -> "stop"
      [] stop = "max_tokens" -> "length"
      [] OTHER -> "stop"
ToAnthropicStop(finish) ==
    CASE finish = "stop" -> "end_turn"
      [] finish = "length" -> "max_tokens"
      [] OTHER -> "end_turn"

\* _anthropic_response_to_openai: the blocks of a body's content that are not text are skipped.
AnthropicResponseToOpenAI(body) ==
    [text |-> FlattenSeq(SelectSeq(Get(body, "content", <<>>), LAMBDA b : b # Other)),
     stop |-> ToOpenAIFinish(Get(body, "stop_reason", None)),
     usage |-> OpenAIUsage(Get(body, "usage", <<>>))]

\* _openai_response_to_anthropic, of the first choice.
OpenAIResponseToAnthropic(body) ==
    [text |-> Get(body, "content", <<>>),
     stop |-> ToAnthropicStop(Get(body, "finish_reason", None)),
     usage |-> AnthropicUsage(Get(body, "usage", <<>>))]

\* translate_response.
TranslateResponse(client, body) ==
    IF client = "openai" THEN AnthropicResponseToOpenAI(body) ELSE OpenAIResponseToAnthropic(body)
=============================================================================
