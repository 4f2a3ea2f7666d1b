------------------------------- MODULE Streams -------------------------------
(***************************************************************************)
(* One answered request (proxy/sse.py, providers, translate.py and the     *)
(* relay of proxy/handler.py): the provider sends server-sent events, the  *)
(* network cuts their bytes into chunks anywhere, and each chunk runs      *)
(* through the parser, the meter and, between two APIs, the translator.    *)
(*                                                                         *)
(* The wire is a sequence of tokens: CR, LF, a field's name, a payload.    *)
(* The payload of the i-th event is i.                                     *)
(***************************************************************************)
EXTENDS Translation, FiniteSets

CONSTANTS
    Bodies,         \* per client API, requests it may send
    Model,          \* the target's model
    LineEnds,       \* patterns: per event in turn, how its field and blank lines end
    Finishes,       \* what OpenAI's last choice may say: [stop, usage]
    UsageChunks,    \* usage of OpenAI's chunk after that
    StartUsages,    \* usage of Anthropic's message_start
    Deltas,         \* what its message_delta may say: [stop, usage]
    MaxEvents,      \* bound: events of a stream
    MaxPending,     \* bound: tokens in flight when the provider sends an event
    MaxNoise        \* bound: comments, pings and undecodable events among them

VARIABLES
    phase,       \* "new", "sent", "streaming", "ended"
    request,     \* [client, provider, body, send], until the provider has answered
    include,     \* the client asked for a usage chunk
    ends,        \* the pattern of line ends
    sent,        \* events the provider has sent, in order
    wire,        \* and their bytes
    pos,         \* how much of the wire has been received
    parser,      \* SSEParser
    parsed,      \* history: events dispatched by the parser
    meter,       \* StreamMeter
    translator,  \* AnthropicToOpenAIStream, OpenAIToAnthropicStream
    out,         \* what the client has received: bytes, or translated events
    row          \* the ledger row: None, or outcome and usage

streamVars == <<sent, wire, pos, parser, parsed, meter, translator, out>>
vars == <<phase, request, include, ends, streamVars, row>>

Apis == {"openai", "anthropic"}
Client == request.client
Provider == request.provider
Translates == Client # Provider

-----------------------------------------------------------------------------
(* What a provider sends (external): events, their order, their encoding. *)

\* The members of a sequence that pass a test, in order.
Chosen(s, Test(_)) == FlattenSeq([i \in DOMAIN s |-> IF Test(s[i]) THEN <<s[i]>> ELSE <<>>])

Event(t) == [t |-> t, text |-> <<>>, stop |-> None, usage |-> None]

Noise == {"comment", "garbage", "ping"}
Final == {"done", "message_stop", "error"}

\* The event's kind that may follow one of this kind.
Follows ==
    [openai |->
        [none |-> {"role", "text", "finish", "usage", "error"},
         role |-> {"text", "finish", "error"},
         text |-> {"text", "finish", "error"},
         finish |-> {"usage", "done"},
         usage |-> {"done"}],
     anthropic |->
        [none |-> {"message_start", "error"},
         message_start |-> {"content_block_start", "message_delta", "error"},
         content_block_start |-> {"text_delta", "content_block_stop"},
         text_delta |-> {"text_delta", "content_block_stop", "error"},
         content_block_stop |-> {"content_block_start", "message_delta"},
         message_delta |-> {"message_delta", "message_stop"}]]

Kinds(events) == [i \in DOMAIN events |-> events[i].t]
Stage(events) ==
    LET signals == {i \in DOMAIN events : events[i].t \notin Noise}
    IN  IF signals = {} THEN "none" ELSE events[Max(signals)].t

Texts(events) == Chosen(events, LAMBDA e : e.t \in {"text", "text_delta"})

\* The events of a kind; texts are told apart by their number.
EventsOf(t) ==
    LET e == Event(t) IN
    CASE t \in {"text", "text_delta"} -> {[e EXCEPT !.text = <<Len(Texts(sent)) + 1>>]}
      [] t = "finish" -> {[e EXCEPT !.stop = r.stop, !.usage = r.usage] : r \in Finishes}
      [] t = "usage" -> {[e EXCEPT !.usage = u] : u \in UsageChunks}
      [] t = "message_start" -> {[e EXCEPT !.usage = u] : u \in StartUsages}
      [] t = "message_delta" -> {[e EXCEPT !.stop = r.stop, !.usage = r.usage] : r \in Deltas}
      [] OTHER -> {e}

CR == -1
LF == -2
Breaks == {CR, LF}
Endings == {<<CR>>, <<LF>>, <<CR, LF>>}
Field == [comment |-> -3, event |-> -4, data |-> -5]

\* How the lines of the i-th event end.
LineEnd(i) == ends[1 + ((i - 1) % Len(ends))]

\* The lines of an event: an optional event field, which nothing reads, and the data.
Encoded(e, i) ==
    LET nl == LineEnd(i)
        name == IF Provider = "anthropic" THEN <<Field.event>> \o nl.field ELSE <<>>
    IN  IF e.t = "comment" THEN <<Field.comment>> \o nl.field \o nl.blank
        ELSE name \o <<Field.data, i>> \o nl.field \o nl.blank

AnyKind ==
    Noise \cup Final \cup {"role", "text", "finish", "usage"}
    \cup {"message_start", "content_block_start", "text_delta", "content_block_stop",
          "message_delta"}

\* What an event may say.
Events ==
    LET reports == Finishes \cup Deltas
    IN  [t : AnyKind, text : Seq(Nat), stop : {None} \cup {r.stop : r \in reports},
         usage : {None} \cup UsageChunks \cup StartUsages \cup {r.usage : r \in reports}]

\* Each line has its end, and no two ends make one: CR and LF in a row are a single line break.
\* A usage chunk reports usage.  None is no other value.
ASSUME StreamsAssumption ==
    /\ LineEnds \subseteq Seq([field : Endings, blank : Endings]) \ {<<>>}
    /\ \A pattern \in LineEnds : \A i \in DOMAIN pattern :
          pattern[i].field = <<CR>> => Head(pattern[i].blank) # LF
    /\ None \notin UsageChunks
    /\ None \notin Events /\ None \notin Nat /\ None \notin [end : Nat, next : Nat]

-----------------------------------------------------------------------------
(* SSEParser.  A position is that of the next token, from 0. *)

NewParser == [buffer |-> <<>>, scan |-> 0, data |-> <<>>]

\* Mutant of NextLine: a CR at the end of what has arrived ends the line at once.
NextLineEager(p) ==
    LET breaks == {i \in (p.scan + 1)..Len(p.buffer) : p.buffer[i] \in Breaks}
        i == CHOOSE i \in breaks : \A j \in breaks : i <= j
    IN  IF breaks = {} THEN None
        ELSE [end |-> i - 1,
              next |-> IF p.buffer[i] = CR /\ i < Len(p.buffer) /\ p.buffer[i + 1] = LF
                       THEN i + 1 ELSE i]

\* _next_line: where the next line ends and the one after it starts; None until that is known,
\* which for a CR takes the next byte.
NextLine(p) ==
    LET breaks == {i \in (p.scan + 1)..Len(p.buffer) : p.buffer[i] \in Breaks}
        i == CHOOSE i \in breaks : \A j \in breaks : i <= j
    IN  IF breaks = {} THEN None
        ELSE IF p.buffer[i] = LF THEN [end |-> i - 1, next |-> i]
        ELSE IF i = Len(p.buffer) THEN None
        ELSE [end |-> i - 1, next |-> IF p.buffer[i + 1] = LF THEN i + 1 ELSE i]

\* _parse_field: the data lines are kept.
ParseField(data, line) == IF Head(line) = Field.data THEN data \o Tail(line) ELSE data

\* _dispatch: the event with its exact bytes; a payload of several lines is not modelled.
Dispatch(p) == [raw |-> SubSeq(p.buffer, 1, p.scan),
                data |-> IF p.data = <<>> THEN None ELSE p.data[1]]

AfterDispatch(p) ==
    [buffer |-> SubSeq(p.buffer, p.scan + 1, Len(p.buffer)), scan |-> 0, data |-> <<>>]

\* A turn of the loop in feed(), on the parser and the events so far; none if no line is complete.
TakeLine(s) ==
    LET p == s.parser
        bounds == NextLine(p)
        line == SubSeq(p.buffer, p.scan + 1, bounds.end)
        moved == [p EXCEPT !.scan = bounds.next]
    IN  IF bounds = None THEN s
        ELSE IF line # <<>> THEN [s EXCEPT !.parser = [moved EXCEPT !.data = ParseField(@, line)]]
        ELSE [parser |-> AfterDispatch(moved), events |-> Append(s.events, Dispatch(moved))]

\* feed(): the loop, which takes at least a token in each turn.
Feed(p, chunk) ==
    LET buffer == p.buffer \o chunk
        turns[n \in 0..Len(buffer)] ==
            IF n = 0 THEN [parser |-> [p EXCEPT !.buffer = buffer], events |-> <<>>]
            ELSE TakeLine(turns[n - 1])
    IN  turns[Len(buffer)]

-----------------------------------------------------------------------------
(* The meters.  `raw` is the usage reported so far, None before any. *)

NewMeter == [raw |-> None, error |-> FALSE]

\* AnthropicStreamMeter._merge: field by field, but for nulls.
Merged(raw, u) ==
    LET known == IF u = None THEN <<>> ELSE [k \in {k \in DOMAIN u : u[k] # None} |-> u[k]]
    IN  IF raw = None /\ DOMAIN known = {} THEN None
        ELSE known @@ (IF raw = None THEN <<>> ELSE raw)

\* The payload decodes to a JSON object.
IsObject(data) == data # None /\ data.t \notin {"done", "garbage"}

HasChoices(data) == data.t \in {"role", "text", "finish"}

\* Mutant of Keeps: every chunk with usage is hidden.
KeepsNoUsage(data) ==
    Provider = "openai" /\ IsObject(data) /\ data.usage # None => include

\* observe()'s answer: a chunk that only reports usage is hidden from a client that did not
\* ask for it.
Keeps(data) ==
    Provider = "openai" /\ IsObject(data) /\ data.usage # None => include \/ HasChoices(data)

\* OpenAIStreamMeter.observe, AnthropicStreamMeter.observe.
Observe(m, data) ==
    IF ~IsObject(data) THEN m
    ELSE [raw |-> CASE Provider = "openai" -> IF data.usage = None THEN m.raw ELSE data.usage
                    [] data.t \in {"message_start", "message_delta"} -> Merged(m.raw, data.usage)
                    [] OTHER -> m.raw,
          error |-> m.error \/ data.t = "error"]

\* The meter's usage.
Metered(m) ==
    CASE m.raw = None -> None
      [] Provider = "openai" -> MeteredOpenAI(m.raw)
      [] OTHER -> MeteredAnthropic(m.raw)

-----------------------------------------------------------------------------
(* The translators. *)

NewTranslator ==
    [started |-> FALSE, closed |-> FALSE, stop |-> "end_turn", usage |-> <<>>]

\* Mutant of Updated: a later report replaces the whole of the earlier one.
UpdatedWhole(usage, u) == IF u = None THEN usage ELSE u

\* self.usage.update(usage), nulls included.
Updated(usage, u) == IF u = None THEN usage ELSE u @@ usage

\* AnthropicToOpenAIStream.feed: the new state and what it returns.
FeedToOpenAI(tr, data) ==
    LET heard == [tr EXCEPT !.usage = Updated(@, data.usage)]
        usage == [Event("usage") EXCEPT !.usage = OpenAIUsage(tr.usage)]
        finish == [Event("finish") EXCEPT !.stop = ToOpenAIFinish(data.stop)]
    IN  IF ~IsObject(data) THEN [tr |-> tr, out |-> <<>>] ELSE
        CASE data.t = "message_start" -> [tr |-> heard, out |-> <<Event("role")>>]
          [] data.t = "text_delta" ->
                [tr |-> tr, out |-> <<[Event("text") EXCEPT !.text = data.text]>>]
          [] data.t = "message_delta" -> [tr |-> heard, out |-> <<finish>>]
          [] data.t = "message_stop" ->
                [tr |-> tr, out |-> (IF include THEN <<usage>> ELSE <<>>) \o <<Event("done")>>]
          [] data.t = "error" -> [tr |-> tr, out |-> <<Event("error")>>]
          [] OTHER -> [tr |-> tr, out |-> <<>>]

\* Mutant of Close: not guarded by `closed`.
CloseAgain(tr) ==
    IF ~tr.started THEN [tr |-> tr, out |-> <<>>]
    ELSE [tr |-> [tr EXCEPT !.closed = TRUE],
          out |-> <<Event("content_block_stop"),
                    [Event("message_delta") EXCEPT !.stop = tr.stop,
                                                   !.usage = AnthropicUsage(tr.usage)],
                    Event("message_stop")>>]

\* OpenAIToAnthropicStream._close.
Close(tr) ==
    IF ~tr.started \/ tr.closed THEN [tr |-> tr, out |-> <<>>]
    ELSE [tr |-> [tr EXCEPT !.closed = TRUE],
          out |-> <<Event("content_block_stop"),
                    [Event("message_delta") EXCEPT !.stop = tr.stop,
                                                   !.usage = AnthropicUsage(tr.usage)],
                    Event("message_stop")>>]

\* OpenAIToAnthropicStream.feed.
FeedToAnthropic(tr, data) ==
    IF data = Event("done") THEN Close(tr)
    ELSE IF ~IsObject(data) THEN [tr |-> tr, out |-> <<>>]
    ELSE IF data.t = "error" THEN [tr |-> tr, out |-> <<Event("error")>>]
    ELSE [tr |-> [tr EXCEPT !.started = TRUE,
                            !.usage = IF data.usage = None THEN @ ELSE data.usage,
                            !.stop = IF data.stop = None THEN @ ELSE ToAnthropicStop(data.stop)],
          out |-> (IF tr.started THEN <<>>
                   ELSE <<Event("message_start"), Event("content_block_start")>>)
                  \o (IF data.text = <<>> THEN <<>>
                      ELSE <<[Event("text_delta") EXCEPT !.text = data.text]>>)]

Translate(tr, data) ==
    IF Client = "openai" THEN FeedToOpenAI(tr, data) ELSE FeedToAnthropic(tr, data)

-----------------------------------------------------------------------------
(* The request (handler._attempt). *)

Init ==
    /\ phase = "new"
    /\ request = None
    /\ include = FALSE
    /\ ends \in LineEnds
    /\ sent = <<>> /\ wire = <<>> /\ pos = 0
    /\ parser = NewParser /\ parsed = <<>> /\ meter = NewMeter
    /\ translator = NewTranslator
    /\ out = <<>> /\ row = None

\* prepare_stream_body: OpenAI is always asked for usage.
Prepared(provider, body) ==
    IF provider = "openai" /\ Get(body, "stream", FALSE) = TRUE
    THEN [stream_options |-> TRUE] @@ body ELSE body

\* A target of either API: on the other one only if the request can be translated.
Prepare ==
    /\ phase = "new"
    /\ \E client, provider \in Apis : \E body \in Bodies[client] :
          LET send == IF client = provider THEN [model |-> Model] @@ body
                      ELSE TranslateRequest(client, body, Model)
          IN  /\ send # None
              /\ request' = [client |-> client, provider |-> provider, body |-> body,
                             send |-> Prepared(provider, send)]
              /\ include' = (client = "openai" /\ Get(body, "stream_options", FALSE) = TRUE)
    /\ phase' = "sent"
    /\ UNCHANGED <<ends, streamVars, row>>

\* The provider answers a streaming request with a stream.
Connect ==
    /\ phase = "sent"
    /\ Get(request.body, "stream", FALSE) = TRUE
    /\ phase' = "streaming"
    /\ request' = [request EXCEPT !.body = None, !.send = None]
    /\ UNCHANGED <<include, ends, streamVars, row>>

\* A body the provider may answer with (external).
Answers(provider) ==
    IF provider = "openai"
    THEN {[content |-> <<1>>, finish_reason |-> s, usage |-> u] :
             s \in {"stop", "length"}, u \in UsageChunks}
         \cup {[content |-> <<>>]}
    ELSE {[content |-> c, stop_reason |-> s, usage |-> u] :
             c \in {<<<<1>>, <<2>>>>, <<Other, <<1>>>>}, s \in {"end_turn", "max_tokens"},
             u \in StartUsages}
         \cup {[content |-> <<>>]}

\* It answers any other request with one body, which is metered and translated.
Answer ==
    /\ phase = "sent"
    /\ Get(request.body, "stream", FALSE) # TRUE
    /\ \E body \in Answers(Provider) :
          /\ row' = [outcome |-> "success",
                     usage |-> CASE "usage" \notin DOMAIN body -> None
                                 [] Provider = "openai" -> MeteredOpenAI(body.usage)
                                 [] OTHER -> MeteredAnthropic(body.usage)]
          /\ out' = IF Translates THEN <<TranslateResponse(Client, body)>> ELSE <<body>>
    /\ phase' = "ended"
    /\ request' = [request EXCEPT !.body = None, !.send = None]
    /\ UNCHANGED <<include, ends, sent, wire, pos, parser, parsed, meter, translator>>

-----------------------------------------------------------------------------
(* The stream (handler._relay). *)

Send ==
    /\ phase = "streaming"
    /\ Len(sent) < MaxEvents
    /\ Len(wire) - pos <= MaxPending
    /\ Stage(sent) \notin Final
    /\ \E t \in Noise \cup Follows[Provider][Stage(sent)] : \E e \in EventsOf(t) :
          /\ t \in Noise => Cardinality({i \in DOMAIN sent : sent[i].t \in Noise}) < MaxNoise
          /\ t = "ping" => Provider = "anthropic"
          /\ sent' = Append(sent, e)
          /\ wire' = wire \o Encoded(e, Len(sent) + 1)
    /\ UNCHANGED <<phase, request, include, ends, pos, parser, parsed, meter, translator, out, row>>

\* The body of the loop over the events of a chunk.
Relayed(state, event) ==
    LET data == IF event.data = None THEN None ELSE sent[event.data]
        fed == Translate(state.translator, data)
    IN
    [meter |-> Observe(state.meter, data),
     translator |-> IF Translates THEN fed.tr ELSE state.translator,
     out |-> state.out \o (CASE Translates -> fed.out
                             [] ~Translates /\ Keeps(data) -> event.raw
                             [] OTHER -> <<>>)]

\* The loop over the events of a chunk.
RelayedAll(state, events) ==
    LET states[i \in 0..Len(events)] ==
            IF i = 0 THEN state ELSE Relayed(states[i - 1], events[i])
    IN  states[Len(events)]

\* A chunk of any length.
Deliver ==
    /\ phase = "streaming"
    /\ \E n \in 1..(Len(wire) - pos) :
          LET fed == Feed(parser, SubSeq(wire, pos + 1, pos + n))
              state == RelayedAll([meter |-> meter, translator |-> translator, out |-> out],
                                  fed.events)
          IN  /\ pos' = pos + n
              /\ parser' = fed.parser
              /\ parsed' = parsed \o fed.events
              /\ meter' = state.meter
              /\ translator' = state.translator
              /\ out' = state.out
    /\ UNCHANGED <<phase, request, include, ends, sent, wire, row>>

Record(outcome) ==
    /\ phase' = "ended"
    /\ row' = [outcome |-> outcome, usage |-> Metered(meter)]

\* The provider closes the connection, wherever it stands: flush() and finish().
Finish ==
    /\ phase = "streaming"
    /\ LET closed == IF Client = "anthropic" THEN Close(translator)
                     ELSE [tr |-> translator, out |-> <<>>]
       IN  /\ out' = out \o (IF Translates THEN closed.out ELSE parser.buffer)
           /\ translator' = IF Translates THEN closed.tr ELSE translator
    /\ parser' = NewParser
    /\ Record(IF meter.error THEN "upstream_error" ELSE "success")
    /\ UNCHANGED <<request, include, ends, sent, wire, pos, parsed, meter>>

\* The connection breaks.
Interrupted ==
    /\ phase = "streaming"
    /\ Record("upstream_error")
    /\ UNCHANGED <<request, include, ends, streamVars>>

\* The client leaves.
Disconnected ==
    /\ phase = "streaming"
    /\ Record("client_disconnected")
    /\ UNCHANGED <<request, include, ends, streamVars>>

Next == Prepare \/ Connect \/ Answer \/ Send \/ Deliver \/ Finish \/ Interrupted \/ Disconnected

Spec == Init /\ [][Next]_vars

-----------------------------------------------------------------------------
\* What a request asks for, in either format.
Meaning(body) ==
    [turns |-> Turns(body.messages),
     system |-> IF "system" \in DOMAIN body THEN TextOf(body.system)
                ELSE Joined(SystemTexts(body.messages)),
     limit |-> NumberOr(body, "max_completion_tokens",
                        NumberOr(body, "max_tokens", DefaultMaxTokens)),
     temperature |-> IF Get(body, "temperature", None) = None THEN None
                     ELSE AtMostOf(body.temperature, 10),
     top_p |-> Get(body, "top_p", None),
     stop |-> ListOr(body, "stop", ListOr(body, "stop_sequences", <<>>)),
     stream |-> Get(body, "stream", FALSE) = TRUE]

\* A translated request asks for what the client asked for, apart from a temperature above 1, and
\* could be translated back unless it has no message left (translate.py: "routing never sends a
\* silently degraded request to the other API").
RequestKept ==
    phase = "sent" /\ Translates =>
        /\ Meaning(request.send) = Meaning(request.body)
        /\ Turns(request.send.messages) # <<>> =>
              LET back == TranslateRequest(Provider, request.send, Model)
              IN  back # None /\ Meaning(back) = Meaning(request.body)

\* The events of a text as a whole: where a line break is complete, and where an empty line ends.
BreakEnds(text) ==
    {i \in DOMAIN text : \/ text[i] = LF
                         \/ text[i] = CR /\ i < Len(text) /\ text[i + 1] # LF}
EventEnds(text) ==
    {i \in BreakEnds(text) :
        LET start == IF text[i] = LF /\ i > 1 /\ text[i - 1] = CR THEN i - 1 ELSE i
        IN  start = 1 \/ start - 1 \in BreakEnds(text)}
\* Whatever the chunks, the parser has dispatched the events of the bytes received so far, each
\* with its own bytes and its own data, and holds the rest (SSEParser: "chunk boundaries anywhere
\* (including between CR and LF)").
EventsAsWhole ==
    phase = "streaming" =>
        LET received == SubSeq(wire, 1, pos)
            raws == [i \in DOMAIN parsed |-> parsed[i].raw]
        IN  /\ FlattenSeq(raws) \o parser.buffer = received
            /\ parser.scan \in 0..Len(parser.buffer) /\ Len(parser.data) <= 1
            /\ {Len(FlattenSeq(SubSeq(raws, 1, i))) : i \in DOMAIN raws} = EventEnds(received)
            /\ \A i \in DOMAIN parsed :
                  parsed[i].data = IF sent[i].t = "comment" THEN None ELSE i

Heard == SubSeq(sent, 1, Len(parsed))

\* On its own API a client receives the provider's bytes, event by event and then the rest, but
\* for the usage chunks it did not ask for (README: "byte for byte").
PassedOn ==
    phase \in {"streaming", "ended"} /\ ~Translates /\ sent # <<>> =>
        LET hidden(i) == Provider = "openai" /\ ~include /\ sent[i].t = "usage"
            all == FlattenSeq([i \in DOMAIN Heard |-> Encoded(sent[i], i)])
            shown(i) == IF hidden(i) THEN <<>> ELSE Encoded(sent[i], i)
            passed == FlattenSeq([i \in DOMAIN Heard |-> shown(i)])
            rest == SubSeq(wire, Len(all) + 1, pos)
        IN  /\ out \in {passed, passed \o rest}
            /\ phase = "streaming" => out = passed
            /\ phase = "ended" /\ row.outcome = "success" => out = passed \o rest

-----------------------------------------------------------------------------
Told == Chosen(out, LAMBDA e : e.t # "error")
Count(events, t) == Len(Chosen(events, LAMBDA e : e.t = t))

\* The events of a translated stream that are not text, in full.
Frame ==
    IF Client = "openai"
    THEN <<"role">> \o [i \in 1..Count(Heard, "message_delta") |-> "finish"]
         \o (IF include THEN <<"usage">> ELSE <<>>) \o <<"done">>
    ELSE <<"message_start", "content_block_start", "content_block_stop", "message_delta",
           "message_stop">>
Opening == IF Client = "openai" THEN 1 ELSE 2

\* A translated stream is well formed however the provider's is cut or interleaved with noise: its
\* frame in order and once, text only inside; an Anthropic client's is closed when the provider
\* closes, if it was opened (AnthropicToOpenAIStream, OpenAIToAnthropicStream).
WellFormed ==
    phase \in {"streaming", "ended"} /\ Translates /\ sent # <<>> =>
        LET frame(events) == Kinds(Chosen(events, LAMBDA e : e.text = <<>>))
        IN  /\ IsPrefix(frame(Told), Frame)
            /\ \A i \in DOMAIN Told :
                  Told[i].text # <<>> => Len(frame(SubSeq(Told, 1, i))) = Opening
            /\ phase = "ended" /\ row.outcome = "success" /\ Client = "anthropic" =>
                  frame(Told) \in {<<>>, Frame}

-----------------------------------------------------------------------------
\* The body with which the provider would have answered, had it not streamed (external).
Reported(events) == Chosen(events, LAMBDA e : e.usage # None)
Stops(events) == Chosen(events, LAMBDA e : e.stop # None)
WholeUsage(events) ==
    IF Provider = "openai" THEN Last(Reported(events)).usage
    ELSE LET known(u) == [k \in {k \in DOMAIN u : u[k] # None} |-> u[k]]
         IN  FoldLeft(LAMBDA u, e : known(e.usage) @@ u, <<>>, Reported(events))
WholeBody(events) ==
    LET texts == Texts(events)
        words == [i \in DOMAIN texts |-> texts[i].text]
        stop == IF Stops(events) = <<>> THEN None ELSE Last(Stops(events)).stop
    IN  [content |-> IF Provider = "openai" THEN FlattenSeq(words) ELSE words,
         stop_reason |-> stop, finish_reason |-> stop]
        @@ Optional(Reported(events) # <<>>, "usage", WholeUsage(events))

\* A message_delta says null of a count that message_start gave.
Nulled(events) ==
    \E e \in ToSet(Reported(events)) : \E k \in DOMAIN e.usage : e.usage[k] = None

\* The two translations of the same answer, as a stream and as a body, agree in text, stop reason
\* and usage, unless a count was nulled.
ToldAsBody ==
    /\ phase = "ended" /\ row.outcome = "success" /\ Translates /\ sent # <<>>
    /\ Stage(Heard) \in {"done", "message_stop"}
    => LET whole == TranslateResponse(Client, WholeBody(Heard))
           texts == Texts(Told)
       IN  /\ FlattenSeq([i \in DOMAIN texts |-> texts[i].text]) = whole.text
           /\ Last(Stops(Told)).stop = whole.stop
           /\ Reported(Told) # <<>> /\ ~Nulled(Heard) => Last(Reported(Told)).usage = whole.usage
           /\ Reported(Told) = <<>> => Client = "openai" /\ ~include

\* The ledger gets the usage of the events that came through, which for a whole stream is what
\* the adapter reads from a whole body (README: "Failures still count.").
MeteredAsBody ==
    phase = "ended" /\ sent # <<>> =>
        row.usage = CASE Reported(Heard) = <<>> -> None
                      [] Provider = "openai" -> MeteredOpenAI(WholeUsage(Heard))
                      [] OTHER -> MeteredAnthropic(WholeUsage(Heard))

\* The usage told to a client of the other API is the usage in the ledger, whatever became of the
\* request afterwards, unless a count was nulled.
ToldAsRecorded ==
    phase = "ended" /\ Translates /\ out # <<>> =>
        LET told == IF sent = <<>> THEN out[1].usage
                    ELSE IF Reported(Told) = <<>> THEN None ELSE Last(Reported(Told)).usage
            mine == IF row.usage = None THEN UsageRecord(0, 0, 0, 0, 0) ELSE row.usage
        IN  told # None /\ ~Nulled(Heard) =>
            IF Client = "openai"
            THEN /\ told.prompt_tokens = mine.input + mine.read + mine.write + mine.write1h
                 /\ told.completion_tokens = mine.output
                 /\ told.cached_tokens = mine.read
            ELSE /\ told.input_tokens = mine.input
                 /\ told.output_tokens = mine.output
                 /\ told.cache_read_input_tokens = mine.read

\* A client that streams is told and charged the same as one that does not: the translations
\* agree, the meter reads the same usage, and the client is told the usage the ledger gets.
StreamAsBody == ToldAsBody /\ MeteredAsBody /\ ToldAsRecorded
=============================================================================
