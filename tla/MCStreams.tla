----------------------------- MODULE MCStreams -----------------------------
(* A small instance of Streams for TLC. *)
EXTENDS Streams

Words(n) == <<<<n>>>>
User(content) == [role |-> "user", content |-> content]
Assistant == [role |-> "assistant", content |-> Words(3)]
System(n) == [role |-> "system", content |-> Words(n)]
Image == User(<<<<1>>, Other>>)

Dialogues == {<<User(Words(1))>>, <<User(<<<<1>>, <<2>>>>), Assistant>>, <<Image>>, <<>>}
Stream == {<<>>, "stream" :> TRUE}
Limits == {<<>>, "max_tokens" :> 7}
Temperatures == {<<>>, "temperature" :> 12, "temperature" :> None}

OpenAIBodies ==
    {[messages |-> s \o d] @@ x @@ y @@ z :
        s \in {<<>>, <<System(4), [System(5) EXCEPT !.role = "developer"]>>}, d \in Dialogues,
        x \in Stream \cup {("stream" :> TRUE) @@ ("stream_options" :> TRUE)},
        y \in Limits \cup {("max_tokens" :> 7) @@ ("max_completion_tokens" :> 8)} \cup Temperatures,
        z \in {<<>>, "stop" :> <<1>>, "tools" :> 0, "n" :> 2, "top_p" :> 9}}
AnthropicBodies ==
    {[messages |-> d] @@ s @@ x @@ y @@ z :
        s \in {<<>>, "system" :> Words(4), "system" :> <<<<4>>, Other>>}, d \in Dialogues,
        x \in Stream, y \in Limits \cup {"temperature" :> 10},
        z \in {<<>>, "stop_sequences" :> <<1, 2>>, "stop_sequences" :> <<>>, "top_k" :> 0,
               "metadata" :> 0}}
ClientBodies == [openai |-> OpenAIBodies, anthropic |-> AnthropicBodies]

Ends(field, blank) == [field |-> field, blank |-> blank]
CRLF == <<CR, LF>>
Patterns ==
    {<<Ends(CRLF, CRLF)>>, <<Ends(<<CR>>, CRLF), Ends(CRLF, <<LF>>), Ends(<<LF>>, <<CR>>)>>}

Report(stop, usage) == [stop |-> stop, usage |-> usage]
Tokens == [prompt_tokens |-> 5, completion_tokens |-> 2, cached_tokens |-> 1]
LastChoices == {Report("stop", None), Report("length", Tokens)}
LastChunks == {[Tokens EXCEPT !.completion_tokens = 3]}
FirstCounts ==
    {[input_tokens |-> 3, output_tokens |-> 1, cache_read_input_tokens |-> 2,
      cache_creation_input_tokens |-> 3,
      cache_creation |-> [ephemeral_5m |-> 1, ephemeral_1h |-> 2]],
     [input_tokens |-> 3, output_tokens |-> 1, cache_creation_input_tokens |-> 4]}
LastCounts ==
    {Report("end_turn", [output_tokens |-> 5]),
     Report("max_tokens", [output_tokens |-> 6, input_tokens |-> None])}
=============================================================================
