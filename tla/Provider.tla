------------------------------- MODULE Provider -------------------------------
(***************************************************************************)
(* The providers of crates/pi-llm/src/lib.rs: the events they make of a    *)
(* prompt.  OpenAIProvider reads the whole response before it yields its   *)
(* first event, so the events are a function of the response; MockProvider *)
(* makes them up.  A text is the number of the chunk it came in.           *)
(***************************************************************************)
EXTENDS Naturals, Sequences

Done == [event |-> "done", text |-> 0]
Failed == [event |-> "error", text |-> 0]
ToolCall == [event |-> "call", text |-> 0]
TextDelta(n) == [event |-> "text", text |-> n]

\* What an SSE line may hold.
Chunk == {"text", "empty", "call", "call_no_args", "text_call", "done", "garbled", "comment"}

\* The response: how it came, whether its content could be found, and its lines.
Reply == [via : {"refused", "status", "interrupted"}, content : {"none"}, chunks : {<<>>}]
   \cup [via : {"single"}, content : {"text", "none", "garbled"}, chunks : {<<>>}]
   \cup [via : {"stream"}, content : {"none"}, chunks : UNION {[1..n -> Chunk] : n \in 0..3}]

----------------------------------------------------------------------------
\* The events of the n-th line of a stream.  A tool call without arguments is an error
\* of its own, and nothing ends the reading.
ChunkEvents(chunk, n) ==
  CASE chunk = "text" -> <<TextDelta(n)>>
    [] chunk = "call" -> <<ToolCall>>
    [] chunk = "text_call" -> <<TextDelta(n), ToolCall>>
    [] chunk = "done" -> <<Done>>
    [] chunk \in {"garbled", "call_no_args"} -> <<Failed>>
    [] chunk \in {"empty", "comment"} -> <<>>

StreamEvents(chunks) ==
  LET events[n \in 0..Len(chunks)] ==
        IF n = 0 THEN <<>> ELSE events[n - 1] \o ChunkEvents(chunks[n], n)
  IN events[Len(chunks)]

\* A body that cannot be read to its end is taken for an empty one.
BodyEvents(reply) ==
  CASE reply.via = "refused" -> <<Failed>>
    [] reply.via = "interrupted" -> <<>>
    [] reply.via = "stream" -> StreamEvents(reply.chunks)
    [] reply.via = "single" -> CASE reply.content = "text" -> <<TextDelta(1)>>
                                 [] reply.content = "garbled" -> <<Failed>>
                                 [] reply.content = "none" -> <<>>

Has(events, kind) == \E i \in 1..Len(events) : events[i].event = kind

\* OpenAIProvider::stream.  A Done is added unless there is one, and not after a status
\* that is not a success.
OpenAIStream(reply) ==
  LET events == BodyEvents(reply)
  IN CASE reply.via = "status" -> <<Failed>>
       [] reply.via # "status" /\ Has(events, "done") -> events
       [] OTHER -> Append(events, Done)

\* MockProvider::stream, for a prompt that names a search, the model "silent", and
\* any other.
MockStream(kind) ==
  CASE kind = "search" -> <<TextDelta(1), ToolCall, Done>>
    [] kind = "silent" -> <<Done>>
    [] kind = "other" -> <<TextDelta(1), Done>>

----------------------------------------------------------------------------
(* Properties *)

\* The texts of those of the first n members of s that are chosen, in order.
Texts(s, chosen, n) ==
  LET texts[m \in 0..n] ==
        IF m = 0 THEN <<>>
        ELSE IF m \in chosen THEN Append(texts[m - 1], s[m].text) ELSE texts[m - 1]
  IN texts[n]

\* The texts of a response that reaches the program: those of its lines before the
\* first that says it is done.
TextsOf(reply) ==
  CASE reply.via = "stream" ->
         Texts([n \in 1..Len(reply.chunks) |-> TextDelta(n)],
               {n \in 1..Len(reply.chunks) :
                  /\ reply.chunks[n] \in {"text", "text_call"}
                  /\ \A m \in 1..n : reply.chunks[m] # "done"},
               Len(reply.chunks))
    [] reply.via = "single" /\ reply.content = "text" -> <<1>>
    [] OTHER -> <<>>
=============================================================================
