-------------------------------- MODULE RpcWire --------------------------------
(***************************************************************************)
(* What goes over the wire of run_rpc in crates/pi-core/src/rpc.rs: the    *)
(* lines a client writes, parsed as in Protocol, and the events it reads   *)
(* for them, those of a turn made by handle_turn of agent.rs out of what a *)
(* provider yields, as in Provider.  RpcLoop has the states of the agent;  *)
(* here they are left out, and every error it can return may come at any   *)
(* time.  The client may close either pipe.                                *)
(***************************************************************************)
EXTENDS Protocol, Provider, FiniteSets

CONSTANTS Line,      \* the lines the client may write
          Replies,   \* the streams of events a provider may yield, each with its text
          MaxLines   \* bound: lines written

ASSUME MaxLinesNat == MaxLines \in Nat
ASSUME LinesAreLines ==
  \A line \in Line : line.size \in {"garbled", "blank", "long", "fits"}
ASSUME RepliesHaveTexts ==
  \A reply \in Replies : reply.stream \in Seq([event : STRING, text : Nat])

VARIABLES
  sent,     \* the lines written
  taken,    \* how many of them have been read
  input,    \* whether the client may write more
  pc,       \* "read", "stream", "close", or "ended"
  stream,   \* provider events that the turn has not taken
  events,   \* the events of the turn
  wanted,   \* history: the texts the provider has for the turn
  aborts,   \* messages in the abort channel
  output,   \* the events written, with the number of the line they are for
  open      \* whether the client reads

client == <<sent, input>>
turn == <<stream, events, wanted>>
vars == <<client, taken, pc, turn, aborts, output, open>>

Current == sent[taken]

\* An event of the line that is served, with its request_id, and its text.
Event(kind, id, text) ==
  [kind |-> kind, id |-> id, text |-> text, line |-> taken, wanted |-> wanted]

\* The only event of the line that is being read.
Single(kind, id) == [kind |-> kind, id |-> id, text |-> 0, line |-> taken', wanted |-> <<>>]

Init == /\ sent = <<>> /\ taken = 0 /\ input = TRUE
        /\ pc = "read" /\ aborts = 0
        /\ stream = <<>> /\ events = <<>> /\ wanted = <<>>
        /\ output = <<>> /\ open = TRUE

----------------------------------------------------------------------------
(* The client *)

WriteLine(line) == /\ input
                   /\ Len(sent) < MaxLines
                   /\ sent' = Append(sent, line)
                   /\ UNCHANGED <<input, taken, pc, turn, aborts, output, open>>

CloseInput == /\ input
              /\ input' = FALSE
              /\ UNCHANGED <<sent, taken, pc, turn, aborts, output, open>>

----------------------------------------------------------------------------
(* Writing *)

\* The first events reach a client that reads, all of them unless it stops.
Write(new) ==
  IF open THEN \E n \in 0..Len(new) :
                 /\ output' = output \o SubSeq(new, 1, n)
                 /\ open' = (n = Len(new))
  ELSE UNCHANGED <<output, open>>

\* An error event that cannot be written ends the loop; other events do not.
Refuse(kind) ==
  /\ Write(<<Single(kind, NoId)>>)
  /\ pc' = IF output' = output THEN "ended" ELSE "read"
  /\ UNCHANGED turn

\* The events of a line, all at once at the end of handle_request.
Answer(new) == Write(new) /\ pc' = "read"

----------------------------------------------------------------------------
(* run_rpc *)

Read(line) == /\ pc = "read"
              /\ taken < Len(sent)
              /\ line = sent[taken + 1]
              /\ taken' = taken + 1
              /\ UNCHANGED client

EndOfInput == /\ pc = "read"
              /\ ~input /\ taken = Len(sent)
              /\ pc' = "ended"
              /\ UNCHANGED <<client, taken, turn, aborts, output, open>>

\* A line that is not UTF-8 is an error of next_line, and ends the loop.
ReadFails(line) == /\ Read(line)
                   /\ line.size = "garbled"
                   /\ pc' = "ended"
                   /\ UNCHANGED <<turn, aborts, output, open>>

Skip(line) == /\ Read(line)
              /\ line.size = "blank"
              /\ UNCHANGED <<pc, turn, aborts, output, open>>

\* A line that is no request; one that is too long is not parsed.
NoRequest(line) ==
  \/ line.size = "long"
  \/ line.size = "fits" /\ ParseClientRequest(line) # "accepted"

\* Mutation: a line that is too long is dropped.
RefuseLine_Silently(line) ==
  /\ Read(line)
  /\ NoRequest(line)
  /\ IF line.size = "long" THEN UNCHANGED <<pc, turn, output, open>> ELSE Refuse("error")
  /\ UNCHANGED aborts

\* line_too_long and invalid_request.
RefuseLine(line) ==
  /\ Read(line)
  /\ NoRequest(line)
  /\ Refuse("error")
  /\ UNCHANGED aborts

Request(line) == /\ Read(line)
                 /\ line.size = "fits" /\ ParseClientRequest(line) = "accepted"

\* Only abort, get_state and compact give the id back; whatever goes wrong comes back
\* without it, and an abort and a look at the state cannot go wrong.
AnswerState(line) ==
  /\ Request(line)
  /\ line.type \in StateType \cup CommandType
  /\ aborts' = IF line.type = "abort" THEN aborts + 1 ELSE aborts
  /\ \/ Answer(<<Single("state", IF line.type \in StateType THEN IdOf(line) ELSE NoId)>>)
     \/ /\ line.type \notin {"abort", "get_state"}
        /\ Answer(<<Single("error", NoId)>>)
  /\ UNCHANGED turn

----------------------------------------------------------------------------
(* handle_turn *)

NoTurn == stream' = <<>> /\ events' = <<>> /\ wanted' = <<>>

\* A turn that returns Err is answered by this alone: its events are dropped.
TurnFails == /\ Answer(<<Single("error", NoId)>>)
             /\ NoTurn

BeginTurn(line) ==
  /\ Request(line)
  /\ line.type \in TurnType
  /\ \/ TurnFails
     \/ \E reply \in Replies :
          /\ pc' = "stream"
          /\ stream' = reply.stream
          /\ wanted' = reply.texts
          /\ events' = <<[kind |-> "turn_start", id |-> IdOf(line), text |-> 0,
                          line |-> taken', wanted |-> reply.texts]>>
          /\ UNCHANGED <<output, open>>
  /\ UNCHANGED aborts

\* The events of the turn with these after them.
Collect(kinds, text) ==
  events' = events \o [i \in 1..Len(kinds) |-> Event(kinds[i], IdOf(Current), text)]

\* is_aborting, after an event that does not end the stream: what is collected ends
\* with a note if there was a message.
GoOn(kinds, text) ==
  IF aborts > 0
  THEN /\ Collect(Append(kinds, "aborted"), text)
       /\ aborts' = aborts - 1
       /\ pc' = "close"
  ELSE Collect(kinds, text) /\ pc' = "stream" /\ UNCHANGED aborts

InStream(kind) == /\ pc = "stream"
                  /\ stream # <<>> /\ Head(stream).event = kind
                  /\ stream' = Tail(stream)
                  /\ UNCHANGED <<client, taken, wanted, output, open>>

TakeText == InStream("text") /\ GoOn(<<"delta">>, Head(stream).text)

TakeCall == /\ InStream("call")
            /\ \E outcome \in {"tool_result", "tool_error"} :
                 GoOn(<<"tool_started", outcome>>, 0)

\* Every provider's stream has a Done or an error in it, and none is read to its end
\* before it.
TakeDone == /\ InStream("done")
            /\ pc' = "close"
            /\ UNCHANGED <<events, aborts>>

\* Mutation: an error of the provider ends the turn without a word.
TakeError_Quietly == /\ InStream("error")
                     /\ pc' = "close"
                     /\ UNCHANGED <<events, aborts>>

TakeError == /\ InStream("error")
             /\ Collect(<<"provider_error">>, 0)
             /\ pc' = "close"
             /\ UNCHANGED aborts

\* What was collected, with the two events at its end, is written.
CloseTurn ==
  /\ pc = "close"
  /\ UNCHANGED <<client, taken>>
  /\ \/ TurnFails
     \/ /\ Answer(events \o <<Event("last_delta", IdOf(Current), 0),
                              Event("turn_end", IdOf(Current), 0)>>)
        /\ NoTurn
  /\ UNCHANGED aborts

----------------------------------------------------------------------------
Next == \/ \E line \in Line : WriteLine(line)
        \/ CloseInput
        \/ \E line \in Line : \/ ReadFails(line) \/ Skip(line) \/ RefuseLine(line)
                              \/ AnswerState(line) \/ BeginTurn(line)
        \/ EndOfInput
        \/ TakeText \/ TakeCall \/ TakeDone \/ TakeError
        \/ CloseTurn

Spec == Init /\ [][Next]_vars

----------------------------------------------------------------------------
(* Properties *)

Final(event) == event.kind \in {"state", "error", "turn_end"}

\* The n-th line that is not blank.
LineNumber(n) == CHOOSE k \in 1..Len(sent) :
  /\ sent[k].size # "blank"
  /\ Cardinality({j \in 1..k : sent[j].size # "blank"}) = n

\* A client can tell which line an event is for by counting, although errors and the
\* answers to session commands bear no id: each line that is not blank is answered by
\* events of which the last one only is a state, an error that is not the provider's,
\* or the end of a turn; and an id, if there is one, is the one the line gave.
AnswersInOrder ==
  \A i \in 1..Len(output) :
    LET line == LineNumber(1 + Cardinality({j \in 1..i - 1 : Final(output[j])}))
    IN /\ output[i].line = line
       /\ output[i].id \in {NoId, ValueToString(sent[line].id)}

\* A turn that is not reported to have gone wrong, by the provider or by an abort,
\* shows every text that came before the provider said it was done: one
\* garbled chunk cuts off the rest, but not without an error event.
TextsAreWhole ==
  \A i \in 1..Len(output) : output[i].kind = "turn_end" =>
    LET mine == {j \in 1..Len(output) : output[j].line = output[i].line}
    IN \/ \E j \in mine : output[j].kind \in {"provider_error", "aborted"}
       \/ Texts(output, {j \in mine : output[j].kind = "delta"}, Len(output)) =
            output[i].wanted
=============================================================================
