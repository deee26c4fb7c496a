------------------------------- MODULE RpcLoop -------------------------------
(***************************************************************************)
(* run_rpc of crates/pi-core/src/rpc.rs: the loop that reads requests from *)
(* stdin, one JSON line each, and awaits Agent::handle_request for one     *)
(* before it reads the next.  The loop is the agent's only caller; the     *)
(* client writes lines whenever it likes, and they wait in the pipe.       *)
(***************************************************************************)
EXTENDS Agent

CONSTANTS Loop,      \* the caller that is the loop
          MaxLines   \* bound: lines the client writes

ASSUME LoopIsTheCaller == Callers = {Loop} /\ Prompters = {Loop}
ASSUME MaxLinesNat == MaxLines \in Nat

\* steer and follow_up are handled like prompt.
CommandKind == {"new_session", "compact", "fork", "checkout", "select"}
LineKind == {"prompt", "abort", "get_state", "invalid"} \cup CommandKind

VARIABLES
  input,     \* the kinds of the lines written and not yet read
  answered,  \* the number of lines answered
  serving    \* whether handle_request is running for a line

loopVars == <<input, answered, serving>>
rpcVars == <<vars, loopVars>>

RpcInit == Init /\ input = <<>> /\ answered = 0 /\ serving = FALSE

\* Lines written, read or not.
Written == Len(input) + answered + IF serving THEN 1 ELSE 0

\* The bounds leave room for the agent to carry out every line of the pipe.
Waiting(kinds) == Cardinality({i \in 1..Len(input) : input[i] \in kinds})
Room == /\ Written < MaxLines
        /\ counts'.turns + Waiting({"prompt"})' <= MaxTurns
        /\ counts'.aborts + Waiting({"abort"})' <= MaxAborts
        /\ counts'.commands + Waiting(CommandKind)' <= MaxCommands

WriteLine(kind) == /\ input' = Append(input, kind)
                   /\ UNCHANGED <<vars, answered, serving>>
                   /\ Room

Answer == answered' = answered + 1

Read(kind) == /\ ~serving
              /\ input # <<>>
              /\ Head(input) = kind
              /\ input' = Tail(input)

\* A call that returns Err at once is answered by an agent_error.
Starts(call) == /\ call
                /\ serving' = (pc'[Loop] # "idle")
                /\ IF serving' THEN UNCHANGED answered ELSE Answer

ReadPrompt == Read("prompt") /\ Starts(Prompt(Loop))
ReadAbort == Read("abort") /\ Starts(Abort(Loop))

ReadGetState == /\ Read("get_state")
                /\ Answer
                /\ UNCHANGED <<vars, serving>>

ReadCommand ==
  \/ Read("new_session") /\ Starts(NewSession(Loop))
  \/ Read("compact") /\ Starts(CompactSession(Loop))
  \/ Read("fork") /\ \E id \in IdsOf(log) : Starts(ForkSession(Loop, id))
  \/ Read("checkout") /\ \E id \in IdsOf(log) \cup {NoId} : Starts(CheckoutBranchHead(Loop, id))
  \/ Read("select") /\ \E p \in Paths : Starts(SelectSessionPath(Loop, p))

\* A line that is too long or does not parse changes nothing, nor does a fork or checkout
\* of an id the session does not hold (or a checkout of the head of an empty one), a
\* compaction that cannot write its temporary file, or a selection of a path outside the
\* workspace or of a file that cannot be loaded.
Reject == /\ \E kind \in {"invalid", "fork", "checkout", "compact", "select"} : Read(kind)
          /\ Answer
          /\ UNCHANGED <<vars, serving>>

Serve == /\ serving
         /\ Step(Loop)
         /\ serving' = (pc'[Loop] # "idle")
         /\ IF serving' THEN UNCHANGED answered ELSE Answer
         /\ UNCHANGED input

RpcNext == \/ \E kind \in LineKind : WriteLine(kind)
           \/ ReadPrompt \/ ReadAbort \/ ReadGetState \/ ReadCommand \/ Reject
           \/ Serve

RpcSpec == RpcInit /\ [][RpcNext]_rpcVars

\* The loop goes on reading and the provider ends its streams.
RpcFairSpec == /\ RpcSpec
               /\ WF_rpcVars(ReadPrompt \/ ReadAbort \/ ReadGetState \/ ReadCommand \/ Reject)
               /\ WF_rpcVars(Serve)
               /\ SF_rpcVars(Serve /\ StreamEnds(Loop))

----------------------------------------------------------------------------
(* Properties *)

\* Every line the client writes is answered, in its turn, whatever the lines
\* before it were.
EveryLineAnswered ==
  \A n \in 1..MaxLines : Written >= n ~> answered >= n
=============================================================================
