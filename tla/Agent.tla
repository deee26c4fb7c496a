-------------------------------- MODULE Agent --------------------------------
(***************************************************************************)
(* The agent of crates/pi-core/src/agent.rs: turns that consume a          *)
(* provider's event stream, the abort channel, and the session commands.   *)
(* An Agent is shared behind an Arc and every method takes &self, so any   *)
(* number of callers may be inside handle_request at once; RpcLoop.tla     *)
(* composes it with the one caller the rpc loop is.                        *)
(*                                                                         *)
(* The session is the log and the head that SessionStore.tla shows the     *)
(* store to keep, and the entries of its file, which is read again when a  *)
(* session path is selected.  Each use of the store is one action, because *)
(* its lock is held throughout; a compaction is two, because selecting a   *)
(* path reads files without that lock.  A file that cannot be loaded is    *)
(* not told from one that can: a selection may fail, or find what the file *)
(* would hold.  Uuids are numbered in the order they are drawn.  Text      *)
(* deltas only matter in that they leave something to store.               *)
(***************************************************************************)
EXTENDS Naturals, Sequences, FiniteSets

CONSTANTS Callers,      \* the tasks that call handle_request
          NoOne,        \* not a caller: the holder of a free lock
          Prompters,    \* those of them that send prompts
          AbortCap,     \* capacity of the abort channel (16 in the code)
          Paths,        \* the session files
          FirstPath,    \* the one the program is started with
          StoreErrors,  \* whether the operations of SessionStore may return Err
          MaxTurns,     \* bound: turns started
          MaxSteps,     \* bound: tool calls and usage reports in a turn
          MaxAborts,    \* bound: abort requests
          MaxCommands   \* bound: session commands

ASSUME CallersNamed == NoOne \notin Callers /\ Prompters \subseteq Callers
ASSUME AbortCapPositive == AbortCap \in Nat \ {0}
ASSUME FirstPathKnown == FirstPath \in Paths
ASSUME StoreErrorsBoolean == StoreErrors \in BOOLEAN
ASSUME BoundsNat == /\ MaxTurns \in Nat /\ MaxSteps \in Nat
                    /\ MaxAborts \in Nat /\ MaxCommands \in Nat

NoId == 0
Kind == {"user", "tool", "usage", "assistant", "fork", "checkout", "select"}
\* turn is the turn that wrote the entry, 0 for a session command; total is the
\* session total of a usage entry; anchor is the from_turn_id of a checkout.
Entry == [id : Nat, parent : Nat, kind : Kind, turn : Nat, total : Nat, anchor : Nat]

TurnPc == {"usage", "start", "stream", "check", "assistant", "finish"}
AbortPc == {"abort", "abort_send"}
SessionPc == {"compact", "select_append", "select_swap"}
Pc == {"idle"} \cup TurnPc \cup AbortPc \cup SessionPc

VARIABLES
  pc,         \* what each caller is about to do
  turn,       \* the local variables of each caller's handle_turn
  state,      \* Agent.state
  stateLock,  \* the caller that holds the lock of Agent.state, or NoOne
  aborts,     \* messages in the abort channel
  log, head,  \* the session: its entries and its head
  path,       \* the file of the session
  files,      \* the entries on the lines of each file
  opening,    \* the new_store of each caller's select_session_path
  issued,     \* Uuids drawn so far
  counts      \* turns, abort requests and commands so far, for the bounds

session == <<log, head, path, files, opening, issued>>
control == <<state, stateLock, aborts>>
vars == <<pc, turn, control, session, counts>>

NoTurn == [no |-> 0, text |-> FALSE, steps |-> 0, total |-> 0,
           late |-> 0]

NoStore == [path |-> FirstPath, log |-> <<>>]

Streaming(c) == pc[c] \in {"stream", "check"}
Goto(c, p) == pc' = [pc EXCEPT ![c] = p]

----------------------------------------------------------------------------
(* The session *)

IdsOf(s) == {s[i].id : i \in 1..Len(s)}
LastId(s) == IF s = <<>> THEN NoId ELSE s[Len(s)].id

\* The lock of the store is free: every use but a compaction is over in one action.
StoreFree == \A c \in Callers : pc[c] # "compact"

\* The newest entry of the memory is written to the file.
InFile == files' = [files EXCEPT ![path] = Append(@, log'[Len(log')])]

\* SessionStore::append under a given head: the memory keeps the entry even if the
\* file does not.
AppendUnder(parent, kind, t, total, anchor) ==
  /\ StoreFree
  /\ log' = Append(log, [id |-> issued + 1, parent |-> parent, kind |-> kind,
                         turn |-> t, total |-> total, anchor |-> anchor])
  /\ head' = issued + 1
  /\ issued' = issued + 1
  /\ InFile \/ (StoreErrors /\ UNCHANGED files)
  /\ UNCHANGED <<path, opening>>

\* Mutation: a usage report does not move the head.
AppendTurn_UsageAside(kind, t, total) ==
  /\ StoreFree
  /\ log' = Append(log, [id |-> issued + 1, parent |-> head, kind |-> kind,
                         turn |-> t, total |-> total, anchor |-> NoId])
  /\ head' = IF kind = "usage" THEN head ELSE issued + 1
  /\ issued' = issued + 1
  /\ InFile \/ (StoreErrors /\ UNCHANGED files)
  /\ UNCHANGED <<path, opening>>

AppendTurn(kind, t, total) == AppendUnder(head, kind, t, total, NoId)

\* The entries below root that the work list of resolve_branch_head visits.
Reachable(s, root) ==
  LET Below(S) == {s[i].id : i \in {j \in 1..Len(s) : s[j].parent \in S}}
      visited[n \in 0..Len(s)] ==
        IF n = 0 THEN {root} ELSE LET S == visited[n - 1] IN S \cup Below(S)
  IN visited[Len(s)]

\* Mutation: the anchor itself is taken for the head of its branch.
ResolveBranchHead_Anchor(s, root) == root

\* The newest entry of the log that is reachable from root.
ResolveBranchHead(s, root) ==
  LET reachable == Reachable(s, root)
      places == {i \in 1..Len(s) : s[i].id \in reachable}
  IN s[CHOOSE i \in places : \A j \in places : j <= i].id

\* The session total of the last usage entry in the log, whatever its branch.
SessionUsage(s) ==
  LET usages == {i \in 1..Len(s) : s[i].kind = "usage"}
  IN IF usages = {} THEN 0
     ELSE s[CHOOSE i \in usages : \A j \in usages : j <= i].total

----------------------------------------------------------------------------
Init == /\ pc = [c \in Callers |-> "idle"]
        /\ turn = [c \in Callers |-> NoTurn]
        /\ state = "Idle" /\ stateLock = NoOne /\ aborts = 0
        /\ log = <<>> /\ head = NoId /\ issued = 0
        /\ path = FirstPath /\ files = [p \in Paths |-> <<>>]
        /\ opening = [c \in Callers |-> NoStore]
        /\ counts = [turns |-> 0, aborts |-> 0, commands |-> 0]

----------------------------------------------------------------------------
(* A turn: handle_turn, for prompt, steer and follow_up alike *)

\* handle_turn returns, and its local variables are gone.
Return(c) == Goto(c, "idle") /\ turn' = [turn EXCEPT ![c] = NoTurn]

\* A step that appended an entry goes on with the local variables t if the entry is in
\* the file; if the append returned Err, whatever is in the file, the turn returns Err.
StoredThen(c, p, t) == \/ InFile /\ Goto(c, p) /\ turn' = [turn EXCEPT ![c] = t]
                       \/ StoreErrors /\ Return(c)

Prompt(c) ==
  /\ pc[c] = "idle" /\ c \in Prompters
  /\ counts.turns < MaxTurns
  /\ counts' = [counts EXCEPT !.turns = @ + 1]
  /\ AppendTurn("user", counts'.turns, 0)
  /\ StoredThen(c, "usage", [NoTurn EXCEPT !.no = counts'.turns])
  /\ UNCHANGED control

\* Mutation: the totals of the session are not looked up.
ReadUsage_FromZero(c) == /\ pc[c] = "usage"
                         /\ StoreFree
                         /\ Goto(c, "start")
                         /\ UNCHANGED <<turn, control, session, counts>>

ReadUsage(c) == /\ pc[c] = "usage"
                /\ StoreFree
                /\ turn' = [turn EXCEPT ![c].total = SessionUsage(log)]
                /\ Goto(c, "start")
                /\ UNCHANGED <<control, session, counts>>

SetRunning(c) == /\ pc[c] = "start"
                 /\ stateLock = NoOne
                 /\ state' = "Running"
                 /\ Goto(c, "stream")
                 /\ UNCHANGED <<turn, stateLock, aborts, session, counts>>

\* The local variables t after one more provider event; late counts the events
\* handled while a message waits in the abort channel.
After(t) == [t EXCEPT !.late = IF aborts > 0 THEN @ + 1 ELSE @]

\* Mutation: the abort channel is only looked at after a tool call.
Delta_NoCheck(c) == /\ pc[c] = "stream"
                    /\ turn' = [turn EXCEPT ![c] = After([@ EXCEPT !.text = TRUE])]
                    /\ UNCHANGED <<pc, control, session, counts>>

Delta(c) == /\ pc[c] = "stream"
            /\ turn' = [turn EXCEPT ![c] = After([@ EXCEPT !.text = TRUE])]
            /\ Goto(c, "check")
            /\ UNCHANGED <<control, session, counts>>

\* The call is announced and executed; its result is stored if the tool ran.
\* An Err, from the tool or from the store, is reported and the turn goes on.
CallTool(c) ==
  /\ pc[c] = "stream"
  /\ turn[c].steps < MaxSteps
  /\ turn' = [turn EXCEPT ![c] = After([turn[c] EXCEPT !.steps = @ + 1])]
  /\ AppendTurn("tool", turn[c].no, 0) \/ UNCHANGED session
  /\ Goto(c, "check")
  /\ UNCHANGED <<control, counts>>

\* A report of one unit, added to the session total read at the start.
ReportUsage(c) ==
  /\ pc[c] = "stream"
  /\ turn[c].steps < MaxSteps
  /\ LET t == [turn[c] EXCEPT !.steps = @ + 1, !.total = @ + 1]
     IN /\ AppendTurn("usage", t.no, t.total)
        /\ StoredThen(c, "check", After(t))
  /\ UNCHANGED <<control, counts>>

\* Done leaves a mark in the text; an error and the end of the stream do not.
StreamEnds(c) ==
  /\ pc[c] = "stream"
  /\ \E text \in {TRUE, turn[c].text} :
       turn' = [turn EXCEPT ![c].text = text, ![c].late = 0]
  /\ Goto(c, "assistant")
  /\ UNCHANGED <<control, session, counts>>

\* Mutation: a message is taken out without a look whether there is one.
CheckAbort_Blind(c) ==
  /\ pc[c] = "check"
  /\ aborts' = aborts - 1
  /\ turn' = [turn EXCEPT ![c].late = 0]
  /\ Goto(c, "assistant")
  /\ UNCHANGED <<state, stateLock, session, counts>>

\* Mutation: the message is taken out and the stream goes on.
CheckAbort_GoesOn(c) ==
  /\ pc[c] = "check"
  /\ aborts' = IF aborts > 0 THEN aborts - 1 ELSE 0
  /\ Goto(c, "stream")
  /\ UNCHANGED <<turn, state, stateLock, session, counts>>

\* is_aborting takes one message out of the channel.
CheckAbort(c) ==
  /\ pc[c] = "check"
  /\ IF aborts > 0
     THEN /\ aborts' = aborts - 1
          /\ turn' = [turn EXCEPT ![c].late = 0]
          /\ Goto(c, "assistant")
     ELSE Goto(c, "stream") /\ UNCHANGED <<aborts, turn>>
  /\ UNCHANGED <<state, stateLock, session, counts>>

StoreAssistant(c) ==
  /\ pc[c] = "assistant"
  /\ IF turn[c].text
     THEN /\ AppendTurn("assistant", turn[c].no, 0)
          /\ StoredThen(c, "finish", turn[c])
     ELSE Goto(c, "finish") /\ UNCHANGED <<turn, session>>
  /\ UNCHANGED <<control, counts>>

SetIdle(c) == /\ pc[c] = "finish"
              /\ stateLock = NoOne
              /\ state' = "Idle"
              /\ Return(c)
              /\ UNCHANGED <<stateLock, aborts, session, counts>>

----------------------------------------------------------------------------
(* Aborting: request_abort sends into the channel with the state locked *)

Abort(c) ==
  /\ pc[c] = "idle"
  /\ counts.aborts < MaxAborts
  /\ counts' = [counts EXCEPT !.aborts = @ + 1]
  /\ Goto(c, "abort")
  /\ UNCHANGED <<turn, control, session>>

SetAborting(c) == /\ pc[c] = "abort"
                  /\ stateLock = NoOne
                  /\ stateLock' = c
                  /\ state' = "Aborting"
                  /\ Goto(c, "abort_send")
                  /\ UNCHANGED <<turn, aborts, session, counts>>

\* Mutation: the lock is kept.
SendAbort_KeepsLock(c) == /\ pc[c] = "abort_send"
                          /\ aborts < AbortCap
                          /\ aborts' = aborts + 1
                          /\ Goto(c, "idle")
                          /\ UNCHANGED <<turn, state, stateLock, session, counts>>

SendAbort(c) == /\ pc[c] = "abort_send"
                /\ aborts < AbortCap
                /\ aborts' = aborts + 1
                /\ stateLock' = NoOne
                /\ Goto(c, "idle")
                /\ UNCHANGED <<turn, state, session, counts>>

----------------------------------------------------------------------------
(* Session commands: each holds the store's lock from start to end, but     *)
(* select_session_path                                                      *)

Command(c) == /\ pc[c] = "idle"
              /\ counts.commands < MaxCommands
              /\ counts' = [counts EXCEPT !.commands = @ + 1]
              /\ UNCHANGED <<turn, control>>

\* The memory is cleared, even if the file cannot be.
NewSession(c) == /\ Command(c)
                 /\ StoreFree
                 /\ log' = <<>> /\ head' = NoId
                 /\ \/ files' = [files EXCEPT ![path] = <<>>]
                    \/ StoreErrors /\ UNCHANGED files
                 /\ UNCHANGED <<pc, path, opening, issued>>

\* branch_from, then a checkout of the entry it appended.
ForkSession(c, from) == /\ Command(c)
                        /\ from \in IdsOf(log)
                        /\ AppendUnder(from, "fork", 0, 0, NoId)
                        /\ UNCHANGED pc

\* Mutation: the head moves and nothing is appended.
CheckoutBranchHead_NoEntry(c, anchor) ==
  /\ Command(c)
  /\ log # <<>>
  /\ StoreFree
  /\ head' = IF anchor = NoId THEN head ELSE ResolveBranchHead(log, anchor)
  /\ UNCHANGED <<pc, log, path, files, opening, issued>>

\* Mutation: the entry is appended at the old head.
CheckoutBranchHead_NoMove(c, anchor) ==
  /\ Command(c)
  /\ log # <<>>
  /\ AppendUnder(head, "checkout", 0, 0, anchor)
  /\ UNCHANGED pc

\* The entry recorded goes under the head checked out.
CheckoutBranchHead(c, anchor) ==
  /\ Command(c)
  /\ log # <<>>
  /\ LET target == IF anchor = NoId THEN head ELSE ResolveBranchHead(log, anchor)
     IN AppendUnder(target, "checkout", 0, 0, anchor)
  /\ UNCHANGED pc

\* compact(None): the file is removed, and the temporary one with the log takes its place.
CompactSession(c) == /\ Command(c)
                     /\ StoreFree
                     /\ files' = [files EXCEPT ![path] = <<>>]
                     /\ Goto(c, "compact")
                     /\ UNCHANGED <<log, head, path, opening, issued>>

RenameCompacted(c) == /\ pc[c] = "compact"
                      /\ \/ files' = [files EXCEPT ![path] = log]
                         \/ StoreErrors /\ UNCHANGED files
                      /\ Goto(c, "idle")
                      /\ UNCHANGED <<turn, control, log, head, path, opening, issued, counts>>

\* The file is loaded into a store of its own,
SelectSessionPath(c, p) == /\ Command(c)
                           /\ opening' = [opening EXCEPT ![c] = [path |-> p, log |-> files[p]]]
                           /\ Goto(c, "select_append")
                           /\ UNCHANGED <<log, head, path, files, issued>>

\* which records the selection, in its memory and in the file,
AppendSelection(c) ==
  LET s == opening[c]
      e == [id |-> issued + 1, parent |-> LastId(s.log), kind |-> "select",
            turn |-> 0, total |-> 0, anchor |-> NoId]
      recorded == [files EXCEPT ![s.path] = Append(@, e)]
  IN /\ pc[c] = "select_append"
     /\ issued' = issued + 1
     /\ \/ /\ files' = recorded
           /\ opening' = [opening EXCEPT ![c].log = Append(@, e)]
           /\ Goto(c, "select_swap")
        \/ /\ StoreErrors
           /\ files' \in {files, recorded}
           /\ opening' = [opening EXCEPT ![c] = NoStore]
           /\ Goto(c, "idle")
     /\ UNCHANGED <<turn, control, log, head, path, counts>>

\* and takes the place of the store in use.
SwapStores(c) == /\ pc[c] = "select_swap"
                 /\ StoreFree
                 /\ log' = opening[c].log /\ head' = LastId(log')
                 /\ path' = opening[c].path
                 /\ opening' = [opening EXCEPT ![c] = NoStore]
                 /\ Goto(c, "idle")
                 /\ UNCHANGED <<turn, control, files, issued, counts>>

----------------------------------------------------------------------------
\* The events of a provider's stream, and what a caller inside handle_request does
\* without it.
ProviderEvent(c) == Delta(c) \/ CallTool(c) \/ ReportUsage(c) \/ StreamEnds(c)
OwnStep(c) == \/ ReadUsage(c) \/ SetRunning(c)
              \/ CheckAbort(c) \/ StoreAssistant(c) \/ SetIdle(c)
              \/ SetAborting(c) \/ SendAbort(c)
              \/ RenameCompacted(c) \/ AppendSelection(c) \/ SwapStores(c)
Step(c) == ProviderEvent(c) \/ OwnStep(c)

Next == \E c \in Callers :
          \/ Prompt(c) \/ Abort(c)
          \/ Step(c)
          \/ NewSession(c) \/ CompactSession(c)
          \/ \E id \in IdsOf(log) : ForkSession(c, id)
          \/ \E id \in IdsOf(log) \cup {NoId} : CheckoutBranchHead(c, id)
          \/ \E p \in Paths : SelectSessionPath(c, p)

Spec == Init /\ [][Next]_vars

\* The runtime polls a task that can move, and a lock goes to a waiter.  Nothing makes the
\* provider send another event: the HTTP client has no timeout.
FairSpec == Spec /\ \A c \in Callers : WF_vars(OwnStep(c))

----------------------------------------------------------------------------
(* Properties *)

\* The type of every variable.
TypeOK ==
  /\ pc \in [Callers -> Pc]
  /\ turn \in [Callers -> [no : Nat, text : BOOLEAN, steps : Nat, total : Nat,
                           late : Nat]]
  /\ state \in {"Idle", "Running", "Aborting"}
  /\ stateLock \in Callers \cup {NoOne}
  /\ aborts \in 0..AbortCap
  /\ log \in Seq(Entry) /\ head \in Nat /\ issued \in Nat
  /\ path \in Paths /\ files \in [Paths -> Seq(Entry)]
  /\ opening \in [Callers -> [path : Paths, log : Seq(Entry)]]
  /\ counts \in [turns : 0..MaxTurns, aborts : 0..MaxAborts, commands : 0..MaxCommands]

\* The head is the newest entry of the log whatever was forked, checked out, compacted,
\* selected or reset, and by however many callers: SessionStore::rebuild_index puts the
\* head there, so a restart goes on at the branch the conversation was on.
HeadIsNewest == head = LastId(log)

\* The place of the newest selection in a log: what comes before it was loaded from a file,
\* which may lack entries whose append failed.
Opened(s) ==
  LET places == {0} \cup {i \in 1..Len(s) : s[i].kind = "select"}
  IN CHOOSE i \in places : \A j \in places : j <= i

PositionOf(s, id) == CHOOSE i \in 1..Len(s) : s[i].id = id

\* The ids on the path from an entry of the log to its root.
PathOf(s, id) ==
  LET known == IdsOf(s)
      up[i \in 1..Len(s)] ==
        {s[i].id} \cup (IF s[i].parent \in known
                        THEN up[PositionOf(s, s[i].parent)] ELSE {})
  IN up[PositionOf(s, id)]

\* A checkout of an anchor goes on from a descendant of the anchor, and from the newest
\* one there was: walking up the parents instead of down the children as
\* resolve_branch_head does gives the same branch, also in a session that was loaded from
\* a file which lacks some parents.
CheckoutStaysOnBranch ==
  \A i \in Opened(log) + 1..Len(log) : log[i].kind = "checkout" /\ log[i].anchor # NoId =>
    /\ log[i].anchor \in PathOf(log, log[i].parent)
    /\ \A j \in PositionOf(log, log[i].parent) + 1..i - 1 :
         log[i].anchor \notin PathOf(log, log[j].id)

\* The entries of a turn since the session was selected stand together in the log, as one
\* chain under its user message: handle_turn releases the store between its appends, and
\* nothing else is stored, and no other store put in its place, in the meantime.
TurnIsChain ==
  \A i \in Opened(log) + 1..Len(log) : log[i].turn # 0 /\ log[i].kind # "user" =>
    i > 1 /\ log[i].parent = log[i - 1].id /\ log[i].turn = log[i - 1].turn

\* The session total of a usage entry is the one the session was selected with (none, if it
\* was not) and one for every report in the log since.
UsageAddsUp ==
  LET opened == Opened(log)
      reports == {i \in opened + 1..Len(log) : log[i].kind = "usage"}
  IN \A i \in reports : log[i].total = SessionUsage(SubSeq(log, 1, opened))
                                       + Cardinality({j \in reports : j <= i})

\* With one turn at a time, it handles at most one provider event after an abort
\* is in the channel (of two turns, one may take the abort meant for the other).
OneEventPastAbort == \A c \in Callers : Streaming(c) => turn[c].late <= 1

\* An abort in the channel ends the turn that streams, even if the provider would stream
\* for ever, unless the provider never sends anything again (no timeout bounds the wait
\* for an event, and the channel is only looked at after one).
AbortHalts ==
  \A c \in Callers :
    aborts > 0 /\ Streaming(c) ~> ~Streaming(c) \/ [](pc[c] = "stream")

\* Every call of handle_request returns, or streams, unless the channel of aborts is full
\* for good: whatever the provider does, no turn and no session command waits for ever for
\* the run state or the store, a turn whose stream has ended goes on to its end, and only
\* a full channel that no turn empties keeps an abort, and all that need the run state.
CallsGoOn ==
  \A c \in Callers :
    pc[c] # "idle" ~> \/ pc[c] = "idle" \/ Streaming(c)
                     \/ [](aborts = AbortCap /\ stateLock # NoOne)
=============================================================================
