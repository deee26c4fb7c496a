----------------------------- MODULE RpcLoopProofs -----------------------------
(***************************************************************************)
(* Proofs about RpcLoop, for any number of lines, turns and steps and any  *)
(* capacity of the abort channel: the loop uses the agent as Agent allows  *)
(* it to be used, so that what is proved there holds here; the entries of  *)
(* a turn stand together in the log, under each other; and the session     *)
(* total of the usage reports counts each of them once.                    *)
(*                                                                         *)
(* The last two are what a single caller is needed for.  That the newest   *)
(* entry is one of the turn under way (Chain), and that a turn which has   *)
(* read the total holds the one the session was opened with and one for    *)
(* every report since (UsageInv), are inductive with what AgentProofs      *)
(* shows of every log, since nothing but the turn itself appends while it  *)
(* runs, and no other store takes the place of the one in use.             *)
(***************************************************************************)
EXTENDS RpcLoop, AgentProofs

\* Every step of the loop and of its client is one of the agent, or leaves it alone.
LEMMA StepMaps ==
  ASSUME RpcNext \/ UNCHANGED rpcVars
  PROVE  [Next]_vars
<1>l. Loop \in Callers
  BY LoopIsTheCaller
<1>1. ASSUME NEW kind \in LineKind, WriteLine(kind) PROVE [Next]_vars
  BY <1>1 DEF WriteLine
<1>2. CASE ReadPrompt
  BY <1>2, <1>l DEF ReadPrompt, Starts, Next
<1>3. CASE ReadAbort
  BY <1>3, <1>l DEF ReadAbort, Starts, Next
<1>4. CASE ReadGetState \/ Reject
  BY <1>4 DEF ReadGetState, Reject
<1>5. CASE ReadCommand
  <2>1. CASE NewSession(Loop) \/ CompactSession(Loop)
    BY <2>1, <1>l DEF Next
  <2>2. CASE \E id \in IdsOf(log) : ForkSession(Loop, id)
    BY <2>2, <1>l DEF Next
  <2>3. CASE \E id \in IdsOf(log) \cup {NoId} : CheckoutBranchHead(Loop, id)
    BY <2>3, <1>l DEF Next
  <2>4. CASE \E p \in Paths : SelectSessionPath(Loop, p)
    BY <2>4, <1>l DEF Next
  <2> QED
    BY <1>5, <2>1, <2>2, <2>3, <2>4 DEF ReadCommand, Starts
<1>6. CASE Serve
  BY <1>6, <1>l DEF Serve, Next
<1>7. CASE UNCHANGED rpcVars
  BY <1>7 DEF rpcVars
<1> QED
  BY <1>1, <1>2, <1>3, <1>4, <1>5, <1>6, <1>7 DEF RpcNext

\* The loop implements the agent: whatever lines it is given, those that select a
\* session or compact it among them, handle_request is called as any caller may call it.
THEOREM LoopUsesAgent == RpcSpec => Spec
<1>1. RpcInit => Init
  BY DEF RpcInit
<1>2. [RpcNext]_rpcVars => [Next]_vars
  BY StepMaps
<1> QED
  BY <1>1, <1>2, PTL DEF RpcSpec, Spec

\* What AgentProofs shows of every state of the agent.
Sound == TypeOK /\ SessionInv

LEMMA AlwaysSound == Spec => []Sound
BY AgentInvariance, PTL DEF Sound

\* Where the one caller is, and what its turn remembers.
LEMMA CallerTyped ==
  ASSUME Sound, NEW c \in Callers
  PROVE  /\ DOMAIN turn[c] = {"no", "text", "steps", "total", "late"}
         /\ turn[c].no \in Nat /\ turn[c].total \in Nat
         /\ \A p : Goto(c, p) => pc'[c] = p
         /\ \A t : turn' = [turn EXCEPT ![c] = t] => turn'[c] = t
         /\ Return(c) => pc'[c] = "idle"
BY DEF Sound, TypeOK, Goto, Return

\* What an event leaves of the local variables of a turn.
LEMMA AfterKeeps ==
  ASSUME NEW t, DOMAIN t = {"no", "text", "steps", "total", "late"}
  PROVE  After(t).no = t.no /\ After(t).total = t.total
BY DEF After

\* The log is a sequence, and one entry longer after an append.
LEMMA LogGrows ==
  ASSUME Sound, NEW parent, NEW kind, NEW t, NEW total, NEW anchor,
         AppendUnder(parent, kind, t, total, anchor)
  PROVE  /\ log \in Seq(Entry) /\ Len(log) \in Nat /\ log' # <<>>
         /\ Len(log') = Len(log) + 1
         /\ \A i \in 1..Len(log) : log'[i] = log[i]
         /\ log'[Len(log')].kind = kind /\ log'[Len(log')].turn = t
         /\ log'[Len(log')].parent = parent /\ log'[Len(log')].total = total
<1> DEFINE e == [id |-> issued + 1, parent |-> parent, kind |-> kind,
                 turn |-> t, total |-> total, anchor |-> anchor]
<1>1. log' = Append(log, e) /\ e.kind = kind /\ e.turn = t /\ e.parent = parent /\ e.total = total
  BY DEF AppendUnder
<1> HIDE DEF e
<1>2. log \in Seq(Entry) /\ Len(log) \in Nat
  BY LenProperties DEF Sound, TypeOK
<1> QED BY <1>1, <1>2

\* A store that takes the place of another has recorded that.
LEMMA SwapOpens ==
  ASSUME Sound, NEW c \in Callers, SwapStores(c)
  PROVE  log' \in Seq(Entry) /\ Len(log') \in Nat /\ Opened(log') = Len(log')
<1>1. log' = opening[c].log /\ pc[c] = "select_swap"
  BY DEF SwapStores
<1>2. PICK s : s = log'
  OBVIOUS
<1>3. s \in Seq(Entry) /\ s[Len(s)].kind = "select"
  BY <1>1, <1>2 DEF Sound, SessionInv, OpeningInv, Grown, Selected
<1>4. Len(s) \in Nat /\ Len(s) \in 0..Len(s) /\ \A j \in Len(s) + 1..Len(s) : FALSE
  BY <1>3, LenProperties
<1>5. Opened(s) = Len(s)
  BY <1>3, <1>4, OpenedIs
<1> QED BY <1>2, <1>3, <1>4, <1>5

----------------------------------------------------------------------------
(* Turns are chains *)

Chain ==
  /\ TurnIsChain
  /\ \A c \in Callers : pc[c] \in TurnPc => log # <<>> /\ log[Len(log)].turn = turn[c].no

\* An entry that belongs to no turn, begins one, or goes on with that of the newest
\* entry, under it, leaves the turns chains.
LEMMA AppendChain ==
  ASSUME Sound, TurnIsChain, NEW parent, NEW kind, NEW t, NEW total, NEW anchor,
         AppendUnder(parent, kind, t, total, anchor), kind # "select",
         \/ t = 0 \/ kind = "user"
         \/ log # <<>> /\ parent = head /\ t = log[Len(log)].turn
  PROVE  TurnIsChain' /\ log' # <<>> /\ log'[Len(log')].turn = t
<1>1. /\ log \in Seq(Entry) /\ Len(log) \in Nat /\ log' # <<>>
      /\ Len(log') = Len(log) + 1
      /\ \A i \in 1..Len(log) : log'[i] = log[i]
      /\ log'[Len(log')].kind = kind /\ log'[Len(log')].turn = t
      /\ log'[Len(log')].parent = parent
  BY LogGrows
<1>2. Opened(log') = Opened(log) /\ Opened(log) \in 0..Len(log)
  BY <1>1, OpenedAfter, OpenedIs
<1>3. ASSUME NEW i \in Opened(log) + 1..Len(log'), log'[i].turn # 0, log'[i].kind # "user"
      PROVE  i > 1 /\ log'[i].parent = log'[i - 1].id /\ log'[i].turn = log'[i - 1].turn
  <2>1. CASE i # Len(log')
    <3>1. i \in Opened(log) + 1..Len(log) /\ i \in 1..Len(log)
      BY <1>1, <1>2, <2>1
    <3>2. i > 1 /\ log[i].parent = log[i - 1].id /\ log[i].turn = log[i - 1].turn
      BY <1>1, <1>3, <3>1 DEF TurnIsChain
    <3>3. i - 1 \in 1..Len(log)
      BY <1>1, <3>1, <3>2
    <3> QED BY <1>1, <3>1, <3>2, <3>3
  <2>2. CASE i = Len(log')
    <3>1. log # <<>> /\ parent = head /\ t = log[Len(log)].turn
      BY <1>1, <1>3, <2>2
    <3>2. head = log[Len(log)].id
      BY <3>1 DEF Sound, SessionInv, LogInv, HeadIsNewest, LastId
    <3>3. Len(log) > 0
      BY <1>1, <3>1, EmptySeq
    <3>4. i > 1 /\ i - 1 = Len(log) /\ Len(log) \in 1..Len(log)
      BY <1>1, <2>2, <3>3
    <3> QED BY <1>1, <2>2, <3>1, <3>2, <3>4
  <2> QED BY <2>1, <2>2
<1>4. TurnIsChain'
  BY <1>2, <1>3 DEF TurnIsChain
<1> QED BY <1>1, <1>4

\* The one caller goes on in its turn, or is outside of one, and the log is left alone.
LEMMA QuietMoves ==
  ASSUME \A c, d \in Callers : c = d, Chain, NEW c \in Callers, UNCHANGED log,
         pc'[c] \in TurnPc => pc[c] \in TurnPc /\ turn'[c].no = turn[c].no
  PROVE  Chain'
BY DEF Chain, TurnIsChain

\* The one caller stores an entry of its turn.
LEMMA StoringMoves ==
  ASSUME \A c, d \in Callers : c = d, Sound, Chain, NEW c \in Callers, pc[c] \in TurnPc,
         NEW kind, NEW total, kind # "select", AppendTurn(kind, turn[c].no, total),
         pc'[c] \in TurnPc => turn'[c].no = turn[c].no
  PROVE  Chain'
<1>1. TurnIsChain' /\ log' # <<>> /\ log'[Len(log')].turn = turn[c].no
  BY AppendChain DEF Chain, AppendTurn
<1> QED
  BY <1>1 DEF Chain

\* No step of the agent breaks a chain, if it has one caller.
LEMMA NextChain ==
  ASSUME \A c, d \in Callers : c = d, Sound, Chain, [Next]_vars
  PROVE  Chain'
<1>i. "idle" \notin TurnPc
  BY DEF TurnPc
<1>1. ASSUME NEW c \in Callers, Prompt(c) PROVE Chain'
  <2>1. PICK n : n = counts'.turns
    OBVIOUS
  <2>2. AppendUnder(head, "user", n, 0, NoId)
    BY <1>1, <2>1 DEF Prompt, AppendTurn
  <2>3. TurnIsChain' /\ log' # <<>> /\ log'[Len(log')].turn = n
    BY <2>2, AppendChain DEF Chain
  <2>4. pc'[c] \in TurnPc => turn'[c].no = n
    <3> DEFINE t == [NoTurn EXCEPT !.no = counts'.turns]
    <3>1. t.no = n
      BY <2>1 DEF NoTurn
    <3>2. StoredThen(c, "usage", t)
      BY <1>1 DEF Prompt
    <3> HIDE DEF t
    <3> QED BY <1>i, <3>1, <3>2, CallerTyped DEF StoredThen
  <2> QED BY <2>3, <2>4 DEF Chain
<1>2. ASSUME NEW c \in Callers, Abort(c) PROVE Chain'
  <2>1. UNCHANGED log /\ pc'[c] = "abort"
    BY <1>2, CallerTyped DEF Abort, session
  <2> QED BY <2>1, QuietMoves DEF TurnPc
<1>3. ASSUME NEW c \in Callers, Step(c) PROVE Chain'
  <2>n. DOMAIN turn[c] = {"no", "text", "steps", "total", "late"}
    BY CallerTyped
  <2>f. \A p, t : /\ Goto(c, p) => pc'[c] = p
                  /\ turn' = [turn EXCEPT ![c] = t] => turn'[c] = t
    BY CallerTyped
  <2>1. CASE ReadUsage(c)
    <3>1. turn'[c] = [turn[c] EXCEPT !.total = SessionUsage(log)]
      BY <2>1, <2>f DEF ReadUsage
    <3>2. UNCHANGED log /\ pc[c] \in TurnPc /\ turn'[c].no = turn[c].no
      BY <2>1, <2>n, <3>1 DEF ReadUsage, session, TurnPc
    <3> QED BY <3>2, QuietMoves
  <2>2. CASE SetRunning(c)
    <3>1. UNCHANGED <<log, turn>> /\ pc[c] \in TurnPc
      BY <2>2 DEF SetRunning, session, TurnPc
    <3> QED BY <3>1, QuietMoves
  <2>3. CASE Delta(c)
    <3>1. turn'[c] = After([turn[c] EXCEPT !.text = TRUE])
      BY <2>3, <2>f DEF Delta
    <3>2. turn'[c].no = turn[c].no
      BY <2>n, <3>1 DEF After
    <3>3. UNCHANGED log /\ pc[c] \in TurnPc
      BY <2>3 DEF Delta, session, TurnPc
    <3> QED BY <3>2, <3>3, QuietMoves
  <2>4. CASE CallTool(c)
    <3>1. turn'[c] = After([turn[c] EXCEPT !.steps = @ + 1])
      BY <2>4, <2>f DEF CallTool
    <3>2. turn'[c].no = turn[c].no
      BY <2>n, <3>1 DEF After
    <3>3. pc[c] \in TurnPc
      BY <2>4 DEF CallTool, TurnPc
    <3>4. CASE UNCHANGED session
      BY <3>2, <3>3, <3>4, QuietMoves DEF session
    <3>5. CASE AppendTurn("tool", turn[c].no, 0)
      BY <3>2, <3>3, <3>5, StoringMoves
    <3> QED BY <2>4, <3>4, <3>5 DEF CallTool
  <2>5. CASE ReportUsage(c)
    <3> DEFINE t == [turn[c] EXCEPT !.steps = @ + 1, !.total = @ + 1]
    <3>1. /\ StoredThen(c, "check", After(t)) /\ pc[c] = "stream"
          /\ AppendTurn("usage", t.no, t.total)
      BY <2>5 DEF ReportUsage
    <3>2. t.no = turn[c].no /\ DOMAIN t = {"no", "text", "steps", "total", "late"}
      BY <2>n
    <3> HIDE DEF t
    <3>3. pc'[c] \in TurnPc => turn'[c].no = turn[c].no
      BY <1>i, <3>1, <3>2, AfterKeeps, CallerTyped DEF StoredThen
    <3>4. AppendTurn("usage", turn[c].no, t.total)
      BY <3>1, <3>2
    <3> QED BY <3>1, <3>3, <3>4, StoringMoves DEF TurnPc
  <2>6. CASE StreamEnds(c)
    <3>1. PICK text : turn' = [turn EXCEPT ![c].text = text, ![c].late = 0]
      BY <2>6 DEF StreamEnds
    <3>2. turn'[c].no = turn[c].no
      BY <2>n, <3>1 DEF Sound, TypeOK
    <3>3. UNCHANGED log /\ pc[c] \in TurnPc
      BY <2>6 DEF StreamEnds, session, TurnPc
    <3> QED BY <3>2, <3>3, QuietMoves
  <2>7. CASE CheckAbort(c)
    <3>1. turn'[c].no = turn[c].no
      BY <2>7, <2>n DEF CheckAbort, Sound, TypeOK
    <3>2. UNCHANGED log /\ pc[c] \in TurnPc
      BY <2>7 DEF CheckAbort, session, TurnPc
    <3> QED BY <3>1, <3>2, QuietMoves
  <2>8. CASE StoreAssistant(c)
    <3>1. pc[c] \in TurnPc
      BY <2>8 DEF StoreAssistant, TurnPc
    <3>2. pc'[c] \in TurnPc => turn'[c].no = turn[c].no
      BY <1>i, <2>8, CallerTyped DEF StoreAssistant, StoredThen
    <3>3. CASE turn[c].text
      BY <2>8, <3>1, <3>2, <3>3, StoringMoves DEF StoreAssistant
    <3>4. CASE ~turn[c].text
      BY <2>8, <3>1, <3>2, <3>4, QuietMoves DEF StoreAssistant, session
    <3> QED BY <3>3, <3>4
  <2>9. CASE \/ SetIdle(c) \/ SetAborting(c) \/ SendAbort(c)
             \/ RenameCompacted(c) \/ AppendSelection(c)
    <3>1. UNCHANGED log
      BY <2>9 DEF SetIdle, SetAborting, SendAbort, RenameCompacted, AppendSelection, session
    <3>2. pc'[c] \in {"idle", "abort_send", "select_swap"}
      BY <2>9, CallerTyped DEF SetIdle, SetAborting, SendAbort, RenameCompacted, AppendSelection
    <3> QED BY <3>1, <3>2, QuietMoves DEF TurnPc
  <2>10. CASE SwapStores(c)
    <3>1. Len(log') \in Nat /\ Opened(log') = Len(log')
      BY <2>10, SwapOpens
    <3>2. TurnIsChain'
      BY <3>1 DEF TurnIsChain
    <3>3. pc'[c] = "idle"
      BY <2>10, <2>f DEF SwapStores
    <3> QED BY <1>i, <3>2, <3>3 DEF Chain
  <2> QED
    BY <1>3, <2>1, <2>2, <2>3, <2>4, <2>5, <2>6, <2>7, <2>8, <2>9, <2>10
       DEF Step, ProviderEvent, OwnStep
<1>4. ASSUME NEW c \in Callers, NewSession(c) PROVE Chain'
  <2>1. log' = <<>> /\ pc'[c] = "idle"
    BY <1>4 DEF NewSession, Command
  <2>2. PICK s : s = log'
    OBVIOUS
  <2>3. Len(s) = 0 /\ Opened(s) = 0
    <3>1. Len(s) = 0
      BY <2>1, <2>2, EmptySeq
    <3>2. Opened(s) \in 0..Len(s)
      BY <3>1, OpenedIs
    <3> QED BY <3>1, <3>2
  <2>4. TurnIsChain'
    BY <2>2, <2>3 DEF TurnIsChain
  <2> QED BY <1>i, <2>1, <2>4 DEF Chain
<1>5. ASSUME NEW c \in Callers, NEW parent, NEW kind, NEW anchor, Command(c), UNCHANGED pc,
             kind # "select", AppendUnder(parent, kind, 0, 0, anchor)
      PROVE  Chain'
  <2>1. TurnIsChain'
    BY <1>5, AppendChain DEF Chain
  <2>2. pc'[c] = "idle"
    BY <1>5 DEF Command
  <2> QED BY <1>i, <2>1, <2>2 DEF Chain
<1>6. ASSUME NEW c \in Callers, NEW id, ForkSession(c, id) \/ CheckoutBranchHead(c, id)
      PROVE  Chain'
  BY <1>5, <1>6 DEF ForkSession, CheckoutBranchHead
<1>7. ASSUME NEW c \in Callers, NEW p, CompactSession(c) \/ SelectSessionPath(c, p)
      PROVE  Chain'
  <2>1. UNCHANGED log /\ pc'[c] \in {"compact", "select_append"}
    BY <1>7, CallerTyped DEF CompactSession, SelectSessionPath
  <2> QED BY <2>1, QuietMoves DEF TurnPc
<1>8. CASE UNCHANGED vars
  BY <1>8 DEF vars, session, Chain, TurnIsChain
<1> QED
  BY <1>1, <1>2, <1>3, <1>4, <1>6, <1>7, <1>8 DEF Next

\* The entries of a turn stand together in the log, as one chain under its user message,
\* for any lines in any order, those that compact the session or select another among
\* them: one reply is finished before the next line is read.
THEOREM TurnsAreChains == RpcSpec => []TurnIsChain
<1>1. \A c, d \in Callers : c = d
  BY LoopIsTheCaller
<1>2. Init => Chain
  <2> SUFFICES ASSUME Init PROVE Chain
    OBVIOUS
  <2>1. Len(log) = 0
    BY EmptySeq DEF Init
  <2>2. Opened(log) \in 0..Len(log)
    BY <2>1, OpenedIs
  <2>3. TurnIsChain
    BY <2>1, <2>2 DEF TurnIsChain
  <2> QED
    BY <2>3 DEF Init, Chain, TurnPc
<1>3. Sound /\ Chain /\ [Next]_vars => Chain'
  BY <1>1, NextChain
<1>4. Chain => TurnIsChain
  BY DEF Chain
<1>5. Spec => []TurnIsChain
  BY <1>2, <1>3, <1>4, AlwaysSound, PTL DEF Spec
<1> QED
  BY <1>5, LoopUsesAgent, PTL

----------------------------------------------------------------------------
(* Usage adds up *)

\* The reports since the session was selected, and the total it was selected with.
UsagesOf(s) == {i \in Opened(s) + 1..Len(s) : s[i].kind = "usage"}
Base(s) == SessionUsage(SubSeq(s, 1, Opened(s)))

\* Every usage entry holds the total before and the number of them up to it.
AddsUp(s) ==
  \A i \in UsagesOf(s) : s[i].total = Base(s) + Cardinality({j \in UsagesOf(s) : j <= i})

\* Positions of a log can be counted, and what it was selected with is a number.
LEMMA UsagesFinite ==
  ASSUME NEW s \in Seq(Entry)
  PROVE  /\ Len(s) \in Nat /\ Opened(s) \in 0..Len(s) /\ Base(s) \in Nat
         /\ SubSeq(s, 1, Opened(s)) \in Seq(Entry)
         /\ Len(SubSeq(s, 1, Opened(s))) = Opened(s)
         /\ \A i \in 1..Opened(s) : SubSeq(s, 1, Opened(s))[i] = s[i]
         /\ IsFiniteSet(UsagesOf(s)) /\ Cardinality(UsagesOf(s)) \in Nat
<1>1. Len(s) \in Nat
  BY LenProperties
<1>2. Opened(s) \in 0..Len(s)
  BY <1>1, OpenedIs
<1>3. IsFiniteSet(1..Len(s))
  BY <1>1, FS_Interval
<1>4. UsagesOf(s) \subseteq 1..Len(s)
  BY <1>1, <1>2 DEF UsagesOf
<1>5. PICK o \in 0..Len(s) : o = Opened(s)
  BY <1>2
<1>6. \A i \in 1..o : s[i] \in Entry
  BY <1>1, ElementOfSeq
<1>7. /\ SubSeq(s, 1, o) \in Seq(Entry) /\ Len(SubSeq(s, 1, o)) = o
      /\ \A i \in 1..o : SubSeq(s, 1, o)[i] = s[i]
  BY <1>1, <1>6, SubSeqProperties
<1>8. Base(s) \in Nat
  BY <1>5, <1>7, UsageIsNat DEF Base
<1> QED BY <1>1, <1>2, <1>3, <1>4, <1>5, <1>7, <1>8, FS_Subset, FS_CardinalityType

\* The total that a turn starts from is the one the session was selected with and the
\* number of reports since.
LEMMA TotalIsCount ==
  ASSUME NEW s \in Seq(Entry), AddsUp(s)
  PROVE  SessionUsage(s) = Base(s) + Cardinality(UsagesOf(s))
<1> DEFINE b == SubSeq(s, 1, Opened(s))
<1>0. /\ Len(s) \in Nat /\ Opened(s) \in 0..Len(s) /\ Base(s) \in Nat
      /\ b \in Seq(Entry) /\ Len(b) = Opened(s) /\ Base(s) = SessionUsage(b)
      /\ \A i \in 1..Opened(s) : b[i] = s[i]
  BY UsagesFinite DEF Base
<1> HIDE DEF b
<1>1. ASSUME \A i \in Opened(s) + 1..Len(s) : s[i].kind # "usage"
      PROVE  UsagesOf(s) = {} /\ Cardinality(UsagesOf(s)) = 0
  <2>1. UsagesOf(s) = {}
    BY <1>1 DEF UsagesOf
  <2> QED BY <2>1, FS_EmptySet
<1>2. CASE (\A i \in 1..Len(s) : s[i].kind # "usage") /\ SessionUsage(s) = 0
  <2>1. \A i \in Opened(s) + 1..Len(s) : s[i].kind # "usage"
    BY <1>0, <1>2
  <2>2. \A i \in 1..Len(b) : b[i].kind # "usage"
    BY <1>0, <1>2
  <2>3. SessionUsage(b) = 0
    BY <1>0, <2>2, LastUsage
  <2> QED BY <1>0, <1>1, <1>2, <2>1, <2>3
<1>3. ASSUME NEW i \in 1..Len(s), s[i].kind = "usage", SessionUsage(s) = s[i].total,
             \A j \in i + 1..Len(s) : s[j].kind # "usage"
      PROVE  SessionUsage(s) = Base(s) + Cardinality(UsagesOf(s))
  <2>1. CASE i > Opened(s)
    <3>1. i \in UsagesOf(s)
      BY <1>0, <1>3, <2>1 DEF UsagesOf
    <3>2. {j \in UsagesOf(s) : j <= i} = UsagesOf(s)
      BY <1>0, <1>3 DEF UsagesOf
    <3>3. s[i].total = Base(s) + Cardinality({j \in UsagesOf(s) : j <= i})
      BY <3>1 DEF AddsUp
    <3> QED BY <1>3, <3>2, <3>3
  <2>2. CASE ~(i > Opened(s))
    <3>1. \A j \in Opened(s) + 1..Len(s) : s[j].kind # "usage"
      BY <1>0, <1>3, <2>2
    <3>2. i \in 1..Len(b) /\ b[i].kind = "usage"
      BY <1>0, <1>3, <2>2
    <3>3. PICK k \in 1..Len(b) : /\ b[k].kind = "usage" /\ SessionUsage(b) = b[k].total
                                 /\ \A j \in k + 1..Len(b) : b[j].kind # "usage"
      BY <1>0, <3>2, LastUsage
    <3>4. k = i
      <4>1. ~(k < i)
        BY <1>0, <3>2, <3>3
      <4>2. ~(i < k)
        BY <1>0, <1>3, <3>3
      <4> QED BY <1>0, <3>2, <3>3, <4>1, <4>2
    <3>5. b[k].total = s[i].total
      BY <1>0, <3>2, <3>4
    <3> QED BY <1>0, <1>1, <1>3, <3>1, <3>3, <3>5
  <2> QED BY <2>1, <2>2
<1> QED BY <1>2, <1>3, LastUsage

\* An entry that is no selection is no report, or holds one more than the total.
LEMMA AppendAddsUp ==
  ASSUME NEW s \in Seq(Entry), AddsUp(s), NEW t \in Seq(Entry), Len(t) = Len(s) + 1,
         \A i \in 1..Len(s) : t[i] = s[i], t[Len(t)].kind # "select",
         t[Len(t)].kind = "usage" =>
           t[Len(t)].total = Base(s) + Cardinality(UsagesOf(s)) + 1
  PROVE  /\ AddsUp(t) /\ Base(t) = Base(s)
         /\ Cardinality(UsagesOf(t)) =
              IF t[Len(t)].kind = "usage" THEN Cardinality(UsagesOf(s)) + 1
                                          ELSE Cardinality(UsagesOf(s))
<1>1. /\ Len(s) \in Nat /\ Opened(s) \in 0..Len(s) /\ Base(s) \in Nat
      /\ IsFiniteSet(UsagesOf(s)) /\ Cardinality(UsagesOf(s)) \in Nat
  BY UsagesFinite
<1>2. Opened(t) = Opened(s)
  BY <1>1, OpenedAfter
<1>b. Base(t) = Base(s)
  <2>1. PICK o \in 0..Len(s) : o = Opened(s)
    BY <1>1
  <2>2. SubSeq(t, 1, o) = SubSeq(s, 1, o)
    <3>1. /\ SubSeq(s, 1, o) \in Seq(Entry) /\ Len(SubSeq(s, 1, o)) = o
          /\ \A i \in 1..o : SubSeq(s, 1, o)[i] = s[i]
      BY <2>1, UsagesFinite
    <3>2. /\ SubSeq(t, 1, o) \in Seq(Entry) /\ Len(SubSeq(t, 1, o)) = o
          /\ \A i \in 1..o : SubSeq(t, 1, o)[i] = t[i]
      BY <1>2, <2>1, UsagesFinite
    <3>3. \A i \in 1..o : SubSeq(t, 1, o)[i] = SubSeq(s, 1, o)[i]
      BY <1>1, <3>1, <3>2
    <3> QED BY <3>1, <3>2, <3>3, SeqEqual
  <2> QED BY <1>2, <2>1, <2>2 DEF Base
<1>3. UsagesOf(t) = UsagesOf(s) \cup (IF t[Len(t)].kind = "usage" THEN {Len(t)} ELSE {})
  <2>1. \A i : i \in Opened(t) + 1..Len(t) <=> (i \in Opened(s) + 1..Len(s) \/ i = Len(t))
    BY <1>1, <1>2
  <2>2. \A i \in Opened(s) + 1..Len(s) : t[i] = s[i]
    BY <1>1
  <2> QED BY <2>1, <2>2 DEF UsagesOf
<1>4. Len(t) \notin UsagesOf(s)
  BY <1>1 DEF UsagesOf
<1>6. Cardinality(UsagesOf(t)) =
        IF t[Len(t)].kind = "usage" THEN Cardinality(UsagesOf(s)) + 1
                                    ELSE Cardinality(UsagesOf(s))
  <2>1. CASE t[Len(t)].kind = "usage"
    BY <1>1, <1>3, <1>4, <2>1, FS_AddElement
  <2>2. CASE t[Len(t)].kind # "usage"
    BY <1>3, <2>2
  <2> QED BY <2>1, <2>2
<1>7. ASSUME NEW i \in UsagesOf(t)
      PROVE  t[i].total = Base(t) + Cardinality({j \in UsagesOf(t) : j <= i})
  <2>1. CASE i \in UsagesOf(s)
    <3>1. i \in 1..Len(s) /\ s[i].total = Base(s) + Cardinality({j \in UsagesOf(s) : j <= i})
      BY <1>1, <2>1 DEF AddsUp, UsagesOf
    <3>2. {j \in UsagesOf(t) : j <= i} = {j \in UsagesOf(s) : j <= i}
      BY <1>1, <1>3, <3>1
    <3> QED BY <1>b, <3>1, <3>2
  <2>2. CASE i = Len(t) /\ t[Len(t)].kind = "usage"
    <3>1. {j \in UsagesOf(t) : j <= i} = UsagesOf(t)
      BY <1>1, <2>2 DEF UsagesOf
    <3>2. Base(s) + Cardinality(UsagesOf(s)) + 1 = Base(t) + Cardinality(UsagesOf(t))
      BY <1>1, <1>6, <1>b, <2>2
    <3> QED BY <2>2, <3>1, <3>2
  <2> QED BY <1>3, <2>1, <2>2
<1>8. AddsUp(t)
  BY <1>7 DEF AddsUp
<1> QED BY <1>6, <1>8, <1>b

\* The total of the session, as the log has it.
Total(s) == Base(s) + Cardinality(UsagesOf(s))

\* A turn that has read the total holds the one the log has.
UsageInv ==
  /\ AddsUp(log)
  /\ \A c \in Callers : pc[c] \in {"start", "stream", "check"} => turn[c].total = Total(log)

\* An entry of a turn or of a command.
LEMMA AppendUnderAddsUp ==
  ASSUME Sound, Sound', AddsUp(log),
         NEW parent, NEW kind, NEW t, NEW total, NEW anchor,
         AppendUnder(parent, kind, t, total, anchor), kind # "select",
         kind = "usage" => total = Total(log) + 1
  PROVE  /\ AddsUp(log')
         /\ Total(log') = IF kind = "usage" THEN Total(log) + 1 ELSE Total(log)
<1>1. /\ log \in Seq(Entry) /\ Len(log) \in Nat
      /\ Len(log') = Len(log) + 1
      /\ \A i \in 1..Len(log) : log'[i] = log[i]
      /\ log'[Len(log')].kind = kind /\ log'[Len(log')].total = total
  BY LogGrows
<1>2. PICK s : s = log'
  OBVIOUS
<1>3. s \in Seq(Entry)
  BY <1>2 DEF Sound, TypeOK
<1>4. Base(log) \in Nat /\ Cardinality(UsagesOf(log)) \in Nat
  BY <1>1, UsagesFinite
<1>5. /\ AddsUp(s) /\ Base(s) = Base(log)
      /\ Cardinality(UsagesOf(s)) = IF kind = "usage" THEN Cardinality(UsagesOf(log)) + 1
                                                     ELSE Cardinality(UsagesOf(log))
  BY <1>1, <1>2, <1>3, AppendAddsUp DEF Total
<1> QED BY <1>2, <1>4, <1>5 DEF Total

\* A log without reports since it was opened.
LEMMA NoReports ==
  ASSUME NEW s, Len(s) \in Nat, Opened(s) = Len(s) PROVE AddsUp(s)
BY DEF AddsUp, UsagesOf

\* The only caller goes on.
LEMMA UsageMoves ==
  ASSUME \A c, d \in Callers : c = d, NEW c \in Callers, AddsUp(log'),
         pc'[c] \in {"start", "stream", "check"} => turn'[c].total = Total(log')
  PROVE  UsageInv'
BY DEF UsageInv

\* The session total of a turn is not left behind, because nothing else reports
\* between its look at the log and its own report.
LEMMA NextUsage ==
  ASSUME \A c, d \in Callers : c = d, Sound, Sound', UsageInv, [Next]_vars
  PROVE  UsageInv'
<1>a. AddsUp(log)
  BY DEF UsageInv
<1>1. ASSUME NEW c \in Callers, Prompt(c) PROVE UsageInv'
  <2>1. AddsUp(log')
    <3>1. PICK n : n = counts'.turns
      OBVIOUS
    <3>2. AppendUnder(head, "user", n, 0, NoId)
      BY <1>1, <3>1 DEF Prompt, AppendTurn
    <3> QED BY <1>a, <3>2, AppendUnderAddsUp
  <2>2. pc'[c] \in {"usage", "idle"}
    BY <1>1, CallerTyped DEF Prompt, StoredThen
  <2> QED BY <2>1, <2>2, UsageMoves
<1>2. ASSUME NEW c \in Callers, Abort(c) PROVE UsageInv'
  <2>1. pc'[c] = "abort" /\ log' = log
    BY <1>2, CallerTyped DEF Abort, session
  <2> QED BY <1>a, <2>1, UsageMoves
<1>3. ASSUME NEW c \in Callers, Step(c) PROVE UsageInv'
  <2>c. pc[c] \in {"start", "stream", "check"} => turn[c].total = Total(log)
    BY DEF UsageInv
  <2>f. /\ \A p, t : /\ Goto(c, p) => pc'[c] = p
                     /\ turn' = [turn EXCEPT ![c] = t] => turn'[c] = t
        /\ Return(c) => pc'[c] = "idle"
    BY CallerTyped
  <2>l. DOMAIN turn[c] = {"no", "text", "steps", "total", "late"} /\ turn[c].total \in Nat
    BY CallerTyped
  <2>1. CASE ReadUsage(c)
    <3>1. log' = log /\ turn'[c].total = SessionUsage(log)
      BY <2>1, <2>l DEF ReadUsage, session, Sound, TypeOK
    <3>2. SessionUsage(log) = Total(log)
      BY <1>a, TotalIsCount DEF Sound, TypeOK, Total
    <3> QED BY <1>a, <3>1, <3>2, UsageMoves
  <2>2. CASE SetRunning(c)
    <3>1. pc[c] = "start" /\ log' = log /\ turn' = turn
      BY <2>2 DEF SetRunning, session
    <3> QED BY <1>a, <2>c, <3>1, UsageMoves
  <2>3. CASE Delta(c)
    <3>1. pc[c] = "stream" /\ log' = log /\ turn'[c] = After([turn[c] EXCEPT !.text = TRUE])
      BY <2>3, <2>f DEF Delta, session
    <3>2. turn'[c].total = turn[c].total
      BY <2>l, <3>1 DEF After
    <3> QED BY <1>a, <2>c, <3>1, <3>2, UsageMoves
  <2>4. CASE CallTool(c)
    <3>1. pc[c] = "stream" /\ turn'[c] = After([turn[c] EXCEPT !.steps = @ + 1])
      BY <2>4, <2>f DEF CallTool
    <3>2. turn'[c].total = turn[c].total
      BY <2>l, <3>1 DEF After
    <3>3. AddsUp(log') /\ Total(log') = Total(log)
      <4>1. CASE UNCHANGED session
        BY <1>a, <4>1 DEF session
      <4>2. CASE AppendTurn("tool", turn[c].no, 0)
        BY <1>a, <4>2, AppendUnderAddsUp DEF AppendTurn
      <4> QED BY <2>4, <4>1, <4>2 DEF CallTool
    <3> QED BY <2>c, <3>1, <3>2, <3>3, UsageMoves
  <2>5. CASE ReportUsage(c)
    <3> DEFINE t == [turn[c] EXCEPT !.steps = @ + 1, !.total = @ + 1]
    <3>1. /\ pc[c] = "stream" /\ AppendTurn("usage", t.no, t.total)
          /\ StoredThen(c, "check", After(t))
      BY <2>5 DEF ReportUsage
    <3>2. t.total = turn[c].total + 1 /\ DOMAIN t = {"no", "text", "steps", "total", "late"}
      BY <2>l
    <3> HIDE DEF t
    <3>3. AddsUp(log') /\ Total(log') = Total(log) + 1
      BY <1>a, <2>c, <3>1, <3>2, AppendUnderAddsUp DEF AppendTurn
    <3>4. CASE Return(c)
      BY <2>f, <3>3, <3>4, UsageMoves
    <3>5. CASE Goto(c, "check") /\ turn' = [turn EXCEPT ![c] = After(t)]
      <4>1. turn'[c].total = t.total
        BY <2>f, <3>2, <3>5, AfterKeeps
      <4> QED BY <2>c, <3>1, <3>2, <3>3, <4>1, UsageMoves
    <3> QED BY <3>1, <3>4, <3>5 DEF StoredThen
  <2>6. CASE StreamEnds(c)
    <3>1. pc'[c] = "assistant" /\ log' = log
      BY <2>6, <2>f DEF StreamEnds, session
    <3> QED BY <1>a, <3>1, UsageMoves
  <2>7. CASE CheckAbort(c)
    <3>1. pc[c] = "check" /\ log' = log
          /\ (pc'[c] = "assistant" \/ turn' = turn)
      BY <2>7, <2>f DEF CheckAbort, session
    <3> QED BY <1>a, <2>c, <3>1, UsageMoves
  <2>8. CASE StoreAssistant(c)
    <3>1. AddsUp(log')
      <4>1. CASE turn[c].text
        BY <1>a, <2>8, <4>1, AppendUnderAddsUp DEF StoreAssistant, AppendTurn
      <4>2. CASE ~turn[c].text
        BY <1>a, <2>8, <4>2 DEF StoreAssistant, session
      <4> QED BY <4>1, <4>2
    <3>2. pc'[c] \in {"finish", "idle"}
      BY <2>8, <2>f DEF StoreAssistant, StoredThen
    <3> QED BY <3>1, <3>2, UsageMoves
  <2>9. CASE \/ SetIdle(c) \/ SetAborting(c) \/ SendAbort(c)
             \/ RenameCompacted(c) \/ AppendSelection(c)
    <3>1. log' = log
      BY <2>9 DEF SetIdle, SetAborting, SendAbort, RenameCompacted, AppendSelection, session
    <3>2. pc'[c] \in {"idle", "abort_send", "select_swap"}
      BY <2>9, <2>f DEF SetIdle, SetAborting, SendAbort, RenameCompacted, AppendSelection
    <3> QED BY <1>a, <3>1, <3>2, UsageMoves
  <2>10. CASE SwapStores(c)
    <3>1. AddsUp(log')
      BY <2>10, SwapOpens, NoReports
    <3>2. pc'[c] = "idle"
      BY <2>10, <2>f DEF SwapStores
    <3> QED BY <3>1, <3>2, UsageMoves
  <2> QED BY <1>3, <2>1, <2>2, <2>3, <2>4, <2>5, <2>6, <2>7, <2>8, <2>9, <2>10
          DEF Step, ProviderEvent, OwnStep
<1>4. ASSUME NEW c \in Callers, NewSession(c) PROVE UsageInv'
  <2>1. log' = <<>> /\ pc'[c] = "idle"
    BY <1>4 DEF NewSession, Command
  <2>2. Len(log') = 0
    BY <2>1, EmptySeq
  <2>3. Opened(log') = 0
    <3>1. Opened(log') \in 0..Len(log')
      BY <2>2, OpenedIs
    <3> QED BY <2>2, <3>1
  <2> QED BY <2>1, <2>2, <2>3, NoReports, UsageMoves
<1>5. ASSUME NEW c \in Callers, NEW parent, NEW kind, NEW anchor, Command(c), UNCHANGED pc,
             kind \notin {"select", "usage"}, AppendUnder(parent, kind, 0, 0, anchor)
      PROVE  UsageInv'
  <2>1. AddsUp(log')
    BY <1>5, <1>a, AppendUnderAddsUp
  <2>2. pc'[c] = "idle"
    BY <1>5 DEF Command
  <2> QED BY <2>1, <2>2, UsageMoves
<1>6. ASSUME NEW c \in Callers, NEW id, ForkSession(c, id) \/ CheckoutBranchHead(c, id)
      PROVE  UsageInv'
  BY <1>5, <1>6 DEF ForkSession, CheckoutBranchHead
<1>7. ASSUME NEW c \in Callers, NEW p, CompactSession(c) \/ SelectSessionPath(c, p)
      PROVE  UsageInv'
  <2>1. log' = log /\ pc'[c] \in {"compact", "select_append"}
    BY <1>7, CallerTyped DEF CompactSession, SelectSessionPath
  <2> QED BY <1>a, <2>1, UsageMoves
<1>8. CASE UNCHANGED vars
  BY <1>8 DEF vars, session, UsageInv
<1> QED BY <1>1, <1>2, <1>3, <1>4, <1>6, <1>7, <1>8 DEF Next

\* Every report of usage is counted once in the totals that come after it, for any lines
\* in any order, those that compact the session or select another among them, and
\* whatever append returns: one turn reads the total, adds to it and stores it before
\* another reads it.
THEOREM UsageCounted == RpcSpec => []UsageAddsUp
<1>1. \A c, d \in Callers : c = d
  BY LoopIsTheCaller
<1>2. Init => UsageInv
  <2> SUFFICES ASSUME Init PROVE UsageInv
    OBVIOUS
  <2>1. Len(log) = 0
    BY EmptySeq DEF Init
  <2>2. Opened(log) \in 0..Len(log)
    BY <2>1, OpenedIs
  <2>3. AddsUp(log)
    BY <2>1, <2>2, NoReports
  <2> QED BY <2>3 DEF Init, UsageInv
<1>3. Sound /\ Sound' /\ UsageInv /\ [Next]_vars => UsageInv'
  BY <1>1, NextUsage
<1>4. UsageInv => UsageAddsUp
  BY DEF UsageInv, AddsUp, UsagesOf, Base, UsageAddsUp
<1>5. Spec => []UsageAddsUp
  BY <1>2, <1>3, <1>4, AlwaysSound, PTL DEF Spec
<1> QED BY <1>5, LoopUsesAgent, PTL
================================================================================
