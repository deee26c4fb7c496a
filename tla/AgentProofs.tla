------------------------------ MODULE AgentProofs ------------------------------
(***************************************************************************)
(* Proofs about Agent, for any callers, any capacity of the abort channel  *)
(* and any number of turns, aborts and commands: every variable keeps its  *)
(* type, the head of the session is its newest entry, a checkout stays on  *)
(* the branch of its anchor, and an abort is met after one event at most.  *)
(*                                                                         *)
(* The last takes that only one caller sends prompts.  It rests on what    *)
(* handle_turn does with each event: when it waits for the next one, no    *)
(* event has gone by an abort; when it has one and looks into the channel, *)
(* an abort that the event has gone by is still there, because no other    *)
(* turn is there to take it out.                                           *)
(*                                                                         *)
(* That of the checkout rests on how a log and a file grow (Grown: ids     *)
(* increase and a parent is older; a file may lack the parent), and on the *)
(* search of resolve_branch_head down the                                  *)
(* children (Reachable, level by level) finding the same entries as the    *)
(* way up the parents (PathOf): both are recursive functions, reasoned     *)
(* about by the least position or level at which they would differ         *)
(* (Least, from the well-foundedness of the naturals).                     *)
(***************************************************************************)
EXTENDS Agent, FiniteSetTheorems, SequenceTheorems, TLAPS

----------------------------------------------------------------------------
(* Events past an abort *)

Lateness ==
  /\ pc \in [Callers -> Pc]
  /\ aborts \in 0..AbortCap
  /\ DOMAIN turn = Callers
  /\ \A c \in Callers : "late" \in DOMAIN turn[c]
  /\ \A c \in Callers : pc[c] \in TurnPc => c \in Prompters
  /\ \A c \in Callers : pc[c] = "stream" => turn[c].late = 0
  /\ \A c \in Callers : pc[c] = "check" => \/ turn[c].late = 0
                                           \/ turn[c].late = 1 /\ aborts > 0
  /\ \A c \in Callers : pc[c] \notin {"stream", "check"} => turn[c].late = 0

\* A caller that goes on elsewhere in its turn, or returns, with late as it must be
\* there, leaves the others as they are.
LEMMA OneMoves ==
  ASSUME Lateness, NEW c \in Callers, NEW p \in Pc, NEW t,
         Goto(c, p), turn' = [turn EXCEPT ![c] = t], "late" \in DOMAIN t,
         aborts' \in 0..AbortCap, aborts' >= aborts,
         p \in TurnPc => c \in Prompters,
         t.late = 0 \/ (t.late = 1 /\ p = "check" /\ aborts' > 0)
  PROVE  Lateness'
<1>1. turn' = [d \in Callers |-> IF d = c THEN t ELSE turn[d]]
  BY DEF Lateness
<1>2. pc' = [d \in Callers |-> IF d = c THEN p ELSE pc[d]]
  BY DEF Lateness, Goto
<1>3. aborts > 0 => aborts' > 0
  BY AbortCapPositive DEF Lateness
<1> QED
  BY <1>1, <1>2, <1>3 DEF Lateness, Pc

\* The channel as it is.
LEMMA AbortsKept ==
  ASSUME Lateness, UNCHANGED aborts
  PROVE  aborts' \in 0..AbortCap /\ aborts' >= aborts
BY AbortCapPositive DEF Lateness

\* A turn that handles an event counts it, if an abort waits.
LEMMA AfterLate ==
  ASSUME aborts \in Nat, NEW t, "late" \in DOMAIN t, t.late = 0
  PROVE  /\ "late" \in DOMAIN After(t)
         /\ After(t).late = 0 \/ (After(t).late = 1 /\ aborts > 0)
BY DEF After

\* A turn is over.
LEMMA ReturnsLate ==
  ASSUME Lateness, NEW c \in Callers, Return(c), UNCHANGED aborts
  PROVE  Lateness'
<1>1. "late" \in DOMAIN NoTurn /\ NoTurn.late = 0
  BY DEF NoTurn
<1> QED
  BY <1>1, OneMoves, AbortsKept DEF Return, Pc, TurnPc

\* A step that stored an entry goes on, or the turn is over.
LEMMA StoredLate ==
  ASSUME Lateness, NEW c \in Prompters, c \in Callers, NEW p \in Pc, NEW t,
         StoredThen(c, p, t), "late" \in DOMAIN t, UNCHANGED aborts,
         t.late = 0 \/ (t.late = 1 /\ p = "check" /\ aborts > 0)
  PROVE  Lateness'
<1>1. CASE Return(c)
  BY <1>1, ReturnsLate
<1>2. CASE Goto(c, p) /\ turn' = [turn EXCEPT ![c] = t]
  BY <1>2, OneMoves, AbortsKept DEF Pc, TurnPc
<1> QED
  BY <1>1, <1>2 DEF StoredThen

\* A session command that goes on elsewhere, or is over.
LEMMA CommandLate ==
  ASSUME Lateness, NEW c \in Callers, NEW p \in SessionPc \cup {"idle"}, Goto(c, p),
         pc[c] \in SessionPc \cup {"idle"}, UNCHANGED <<turn, aborts>>
  PROVE  Lateness'
<1>1. p \in Pc /\ p \notin TurnPc /\ pc[c] \notin TurnPc
  BY DEF Pc, SessionPc, TurnPc
<1>2. pc' = [d \in Callers |-> IF d = c THEN p ELSE pc[d]]
  BY DEF Lateness, Goto
<1>3. pc[c] \notin {"stream", "check"} /\ p \notin {"stream", "check"}
  BY <1>1 DEF TurnPc
<1> QED BY <1>1, <1>2, <1>3 DEF Lateness

\* Only the turn that looks takes an abort out of the channel.
LEMMA NextLate ==
  ASSUME \A c, d \in Prompters : c = d, Lateness, [Next]_vars
  PROVE  Lateness'
<1>a. aborts \in Nat /\ AbortCap \in Nat
  BY AbortCapPositive DEF Lateness
<1> USE DEF control
<1>0. ASSUME UNCHANGED <<pc, turn, aborts>> PROVE Lateness'
  BY <1>0 DEF Lateness
<1>1. ASSUME NEW c \in Callers, Prompt(c) PROVE Lateness'
  <2> DEFINE t == [NoTurn EXCEPT !.no = counts'.turns]
  <2>1. "late" \in DOMAIN t /\ t.late = 0
    BY DEF NoTurn
  <2>2. StoredThen(c, "usage", t) /\ UNCHANGED aborts /\ c \in Prompters
    BY <1>1 DEF Prompt
  <2> HIDE DEF t
  <2> QED
    BY <2>1, <2>2, StoredLate DEF Pc, TurnPc
<1>2. ASSUME NEW c \in Callers, Abort(c) PROVE Lateness'
  BY <1>2 DEF Abort, Goto, Lateness, Pc, TurnPc, AbortPc
<1>3. ASSUME NEW c \in Callers, Step(c) PROVE Lateness'
  <2>p. pc[c] \in TurnPc => c \in Prompters
    BY DEF Lateness
  <2>t. "late" \in DOMAIN turn[c] /\ (pc[c] # "check" => turn[c].late = 0)
    BY DEF Lateness
  <2>1. CASE ReadUsage(c)
    <3> DEFINE t == [turn[c] EXCEPT !.total = SessionUsage(log)]
    <3>1. turn' = [turn EXCEPT ![c] = t]
      BY <2>1 DEF ReadUsage
    <3>2. "late" \in DOMAIN t /\ t.late = 0
      BY <2>1, <2>t DEF ReadUsage
    <3> HIDE DEF t
    <3> QED
      BY <2>1, <2>p, <3>1, <3>2, AbortsKept, OneMoves DEF ReadUsage, Pc, TurnPc
  <2>2. CASE SetRunning(c)
    BY <2>2, <2>p, <2>t DEF SetRunning, Goto, Lateness, Pc, TurnPc
  <2>3. CASE Delta(c)
    <3> DEFINE t == [turn[c] EXCEPT !.text = TRUE]
    <3>1. turn' = [turn EXCEPT ![c] = After(t)]
      BY <2>3 DEF Delta
    <3>2. "late" \in DOMAIN t /\ t.late = 0
      BY <2>3, <2>t DEF Delta
    <3> HIDE DEF t
    <3>3. /\ "late" \in DOMAIN After(t)
          /\ After(t).late = 0 \/ (After(t).late = 1 /\ aborts > 0)
      BY <1>a, <3>2, AfterLate
    <3> QED
      BY <2>3, <2>p, <3>1, <3>3, AbortsKept, OneMoves DEF Delta, Pc, TurnPc
  <2>4. CASE CallTool(c)
    <3> DEFINE t == [turn[c] EXCEPT !.steps = @ + 1]
    <3>1. turn' = [turn EXCEPT ![c] = After(t)]
      BY <2>4 DEF CallTool
    <3>2. "late" \in DOMAIN t /\ t.late = 0
      BY <2>4, <2>t DEF CallTool
    <3> HIDE DEF t
    <3>3. /\ "late" \in DOMAIN After(t)
          /\ After(t).late = 0 \/ (After(t).late = 1 /\ aborts > 0)
      BY <1>a, <3>2, AfterLate
    <3> QED
      BY <2>4, <2>p, <3>1, <3>3, AbortsKept, OneMoves DEF CallTool, Pc, TurnPc
  <2>5. CASE ReportUsage(c)
    <3> DEFINE t == [turn[c] EXCEPT !.steps = @ + 1, !.total = @ + 1]
    <3>1. StoredThen(c, "check", After(t)) /\ UNCHANGED aborts
      BY <2>5 DEF ReportUsage
    <3>2. "late" \in DOMAIN t /\ t.late = 0
      BY <2>5, <2>t DEF ReportUsage
    <3> HIDE DEF t
    <3>3. /\ "late" \in DOMAIN After(t)
          /\ After(t).late = 0 \/ (After(t).late = 1 /\ aborts > 0)
      BY <1>a, <3>2, AfterLate
    <3> QED
      BY <2>5, <2>p, <3>1, <3>3, StoredLate DEF ReportUsage, Pc, TurnPc
  <2>6. CASE StreamEnds(c)
    <3>1. PICK text : turn' = [turn EXCEPT ![c].text = text, ![c].late = 0]
      BY <2>6 DEF StreamEnds
    <3> DEFINE t == [[turn[c] EXCEPT !.text = text] EXCEPT !.late = 0]
    <3>2. turn' = [turn EXCEPT ![c] = t]
      BY <3>1 DEF Lateness
    <3>3. "late" \in DOMAIN t /\ t.late = 0
      BY <2>t
    <3> HIDE DEF t
    <3> QED
      BY <2>6, <2>p, <3>2, <3>3, AbortsKept, OneMoves DEF StreamEnds, Pc, TurnPc
  <2>7. CASE CheckAbort(c)
    <3>1. CASE aborts > 0
      <4>1. \A d \in Callers : d # c => pc[d] \notin TurnPc
        BY <2>7, <2>p DEF CheckAbort, TurnPc, Lateness
      <4>2. aborts' \in 0..AbortCap
        BY <2>7, <3>1, <1>a DEF CheckAbort, Lateness
      <4>3. /\ turn' = [turn EXCEPT ![c].late = 0]
            /\ pc' = [pc EXCEPT ![c] = "assistant"]
        BY <2>7, <3>1 DEF CheckAbort, Goto
      <4>4. pc[c] \in TurnPc
        BY <2>7 DEF CheckAbort, TurnPc
      <4> QED
        BY <2>p, <4>1, <4>2, <4>3, <4>4 DEF Lateness, Pc, TurnPc
    <3>2. CASE ~(aborts > 0)
      BY <2>7, <2>p, <3>2 DEF CheckAbort, Goto, Lateness, Pc, TurnPc
    <3> QED
      BY <3>1, <3>2
  <2>8. CASE StoreAssistant(c)
    <3>1. CASE turn[c].text
      BY <2>8, <2>p, <2>t, <3>1, StoredLate DEF StoreAssistant, Pc, TurnPc
    <3>2. CASE ~turn[c].text
      BY <2>8, <2>p, <2>t, <3>2 DEF StoreAssistant, Goto, Lateness, Pc, TurnPc
    <3> QED
      BY <3>1, <3>2
  <2>9. CASE SetIdle(c)
    BY <2>9, ReturnsLate DEF SetIdle
  <2>10. CASE SetAborting(c)
    BY <2>10 DEF SetAborting, Goto, Lateness, Pc, TurnPc, AbortPc
  <2>11. CASE SendAbort(c)
    <3>1. aborts' \in 0..AbortCap /\ aborts' > 0
      BY <2>11, <1>a DEF SendAbort, Lateness
    <3> QED
      BY <2>11, <3>1 DEF SendAbort, Goto, Lateness, Pc, TurnPc
  <2>12. CASE RenameCompacted(c) \/ AppendSelection(c) \/ SwapStores(c)
    <3>1. PICK p \in {"idle", "select_swap"} : Goto(c, p)
      BY <2>12 DEF RenameCompacted, AppendSelection, SwapStores
    <3>2. pc[c] \in SessionPc /\ UNCHANGED <<turn, aborts>>
      BY <2>12 DEF RenameCompacted, AppendSelection, SwapStores, SessionPc
    <3> QED
      BY <3>1, <3>2, CommandLate DEF SessionPc
  <2> QED
    BY <1>3, <2>1, <2>2, <2>3, <2>4, <2>5, <2>6, <2>7, <2>8, <2>9, <2>10, <2>11, <2>12
       DEF Step, ProviderEvent, OwnStep
<1>4. ASSUME NEW c \in Callers, Command(c), UNCHANGED pc PROVE Lateness'
  BY <1>0, <1>4 DEF Command
<1>6. ASSUME NEW c \in Callers, Command(c), NEW p \in SessionPc, Goto(c, p) PROVE Lateness'
  BY <1>6, CommandLate DEF Command
<1>7. ASSUME NEW c \in Callers, NEW p, CompactSession(c) \/ SelectSessionPath(c, p)
      PROVE  Lateness'
  BY <1>6, <1>7 DEF CompactSession, SelectSessionPath, SessionPc
<1>5. CASE UNCHANGED vars
  BY <1>0, <1>5 DEF vars
<1> QED
  BY <1>1, <1>2, <1>3, <1>4, <1>5, <1>7 DEF Next, NewSession, ForkSession, CheckoutBranchHead

\* With one caller that sends prompts, the turn handles one event at most after an
\* abort is in the channel, however many callers send aborts and commands and in
\* whatever order they go.
THEOREM OneEventOnly ==
  ASSUME \A c, d \in Prompters : c = d
  PROVE  Spec => []OneEventPastAbort
<1>1. Init => Lateness
  BY AbortCapPositive DEF Init, Lateness, NoTurn, Pc, TurnPc
<1>2. Lateness /\ [Next]_vars => Lateness'
  BY NextLate
<1>3. Lateness => OneEventPastAbort
  BY DEF Lateness, OneEventPastAbort, Streaming
<1> QED
  BY <1>1, <1>2, <1>3, PTL DEF Spec

----------------------------------------------------------------------------
(* Least and greatest numbers *)

\* Naturals are well founded.
LEMMA Least ==
  ASSUME NEW T \in SUBSET Nat, T # {}
  PROVE  \E n \in T : \A m \in T : n <= m
<1>1. IsWellFoundedOn(OpToRel(<, Nat), Nat)
  BY NatLessThanWellFounded
<1>2. PICK n \in T : \A m \in T : ~(<<m, n>> \in OpToRel(<, Nat))
  BY <1>1, WFMin
<1>3. \A m \in T : m < n <=> <<m, n>> \in OpToRel(<, Nat)
  BY DEF OpToRel
<1>4. \A m \in T : ~(m < n)
  BY <1>2, <1>3, Zenon
<1> QED BY <1>4

\* A set of positions that is not empty has a last one.
LEMMA Greatest ==
  ASSUME NEW n \in Nat, NEW T \in SUBSET (1..n), T # {}
  PROVE  \E m \in T : \A k \in T : k <= m
<1> DEFINE Above == {b \in Nat : \A k \in T : k <= b}
<1>1. n \in Above
  OBVIOUS
<1>2. PICK m \in Above : \A k \in Above : m <= k
  <2>1. Above \in SUBSET Nat
    OBVIOUS
  <2> HIDE DEF Above
  <2> QED BY <1>1, <2>1, Least
<1>3. CASE m \in T
  BY <1>3
<1>4. CASE m \notin T
  <2>1. m \in Nat /\ \A k \in T : k \in Nat /\ 1 <= k /\ k <= m /\ k # m
    BY <1>2, <1>4
  <2>2. m - 1 \in Nat /\ \A k \in T : k <= m - 1
    <3>1. PICK t \in T : TRUE
      OBVIOUS
    <3>2. m >= 1
      BY <2>1, <3>1
    <3>3. \A k \in Nat : k <= m /\ k # m => k <= m - 1
      BY <2>1
    <3> QED BY <2>1, <3>2, <3>3
  <2>3. m - 1 \in Above
    <3>1. PICK p \in Nat : p = m - 1
      BY <2>2
    <3>2. \A k \in T : k <= p
      BY <2>2, <3>1
    <3>3. p \in Above
      BY <3>2
    <3> QED BY <3>1, <3>3
  <2> QED BY <1>2, <2>1, <2>3
<1> QED BY <1>3, <1>4

----------------------------------------------------------------------------
(* Paths and branches of a log *)

\* A log as it grows: ids increase, and each parent is older.
Grown(s, n) ==
  /\ s \in Seq(Entry)
  /\ \A i \in 1..Len(s) : s[i].parent < s[i].id /\ s[i].id <= n
  /\ \A i, j \in 1..Len(s) : i < j => s[i].id < s[j].id

\* An id is found at its position, and the parent's before it.
LEMMA Positions ==
  ASSUME NEW s, NEW n, Grown(s, n), NEW i \in 1..Len(s)
  PROVE  /\ PositionOf(s, s[i].id) = i
         /\ s[i].id \in Nat /\ s[i].parent \in Nat /\ s[i].id \in IdsOf(s)
         /\ s[i].parent \in IdsOf(s) => /\ PositionOf(s, s[i].parent) \in 1..i - 1
                                        /\ s[PositionOf(s, s[i].parent)].id = s[i].parent
<1>1. /\ \A j \in 1..Len(s) : s[j].id \in Nat /\ s[j].parent \in Nat
      /\ Len(s) \in Nat
  <2>1. s \in Seq(Entry)
    BY DEF Grown
  <2>2. Len(s) \in Nat /\ \A j \in 1..Len(s) : s[j] \in Entry
    BY <2>1, ElementOfSeq, LenProperties
  <2> QED BY <2>2 DEF Entry
<1>2. \A j, k \in 1..Len(s) : s[j].id = s[k].id => j = k
  BY <1>1 DEF Grown
<1>3. PositionOf(s, s[i].id) = i
  BY <1>2 DEF PositionOf
<1>4. ASSUME s[i].parent \in IdsOf(s)
      PROVE  /\ PositionOf(s, s[i].parent) \in 1..i - 1
             /\ s[PositionOf(s, s[i].parent)].id = s[i].parent
  <2>1. PICK j \in 1..Len(s) : s[j].id = s[i].parent
    BY <1>4 DEF IdsOf
  <2>2. PositionOf(s, s[i].parent) = j
    BY <1>2, <2>1 DEF PositionOf
  <2>3. s[j].id < s[i].id
    BY <2>1 DEF Grown
  <2>4. j < i
    BY <1>1, <2>3 DEF Grown
  <2> QED BY <1>1, <2>1, <2>2, <2>4
<1>5. s[i].id \in IdsOf(s)
  BY DEF IdsOf
<1> QED BY <1>1, <1>3, <1>4, <1>5

\* The path of the entry at i, given those of the entries before it.
PathAt(f, s, i) ==
  {s[i].id} \cup (IF s[i].parent \in IdsOf(s) THEN f[PositionOf(s, s[i].parent)] ELSE {})

\* The paths of a log are defined by those of the parents.
LEMMA PathsExist ==
  ASSUME NEW s, NEW n, Grown(s, n)
  PROVE  \E f : f = [i \in 1..Len(s) |-> PathAt(f, s, i)]
<1> DEFINE Defined(k) == \E f : f = [i \in 1..k |-> PathAt(f, s, i)]
           Bad == {k \in 0..Len(s) : ~Defined(k)}
<1>1. Len(s) \in Nat
  BY LenProperties DEF Grown
<1>2. Defined(0)
  <2>1. [i \in 1..0 |-> {}] = [i \in 1..0 |-> PathAt([j \in 1..0 |-> {}], s, i)]
    OBVIOUS
  <2> QED BY <2>1
<1>3. ASSUME NEW k \in 1..Len(s), Defined(k - 1)
      PROVE  Defined(k)
  <2>1. PICK f : f = [i \in 1..k - 1 |-> PathAt(f, s, i)]
    BY <1>3
  <2> DEFINE g == [i \in 1..k |-> IF i = k THEN PathAt(f, s, k) ELSE f[i]]
  <2>2. \A i \in 1..k : PathAt(g, s, i) = PathAt(f, s, i)
    <3> SUFFICES ASSUME NEW i \in 1..k, s[i].parent \in IdsOf(s)
                 PROVE  g[PositionOf(s, s[i].parent)] = f[PositionOf(s, s[i].parent)]
      BY DEF PathAt
    <3>1. PositionOf(s, s[i].parent) \in 1..i - 1
      BY Positions
    <3> QED BY <3>1
  <2>3. \A i \in 1..k : g[i] = PathAt(f, s, i)
    BY <2>1
  <2>4. g = [i \in 1..k |-> PathAt(g, s, i)]
    BY <2>2, <2>3
  <2> QED BY <2>4
<1>4. Bad = {}
  <2> SUFFICES ASSUME Bad # {} PROVE FALSE
    OBVIOUS
  <2>1. PICK k \in Bad : \A j \in Bad : k <= j
    <3>1. Bad \in SUBSET Nat
      BY <1>1
    <3> HIDE DEF Bad
    <3> QED BY <3>1, Least
  <2> HIDE DEF Defined
  <2>2. k # 0 /\ k \in 1..Len(s)
    BY <1>2
  <2>3. k - 1 \notin Bad /\ k - 1 \in 0..Len(s)
    BY <1>1, <2>1, <2>2
  <2> QED BY <1>3, <2>2, <2>3
<1> QED BY <1>1, <1>4

\* The path of an entry is the path of its parent and the entry.
LEMMA PathUnfolds ==
  ASSUME NEW s, NEW n, Grown(s, n), NEW i \in 1..Len(s)
  PROVE  PathOf(s, s[i].id) =
           {s[i].id} \cup (IF s[i].parent \in IdsOf(s) THEN PathOf(s, s[i].parent) ELSE {})
<1> DEFINE up == CHOOSE f : f = [j \in 1..Len(s) |-> PathAt(f, s, j)]
<1>1. up = [j \in 1..Len(s) |-> PathAt(up, s, j)]
  BY PathsExist
<1>2. \A d : PathOf(s, d) = up[PositionOf(s, d)]
  BY DEF PathOf, PathAt
<1> HIDE DEF up
<1>3. PositionOf(s, s[i].id) = i
  BY Positions
<1> QED BY <1>1, <1>2, <1>3 DEF PathAt

\* The levels that the work list visits are defined by those before them.
BelowOf(s, S) == {s[i].id : i \in {j \in 1..Len(s) : s[j].parent \in S}}
LevelAt(f, s, root, d) == IF d = 0 THEN {root} ELSE f[d - 1] \cup BelowOf(s, f[d - 1])
Levels(f, s, root) == f = [d \in 0..Len(s) |-> LevelAt(f, s, root, d)]

\* The levels of the search for a branch are defined by those before, so there is such a function.
LEMMA LevelsExist ==
  ASSUME NEW s, Len(s) \in Nat, NEW root
  PROVE  \E f : Levels(f, s, root)
<1> DEFINE Defined(k) == \E f : f = [i \in 0..k |-> LevelAt(f, s, root, i)]
           Bad == {k \in 0..Len(s) : ~Defined(k)}
<1>2. Defined(0)
  <2>1. [i \in 0..0 |-> {root}] = [i \in 0..0 |-> LevelAt([j \in 0..0 |-> {root}], s, root, i)]
    BY DEF LevelAt
  <2> QED BY <2>1
<1>3. ASSUME NEW k \in 1..Len(s), Defined(k - 1)
      PROVE  Defined(k)
  <2>1. PICK f : f = [i \in 0..k - 1 |-> LevelAt(f, s, root, i)]
    BY <1>3
  <2> DEFINE g == [i \in 0..k |-> IF i = k THEN LevelAt(f, s, root, k) ELSE f[i]]
  <2>2. \A i \in 0..k : LevelAt(g, s, root, i) = LevelAt(f, s, root, i)
    <3>1. \A i \in 1..k : g[i - 1] = f[i - 1]
      OBVIOUS
    <3> HIDE DEF g
    <3>2. \A i \in 1..k : LevelAt(g, s, root, i) = LevelAt(f, s, root, i)
      BY <3>1 DEF LevelAt
    <3>3. LevelAt(g, s, root, 0) = LevelAt(f, s, root, 0)
      BY DEF LevelAt
    <3>4. \A i \in 0..k : i = 0 \/ i \in 1..k
      OBVIOUS
    <3> QED BY <3>2, <3>3, <3>4
  <2>3. \A i \in 0..k : g[i] = LevelAt(f, s, root, i)
    BY <2>1
  <2>4. g = [i \in 0..k |-> LevelAt(g, s, root, i)]
    BY <2>2, <2>3
  <2> QED BY <2>4
<1>4. Bad = {}
  <2> SUFFICES ASSUME Bad # {} PROVE FALSE
    OBVIOUS
  <2>1. PICK k \in Bad : \A j \in Bad : k <= j
    <3>1. Bad \in SUBSET Nat
      OBVIOUS
    <3> HIDE DEF Bad
    <3> QED BY <3>1, Least
  <2> HIDE DEF Defined
  <2>2. k # 0 /\ k \in 1..Len(s)
    BY <1>2
  <2>3. k - 1 \notin Bad /\ k - 1 \in 0..Len(s)
    BY <2>1, <2>2
  <2> QED BY <1>3, <2>2, <2>3
<1> QED BY <1>4 DEF Levels

\* Reachable is the last level.
LEMMA ReachableIs ==
  ASSUME NEW s, Len(s) \in Nat, NEW root
  PROVE  \E f : Levels(f, s, root) /\ Reachable(s, root) = f[Len(s)]
<1> DEFINE Below(S) == {s[i].id : i \in {j \in 1..Len(s) : s[j].parent \in S}}
           Step1(f) == [d \in 0..Len(s) |->
                          IF d = 0 THEN {root} ELSE f[d - 1] \cup Below(f[d - 1])]
           visited == CHOOSE f : f = Step1(f)
<1>1. Reachable(s, root) = visited[Len(s)]
  BY DEF Reachable
<1>2. ASSUME NEW f PROVE Levels(f, s, root) <=> f = Step1(f)
  BY DEF Levels, LevelAt, BelowOf
<1> HIDE DEF Step1
<1>3. PICK f : f = Step1(f)
  BY <1>2, LevelsExist
<1>4. visited = Step1(visited)
  BY <1>3
<1>5. Levels(visited, s, root)
  <2> HIDE DEF visited
  <2> QED BY <1>2, <1>4
<1> QED BY <1>1, <1>5

\* The first level is the root, the next ones go on from those before them.
LEMMA LevelUnfolds ==
  ASSUME NEW s, Len(s) \in Nat, NEW root, NEW f, Levels(f, s, root)
  PROVE  /\ f[0] = {root}
         /\ \A k \in 1..Len(s) : f[k] = f[k - 1] \cup BelowOf(s, f[k - 1])
<1>1. \A k \in 0..Len(s) : f[k] = LevelAt(f, s, root, k)
  BY DEF Levels
<1>2. f[0] = {root}
  <2>1. f[0] = LevelAt(f, s, root, 0)
    BY <1>1
  <2> QED BY <2>1 DEF LevelAt
<1>3. ASSUME NEW k \in 1..Len(s) PROVE f[k] = f[k - 1] \cup BelowOf(s, f[k - 1])
  <2>1. f[k] = LevelAt(f, s, root, k)
    BY <1>1
  <2> QED BY <2>1 DEF LevelAt
<1> QED BY <1>2, <1>3

\* A level keeps what the ones before it had.
LEMMA LevelsGrow ==
  ASSUME NEW s, Len(s) \in Nat, NEW root, NEW f, Levels(f, s, root),
         NEW k \in 0..Len(s), NEW j \in 0..k
  PROVE  f[j] \subseteq f[k]
<1> DEFINE Bad == {m \in j..Len(s) : ~(f[j] \subseteq f[m])}
<1>1. Bad = {}
  <2> SUFFICES ASSUME Bad # {} PROVE FALSE
    OBVIOUS
  <2>1. PICK m \in Bad : \A i \in Bad : m <= i
    <3>1. Bad \in SUBSET Nat
      OBVIOUS
    <3> HIDE DEF Bad
    <3> QED BY <3>1, Least
  <2>2. m # j /\ m \in 1..Len(s) /\ m - 1 \in j..Len(s)
    OBVIOUS
  <2>3. m - 1 \notin Bad
    BY <2>1, <2>2
  <2>4. f[j] \subseteq f[m - 1]
    BY <2>2, <2>3
  <2>5. f[m - 1] \subseteq f[m]
    BY <2>2 DEF Levels, LevelAt
  <2> QED BY <2>4, <2>5
<1> QED BY <1>1

\* What is below the root by the children has the root above it by the parents.
LEMMA ReachableHasPath ==
  ASSUME NEW s, NEW n, Grown(s, n), NEW root \in IdsOf(s), NEW x \in Reachable(s, root)
  PROVE  x \in IdsOf(s) /\ root \in PathOf(s, x)
<1>1. Len(s) \in Nat
  BY LenProperties DEF Grown
<1>2. PICK f : Levels(f, s, root) /\ Reachable(s, root) = f[Len(s)]
  BY <1>1, ReachableIs
<1> DEFINE Good(m) == \A y \in f[m] : y \in IdsOf(s) /\ root \in PathOf(s, y)
           Bad == {m \in 0..Len(s) : ~Good(m)}
<1>3. Good(0)
  <2>1. f[0] = {root}
    BY <1>1, <1>2, LevelUnfolds
  <2>2. PICK i \in 1..Len(s) : s[i].id = root
    BY DEF IdsOf
  <2>3. root \in PathOf(s, s[i].id)
    BY <2>2, PathUnfolds
  <2> QED BY <2>1, <2>2, <2>3
<1>4. ASSUME NEW m \in 1..Len(s), Good(m - 1) PROVE Good(m)
  <2>1. f[m] = f[m - 1] \cup BelowOf(s, f[m - 1])
    BY <1>1, <1>2, LevelUnfolds
  <2>2. ASSUME NEW y \in BelowOf(s, f[m - 1]) PROVE y \in IdsOf(s) /\ root \in PathOf(s, y)
    <3>1. PICK i \in 1..Len(s) : s[i].id = y /\ s[i].parent \in f[m - 1]
      BY DEF BelowOf
    <3>2. s[i].parent \in IdsOf(s) /\ root \in PathOf(s, s[i].parent)
      BY <1>4, <3>1
    <3>3. root \in PathOf(s, s[i].id)
      BY <3>2, PathUnfolds
    <3>4. s[i].id \in IdsOf(s)
      BY DEF IdsOf
    <3> QED BY <3>1, <3>3, <3>4
  <2> QED BY <1>4, <2>1, <2>2
<1>5. Bad = {}
  <2> SUFFICES ASSUME Bad # {} PROVE FALSE
    OBVIOUS
  <2>1. PICK k \in Bad : \A j \in Bad : k <= j
    <3>1. Bad \in SUBSET Nat
      BY <1>1
    <3> HIDE DEF Bad
    <3> QED BY <3>1, Least
  <2> HIDE DEF Good
  <2>2. k # 0 /\ k \in 1..Len(s)
    BY <1>3
  <2>3. k - 1 \notin Bad /\ k - 1 \in 0..Len(s)
    BY <1>1, <2>1, <2>2
  <2> QED BY <1>4, <2>2, <2>3
<1>6. Good(Len(s))
  <2> HIDE DEF Good
  <2> QED BY <1>1, <1>5
<1> QED BY <1>2, <1>6

\* What has the root above it by the parents is below the root by the children.
LEMMA PathIsReachable ==
  ASSUME NEW s, NEW n, Grown(s, n), NEW root \in IdsOf(s), NEW i \in 1..Len(s),
         root \in PathOf(s, s[i].id)
  PROVE  s[i].id \in Reachable(s, root)
<1>1. Len(s) \in Nat
  BY LenProperties DEF Grown
<1>2. PICK f : Levels(f, s, root) /\ Reachable(s, root) = f[Len(s)]
  BY <1>1, ReachableIs
<1> DEFINE Bad == {m \in 1..Len(s) : root \in PathOf(s, s[m].id) /\ s[m].id \notin f[m]}
<1>3. Bad = {}
  <2> SUFFICES ASSUME Bad # {} PROVE FALSE
    OBVIOUS
  <2>1. PICK k \in Bad : \A j \in Bad : k <= j
    <3>1. Bad \in SUBSET Nat
      BY <1>1
    <3> HIDE DEF Bad
    <3> QED BY <3>1, Least
  <2>2. k \in 1..Len(s) /\ root \in PathOf(s, s[k].id) /\ s[k].id \notin f[k]
    OBVIOUS
  <2>3. f[0] \subseteq f[k] /\ f[0] = {root}
    BY <1>1, <1>2, <2>2, LevelsGrow, LevelUnfolds
  <2>4. s[k].parent \in IdsOf(s) /\ root \in PathOf(s, s[k].parent)
    BY <2>2, <2>3, PathUnfolds
  <2>5. PICK p \in 1..k - 1 : s[p].id = s[k].parent
    BY <2>2, <2>4, Positions
  <2>6. p \in 1..Len(s) /\ p \notin Bad
    BY <1>1, <2>1, <2>2, <2>5
  <2>7. s[p].id \in f[p]
    BY <2>4, <2>5, <2>6
  <2>8. f[p] \subseteq f[k - 1]
    <3>1. k - 1 \in 0..Len(s) /\ p \in 0..k - 1
      BY <1>1, <2>2, <2>5
    <3> QED BY <1>1, <1>2, <3>1, LevelsGrow
  <2>9. f[k] = f[k - 1] \cup BelowOf(s, f[k - 1])
    BY <1>1, <1>2, <2>2, LevelUnfolds
  <2>10. s[k].id \in BelowOf(s, f[k - 1])
    BY <2>2, <2>5, <2>7, <2>8 DEF BelowOf
  <2> QED BY <2>2, <2>9, <2>10
<1>4. s[i].id \in f[i]
  BY <1>3
<1>5. f[i] \subseteq f[Len(s)]
  BY <1>1, <1>2, LevelsGrow
<1> QED BY <1>2, <1>4, <1>5

\* The head of a branch is its newest entry, by the parents.
LEMMA BranchHead ==
  ASSUME NEW s, NEW n, Grown(s, n), NEW root \in IdsOf(s)
  PROVE  \E i \in 1..Len(s) :
           /\ ResolveBranchHead(s, root) = s[i].id
           /\ root \in PathOf(s, s[i].id)
           /\ \A j \in i + 1..Len(s) : root \notin PathOf(s, s[j].id)
<1> DEFINE places == {i \in 1..Len(s) : s[i].id \in Reachable(s, root)}
<1>1. Len(s) \in Nat
  BY LenProperties DEF Grown
<1>2. places # {}
  <2>1. PICK i \in 1..Len(s) : s[i].id = root
    BY DEF IdsOf
  <2>2. root \in PathOf(s, s[i].id)
    BY <2>1, PathUnfolds
  <2> QED BY <2>1, <2>2, PathIsReachable
<1>3. \E i \in places : \A j \in places : j <= i
  BY <1>1, <1>2, Greatest
<1> DEFINE i == CHOOSE i \in places : \A j \in places : j <= i
<1>4. i \in places /\ \A j \in places : j <= i
  BY <1>3
<1>5. ResolveBranchHead(s, root) = s[i].id
  BY DEF ResolveBranchHead
<1> HIDE DEF i
<1>6. root \in PathOf(s, s[i].id)
  BY <1>4, ReachableHasPath
<1>7. ASSUME NEW j \in i + 1..Len(s) PROVE root \notin PathOf(s, s[j].id)
  <2>1. j \in 1..Len(s) /\ j \notin places
    BY <1>1, <1>4
  <2> QED BY <2>1, PathIsReachable
<1> QED BY <1>4, <1>5, <1>6, <1>7

\* An entry of the log, from its position.
LEMMA Grows ==
  ASSUME NEW s, NEW n \in Nat, Grown(s, n), NEW e \in Entry, e.id = n + 1,
         e.parent \in 0..n
  PROVE  /\ Grown(Append(s, e), n + 1)
         /\ Len(s) \in Nat /\ Len(Append(s, e)) = Len(s) + 1
         /\ \A i \in 1..Len(s) : Append(s, e)[i] = s[i]
         /\ Append(s, e)[Len(s) + 1] = e
         /\ IdsOf(Append(s, e)) = IdsOf(s) \cup {e.id}
<1> DEFINE t == Append(s, e)
<1>1. s \in Seq(Entry)
  BY DEF Grown
<1>2. t \in Seq(Entry) /\ Len(t) = Len(s) + 1 /\ Len(s) \in Nat
  BY <1>1, AppendProperties, LenProperties
<1>3. (\A i \in 1..Len(s) : t[i] = s[i]) /\ t[Len(s) + 1] = e
  BY <1>1, <1>2, AppendProperties
<1> HIDE DEF t
<1>4. \A i \in 1..Len(t) : i \in 1..Len(s) \/ i = Len(s) + 1
  BY <1>2
<1>5. IdsOf(t) = IdsOf(s) \cup {e.id}
  BY <1>2, <1>3, <1>4 DEF IdsOf
<1>6. \A i \in 1..Len(s) : s[i].id \in Nat /\ s[i].parent \in Nat /\ s[i].id <= n
  BY Positions DEF Grown
<1>7. e.parent \in Nat /\ e.parent <= n
  OBVIOUS
<1>8. Grown(t, n + 1)
  <2>1. ASSUME NEW i \in 1..Len(t)
        PROVE  t[i].parent < t[i].id /\ t[i].id <= n + 1
    <3>1. CASE i \in 1..Len(s)
      <4>1. s[i].parent < s[i].id
        BY <3>1 DEF Grown
      <4> QED BY <1>3, <1>5, <1>6, <3>1, <4>1
    <3>2. CASE i = Len(s) + 1
      BY <1>3, <1>5, <1>7, <3>2
    <3> QED BY <1>4, <3>1, <3>2
  <2>2. ASSUME NEW i \in 1..Len(t), NEW j \in 1..Len(t), i < j
        PROVE  t[i].id < t[j].id
    <3>1. i \in 1..Len(s)
      BY <1>2, <2>2
    <3>2. CASE j \in 1..Len(s)
      <4>1. s[i].id < s[j].id
        BY <2>2, <3>1, <3>2 DEF Grown
      <4> QED BY <1>3, <3>1, <3>2, <4>1
    <3>3. CASE j = Len(s) + 1
      BY <1>3, <1>6, <3>1, <3>3
    <3> QED BY <1>4, <3>2, <3>3
  <2> QED BY <1>2, <2>1, <2>2 DEF Grown
<1> QED BY <1>2, <1>3, <1>5, <1>8 DEF t

\* The paths and positions of what is in the log stay.
LEMMA PathsKept ==
  ASSUME NEW s, NEW n \in Nat, Grown(s, n), NEW e \in Entry, e.id = n + 1,
         e.parent \in 0..n, NEW x \in IdsOf(s)
  PROVE  /\ PositionOf(Append(s, e), x) = PositionOf(s, x)
         /\ PathOf(Append(s, e), x) = PathOf(s, x)
<1> DEFINE t == Append(s, e)
<1>1. /\ Grown(t, n + 1) /\ Len(s) \in Nat /\ Len(t) = Len(s) + 1
      /\ \A i \in 1..Len(s) : t[i] = s[i]
      /\ IdsOf(t) = IdsOf(s) \cup {e.id}
  BY Grows
<1> HIDE DEF t
<1>2. PICK k \in 1..Len(s) : s[k].id = x
  BY DEF IdsOf
<1>3. PositionOf(s, x) = k
  BY <1>2, Positions
<1>4. PositionOf(t, x) = k
  <2>1. k \in 1..Len(t) /\ t[k].id = x
    BY <1>1, <1>2
  <2> QED BY <1>1, <2>1, Positions
<1> DEFINE Bad == {i \in 1..Len(s) : PathOf(t, s[i].id) # PathOf(s, s[i].id)}
<1>5. Bad = {}
  <2> SUFFICES ASSUME Bad # {} PROVE FALSE
    OBVIOUS
  <2>1. PICK i \in Bad : \A j \in Bad : i <= j
    <3>1. Bad \in SUBSET Nat
      BY <1>1
    <3> HIDE DEF Bad
    <3> QED BY <3>1, Least
  <2>2. i \in 1..Len(s) /\ i \in 1..Len(t) /\ t[i] = s[i]
    BY <1>1
  <2>3. PathOf(s, s[i].id) =
          {s[i].id} \cup (IF s[i].parent \in IdsOf(s) THEN PathOf(s, s[i].parent) ELSE {})
    BY <2>2, PathUnfolds
  <2>4. PathOf(t, t[i].id) =
          {t[i].id} \cup (IF t[i].parent \in IdsOf(t) THEN PathOf(t, t[i].parent) ELSE {})
    BY <1>1, <2>2, PathUnfolds
  <2>5. s[i].parent \in IdsOf(t) <=> s[i].parent \in IdsOf(s)
    <3>1. s[i].parent < s[i].id /\ s[i].id <= n /\ s[i].id \in Nat /\ s[i].parent \in Nat
      BY <2>2, Positions DEF Grown
    <3>2. s[i].parent # e.id
      BY <3>1
    <3> QED BY <1>1, <3>2
  <2>6. ASSUME s[i].parent \in IdsOf(s)
        PROVE  PathOf(t, s[i].parent) = PathOf(s, s[i].parent)
    <3>1. PICK p \in 1..i - 1 : s[p].id = s[i].parent
      BY <2>2, <2>6, Positions
    <3>2. p \in 1..Len(s) /\ p \notin Bad
      BY <1>1, <2>1, <2>2, <3>1
    <3> QED BY <3>1, <3>2
  <2>7. PathOf(t, s[i].id) = PathOf(s, s[i].id)
    BY <2>2, <2>3, <2>4, <2>5, <2>6
  <2> QED BY <2>7
<1>6. PathOf(t, x) = PathOf(s, x)
  BY <1>2, <1>5
<1> QED BY <1>3, <1>4, <1>6 DEF t

\* The entry at i goes on from a descendant of its anchor, the newest there was.
StaysAt(s, i) ==
  /\ s[i].anchor \in PathOf(s, s[i].parent)
  /\ \A j \in PositionOf(s, s[i].parent) + 1..i - 1 :
       s[i].anchor \notin PathOf(s, s[j].id)

\* Every checkout of an anchor since the session was selected has a parent in the log, and
\* stays on its branch.
Checkouts(s) ==
  \A i \in Opened(s) + 1..Len(s) : s[i].kind = "checkout" /\ s[i].anchor # NoId =>
    s[i].parent \in IdsOf(s) /\ StaysAt(s, i)

\* The place of the newest selection is where there is none after it.
LEMMA OpenedIs ==
  ASSUME NEW s, Len(s) \in Nat
  PROVE  /\ Opened(s) \in 0..Len(s)
         /\ Opened(s) = 0 \/ s[Opened(s)].kind = "select"
         /\ \A j \in Opened(s) + 1..Len(s) : s[j].kind # "select"
         /\ \A k \in 0..Len(s) :
              /\ k = 0 \/ s[k].kind = "select"
              /\ \A j \in k + 1..Len(s) : s[j].kind # "select"
              => Opened(s) = k
<1> DEFINE selects == {i \in 1..Len(s) : s[i].kind = "select"}
           places == {0} \cup selects
           Last(k) == k \in places /\ \A j \in places : j <= k
<1>1. \E k : Last(k)
  <2>1. CASE selects = {}
    <3>1. places = {0}
      BY <2>1
    <3>2. Last(0)
      BY <3>1
    <3> QED BY <3>2
  <2>2. CASE selects # {}
    <3>1. selects \in SUBSET (1..Len(s))
      OBVIOUS
    <3>2. PICK m \in selects : \A k \in selects : k <= m
      <4> HIDE DEF selects
      <4> QED BY <2>2, <3>1, Greatest
    <3>3. m >= 0
      BY <3>2
    <3>4. Last(m)
      BY <3>2, <3>3
    <3> QED BY <3>4
  <2> QED BY <2>1, <2>2
<1>2. Last(Opened(s))
  <2>1. Opened(s) = CHOOSE k : Last(k)
    BY DEF Opened
  <2> HIDE DEF Last
  <2> QED BY <1>1, <2>1
<1>3. Opened(s) \in 0..Len(s)
  BY <1>2
<1>4. Opened(s) = 0 \/ s[Opened(s)].kind = "select"
  BY <1>2
<1>5. \A j \in Opened(s) + 1..Len(s) : s[j].kind # "select"
  BY <1>2, <1>3
<1>6. ASSUME NEW k \in 0..Len(s), k = 0 \/ s[k].kind = "select",
             \A j \in k + 1..Len(s) : s[j].kind # "select"
      PROVE  Opened(s) = k
  <2>1. k \in places
    BY <1>6
  <2>2. k <= Opened(s)
    BY <1>2, <2>1
  <2>3. ~(k < Opened(s))
    <3>1. ASSUME k < Opened(s) PROVE FALSE
      <4>1. Opened(s) \in k + 1..Len(s) /\ Opened(s) # 0
        BY <1>3, <3>1
      <4> QED BY <1>4, <1>6, <4>1
    <3> QED BY <3>1
  <2> QED BY <1>3, <2>2, <2>3
<1> QED BY <1>3, <1>4, <1>5, <1>6

\* An entry that is no selection leaves the place of the newest one where it is.
LEMMA OpenedAfter ==
  ASSUME NEW s, Len(s) \in Nat, NEW t, Len(t) = Len(s) + 1,
         \A i \in 1..Len(s) : t[i] = s[i]
  PROVE  Opened(t) = IF t[Len(t)].kind = "select" THEN Len(t) ELSE Opened(s)
<1>1. CASE t[Len(t)].kind = "select"
  <2>1. Len(t) \in 0..Len(t) /\ \A j \in Len(t) + 1..Len(t) : FALSE
    OBVIOUS
  <2>2. Len(t) \in Nat
    OBVIOUS
  <2> QED BY <1>1, <2>1, <2>2, OpenedIs
<1>2. CASE t[Len(t)].kind # "select"
  <2>1. PICK k \in 0..Len(s) : k = Opened(s)
    BY OpenedIs
  <2>2. k = 0 \/ s[k].kind = "select"
    BY <2>1, OpenedIs
  <2>3. k = 0 \/ t[k].kind = "select"
    BY <2>2
  <2>4. ASSUME NEW j \in k + 1..Len(t) PROVE t[j].kind # "select"
    <3>1. CASE j = Len(t)
      BY <1>2, <3>1
    <3>2. CASE j # Len(t)
      <4>1. j \in k + 1..Len(s) /\ j \in 1..Len(s)
        BY <3>2
      <4>2. s[j].kind # "select"
        BY <2>1, <4>1, OpenedIs
      <4> QED BY <4>1, <4>2
    <3> QED BY <3>1, <3>2
  <2>5. k \in 0..Len(t) /\ Len(t) \in Nat
    OBVIOUS
  <2>6. Opened(t) = k
    BY <2>3, <2>4, <2>5, OpenedIs
  <2> QED BY <1>2, <2>1, <2>6
<1> QED BY <1>1, <1>2

\* An entry that is no checkout of an anchor, or one of the newest entry of its
\* branch, leaves every checkout on its branch.
LEMMA CheckoutsKept ==
  ASSUME NEW s, NEW n \in Nat, Grown(s, n), Checkouts(s), NEW e \in Entry, e.id = n + 1,
         e.parent \in 0..n,
         \/ e.kind # "checkout" \/ e.anchor = NoId
         \/ e.anchor \in IdsOf(s) /\ e.parent = ResolveBranchHead(s, e.anchor)
  PROVE  Checkouts(Append(s, e))
<1> DEFINE t == Append(s, e)
<1>1. /\ Grown(t, n + 1) /\ Len(s) \in Nat /\ Len(t) = Len(s) + 1
      /\ \A i \in 1..Len(s) : t[i] = s[i]
      /\ t[Len(s) + 1] = e
      /\ IdsOf(t) = IdsOf(s) \cup {e.id}
  BY Grows
<1>2. \A x \in IdsOf(s) : PositionOf(t, x) = PositionOf(s, x) /\ PathOf(t, x) = PathOf(s, x)
  BY PathsKept
<1> HIDE DEF t
<1>3. \A k \in 1..Len(s) : /\ PositionOf(s, s[k].id) = k /\ s[k].id \in IdsOf(s)
  BY Positions
<1>o. Opened(s) \in 0..Len(s) /\ (Opened(t) = Opened(s) \/ Opened(t) = Len(t))
  <2>1. Opened(t) = IF t[Len(t)].kind = "select" THEN Len(t) ELSE Opened(s)
    BY <1>1, OpenedAfter
  <2> QED BY <1>1, <2>1, OpenedIs
<1>4. ASSUME NEW i \in Opened(s) + 1..Len(s), s[i].kind = "checkout", s[i].anchor # NoId
      PROVE  t[i].parent \in IdsOf(t) /\ StaysAt(t, i)
  <2>0. i \in 1..Len(s)
    BY <1>1, <1>o
  <2>1. s[i].parent \in IdsOf(s) /\ StaysAt(s, i)
    BY <1>4 DEF Checkouts
  <2>2. t[i] = s[i] /\ t[i].parent \in IdsOf(t)
    BY <1>1, <2>0, <2>1
  <2>3. t[i].anchor \in PathOf(t, t[i].parent)
    BY <1>2, <2>1, <2>2 DEF StaysAt
  <2>4. ASSUME NEW j \in PositionOf(t, t[i].parent) + 1..i - 1
        PROVE  t[i].anchor \notin PathOf(t, t[j].id)
    <3>1. PICK p \in 1..i - 1 : p = PositionOf(s, s[i].parent)
      BY <2>0, <2>1, Positions
    <3>2. j \in p + 1..i - 1
      BY <1>2, <2>1, <2>2, <3>1
    <3>3. j \in 1..Len(s)
      BY <1>1, <2>0, <3>2
    <3>4. s[i].anchor \notin PathOf(s, s[j].id)
      BY <2>1, <3>1, <3>2 DEF StaysAt
    <3> QED BY <1>1, <1>2, <1>3, <2>2, <3>3, <3>4
  <2> QED BY <2>2, <2>3, <2>4 DEF StaysAt
<1>5. ASSUME e.kind = "checkout", e.anchor # NoId
      PROVE  e.parent \in IdsOf(t) /\ StaysAt(t, Len(s) + 1)
  <2>1. PICK k \in 1..Len(s) :
           /\ e.parent = s[k].id
           /\ e.anchor \in PathOf(s, s[k].id)
           /\ \A j \in k + 1..Len(s) : e.anchor \notin PathOf(s, s[j].id)
    BY <1>5, BranchHead
  <2>2. PositionOf(t, e.parent) = k /\ PathOf(t, e.parent) = PathOf(s, e.parent)
    BY <1>2, <1>3, <2>1
  <2>3. ASSUME NEW j \in k + 1..Len(s) PROVE e.anchor \notin PathOf(t, t[j].id)
    <3>1. j \in 1..Len(s)
      BY <1>1
    <3> QED BY <1>1, <1>2, <1>3, <2>1, <3>1
  <2>4. Len(s) + 1 - 1 = Len(s)
    BY <1>1
  <2> QED BY <1>1, <1>3, <2>1, <2>2, <2>3, <2>4 DEF StaysAt
<1>6. \A i \in 1..Len(t) : i \in 1..Len(s) \/ i = Len(s) + 1
  BY <1>1
<1>7. Checkouts(t)
  <2> SUFFICES ASSUME NEW i \in Opened(t) + 1..Len(t),
                      t[i].kind = "checkout", t[i].anchor # NoId
               PROVE  t[i].parent \in IdsOf(t) /\ StaysAt(t, i)
    BY DEF Checkouts
  <2>0. i \in 1..Len(t) /\ Opened(t) = Opened(s)
    BY <1>1, <1>o
  <2>1. CASE i \in 1..Len(s)
    <3>1. i \in Opened(s) + 1..Len(s)
      BY <1>1, <1>o, <2>0, <2>1
    <3> QED BY <1>1, <1>4, <2>1, <3>1
  <2>2. CASE i = Len(s) + 1
    BY <1>1, <1>5, <2>2
  <2> QED BY <1>6, <2>0, <2>1, <2>2
<1> QED BY <1>7 DEF t

\* The total of the last usage entry, if there is one.
LEMMA LastUsage ==
  ASSUME NEW s \in Seq(Entry)
  PROVE  \/ (\A i \in 1..Len(s) : s[i].kind # "usage") /\ SessionUsage(s) = 0
         \/ \E i \in 1..Len(s) : /\ s[i].kind = "usage" /\ SessionUsage(s) = s[i].total
                                 /\ \A j \in i + 1..Len(s) : s[j].kind # "usage"
<1> DEFINE usages == {i \in 1..Len(s) : s[i].kind = "usage"}
<1>1. Len(s) \in Nat
  BY LenProperties
<1>2. CASE usages = {}
  BY <1>2 DEF SessionUsage
<1>3. CASE usages # {}
  <2>1. \E i \in usages : \A j \in usages : j <= i
    BY <1>1, <1>3, Greatest
  <2> DEFINE i == CHOOSE i \in usages : \A j \in usages : j <= i
  <2>2. i \in usages /\ \A j \in usages : j <= i
    BY <2>1
  <2>3. SessionUsage(s) = s[i].total
    BY <1>3 DEF SessionUsage
  <2> HIDE DEF i
  <2>4. \A j \in i + 1..Len(s) : s[j].kind # "usage"
    BY <1>1, <2>2
  <2> QED BY <2>2, <2>3, <2>4
<1> QED BY <1>2, <1>3

\* The usage of a session is a number.
LEMMA UsageIsNat ==
  ASSUME NEW s \in Seq(Entry)
  PROVE  SessionUsage(s) \in Nat
<1>1. \A i \in 1..Len(s) : s[i].total \in Nat
  <2>1. \A i \in 1..Len(s) : s[i] \in Entry
    BY ElementOfSeq, LenProperties
  <2> QED BY <2>1 DEF Entry
<1> QED BY <1>1, LastUsage

----------------------------------------------------------------------------
(* What the session needs of every step *)

\* A log whose newest entry records a selection.
Selected(s) == s # <<>> /\ s[Len(s)].kind = "select"

\* Every branch of the log is as its checkouts need it, and the head its newest entry;
\* the files, and the stores that are being opened, hold logs as they grow.
LogInv == /\ issued \in Nat /\ path \in Paths
          /\ Grown(log, issued) /\ HeadIsNewest /\ Checkouts(log)
FilesInv == /\ files \in [Paths -> Seq(Entry)]
            /\ \A p \in Paths : Grown(files[p], issued)
OpeningInv == /\ opening \in [Callers -> [path : Paths, log : Seq(Entry)]]
              /\ \A c \in Callers : /\ Grown(opening[c].log, issued)
                                    /\ pc[c] = "select_swap" => Selected(opening[c].log)
SessionInv == LogInv /\ FilesInv /\ OpeningInv

\* A log stays one when Uuids are drawn for others.
LEMMA GrownMore ==
  ASSUME NEW s, NEW n \in Nat, NEW m \in Nat, n <= m, Grown(s, n)
  PROVE  Grown(s, m) /\ s \in Seq(Entry) /\ Len(s) \in Nat
<1>1. \A i \in 1..Len(s) : s[i].id \in Nat
  BY Positions
<1> QED BY <1>1, LenProperties DEF Grown

\* Nothing is a log, without checkouts.
LEMMA EmptyGrown ==
  ASSUME NEW n PROVE Grown(<<>>, n) /\ Checkouts(<<>>) /\ <<>> \in Seq(Entry)
<1>1. <<>> \in Seq(Entry) /\ Len(<<>>) = 0
  BY EmptySeq
<1>2. Opened(<<>>) = 0
  BY <1>1, OpenedIs
<1> QED BY <1>1, <1>2 DEF Grown, Checkouts

\* The head is in the log, if anything is; ids are no greater than those drawn.
LEMMA HeadInLog ==
  ASSUME LogInv
  PROVE  /\ head \in IdsOf(log) \cup {NoId} /\ head \in Nat
         /\ \A x \in IdsOf(log) : x \in Nat /\ x <= issued
<1>1. log \in Seq(Entry) /\ Len(log) \in Nat /\ (log # <<>> => Len(log) \in 1..Len(log))
  <2>1. log \in Seq(Entry)
    BY DEF LogInv, Grown
  <2> QED BY <2>1, LenProperties, EmptySeq
<1>2. \A i \in 1..Len(log) : log[i].id \in Nat /\ log[i].id \in IdsOf(log) /\ log[i].id <= issued
  BY Positions DEF LogInv, Grown
<1> QED BY <1>1, <1>2 DEF LogInv, HeadIsNewest, LastId, IdsOf, NoId

\* The newest id of a log is 0 or one of those drawn.
LEMMA LastIdDrawn ==
  ASSUME NEW s, NEW n \in Nat, Grown(s, n) PROVE LastId(s) \in 0..n
<1>1. s \in Seq(Entry) /\ Len(s) \in Nat /\ (s # <<>> => Len(s) \in 1..Len(s))
  <2>1. s \in Seq(Entry)
    BY DEF Grown
  <2> QED BY <2>1, LenProperties, EmptySeq
<1>2. \A i \in 1..Len(s) : s[i].id \in Nat /\ s[i].id <= n
  BY Positions DEF Grown
<1> QED BY <1>1, <1>2 DEF LastId, NoId

\* A file that gets the entry for which the newest Uuid was drawn, or not.
LEMMA FileGrows ==
  ASSUME issued \in Nat, FilesInv, NEW p \in Paths, NEW e \in Entry,
         e.id = issued + 1, e.parent \in 0..issued, issued' = issued + 1,
         files' \in {files, [files EXCEPT ![p] = Append(@, e)]}
  PROVE  FilesInv'
<1>1. files \in [Paths -> Seq(Entry)] /\ \A q \in Paths : Grown(files[q], issued)
  BY DEF FilesInv
<1>2. Grown(Append(files[p], e), issued + 1)
  BY <1>1, Grows
<1>3. \A q \in Paths : Grown(files[q], issued + 1)
  BY <1>1, GrownMore
<1>4. Append(files[p], e) \in Seq(Entry)
  BY <1>2 DEF Grown
<1> QED BY <1>1, <1>2, <1>3, <1>4 DEF FilesInv

\* An entry under one of the log, and a checkout under the head of the branch.
LEMMA AppendUnderSession ==
  ASSUME LogInv, FilesInv, NEW parent \in IdsOf(log) \cup {NoId}, NEW kind \in Kind,
         kind # "select", NEW t \in Nat, NEW total \in Nat, NEW anchor \in Nat,
         \/ kind # "checkout" \/ anchor = NoId
         \/ anchor \in IdsOf(log) /\ parent = ResolveBranchHead(log, anchor),
         AppendUnder(parent, kind, t, total, anchor)
  PROVE  LogInv' /\ FilesInv'
<1> DEFINE e == [id |-> issued + 1, parent |-> parent, kind |-> kind,
                 turn |-> t, total |-> total, anchor |-> anchor]
<1>1. issued \in Nat /\ Grown(log, issued) /\ Checkouts(log)
  BY DEF LogInv
<1>2. parent \in 0..issued
  BY <1>1, HeadInLog DEF NoId
<1>3. /\ e \in Entry /\ e.id = issued + 1 /\ e.parent = parent
      /\ e.kind = kind /\ e.anchor = anchor
  BY <1>1, <1>2 DEF Entry
<1>4. log' = Append(log, e) /\ head' = e.id /\ issued' = issued + 1 /\ path' = path
  BY DEF AppendUnder
<1>f. files' \in {files, [files EXCEPT ![path] = Append(@, log'[Len(log')])]}
  BY DEF AppendUnder, InFile
<1> HIDE DEF e
<1>5. /\ Grown(Append(log, e), issued + 1) /\ Len(log) \in Nat
      /\ Len(Append(log, e)) = Len(log) + 1
      /\ Append(log, e)[Len(log) + 1] = e
  BY <1>1, <1>2, <1>3, Grows
<1>6. Checkouts(Append(log, e))
  BY <1>1, <1>2, <1>3, CheckoutsKept
<1>7. HeadIsNewest'
  <2>1. log' # <<>>
    BY <1>4, <1>5, EmptySeq
  <2> QED BY <1>4, <1>5, <2>1 DEF HeadIsNewest, LastId
<1>8. issued' \in Nat /\ Grown(log', issued') /\ Checkouts(log')
  BY <1>1, <1>4, <1>5, <1>6
<1>9. FilesInv'
  <2>1. log'[Len(log')] = e
    BY <1>4, <1>5
  <2> QED BY <1>1, <1>2, <1>3, <1>4, <1>f, <2>1, FileGrows DEF LogInv
<1> QED BY <1>4, <1>7, <1>8, <1>9 DEF LogInv

\* The turns are numbered.
LEMMA NextTurn ==
  ASSUME TypeOK, NEW c, Prompt(c)
  PROVE  counts'.turns \in Nat
<1>1. counts \in [turns : 0..MaxTurns, aborts : 0..MaxAborts, commands : 0..MaxCommands]
  BY DEF TypeOK
<1>2. counts' = [counts EXCEPT !.turns = @ + 1]
  BY DEF Prompt
<1> QED BY <1>1, <1>2, BoundsNat

\* The entry that records a selection.
LEMMA SelectionEntry ==
  ASSUME LogInv, FilesInv, OpeningInv, NEW c \in Callers, AppendSelection(c)
  PROVE  /\ FilesInv' /\ issued' = issued + 1
         /\ \/ opening' = [opening EXCEPT ![c] = NoStore] /\ pc' = [pc EXCEPT ![c] = "idle"]
            \/ \E e \in Entry : /\ opening' = [opening EXCEPT ![c].log = Append(@, e)]
                                /\ Grown(Append(opening[c].log, e), issued + 1)
                                /\ Selected(Append(opening[c].log, e))
<1> DEFINE s == opening[c]
           e == [id |-> issued + 1, parent |-> LastId(s.log), kind |-> "select",
                 turn |-> 0, total |-> 0, anchor |-> NoId]
<1>1. /\ issued \in Nat /\ s.path \in Paths /\ Grown(s.log, issued)
  BY DEF LogInv, OpeningInv
<1>2. LastId(s.log) \in 0..issued
  BY <1>1, LastIdDrawn
<1>3. /\ e \in Entry /\ e.id = issued + 1 /\ e.parent = LastId(s.log) /\ e.kind = "select"
  BY <1>1, <1>2 DEF Entry, Kind, NoId
<1>4. /\ issued' = issued + 1
      /\ files' \in {files, [files EXCEPT ![s.path] = Append(@, e)]}
      /\ \/ opening' = [opening EXCEPT ![c].log = Append(@, e)]
         \/ opening' = [opening EXCEPT ![c] = NoStore] /\ pc' = [pc EXCEPT ![c] = "idle"]
  BY DEF AppendSelection, Goto
<1> HIDE DEF e, s
<1>5. FilesInv'
  BY <1>1, <1>2, <1>3, <1>4, FileGrows
<1>6. Grown(Append(s.log, e), issued + 1) /\ Selected(Append(s.log, e))
  <2>1. /\ Grown(Append(s.log, e), issued + 1) /\ Len(s.log) \in Nat
        /\ Len(Append(s.log, e)) = Len(s.log) + 1
        /\ Append(s.log, e)[Len(s.log) + 1] = e
    BY <1>1, <1>2, <1>3, Grows
  <2> QED BY <1>3, <2>1, EmptySeq DEF Selected
<1> QED BY <1>3, <1>4, <1>5, <1>6 DEF s

\* No step of a turn, of an abort or of a session command takes a checkout off its
\* branch, or the head from its newest entry: those of the agent append, new_session
\* empties the log, and a store that takes the place of another was loaded from a file.
LEMMA NextLog ==
  ASSUME TypeOK, SessionInv, [Next]_vars
  PROVE  LogInv' /\ FilesInv'
<1>i. LogInv /\ FilesInv /\ OpeningInv
  BY DEF SessionInv
<1>a. /\ head \in IdsOf(log) \cup {NoId} /\ head \in Nat
      /\ \A x \in IdsOf(log) : x \in Nat
  BY <1>i, HeadInLog
<1>b. NoId \in Nat
  BY DEF NoId
<1>0. ASSUME UNCHANGED <<log, head, issued, path, files>> PROVE LogInv' /\ FilesInv'
  BY <1>0, <1>i DEF LogInv, FilesInv, HeadIsNewest
<1>1. ASSUME NEW kind \in Kind \ {"checkout", "select"}, NEW t \in Nat, NEW total \in Nat,
             AppendTurn(kind, t, total)
      PROVE  LogInv' /\ FilesInv'
  BY <1>1, <1>a, <1>b, <1>i, AppendUnderSession DEF AppendTurn
<1>2. ASSUME NEW c \in Callers, Prompt(c) PROVE LogInv' /\ FilesInv'
  <2>1. counts'.turns \in Nat
    BY <1>2, NextTurn
  <2>2. PICK n \in Nat : n = counts'.turns
    BY <2>1
  <2>3. AppendTurn("user", n, 0)
    BY <1>2, <2>2 DEF Prompt
  <2> QED BY <1>1, <2>3 DEF Kind
<1>3. ASSUME NEW c \in Callers, Abort(c) PROVE LogInv' /\ FilesInv'
  BY <1>0, <1>3 DEF Abort, session
<1>e. \A p \in Paths : files[p] \in Seq(Entry)
  BY <1>i DEF FilesInv
<1>f. ASSUME NEW s, Grown(s, issued), files' = [files EXCEPT ![path] = s], issued' = issued
      PROVE  FilesInv'
  BY <1>f, <1>i DEF FilesInv, LogInv, Grown
<1>4. ASSUME NEW c \in Callers, Step(c) PROVE LogInv' /\ FilesInv'
  <2>t. turn[c].no \in Nat /\ turn[c].total \in Nat
    BY DEF TypeOK
  <2>1. CASE CallTool(c)
    BY <1>0, <1>1, <2>1, <2>t DEF CallTool, Kind, session
  <2>2. CASE ReportUsage(c)
    <3>1. AppendTurn("usage", turn[c].no, turn[c].total + 1)
      BY <2>2 DEF ReportUsage, TypeOK
    <3> QED BY <1>1, <2>t, <3>1 DEF Kind
  <2>3. CASE StoreAssistant(c)
    BY <1>0, <1>1, <2>3, <2>t DEF StoreAssistant, Kind, session
  <2>4. CASE ReadUsage(c) \/ SetRunning(c) \/ Delta(c) \/ StreamEnds(c)
    BY <1>0, <2>4 DEF ReadUsage, SetRunning, Delta, StreamEnds, session
  <2>5. CASE CheckAbort(c) \/ SetIdle(c) \/ SetAborting(c) \/ SendAbort(c)
    BY <1>0, <2>5 DEF CheckAbort, SetIdle, SetAborting, SendAbort, session
  <2>6. CASE RenameCompacted(c)
    <3>1. Grown(log, issued)
      BY <1>i DEF LogInv
    <3>2. UNCHANGED <<log, head, path, issued>>
      BY <2>6 DEF RenameCompacted
    <3>3. CASE UNCHANGED files
      BY <1>0, <3>2, <3>3
    <3>4. CASE files' = [files EXCEPT ![path] = log]
      <4>1. FilesInv'
        BY <1>f, <3>1, <3>2, <3>4
      <4>2. LogInv'
        BY <1>i, <3>2 DEF LogInv, HeadIsNewest
      <4> QED BY <4>1, <4>2
    <3> QED BY <2>6, <3>3, <3>4 DEF RenameCompacted
  <2>7. CASE AppendSelection(c)
    <3>1. FilesInv' /\ issued' = issued + 1
      BY <1>i, <2>7, SelectionEntry
    <3>2. UNCHANGED <<log, head, path>>
      BY <2>7 DEF AppendSelection
    <3>3. Grown(log, issued + 1)
      BY <1>i, GrownMore DEF LogInv
    <3>4. LogInv'
      BY <1>i, <3>1, <3>2, <3>3 DEF LogInv, HeadIsNewest
    <3> QED BY <3>1, <3>4
  <2>8. CASE SwapStores(c)
    <3>1. /\ log' = opening[c].log /\ head' = LastId(log') /\ path' = opening[c].path
          /\ files' = files /\ issued' = issued /\ pc[c] = "select_swap"
      BY <2>8 DEF SwapStores
    <3>2. Grown(log', issued') /\ Selected(log') /\ path' \in Paths
      BY <1>i, <3>1 DEF OpeningInv
    <3>3. Checkouts(log')
      <4>1. PICK s : s = log'
        OBVIOUS
      <4>2. Len(s) \in Nat /\ s[Len(s)].kind = "select" /\ Grown(s, issued)
        BY <3>1, <3>2, <4>1, LenProperties DEF Grown, Selected
      <4>3. Opened(s) = Len(s)
        <5>1. Len(s) \in 0..Len(s) /\ \A j \in Len(s) + 1..Len(s) : FALSE
          BY <4>2
        <5> QED BY <4>2, <5>1, OpenedIs
      <4>4. Checkouts(s)
        BY <4>2, <4>3 DEF Checkouts
      <4> QED BY <4>1, <4>4
    <3>4. FilesInv'
      BY <1>i, <3>1 DEF FilesInv
    <3> QED BY <1>i, <3>1, <3>2, <3>3, <3>4 DEF LogInv, HeadIsNewest
  <2> QED BY <1>4, <2>1, <2>2, <2>3, <2>4, <2>5, <2>6, <2>7, <2>8
          DEF Step, ProviderEvent, OwnStep
<1>5. ASSUME NEW c \in Callers, NewSession(c) PROVE LogInv' /\ FilesInv'
  <2>1. /\ log' = <<>> /\ head' = NoId /\ issued' = issued /\ path' = path
        /\ files' = files \/ files' = [files EXCEPT ![path] = <<>>]
    BY <1>5 DEF NewSession
  <2>2. Grown(log', issued') /\ Checkouts(log')
    BY <2>1, EmptyGrown
  <2>3. LogInv'
    BY <1>i, <2>1, <2>2 DEF LogInv, HeadIsNewest, LastId
  <2>4. FilesInv'
    <3>1. CASE files' = files
      BY <1>i, <2>1, <3>1 DEF FilesInv
    <3>2. CASE files' = [files EXCEPT ![path] = <<>>]
      BY <1>f, <2>1, <3>2, EmptyGrown
    <3> QED BY <2>1, <3>1, <3>2
  <2> QED BY <2>3, <2>4
<1>6. ASSUME NEW c \in Callers, NEW id \in IdsOf(log), ForkSession(c, id)
      PROVE  LogInv' /\ FilesInv'
  BY <1>6, <1>b, <1>i, AppendUnderSession DEF ForkSession, Kind
<1>7. ASSUME NEW c \in Callers, NEW id \in IdsOf(log) \cup {NoId}, CheckoutBranchHead(c, id)
      PROVE  LogInv' /\ FilesInv'
  <2>1. CASE id = NoId
    <3>1. AppendUnder(head, "checkout", 0, 0, NoId)
      BY <1>7, <2>1 DEF CheckoutBranchHead
    <3> QED BY <1>a, <1>b, <1>i, <3>1, AppendUnderSession DEF Kind
  <2>2. CASE id # NoId
    <3>1. id \in IdsOf(log) /\ id \in Nat
      BY <1>a, <2>2
    <3>2. PICK target : target = ResolveBranchHead(log, id)
      OBVIOUS
    <3>3. target \in IdsOf(log)
      <4>1. Grown(log, issued)
        BY <1>i DEF LogInv
      <4>2. PICK i \in 1..Len(log) : ResolveBranchHead(log, id) = log[i].id
        BY <3>1, <4>1, BranchHead
      <4> QED BY <3>2, <4>2 DEF IdsOf
    <3>4. AppendUnder(target, "checkout", 0, 0, id)
      BY <1>7, <2>2, <3>2 DEF CheckoutBranchHead
    <3> QED BY <1>b, <1>i, <3>1, <3>2, <3>3, <3>4, AppendUnderSession DEF Kind
  <2> QED BY <2>1, <2>2
<1>8. ASSUME NEW c \in Callers, CompactSession(c) PROVE LogInv' /\ FilesInv'
  <2>1. /\ UNCHANGED <<log, head, path, issued>>
        /\ files' = [files EXCEPT ![path] = <<>>]
    BY <1>8 DEF CompactSession
  <2>2. FilesInv'
    BY <1>f, <2>1, EmptyGrown
  <2> QED BY <1>i, <2>1, <2>2 DEF LogInv, HeadIsNewest
<1>9. ASSUME NEW c \in Callers, NEW p \in Paths, SelectSessionPath(c, p)
      PROVE  LogInv' /\ FilesInv'
  BY <1>0, <1>9 DEF SelectSessionPath
<1>10. CASE UNCHANGED vars
  BY <1>0, <1>10 DEF vars, session
<1> QED BY <1>2, <1>3, <1>4, <1>5, <1>6, <1>7, <1>8, <1>9, <1>10 DEF Next

\* A store that is being opened is left alone by the steps of others.
LEMMA OpeningKept ==
  ASSUME SessionInv, LogInv', UNCHANGED opening, issued <= issued',
         \A c \in Callers : pc'[c] = "select_swap" => pc[c] = "select_swap"
  PROVE  OpeningInv'
<1>1. issued \in Nat /\ issued' \in Nat
  BY DEF SessionInv, LogInv
<1>2. /\ opening \in [Callers -> [path : Paths, log : Seq(Entry)]]
      /\ \A c \in Callers : /\ Grown(opening[c].log, issued)
                            /\ pc[c] = "select_swap" => Selected(opening[c].log)
  BY DEF SessionInv, OpeningInv
<1>3. \A c \in Callers : Grown(opening[c].log, issued')
  BY <1>1, <1>2, GrownMore
<1> QED BY <1>2, <1>3 DEF OpeningInv

\* A store that is being opened holds a log as it grows, and one that is about to take the
\* place of the other records that.
LEMMA NextOpening ==
  ASSUME TypeOK, SessionInv, LogInv', [Next]_vars
  PROVE  OpeningInv'
<1>i. LogInv /\ FilesInv /\ OpeningInv
  BY DEF SessionInv
<1>p. pc \in [Callers -> Pc] /\ issued \in Nat
  BY <1>i DEF TypeOK, LogInv
<1>o. /\ opening \in [Callers -> [path : Paths, log : Seq(Entry)]]
      /\ \A c \in Callers : /\ Grown(opening[c].log, issued)
                            /\ pc[c] = "select_swap" => Selected(opening[c].log)
  BY <1>i DEF OpeningInv
<1>n. NoStore \in [path : Paths, log : Seq(Entry)] /\ \A n : Grown(NoStore.log, n)
  BY FirstPathKnown, EmptyGrown DEF NoStore
<1>1. ASSUME NEW c \in Callers, NEW p \in Pc \ {"select_swap"}, Goto(c, p) \/ UNCHANGED pc,
             UNCHANGED opening, issued' \in {issued, issued + 1}
      PROVE  OpeningInv'
  <2>1. \A d \in Callers : pc'[d] = "select_swap" => pc[d] = "select_swap"
    BY <1>1, <1>p DEF Goto
  <2> QED BY <1>1, <1>p, <2>1, OpeningKept
<1>2. ASSUME NEW parent, NEW kind, NEW t, NEW total, NEW anchor,
             AppendUnder(parent, kind, t, total, anchor) \/ UNCHANGED session
      PROVE  UNCHANGED opening /\ issued' \in {issued, issued + 1}
  BY <1>2 DEF AppendUnder, session
<1>3. ASSUME NEW c \in Callers, Prompt(c) PROVE OpeningInv'
  <2>0. PICK n : n = counts'.turns
    OBVIOUS
  <2>1. AppendUnder(head, "user", n, 0, NoId)
    BY <1>3, <2>0 DEF Prompt, AppendTurn
  <2>2. Goto(c, "usage") \/ Goto(c, "idle")
    BY <1>3 DEF Prompt, StoredThen, Return
  <2> QED BY <1>1, <1>2, <2>1, <2>2 DEF Pc, TurnPc
<1>4. ASSUME NEW c \in Callers, Abort(c) PROVE OpeningInv'
  BY <1>1, <1>4 DEF Abort, session, Pc, AbortPc
<1>5. ASSUME NEW c \in Callers, Step(c) PROVE OpeningInv'
  <2>1. CASE CallTool(c)
    <3>1. UNCHANGED opening /\ issued' \in {issued, issued + 1}
      BY <1>2, <2>1 DEF CallTool, AppendTurn
    <3> QED BY <1>1, <2>1, <3>1 DEF CallTool, Pc, TurnPc
  <2>2. CASE ReportUsage(c)
    <3>1. UNCHANGED opening /\ issued' \in {issued, issued + 1}
      BY <1>2, <2>2 DEF ReportUsage, AppendTurn
    <3> QED BY <1>1, <2>2, <3>1 DEF ReportUsage, StoredThen, Return, Pc, TurnPc
  <2>3. CASE StoreAssistant(c)
    <3>1. UNCHANGED opening /\ issued' \in {issued, issued + 1}
      BY <1>2, <2>3 DEF StoreAssistant, AppendTurn
    <3> QED BY <1>1, <2>3, <3>1 DEF StoreAssistant, StoredThen, Return, Pc, TurnPc
  <2>4. CASE ReadUsage(c) \/ SetRunning(c) \/ Delta(c) \/ StreamEnds(c)
    BY <1>1, <2>4 DEF ReadUsage, SetRunning, Delta, StreamEnds, session, Pc, TurnPc
  <2>5. CASE CheckAbort(c) \/ SetIdle(c) \/ SetAborting(c) \/ SendAbort(c)
    BY <1>1, <2>5 DEF CheckAbort, SetIdle, SetAborting, SendAbort, Return, session,
                      Pc, TurnPc, AbortPc
  <2>6. CASE RenameCompacted(c)
    BY <1>1, <2>6 DEF RenameCompacted, Pc
  <2>7. CASE AppendSelection(c)
    <3>1. issued' = issued + 1 /\ issued' \in Nat
      BY <1>i, <1>p, <2>7, SelectionEntry
    <3>2. \A d \in Callers : Grown(opening[d].log, issued')
      BY <1>o, <1>p, <3>1, GrownMore
    <3>3. \A d \in Callers : d # c => pc'[d] = pc[d]
      BY <1>p, <2>7 DEF AppendSelection, Goto
    <3>4. CASE opening' = [opening EXCEPT ![c] = NoStore] /\ pc' = [pc EXCEPT ![c] = "idle"]
      BY <1>o, <1>n, <1>p, <3>2, <3>3, <3>4 DEF OpeningInv
    <3>5. ASSUME NEW e \in Entry, opening' = [opening EXCEPT ![c].log = Append(@, e)],
                 Grown(Append(opening[c].log, e), issued + 1),
                 Selected(Append(opening[c].log, e))
          PROVE  OpeningInv'
      <4>1. Append(opening[c].log, e) \in Seq(Entry)
        BY <3>5 DEF Grown
      <4>2. PICK s : s = Append(opening[c].log, e)
        OBVIOUS
      <4>3. /\ opening'[c].log = s
            /\ opening' \in [Callers -> [path : Paths, log : Seq(Entry)]]
            /\ \A d \in Callers : d # c => opening'[d] = opening[d]
        BY <1>o, <3>5, <4>1, <4>2
      <4> QED BY <1>o, <3>1, <3>2, <3>3, <3>5, <4>2, <4>3 DEF OpeningInv
    <3> QED BY <1>i, <2>7, <3>4, <3>5, SelectionEntry
  <2>8. CASE SwapStores(c)
    <3>1. /\ opening' = [opening EXCEPT ![c] = NoStore] /\ issued' = issued
          /\ pc' = [pc EXCEPT ![c] = "idle"]
      BY <2>8 DEF SwapStores, Goto
    <3> QED BY <1>o, <1>n, <1>p, <3>1 DEF OpeningInv
  <2> QED BY <1>5, <2>1, <2>2, <2>3, <2>4, <2>5, <2>6, <2>7, <2>8
          DEF Step, ProviderEvent, OwnStep
<1>6. ASSUME NEW c \in Callers, NewSession(c) PROVE OpeningInv'
  BY <1>1, <1>6 DEF NewSession, Pc
<1>7. ASSUME NEW c \in Callers, NEW id, ForkSession(c, id) \/ CheckoutBranchHead(c, id)
      PROVE  OpeningInv'
  <2>1. UNCHANGED pc
    BY <1>7 DEF ForkSession, CheckoutBranchHead
  <2>2. UNCHANGED opening /\ issued' \in {issued, issued + 1}
    <3>1. PICK parent, kind, anchor : AppendUnder(parent, kind, 0, 0, anchor)
      BY <1>7 DEF ForkSession, CheckoutBranchHead
    <3> QED BY <1>2, <3>1
  <2> QED BY <1>1, <2>1, <2>2 DEF Pc
<1>8. ASSUME NEW c \in Callers, CompactSession(c) PROVE OpeningInv'
  BY <1>1, <1>8 DEF CompactSession, Pc, SessionPc
<1>9. ASSUME NEW c \in Callers, NEW p \in Paths, SelectSessionPath(c, p) PROVE OpeningInv'
  <2>1. /\ opening' = [opening EXCEPT ![c] = [path |-> p, log |-> files[p]]]
        /\ issued' = issued /\ pc' = [pc EXCEPT ![c] = "select_append"]
    BY <1>9 DEF SelectSessionPath, Goto
  <2>2. files[p] \in Seq(Entry) /\ Grown(files[p], issued)
    BY <1>i DEF FilesInv
  <2> QED BY <1>o, <1>p, <2>1, <2>2 DEF OpeningInv
<1>10. CASE UNCHANGED vars
  BY <1>o, <1>10 DEF vars, session, OpeningInv
<1> QED BY <1>3, <1>4, <1>5, <1>6, <1>7, <1>8, <1>9, <1>10 DEF Next

\* The local variables of a turn.
TurnVars == [no : Nat, text : BOOLEAN, steps : Nat, total : Nat, late : Nat]

\* What a step leaves besides the session and the counts.
ControlOK ==
  /\ pc \in [Callers -> Pc]
  /\ turn \in [Callers -> TurnVars]
  /\ state \in {"Idle", "Running", "Aborting"}
  /\ stateLock \in Callers \cup {NoOne}
  /\ aborts \in 0..AbortCap

SessionTypes ==
  /\ log \in Seq(Entry) /\ head \in Nat /\ issued \in Nat
  /\ path \in Paths /\ files \in [Paths -> Seq(Entry)]
  /\ opening \in [Callers -> [path : Paths, log : Seq(Entry)]]

\* The type invariant in two parts: where each caller is, and what the session holds.
LEMMA TypeSplits ==
  TypeOK <=> /\ ControlOK
             /\ SessionTypes
             /\ counts \in [turns : 0..MaxTurns, aborts : 0..MaxAborts,
                            commands : 0..MaxCommands]
BY DEF TypeOK, ControlOK, SessionTypes, TurnVars

\* What a turn remembers keeps its type from one event to the next,
LEMMA AfterVars ==
  ASSUME NEW t \in TurnVars PROVE After(t) \in TurnVars
BY DEF After, TurnVars

\* and whether or not an entry could be stored.
LEMMA StoredVars ==
  ASSUME ControlOK, NEW c \in Callers, NEW p \in Pc, NEW t \in TurnVars,
         StoredThen(c, p, t)
  PROVE  pc' \in [Callers -> Pc] /\ turn' \in [Callers -> TurnVars]
<1>1. NoTurn \in TurnVars /\ "idle" \in Pc
  BY DEF NoTurn, TurnVars, Pc
<1> QED BY <1>1 DEF ControlOK, StoredThen, Return, Goto

\* Every step keeps the types of where each caller is.
LEMMA NextControl == TypeOK /\ [Next]_vars => ControlOK'
<1> SUFFICES ASSUME TypeOK, [Next]_vars PROVE ControlOK'
  OBVIOUS
<1>c. ControlOK
  BY TypeSplits
<1>n. NoTurn \in TurnVars
  BY DEF NoTurn, TurnVars
<1>p. /\ "idle" \in Pc /\ "usage" \in Pc /\ "start" \in Pc /\ "stream" \in Pc
      /\ "check" \in Pc /\ "assistant" \in Pc /\ "finish" \in Pc
      /\ "abort" \in Pc /\ "abort_send" \in Pc
      /\ "compact" \in Pc /\ "select_append" \in Pc /\ "select_swap" \in Pc
  BY DEF Pc, TurnPc, AbortPc, SessionPc
<1> USE DEF control
<1>0. ASSUME UNCHANGED <<pc, turn, control>> PROVE ControlOK'
  BY <1>0, <1>c DEF ControlOK
<1>1. ASSUME NEW c \in Callers, Prompt(c) PROVE ControlOK'
  <2>1. counts'.turns \in Nat
    BY <1>1, NextTurn
  <2>2. [NoTurn EXCEPT !.no = counts'.turns] \in TurnVars
    BY <2>1, <1>n DEF TurnVars
  <2> QED BY <1>1, <1>c, <1>p, <2>2, StoredVars DEF Prompt, ControlOK
<1>2. ASSUME NEW c \in Callers, Abort(c) PROVE ControlOK'
  BY <1>2, <1>c, <1>p DEF Abort, Goto, ControlOK
<1>3. ASSUME NEW c \in Callers, Step(c) PROVE ControlOK'
  <2>t. turn[c] \in TurnVars
    BY <1>c DEF ControlOK
  <2>1. CASE ReadUsage(c)
    <3>1. SessionUsage(log) \in Nat
      BY UsageIsNat DEF TypeOK
    <3> QED BY <2>1, <3>1, <1>c, <1>p DEF ReadUsage, Goto, ControlOK, TurnVars
  <2>2. CASE SetRunning(c)
    BY <2>2, <1>c, <1>p DEF SetRunning, Goto, ControlOK
  <2>3. CASE Delta(c)
    <3> DEFINE t == [turn[c] EXCEPT !.text = TRUE]
    <3>1. t \in TurnVars
      BY <2>t DEF TurnVars
    <3>2. turn' = [turn EXCEPT ![c] = After(t)] /\ Goto(c, "check") /\ UNCHANGED control
      BY <2>3 DEF Delta
    <3> HIDE DEF t
    <3> QED BY <3>1, <3>2, <1>c, <1>p, AfterVars DEF Goto, ControlOK
  <2>4. CASE CallTool(c)
    <3> DEFINE t == [turn[c] EXCEPT !.steps = @ + 1]
    <3>1. t \in TurnVars
      BY <2>t DEF TurnVars
    <3>2. turn' = [turn EXCEPT ![c] = After(t)] /\ Goto(c, "check") /\ UNCHANGED control
      BY <2>4 DEF CallTool
    <3> HIDE DEF t
    <3> QED BY <3>1, <3>2, <1>c, <1>p, AfterVars DEF Goto, ControlOK
  <2>5. CASE ReportUsage(c)
    <3> DEFINE u == [turn[c] EXCEPT !.steps = @ + 1]
               t == [u EXCEPT !.total = @ + 1]
    <3>0. u \in TurnVars
      BY <2>t DEF TurnVars
    <3>1. t \in TurnVars
      <4> HIDE DEF u
      <4> QED BY <3>0 DEF TurnVars
    <3>2. StoredThen(c, "check", After(t)) /\ UNCHANGED control
      BY <2>5 DEF ReportUsage
    <3> HIDE DEF t
    <3>3. After(t) \in TurnVars
      BY <3>1, AfterVars
    <3> QED BY <3>2, <3>3, <1>c, <1>p, StoredVars DEF ControlOK
  <2>6. CASE StreamEnds(c)
    <3>1. PICK text \in {TRUE, turn[c].text} :
            turn' = [turn EXCEPT ![c].text = text, ![c].late = 0]
      BY <2>6 DEF StreamEnds
    <3>2. text \in BOOLEAN
      BY <2>t DEF TurnVars
    <3> DEFINE t == [[turn[c] EXCEPT !.text = text] EXCEPT !.late = 0]
    <3>3. t \in TurnVars
      BY <2>t, <3>2 DEF TurnVars
    <3>4. turn' = [turn EXCEPT ![c] = t]
      BY <3>1, <1>c DEF ControlOK
    <3> HIDE DEF t
    <3> QED BY <2>6, <3>3, <3>4, <1>c, <1>p DEF StreamEnds, Goto, ControlOK
  <2>7. CASE CheckAbort(c)
    <3>1. [turn[c] EXCEPT !.late = 0] \in TurnVars
      BY <2>t DEF TurnVars
    <3>2. turn' \in [Callers -> TurnVars]
      BY <2>7, <3>1, <1>c DEF CheckAbort, ControlOK
    <3>3. aborts' \in 0..AbortCap
      BY <2>7, <1>c, AbortCapPositive DEF CheckAbort, ControlOK
    <3> QED BY <2>7, <3>2, <3>3, <1>c, <1>p DEF CheckAbort, Goto, ControlOK
  <2>8. CASE StoreAssistant(c)
    <3>1. pc' \in [Callers -> Pc] /\ turn' \in [Callers -> TurnVars]
      <4>1. CASE turn[c].text
        BY <2>8, <2>t, <4>1, <1>c, <1>p, StoredVars DEF StoreAssistant
      <4>2. CASE ~turn[c].text
        BY <2>8, <4>2, <1>c, <1>p DEF StoreAssistant, Goto, ControlOK
      <4> QED BY <4>1, <4>2
    <3> QED BY <2>8, <3>1, <1>c DEF StoreAssistant, ControlOK
  <2>9. CASE SetIdle(c)
    BY <2>9, <1>c, <1>n, <1>p DEF SetIdle, Return, Goto, ControlOK
  <2>10. CASE SetAborting(c)
    BY <2>10, <1>c, <1>p DEF SetAborting, Goto, ControlOK
  <2>11. CASE SendAbort(c)
    BY <2>11, <1>c, <1>p, AbortCapPositive DEF SendAbort, Goto, ControlOK
  <2>12. CASE RenameCompacted(c) \/ AppendSelection(c) \/ SwapStores(c)
    <3>1. PICK p \in {"idle", "select_swap"} : Goto(c, p)
      BY <2>12 DEF RenameCompacted, AppendSelection, SwapStores
    <3>2. UNCHANGED <<turn, control>>
      BY <2>12 DEF RenameCompacted, AppendSelection, SwapStores
    <3> QED BY <3>1, <3>2, <1>c, <1>p DEF Goto, ControlOK
  <2> QED BY <1>3, <2>1, <2>2, <2>3, <2>4, <2>5, <2>6, <2>7, <2>8, <2>9, <2>10, <2>11, <2>12
          DEF Step, ProviderEvent, OwnStep
<1>4. ASSUME NEW c \in Callers, Command(c), NEW p \in Pc, Goto(c, p) \/ UNCHANGED pc
      PROVE  ControlOK'
  BY <1>4, <1>c DEF Command, Goto, ControlOK
<1>6. ASSUME NEW c \in Callers, NEW p, CompactSession(c) \/ SelectSessionPath(c, p)
      PROVE  ControlOK'
  BY <1>4, <1>6, <1>p DEF CompactSession, SelectSessionPath
<1>7. ASSUME NEW c \in Callers, NEW id,
             NewSession(c) \/ ForkSession(c, id) \/ CheckoutBranchHead(c, id)
      PROVE  ControlOK'
  BY <1>4, <1>7, <1>p DEF NewSession, ForkSession, CheckoutBranchHead
<1>5. CASE UNCHANGED vars
  BY <1>0, <1>5 DEF vars
<1> QED
  BY <1>1, <1>2, <1>3, <1>5, <1>6, <1>7 DEF Next

\* The counts stay within the bounds that guard them.
LEMMA NextCounts ==
  TypeOK /\ [Next]_vars =>
    counts' \in [turns : 0..MaxTurns, aborts : 0..MaxAborts, commands : 0..MaxCommands]
<1> SUFFICES ASSUME TypeOK, [Next]_vars
             PROVE  counts' \in [turns : 0..MaxTurns, aborts : 0..MaxAborts,
                                 commands : 0..MaxCommands]
  OBVIOUS
<1>0. counts \in [turns : 0..MaxTurns, aborts : 0..MaxAborts, commands : 0..MaxCommands]
  BY DEF TypeOK
<1>1. ASSUME NEW c \in Callers, Prompt(c) \/ Abort(c) \/ Command(c)
      PROVE  counts' \in [turns : 0..MaxTurns, aborts : 0..MaxAborts,
                          commands : 0..MaxCommands]
  <2>1. CASE Prompt(c)
    <3>1. counts' = [counts EXCEPT !.turns = @ + 1] /\ counts.turns < MaxTurns
      BY <2>1 DEF Prompt
    <3> QED BY <1>0, <3>1, BoundsNat
  <2>2. CASE Abort(c)
    <3>1. counts' = [counts EXCEPT !.aborts = @ + 1] /\ counts.aborts < MaxAborts
      BY <2>2 DEF Abort
    <3> QED BY <1>0, <3>1, BoundsNat
  <2>3. CASE Command(c)
    <3>1. counts' = [counts EXCEPT !.commands = @ + 1] /\ counts.commands < MaxCommands
      BY <2>3 DEF Command
    <3> QED BY <1>0, <3>1, BoundsNat
  <2> QED BY <1>1, <2>1, <2>2, <2>3
<1>2. ASSUME NEW c \in Callers, Step(c) PROVE UNCHANGED counts
  BY <1>2 DEF Step, ReadUsage, SetRunning, Delta, CallTool, ReportUsage, StreamEnds,
              CheckAbort, StoreAssistant, SetIdle, SetAborting, SendAbort,
              ProviderEvent, OwnStep, RenameCompacted, AppendSelection, SwapStores
<1>3. CASE UNCHANGED vars
  BY <1>0, <1>3 DEF vars
<1> QED
  BY <1>0, <1>1, <1>2, <1>3 DEF Next, NewSession, ForkSession, CheckoutBranchHead,
                                CompactSession, SelectSessionPath

\* What SessionInv says of the types of the session.
LEMMA SessionTyped == SessionInv => SessionTypes
BY HeadInLog DEF SessionInv, LogInv, FilesInv, OpeningInv, SessionTypes, Grown

\* Init, and every step, of what the session needs.
LEMMA AgentInvariance == Spec => [](TypeOK /\ SessionInv)
<1>1. Init => TypeOK /\ SessionInv
  <2> SUFFICES ASSUME Init PROVE TypeOK /\ SessionInv
    OBVIOUS
  <2>1. LogInv
    BY FirstPathKnown, EmptyGrown DEF Init, LogInv, HeadIsNewest, LastId
  <2>2. FilesInv /\ OpeningInv
    BY FirstPathKnown, EmptyGrown DEF Init, FilesInv, OpeningInv, NoStore
  <2>3. SessionInv /\ SessionTypes
    BY <2>1, <2>2, SessionTyped DEF SessionInv
  <2>4. TypeOK
    BY <2>3, AbortCapPositive, BoundsNat DEF Init, TypeOK, SessionTypes, Pc, NoTurn
  <2> QED BY <2>3, <2>4
<1>2. TypeOK /\ SessionInv /\ [Next]_vars => (TypeOK /\ SessionInv)'
  <2> SUFFICES ASSUME TypeOK, SessionInv, [Next]_vars PROVE TypeOK' /\ SessionInv'
    OBVIOUS
  <2>1. SessionInv' /\ ControlOK'
    BY NextLog, NextOpening, NextControl DEF SessionInv
  <2>2. (SessionInv => SessionTypes)'
    BY SessionTyped, PTL
  <2>3. (TypeOK <=> /\ ControlOK
                    /\ SessionTypes
                    /\ counts \in [turns : 0..MaxTurns, aborts : 0..MaxAborts,
                                   commands : 0..MaxCommands])'
    BY TypeSplits, PTL
  <2> QED BY <2>1, <2>2, <2>3, NextCounts
<1> QED BY <1>1, <1>2, PTL DEF Spec

\* Every variable keeps its type.
THEOREM TypeCorrect == Spec => []TypeOK
BY AgentInvariance, PTL

\* The head is the newest entry, by however many callers the session is used, whatever
\* append returns and whichever file is selected.
THEOREM HeadNewest == Spec => []HeadIsNewest
<1>1. SessionInv => HeadIsNewest
  BY DEF SessionInv, LogInv
<1> QED BY <1>1, AgentInvariance, PTL

\* A checkout of an anchor goes on from the newest descendant of the anchor.
THEOREM CheckoutsStay == Spec => []CheckoutStaysOnBranch
<1>1. SessionInv => CheckoutStaysOnBranch
  BY DEF SessionInv, LogInv, Checkouts, StaysAt, CheckoutStaysOnBranch
<1> QED BY <1>1, AgentInvariance, PTL
=============================================================================
