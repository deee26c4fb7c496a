---------------------------- MODULE ToolExecProofs ----------------------------
(***************************************************************************)
(* Proofs about ToolExec, for any commands and any number of calls and of  *)
(* pieces of output: every variable keeps its type, a result shows the     *)
(* whole output or says that it is cut, and the file is what the calls say *)
(* it is as long as no command outlived its call and no write failed.      *)
(*                                                                         *)
(* None of the three is inductive.  The number of records needs that a     *)
(* call was counted before it began (Booked); the output needs what the    *)
(* waiting thread has found out by each of its steps (Waited); the file    *)
(* needs that only the command being waited for, or one that outlived its  *)
(* call, is alive (Accounted), and what a write in progress has taken from *)
(* the file and put into it so far (Written).                              *)
(***************************************************************************)
EXTENDS ToolExec, TLAPS

\* A call in progress has a record to come.
Booked == pc # "ready" => audit.calls < MaxCalls

\* What the waiting thread knows.
Waited ==
  \A c \in Command :
    /\ shell[c] = "none" => waiter[c] = "none"
    /\ waiter[c] \in {"reaping", "sending", "done"} =>
         /\ shell[c] \in {"exited", "reaped"}
         /\ kid[c] # "piped"
         /\ output[c] = printed[c]
    /\ waiter[c] \in {"sending", "done"} => shell[c] = "reaped"
    /\ result[c] \in {"ok", "failed"} =>
         /\ waiter[c] = "done"
         /\ shown[c].truncated = TooLong(c)
         /\ shown[c].stdout = IF TooLong(c) THEN MaxShown ELSE output[c].stdout
         /\ result[c] = "failed" => shown[c].error = output[c].stderr

\* Who may be alive.
Accounted ==
  /\ \A c \in Command : Alive(c) => c \in current \cup strays
  /\ \A c \in current : current = {c}
  /\ current # {} => pc \in {"recv", "kill"}

Clean == strays = {} /\ "tool.execution.error" \notin audit.rules

\* What the file holds at each step of a write that nobody disturbs.
Written ==
  Clean =>
    /\ pc \in {"ready", "recv", "kill", "open"} => file = said
    /\ pc = "open" /\ job.op = "edit" => job.marks = Replaced(said.marks)
    /\ pc = "write" /\ job.op = "edit" => job.marks = Replaced(said.marks)
    /\ pc = "write" /\ job.op = "append" => file = Text(said.marks)

IInv == TypeOK /\ Booked /\ Waited /\ Accounted /\ Written

----------------------------------------------------------------------------
(* Records and texts *)

\* There is a record free for a call that is in progress (lines 404-411).
LEMMA RecordTypes ==
  ASSUME TypeOK, audit.calls < MaxCalls, NEW rule \in Rule, Record(rule)
  PROVE  audit' \in [calls : 0..MaxCalls, rules : SUBSET Rule]
<1>1. audit.calls + 1 \in 0..MaxCalls
  BY BoundsNat DEF TypeOK
<1>2. audit.rules \cup {rule} \in SUBSET Rule
  BY DEF TypeOK
<1> QED
  BY <1>1, <1>2 DEF Record

\* A refusal has one of the rules (lines 545-641).
LEMMA RefusalRule == \A p \in Path : Refusal(p) \in Rule
BY DEF Refusal, Path, Rule

\* A text is a file.
LEMMA TextTypes == \A marks \in SUBSET Mark : Text(marks) \in File
BY DEF Text, File

\* What an edit makes of a text is a text (lines 614-627).
LEMMA ReplacedTypes == \A marks \in SUBSET Mark : Replaced(marks) \in SUBSET Mark
BY DEF Replaced, Mark

\* What is intended with a text is a text.
LEMMA IntendedTypes ==
  ASSUME job \in [op : Operation, marks : SUBSET Mark], NEW marks \in SUBSET Mark
  PROVE  Intended(marks) \in SUBSET Mark
<1>1. CASE job.op = "write"
  BY <1>1 DEF Intended
<1>2. CASE job.op = "append"
  BY <1>2 DEF Intended
<1>3. CASE job.op = "edit"
  BY <1>3, ReplacedTypes DEF Intended
<1> QED
  BY <1>1, <1>2, <1>3 DEF Operation

----------------------------------------------------------------------------
(* Types *)

\* A result that shows nothing is counted too.
LEMMA NothingTypes == Nothing \in Shown
BY BoundsNat DEF Nothing, Shown

\* Every variable has its type at the start.
LEMMA InitTypes == Init => TypeOK /\ Booked
<1> SUFFICES ASSUME Init PROVE TypeOK /\ Booked
  OBVIOUS
<1>1. job \in [op : Operation, marks : SUBSET Mark]
  BY DEF Init, NoJob, Operation
<1>2. Silence \in [Stream -> 0..MaxPrinted] /\ 0 \in 0..MaxCalls
  BY BoundsNat DEF Silence
<1>3. file \in File /\ said \in File
  <2>1. [there |-> FALSE, marks |-> {}] \in File
    BY DEF File
  <2>2. [there |-> TRUE, marks |-> {"from"}] \in File
    BY DEF File, Mark
  <2> QED
    BY <2>1, <2>2 DEF Init
<1>4. audit \in [calls : 0..MaxCalls, rules : SUBSET Rule]
  BY <1>2 DEF Init
<1>5. /\ printed \in [Command -> [Stream -> 0..MaxPrinted]]
      /\ output \in [Command -> [Stream -> 0..MaxPrinted]]
      /\ shown \in [Command -> Shown]
  BY <1>2, NothingTypes DEF Init
<1>6. shell \in [Command -> ShellState] /\ kid \in [Command -> KidState]
  BY DEF Init, ShellState, KidState
<1>7. waiter \in [Command -> WaiterState] /\ result \in [Command -> Result]
  BY DEF Init, WaiterState, Result
<1>8. code \in [Command -> BOOLEAN] /\ current \subseteq Command /\ strays \subseteq Command
  BY DEF Init
<1>9. pc = "ready"
  BY DEF Init
<1> QED
  BY <1>1, <1>3, <1>4, <1>5, <1>6, <1>7, <1>8, <1>9 DEF TypeOK, Booked, Pc

\* A call that ends without a write.
LEMMA EndTypes ==
  ASSUME TypeOK, Booked, Called, NEW rule \in Rule, EndWith(rule),
         UNCHANGED <<current, processes, waiting, returned, files, strays>>
  PROVE  TypeOK' /\ Booked'
<1>1. audit' \in [calls : 0..MaxCalls, rules : SUBSET Rule]
  BY RecordTypes DEF Called, EndWith
<1> QED
  BY <1>1 DEF TypeOK, Booked, Called, EndWith, processes, waiting, returned, files

\* A call that begins a write.
LEMMA BeginTypes ==
  ASSUME TypeOK, Booked, Called, NEW j \in [op : Operation, marks : SUBSET Mark], Begin(j),
         UNCHANGED <<current, processes, waiting, returned, files, strays>>
  PROVE  TypeOK' /\ Booked'
BY DEF TypeOK, Booked, Called, Begin, Pc, processes, waiting, returned, files

\* What a result shows is counted in pieces.
LEMMA SeenTypes == ASSUME TypeOK, NEW c \in Command PROVE Seen(c) \in Shown
<1>1. output[c].stdout \in 0..MaxPrinted /\ output[c].stderr \in 0..MaxPrinted
  BY DEF TypeOK, Stream
<1>2. TooLong(c) => MaxShown \in 0..MaxPrinted
  BY <1>1, BoundsNat DEF TooLong
<1>3. 0 \in 0..MaxPrinted /\ TooLong(c) \in BOOLEAN
  BY BoundsNat DEF TooLong
<1> QED
  BY <1>1, <1>2, <1>3 DEF Seen, Shown

\* A bash call that ends, with a record or without.
LEMMA LeaveTypes ==
  ASSUME TypeOK, Booked, pc # "ready", NEW c \in Command, NEW value \in Result,
         NEW seen \in Shown, Leave(c, value, seen), shell' \in [Command -> ShellState],
         Record("tool.allow") \/ UNCHANGED audit
  PROVE  TypeOK' /\ Booked'
<1>1. audit' \in [calls : 0..MaxCalls, rules : SUBSET Rule]
  BY RecordTypes DEF Booked, Rule, TypeOK
<1>2. result' \in [Command -> Result] /\ strays' \subseteq Command
  BY DEF TypeOK, Leave
<1>3. shown' \in [Command -> Shown]
  BY DEF TypeOK, Leave
<1> QED
  BY <1>1, <1>2, <1>3 DEF TypeOK, Booked, Leave, Pc, waiting, files

\* No step leaves the types.
LEMMA NextTypes == TypeOK /\ Booked /\ [Next]_vars => TypeOK' /\ Booked'
<1> SUFFICES ASSUME TypeOK, Booked, [Next]_vars PROVE TypeOK' /\ Booked'
  OBVIOUS
<1> USE DEF processes, waiting, returned, files
<1>1. ASSUME NEW rule \in Rule, ReadOnly(rule) PROVE TypeOK' /\ Booked'
  BY <1>1, EndTypes DEF ReadOnly, EndWith
<1>2. ASSUME NEW p \in Path, WriteFile(p) PROVE TypeOK' /\ Booked'
  <2>1. CASE EndWith("tool.execution.error")
    BY <1>2, <2>1, EndTypes DEF WriteFile, Rule
  <2>2. CASE EndWith(Refusal(p))
    BY <1>2, <2>2, EndTypes, RefusalRule DEF WriteFile
  <2>3. ASSUME NEW op \in {"write", "append"}, Begin([op |-> op, marks |-> {"from"}])
        PROVE  TypeOK' /\ Booked'
    BY <1>2, <2>3, BeginTypes DEF WriteFile, Operation, Mark
  <2> QED
    BY <1>2, <2>1, <2>2, <2>3 DEF WriteFile
<1>3. ASSUME NEW p \in Path, EditFile(p) PROVE TypeOK' /\ Booked'
  <2>1. CASE \E rule \in Rule : EndWith(rule)
    BY <1>3, <2>1, EndTypes DEF EditFile
  <2>2. CASE Begin([op |-> "edit", marks |-> Replaced(file.marks)])
    <3>1. Replaced(file.marks) \in SUBSET Mark
      BY ReplacedTypes DEF TypeOK, File
    <3> QED
      BY <1>3, <2>2, <3>1, BeginTypes DEF EditFile, Operation
  <2>3. CASE Refusal(p) # "tool.allow"
    BY <1>3, <2>1, <2>3, RefusalRule DEF EditFile
  <2>4. CASE Refusal(p) = "tool.allow" /\ ~file.there
    BY <1>3, <2>1, <2>4 DEF EditFile, Rule
  <2>5. CASE Refusal(p) = "tool.allow" /\ file.there
    BY <1>3, <2>1, <2>2, <2>5 DEF EditFile, Rule
  <2> QED
    BY <2>3, <2>4, <2>5
<1>4. CASE OpenFile
  <2>1. file' \in File
    BY <1>4, TextTypes DEF OpenFile, TypeOK, File
  <2> QED
    BY <1>4, <2>1 DEF OpenFile, TypeOK, Booked, Pc
<1>5. CASE WriteText
  <2>1. file' \in File
    BY <1>5, TextTypes DEF WriteText, TypeOK, File
  <2>2. said' \in File
    BY <1>5, TextTypes, IntendedTypes DEF WriteText, TypeOK, File
  <2>3. audit' \in [calls : 0..MaxCalls, rules : SUBSET Rule]
    BY <1>5, RecordTypes DEF WriteText, Booked, Rule
  <2>4. job' \in [op : Operation, marks : SUBSET Mark]
    BY <1>5 DEF WriteText, NoJob, Operation
  <2> QED
    BY <1>5, <2>1, <2>2, <2>3, <2>4 DEF WriteText, TypeOK, Booked, Pc
<1>6. CASE WriteFails
  <2>1. audit' \in [calls : 0..MaxCalls, rules : SUBSET Rule]
    BY <1>6, RecordTypes DEF WriteFails, Booked, Rule
  <2>2. job' \in [op : Operation, marks : SUBSET Mark]
    BY <1>6 DEF WriteFails, NoJob, Operation
  <2> QED
    BY <1>6, <2>1, <2>2 DEF WriteFails, TypeOK, Booked, Pc
<1>7. ASSUME NEW c \in Command, RunBash(c) PROVE TypeOK' /\ Booked'
  BY <1>7 DEF RunBash, Called, TypeOK, Booked, Pc, ShellState, WaiterState
<1>8. ASSUME NEW c \in Command, Receive(c) PROVE TypeOK' /\ Booked'
  <2>1. pc # "ready" /\ shell' \in [Command -> ShellState]
    BY <1>8 DEF Receive, TypeOK
  <2>2. ASSUME NEW value \in {"ok", "failed"}, Return(c, value, Seen(c))
        PROVE  TypeOK' /\ Booked'
    BY <2>1, <2>2, LeaveTypes, SeenTypes DEF Return, Result
  <2>3. CASE Leave(c, "panicked", Nothing) /\ UNCHANGED audit
    BY <2>1, <2>3, LeaveTypes, NothingTypes DEF Result
  <2> QED
    BY <1>8, <2>2, <2>3 DEF Receive
<1>9. ASSUME NEW c \in Command, TimeOut(c) PROVE TypeOK' /\ Booked'
  BY <1>9 DEF TimeOut, TypeOK, Booked, Pc
<1>10. ASSUME NEW c \in Command, Kill(c) PROVE TypeOK' /\ Booked'
  <2>1. shell' \in [Command -> ShellState]
    BY <1>10 DEF Kill, TypeOK, ShellState
  <2> QED
    BY <1>10, <2>1, LeaveTypes, NothingTypes DEF Kill, Return, Result
<1>11. ASSUME NEW c \in Command, EndOfOutput(c) PROVE TypeOK' /\ Booked'
  BY <1>11 DEF EndOfOutput, TypeOK, Booked, WaiterState
<1>12. ASSUME NEW c \in Command, Reap(c) PROVE TypeOK' /\ Booked'
  BY <1>12 DEF Reap, TypeOK, Booked, ShellState, WaiterState
<1>13. ASSUME NEW c \in Command, SendOutput(c) PROVE TypeOK' /\ Booked'
  BY <1>13 DEF SendOutput, TypeOK, Booked, WaiterState
<1>14. ASSUME NEW c \in Command, CommandStep(c) PROVE TypeOK' /\ Booked'
  <2>0. (\E s \in Stream : PrintPiece(c, s)) => UNCHANGED <<shell, code, kid, file, said>>
    BY DEF PrintPiece
  <2>1. shell' \in [Command -> ShellState] /\ code' \in [Command -> BOOLEAN]
    <3>1. CASE ShellEnds(c)
      BY <3>1 DEF ShellEnds, TypeOK, ShellState
    <3>2. CASE ~ShellEnds(c)
      <4>1. UNCHANGED <<shell, code>>
        BY <1>14, <2>0, <3>2 DEF CommandStep, Fork, Detach, KidEnds, AppendMark
      <4> QED
        BY <4>1 DEF TypeOK
    <3> QED
      BY <3>1, <3>2
  <2>2. kid' \in [Command -> KidState]
    BY <1>14, <2>0 DEF CommandStep, Fork, Detach, KidEnds, ShellEnds, AppendMark,
                       TypeOK, KidState
  <2>3. printed' \in [Command -> [Stream -> 0..MaxPrinted]]
    <3>1. ASSUME NEW s \in Stream, PrintPiece(c, s)
          PROVE  printed' \in [Command -> [Stream -> 0..MaxPrinted]]
      <4>1. printed[c][s] + 1 \in 0..MaxPrinted
        BY <3>1, BoundsNat DEF PrintPiece, TypeOK
      <4>2. [printed[c] EXCEPT ![s] = @ + 1] \in [Stream -> 0..MaxPrinted]
        BY <4>1 DEF TypeOK
      <4> QED
        BY <3>1, <4>2 DEF PrintPiece, TypeOK
    <3>2. CASE ~\E s \in Stream : PrintPiece(c, s)
      BY <1>14, <3>2 DEF CommandStep, Fork, Detach, KidEnds, ShellEnds, AppendMark, TypeOK
    <3> QED
      BY <3>1, <3>2
  <2>4. file' \in File /\ said' \in File
    <3>1. CASE AppendMark(c)
      <4>1. file.marks \cup {c} \in SUBSET Mark /\ said.marks \cup {c} \in SUBSET Mark
        BY DEF TypeOK, File, Mark
      <4> QED
        BY <3>1, <4>1, TextTypes DEF AppendMark
    <3>2. CASE ~AppendMark(c)
      <4>1. UNCHANGED <<file, said>>
        BY <1>14, <2>0, <3>2 DEF CommandStep, Fork, Detach, KidEnds, ShellEnds
      <4> QED
        BY <4>1 DEF TypeOK
    <3> QED
      BY <3>1, <3>2
  <2> QED
    BY <1>14, <2>1, <2>2, <2>3, <2>4 DEF CommandStep, TypeOK, Booked
<1>15. CASE UNCHANGED vars
  BY <1>15 DEF vars, TypeOK, Booked
<1> QED
  BY <1>1, <1>2, <1>3, <1>4, <1>5, <1>6, <1>7, <1>8, <1>9, <1>10, <1>11, <1>12, <1>13,
     <1>14, <1>15
  DEF Next, Thread, Waiter

\* Every variable keeps its type: no order of calls, timeouts and processes makes
\* more records than calls.
THEOREM TypeCorrect == Spec => []TypeOK
<1>1. TypeOK /\ Booked /\ [Next]_vars => (TypeOK /\ Booked)'
  BY NextTypes
<1> QED
  BY InitTypes, <1>1, PTL DEF Spec

----------------------------------------------------------------------------
(* What the waiting thread knows *)

\* The two threads and the processes of a command keep it, in whatever order they go:
\* once the shell is gone nobody forks, and what is let go of is not taken again.
LEMMA NextWaited == TypeOK /\ Waited /\ [Next]_vars => Waited'
<1> SUFFICES ASSUME TypeOK, Waited, [Next]_vars PROVE Waited'
  OBVIOUS
<1> USE DEF processes, waiting, returned, TooLong
<1>0. ASSUME UNCHANGED <<processes, waiting, returned>> PROVE Waited'
  BY <1>0 DEF Waited
<1>1. ASSUME NEW rule \in Rule, ReadOnly(rule) PROVE Waited'
  BY <1>0, <1>1 DEF ReadOnly
<1>2. ASSUME NEW p \in Path, WriteFile(p) \/ EditFile(p) PROVE Waited'
  BY <1>0, <1>2 DEF WriteFile, EditFile
<1>3. CASE OpenFile \/ WriteText \/ WriteFails
  BY <1>0, <1>3 DEF OpenFile, WriteText, WriteFails
<1>4. ASSUME NEW c \in Command, RunBash(c) PROVE Waited'
  BY <1>4 DEF RunBash, TypeOK, Waited
<1>l. ASSUME NEW c \in Command, NEW value, NEW seen, Leave(c, value, seen),
             shell' = shell \/ shell' = [shell EXCEPT ![c] = IF @ = "running" THEN "exited" ELSE @],
             value \in {"ok", "failed"} =>
               /\ waiter[c] = "done"
               /\ seen.truncated = TooLong(c)
               /\ seen.stdout = IF TooLong(c) THEN MaxShown ELSE output[c].stdout
               /\ value = "failed" => seen.error = output[c].stderr
      PROVE  Waited'
  <2> SUFFICES ASSUME NEW d \in Command PROVE Waited!(d)'
    BY DEF Waited
  <2>1. Waited!(d)
    BY DEF Waited
  <2>2. UNCHANGED <<waiter, output, printed, kid>>
    BY <1>l DEF Leave
  <2>3. /\ shell'[d] = "none" <=> shell[d] = "none"
        /\ shell[d] \in {"exited", "reaped"} => shell'[d] = shell[d]
    BY <1>l DEF TypeOK
  <2>4. CASE d = c
    <3>1. result'[d] = value /\ shown'[d] = seen
      BY <1>l, <2>4 DEF Leave, TypeOK
    <3> QED
      BY <1>l, <2>1, <2>2, <2>3, <2>4, <3>1
  <2>5. CASE d # c
    <3>1. result'[d] = result[d] /\ shown'[d] = shown[d]
      BY <1>l, <2>5 DEF Leave, TypeOK
    <3> QED
      BY <2>1, <2>2, <2>3, <3>1
  <2> QED
    BY <2>4, <2>5
<1>5. ASSUME NEW c \in Command, Receive(c) PROVE Waited'
  <2>1. waiter[c] = "done" /\ shell' = shell
    BY <1>5 DEF Receive
  <2>2. /\ Seen(c).truncated = TooLong(c)
        /\ Seen(c).stdout = IF TooLong(c) THEN MaxShown ELSE output[c].stdout
        /\ ~code[c] => Seen(c).error = output[c].stderr
    BY DEF Seen
  <2>3. CASE Return(c, "ok", Seen(c))
    BY <1>l, <2>1, <2>2, <2>3 DEF Return
  <2>4. CASE ~code[c] /\ Return(c, "failed", Seen(c))
    BY <1>l, <2>1, <2>2, <2>4 DEF Return
  <2>5. CASE Leave(c, "panicked", Nothing)
    BY <1>l, <2>1, <2>5
  <2> QED
    BY <1>5, <2>3, <2>4, <2>5 DEF Receive
<1>6. ASSUME NEW c \in Command, TimeOut(c) PROVE Waited'
  BY <1>0, <1>6 DEF TimeOut
<1>7. ASSUME NEW c \in Command, Kill(c) PROVE Waited'
  BY <1>7, <1>l DEF Kill, Return
<1>8. ASSUME NEW c \in Command, EndOfOutput(c) PROVE Waited'
  BY <1>8 DEF EndOfOutput, TypeOK, Waited, ShellState
<1>9. ASSUME NEW c \in Command, Reap(c) PROVE Waited'
  BY <1>9 DEF Reap, TypeOK, Waited
<1>10. ASSUME NEW c \in Command, SendOutput(c) PROVE Waited'
  BY <1>10 DEF SendOutput, TypeOK, Waited
<1>11. ASSUME NEW c \in Command, CommandStep(c) PROVE Waited'
  <2>1. CASE Fork(c)
    BY <1>11, <2>1 DEF CommandStep, Fork, TypeOK, Waited
  <2>2. CASE Detach(c)
    BY <1>11, <2>2 DEF CommandStep, Detach, TypeOK, Waited
  <2>3. CASE KidEnds(c)
    BY <1>11, <2>3 DEF CommandStep, KidEnds, TypeOK, Waited
  <2>4. CASE ShellEnds(c)
    BY <1>11, <2>4 DEF CommandStep, ShellEnds, TypeOK, Waited
  <2>5. ASSUME NEW s \in Stream, PrintPiece(c, s) PROVE Waited'
    <3>1. \A d \in Command : d # c => printed'[d] = printed[d]
      BY <2>5 DEF PrintPiece, TypeOK
    <3>2. waiter[c] \notin {"reaping", "sending", "done"}
      BY <2>5 DEF PrintPiece, Waited
    <3> QED
      BY <1>11, <2>5, <3>1, <3>2 DEF CommandStep, PrintPiece, Waited
  <2>6. CASE AppendMark(c)
    BY <1>0, <1>11, <2>6 DEF CommandStep, AppendMark
  <2> QED
    BY <1>11, <2>1, <2>2, <2>3, <2>4, <2>5, <2>6 DEF CommandStep
<1>12. CASE UNCHANGED vars
  BY <1>0, <1>12 DEF vars
<1> QED
  BY <1>1, <1>2, <1>3, <1>4, <1>5, <1>6, <1>7, <1>8, <1>9, <1>10, <1>11, <1>12
  DEF Next, Thread, Waiter

\* A result shows the whole output of a command that is over, or as much of it as the
\* policy allows and that it is cut: there is no order of the end of the shell, of its
\* descendants, of the reading and of the timeout in which it does not.
THEOREM OutputWhole == Spec => []OutputIsWhole
<1>1. Init => Waited
  BY DEF Init, Waited
<1>2. TypeOK /\ Waited => OutputIsWhole
  <2> SUFFICES ASSUME TypeOK, Waited, NEW c \in Command, result[c] \in {"ok", "failed"}
               PROVE  OutputIsWhole!(c)!2
    BY DEF OutputIsWhole
  <2>1. Waited!(c) /\ output[c] = printed[c]
    BY DEF Waited
  <2> QED
    BY <2>1 DEF TooLong, Waited
<1>3. TypeOK /\ TypeOK' /\ Waited /\ [Next]_vars => Waited'
  BY NextWaited
<1> QED
  BY TypeCorrect, <1>1, <1>2, <1>3, PTL DEF Spec

----------------------------------------------------------------------------
(* Who may be alive, and what the file holds *)

\* Processes do not come to life unaccounted for.
LEMMA NextAccounted == TypeOK /\ Accounted /\ [Next]_vars => Accounted'
<1> SUFFICES ASSUME TypeOK, Accounted, [Next]_vars PROVE Accounted'
  OBVIOUS
<1> USE DEF processes, waiting, returned
<1>0. ASSUME UNCHANGED <<current, shell, kid, strays>>, current # {} => UNCHANGED pc
      PROVE  Accounted'
  BY <1>0 DEF Accounted, Alive
<1>1. ASSUME NEW rule \in Rule, ReadOnly(rule) PROVE Accounted'
  BY <1>0, <1>1 DEF ReadOnly
<1>2. ASSUME NEW p \in Path, WriteFile(p) \/ EditFile(p) PROVE Accounted'
  BY <1>0, <1>2 DEF WriteFile, EditFile, Called, Accounted
<1>3. CASE OpenFile \/ WriteText \/ WriteFails
  BY <1>0, <1>3 DEF OpenFile, WriteText, WriteFails, Accounted
<1>4. ASSUME NEW c \in Command, RunBash(c) PROVE Accounted'
  BY <1>4 DEF RunBash, Called, TypeOK, Accounted, Alive
<1>5. ASSUME NEW c \in Command, Receive(c) PROVE Accounted'
  BY <1>5 DEF Receive, Return, Leave, Accounted, Alive
<1>6. ASSUME NEW c \in Command, TimeOut(c) PROVE Accounted'
  BY <1>6 DEF TimeOut, Accounted, Alive
<1>7. ASSUME NEW c \in Command, Kill(c) PROVE Accounted'
  BY <1>7 DEF Kill, Return, Leave, TypeOK, Accounted, Alive
<1>8. ASSUME NEW c \in Command, EndOfOutput(c) \/ SendOutput(c) PROVE Accounted'
  BY <1>0, <1>8 DEF EndOfOutput, SendOutput
<1>9. ASSUME NEW c \in Command, Reap(c) PROVE Accounted'
  BY <1>9 DEF Reap, TypeOK, Accounted, Alive
<1>10. ASSUME NEW c \in Command, CommandStep(c) PROVE Accounted'
  <2>1. ASSUME NEW d \in Command, Alive(d)' PROVE Alive(d)
    BY <1>10, <2>1 DEF CommandStep, Fork, Detach, KidEnds, ShellEnds, PrintPiece,
                       AppendMark, TypeOK, Alive
  <2> QED
    BY <1>10, <2>1 DEF CommandStep, Accounted
<1>11. CASE UNCHANGED vars
  BY <1>0, <1>11 DEF vars
<1> QED
  BY <1>1, <1>2, <1>3, <1>4, <1>5, <1>6, <1>7, <1>8, <1>9, <1>10, <1>11
  DEF Next, Thread, Waiter

\* A write in progress makes of the file what it is to make of it, step by step.
LEMMA NextWritten == TypeOK /\ Accounted /\ Written /\ [Next]_vars => Written'
<1> SUFFICES ASSUME TypeOK, Accounted, Written, [Next]_vars, Clean' PROVE Written'
  BY DEF Written
<1> USE DEF processes, waiting, files
<1>r. ASSUME NEW rule \in Rule, Record(rule) PROVE audit.rules \subseteq audit'.rules /\ rule \in audit'.rules
  BY <1>r DEF Record
<1>0. ASSUME UNCHANGED <<file, said, job, audit, strays>>,
             pc' = pc \/ {pc, pc'} \subseteq {"ready", "recv", "kill"}
      PROVE  Written'
  BY <1>0 DEF Written, Clean
<1>1. ASSUME NEW rule \in Rule, ReadOnly(rule) PROVE Written'
  BY <1>1, <1>r DEF ReadOnly, Written, Clean
<1>2. ASSUME NEW p \in Path, WriteFile(p) PROVE Written'
  <2>1. CASE \E rule \in Rule : EndWith(rule)
    BY <1>2, <2>1, <1>r DEF WriteFile, EndWith, Called, Written, Clean
  <2>2. ASSUME NEW op \in {"write", "append"}, Begin([op |-> op, marks |-> {"from"}])
        PROVE  Written'
    BY <1>2, <2>2 DEF WriteFile, Begin, Called, Written, Clean
  <2> QED
    BY <1>2, <2>1, <2>2, RefusalRule DEF WriteFile, Rule
<1>3. ASSUME NEW p \in Path, EditFile(p) PROVE Written'
  <2>1. CASE \E rule \in Rule : EndWith(rule)
    BY <1>3, <2>1, <1>r DEF EditFile, EndWith, Called, Written, Clean
  <2>2. CASE Begin([op |-> "edit", marks |-> Replaced(file.marks)])
    BY <1>3, <2>2 DEF EditFile, Begin, Called, Written, Clean
  <2>3. CASE Refusal(p) # "tool.allow"
    BY <1>3, <2>1, <2>3, RefusalRule DEF EditFile
  <2>4. CASE Refusal(p) = "tool.allow" /\ ~file.there
    BY <1>3, <2>1, <2>4 DEF EditFile, Rule
  <2>5. CASE Refusal(p) = "tool.allow" /\ file.there
    BY <1>3, <2>1, <2>2, <2>5 DEF EditFile, Rule
  <2> QED
    BY <2>3, <2>4, <2>5
<1>4. CASE OpenFile
  <2>1. Clean /\ file = said
    BY <1>4 DEF OpenFile, Written, Clean
  <2> QED
    BY <1>4, <2>1 DEF OpenFile, Written
<1>5. CASE WriteText
  <2>1. Clean
    BY <1>5, <1>r DEF WriteText, Clean, Rule
  <2>2. job.op \in Operation
    BY DEF TypeOK
  <2>3. file' = said'
    <3>1. CASE job.op = "write"
      BY <1>5, <3>1 DEF WriteText, Intended
    <3>2. CASE job.op = "append"
      <4>1. file.marks = said.marks
        BY <1>5, <2>1, <3>2 DEF WriteText, Written, Text
      <4> QED
        BY <1>5, <3>2, <4>1 DEF WriteText, Intended
    <3>3. CASE job.op = "edit"
      BY <1>5, <2>1, <3>3 DEF WriteText, Written, Intended
    <3> QED
      BY <2>2, <3>1, <3>2, <3>3 DEF Operation
  <2> QED
    BY <1>5, <2>3 DEF WriteText, Written
<1>6. CASE WriteFails
  BY <1>6, <1>r DEF WriteFails, Clean, Rule
<1>7. ASSUME NEW c \in Command, RunBash(c) PROVE Written'
  BY <1>0, <1>7 DEF RunBash, Called
<1>8. ASSUME NEW c \in Command, NEW value, NEW seen, pc \in {"recv", "kill"},
             Leave(c, value, seen), Record("tool.allow") \/ UNCHANGED audit
      PROVE  Written'
  <2>1. Clean
    BY <1>8, <1>r DEF Leave, Clean, Rule
  <2> QED
    BY <1>8, <2>1 DEF Leave, Written
<1>9. ASSUME NEW c \in Command, Receive(c) \/ Kill(c) PROVE Written'
  BY <1>8, <1>9 DEF Receive, Kill, Return
<1>10. ASSUME NEW c \in Command, TimeOut(c) PROVE Written'
  BY <1>0, <1>10 DEF TimeOut
<1>11. ASSUME NEW c \in Command, Waiter(c) PROVE Written'
  BY <1>0, <1>11 DEF Waiter, EndOfOutput, Reap, SendOutput
<1>12. ASSUME NEW c \in Command, CommandStep(c) PROVE Written'
  <2>1. CASE AppendMark(c)
    <3>1. Clean
      BY <1>12 DEF CommandStep, Clean
    <3>2. pc \in {"recv", "kill"}
      BY <2>1, <3>1 DEF AppendMark, Accounted, Clean
    <3>3. file' = said'
      BY <2>1, <3>1, <3>2 DEF AppendMark, Written
    <3> QED
      BY <1>12, <3>2, <3>3 DEF CommandStep, Written
  <2>2. CASE ~AppendMark(c)
    BY <1>0, <1>12, <2>2 DEF CommandStep, Fork, Detach, KidEnds, ShellEnds, PrintPiece
  <2> QED
    BY <2>1, <2>2
<1>13. CASE UNCHANGED vars
  BY <1>0, <1>13 DEF vars
<1> QED
  BY <1>1, <1>2, <1>3, <1>4, <1>5, <1>6, <1>7, <1>9, <1>10, <1>11, <1>12, <1>13
  DEF Next, Thread

\* All of the above, in every state of every behaviour.
THEOREM Inductive == Spec => []IInv
<1>1. Init => IInv
  BY InitTypes DEF Init, IInv, Waited, Accounted, Alive, Written, NoJob
<1>2. IInv /\ [Next]_vars => IInv'
  BY NextTypes, NextWaited, NextAccounted, NextWritten DEF IInv
<1> QED
  BY <1>1, <1>2, PTL DEF Spec

\* As long as no command outlived its call and no write failed, the file holds what
\* the calls said: neither the gap between the reading and the writing of an edit nor
\* that between the truncation and the writing is open to a command of the agent.
THEOREM FilesHold == Spec => []FilesAreAsSaid
<1>1. IInv => FilesAreAsSaid
  BY DEF IInv, Written, Clean, FilesAreAsSaid
<1> QED
  BY Inductive, <1>1, PTL
=============================================================================
