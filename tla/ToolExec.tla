------------------------------- MODULE ToolExec -------------------------------
(***************************************************************************)
(* The tools of crates/pi-tools/src/lib.rs, as one agent calls them one    *)
(* after another: bash with its timeout, its waiting thread and the        *)
(* processes a command leaves behind; write and edit, which truncate a     *)
(* file and then write it; the policy that refuses a call; and the audit   *)
(* record execute_with_audit makes of each.                                *)
(*                                                                         *)
(* A command is a shell and at most one descendant, which may hold the     *)
(* shell's output pipes open or close them.  The text of a file is the set *)
(* of marks in it: "from" is what edits look for, "to" what they put in    *)
(* its place, and a command is the mark of its own appends.  What a        *)
(* command prints is counted in pieces, which are bytes: a character may   *)
(* be several.                                                             *)
(***************************************************************************)
EXTENDS Naturals, FiniteSets

CONSTANTS Command,    \* the bash commands that may be run, once each
          MaxCalls,   \* bound: tool calls
          MaxPrinted, \* bound: pieces a command writes to each of its streams
          MaxShown    \* Policy::max_stdout_bytes, in pieces

ASSUME CommandsAreMarks == Command \cap {"from", "to"} = {}
ASSUME BoundsNat == {MaxCalls, MaxPrinted, MaxShown} \subseteq Nat

Mark == Command \cup {"from", "to"}

\* Paths as Policy tells them apart: the file in the workspace that is modelled, one
\* that is outside or may not be written, one whose directory does not exist.
Path == {"plain", "secret", "orphan"}
File == [there : BOOLEAN, marks : SUBSET Mark]

Rule == {"tool.allow", "tool.policy.denied", "tool.input.invalid",
         "tool.missing", "tool.execution.error"}
ShellState == {"none", "running", "exited", "reaped"}
KidState == {"none", "piped", "detached", "gone"}
WaiterState == {"none", "reading", "reaping", "sending", "done"}
Result == {"none", "ok", "failed", "timed_out", "panicked"}
Stream == {"stdout", "stderr"}
Silence == [s \in Stream |-> 0]

\* What a ToolCallResult shows: so much of stdout, whether it was cut, the stderr in its
\* error.
Shown == [stdout : 0..MaxPrinted, truncated : BOOLEAN, error : 0..MaxPrinted]
Nothing == [stdout |-> 0, truncated |-> FALSE, error |-> 0]
Pc == {"ready", "recv", "kill", "open", "write"}
Operation == {"write", "append", "edit"}
NoJob == [op |-> "write", marks |-> {}]

VARIABLES
  pc,       \* what the calling thread does next
  job,      \* the write in progress: for which operation, and what text
  current,  \* the commands being waited for: one or none
  shell, code,  \* the shell of each command, and whether it ended with 0
  kid,      \* its descendant
  printed,  \* pieces of output they wrote to each pipe
  waiter,   \* the thread of execute_with_timeout
  output,   \* pieces it collected
  result, shown,  \* how the call ended, and what its result shows
  file,     \* the file that calls and commands write
  said,     \* history: what the calls so far say is in it
  strays,   \* history: commands with a process alive when their call returned
  audit     \* the number of audit records, and the rules in them

processes == <<shell, code, kid, printed>>
waiting == <<waiter, output>>
returned == <<result, shown>>
files == <<file, said>>
vars == <<pc, job, current, processes, waiting, returned, files, strays, audit>>

Alive(c) == shell[c] = "running" \/ kid[c] \in {"piped", "detached"}

Init == /\ pc = "ready" /\ job = NoJob /\ current = {}
        /\ shell = [c \in Command |-> "none"]
        /\ code = [c \in Command |-> TRUE]
        /\ kid = [c \in Command |-> "none"]
        /\ printed = [c \in Command |-> Silence]
        /\ waiter = [c \in Command |-> "none"]
        /\ output = [c \in Command |-> Silence]
        /\ result = [c \in Command |-> "none"]
        /\ shown = [c \in Command |-> Nothing]
        /\ file \in {[there |-> FALSE, marks |-> {}], [there |-> TRUE, marks |-> {"from"}]}
        /\ said = file
        /\ strays = {}
        /\ audit = [calls |-> 0, rules |-> {}]

----------------------------------------------------------------------------
(* Calls and their records *)

\* ToolRegistry::execute_with_audit is called.
Called == /\ pc = "ready"
          /\ audit.calls < MaxCalls

\* Mutation: a tool that is not registered is recorded under a name of its own.
Record_Misnamed(rule) ==
  audit' = [calls |-> audit.calls + 1,
            rules |-> audit.rules \cup {IF rule = "tool.missing" THEN "tool.unknown" ELSE rule}]

\* It returns: whatever is an Err, and not only a refusal, is recorded as denied,
\* with the rule that tells which.
Record(rule) ==
  audit' = [calls |-> audit.calls + 1, rules |-> audit.rules \cup {rule}]

\* Calls that change no file: read, ls, find, grep; arguments that are missing or
\* dangerous; a tool that is not registered.
ReadOnly(rule) ==
  /\ Called
  /\ Record(rule)
  /\ UNCHANGED <<pc, job, current, processes, waiting, returned, files, strays>>

----------------------------------------------------------------------------
(* write and edit *)

\* canonicalize_path and can_write_path.
Refusal(p) == CASE p = "plain" -> "tool.allow"
                [] p = "secret" -> "tool.policy.denied"
                [] p = "orphan" -> "tool.input.invalid"

\* The write j is to be carried out.
Begin(j) == job' = j /\ pc' = "open" /\ UNCHANGED audit

\* The call ends with this record, before anything is written.
EndWith(rule) == Record(rule) /\ UNCHANGED <<pc, job>>

\* Content that is too long is an error wherever it was to go.
WriteFile(p) ==
  /\ Called
  /\ \/ EndWith("tool.execution.error")
     \/ Refusal(p) # "tool.allow" /\ EndWith(Refusal(p))
     \/ /\ Refusal(p) = "tool.allow"
        /\ \E op \in {"write", "append"} : Begin([op |-> op, marks |-> {"from"}])
  /\ UNCHANGED <<current, processes, waiting, returned, files, strays>>

Replaced(marks) == (marks \ {"from"}) \cup {"to"}

\* The text is read here and written back two steps later.  A file that does not
\* exist is an error, and one without the pattern a result that is not an Err.
EditFile(p) ==
  /\ Called
  /\ CASE Refusal(p) # "tool.allow" -> EndWith(Refusal(p))
       [] Refusal(p) = "tool.allow" /\ ~file.there -> EndWith("tool.execution.error")
       [] OTHER -> IF "from" \in file.marks
                   THEN Begin([op |-> "edit", marks |-> Replaced(file.marks)])
                   ELSE EndWith("tool.allow")
  /\ UNCHANGED <<current, processes, waiting, returned, files, strays>>

Text(marks) == [there |-> TRUE, marks |-> marks]

\* Mutation: an append truncates too.
OpenFile_Truncates ==
  /\ pc = "open"
  /\ pc' = "write"
  /\ file' = Text({})
  /\ UNCHANGED <<job, current, processes, waiting, returned, said, strays, audit>>

\* The file is opened, created if need be, and truncated unless for an append.
OpenFile ==
  /\ pc = "open"
  /\ pc' = "write"
  /\ file' = Text(IF job.op = "append" THEN file.marks ELSE {})
  /\ UNCHANGED <<job, current, processes, waiting, returned, said, strays, audit>>

\* What the operation is to make of a text.
Intended(marks) == CASE job.op = "write" -> job.marks
                     [] job.op = "append" -> marks \cup job.marks
                     [] job.op = "edit" -> Replaced(marks)

\* What a command appended since the file was opened is overwritten, unless this
\* write appends too.
WriteText ==
  /\ pc = "write"
  /\ pc' = "ready" /\ job' = NoJob
  /\ file' = Text(IF job.op = "append" THEN file.marks \cup job.marks ELSE job.marks)
  /\ said' = Text(Intended(said.marks))
  /\ Record("tool.allow")
  /\ UNCHANGED <<current, processes, waiting, returned, strays>>

\* The disk is full: the call returns Err, with the file as it is by then.
WriteFails ==
  /\ pc \in {"open", "write"}
  /\ pc' = "ready" /\ job' = NoJob
  /\ Record("tool.execution.error")
  /\ UNCHANGED <<current, processes, waiting, returned, files, strays>>

----------------------------------------------------------------------------
(* bash *)

\* execute_with_timeout spawns the shell and the thread that waits for it.
RunBash(c) ==
  /\ Called
  /\ shell[c] = "none"
  /\ shell' = [shell EXCEPT ![c] = "running"]
  /\ waiter' = [waiter EXCEPT ![c] = "reading"]
  /\ current' = {c}
  /\ pc' = "recv"
  /\ UNCHANGED <<job, code, kid, printed, output, returned, files, strays, audit>>

\* The call ends like this, whatever is still alive of the command.
Leave(c, value, seen) ==
  /\ pc' = "ready" /\ current' = {}
  /\ result' = [result EXCEPT ![c] = value]
  /\ shown' = [shown EXCEPT ![c] = seen]
  /\ UNCHANGED <<job, code, kid, printed, waiting, files>>
  /\ strays' = IF Alive(c)' THEN strays \cup {c} ELSE strays

Return(c, value, seen) == Leave(c, value, seen) /\ Record("tool.allow")

TooLong(c) == output[c].stdout > MaxShown

\* take_max of stdout; stderr is shown only if the code is not 0, and then whole.
Seen(c) == [stdout |-> IF TooLong(c) THEN MaxShown ELSE output[c].stdout,
            truncated |-> TooLong(c),
            error |-> IF code[c] THEN 0 ELSE output[c].stderr]

\* String::truncate panics if the cut is inside a character, and the call ends there.
Receive(c) ==
  /\ pc = "recv" /\ c \in current
  /\ waiter[c] = "done"
  /\ UNCHANGED shell
  /\ \/ Return(c, IF code[c] THEN "ok" ELSE "failed", Seen(c))
     \/ TooLong(c) /\ Leave(c, "panicked", Nothing) /\ UNCHANGED audit

\* recv_timeout gives up only if there is nothing to receive.
TimeOut(c) == /\ pc = "recv" /\ c \in current
              /\ waiter[c] # "done"
              /\ pc' = "kill"
              /\ UNCHANGED <<job, current, processes, waiting, returned, files, strays,
                             audit>>

\* Mutation: the thread is joined before the call returns.
Kill_Joins(c) ==
  /\ pc = "kill" /\ c \in current
  /\ waiter[c] = "done"
  /\ UNCHANGED shell
  /\ Return(c, "timed_out", Nothing)

\* kill -9 goes to the process id of the shell, not to its group.
Kill(c) ==
  /\ pc = "kill" /\ c \in current
  /\ shell' = [shell EXCEPT ![c] = IF @ = "running" THEN "exited" ELSE @]
  /\ Return(c, "timed_out", Nothing)

\* Mutation: the thread waits for the shell and takes what was printed so far.
EndOfOutput_AtExit(c) ==
  /\ waiter[c] = "reading"
  /\ shell[c] # "running"
  /\ output' = [output EXCEPT ![c] = printed[c]]
  /\ waiter' = [waiter EXCEPT ![c] = "reaping"]
  /\ UNCHANGED <<pc, job, current, processes, returned, files, strays, audit>>

\* Mutation: the thread gives up when the call does.
EndOfOutput_WhileCalled(c) ==
  /\ waiter[c] = "reading" /\ c \in current
  /\ shell[c] # "running" /\ kid[c] # "piped"
  /\ output' = [output EXCEPT ![c] = printed[c]]
  /\ waiter' = [waiter EXCEPT ![c] = "reaping"]
  /\ UNCHANGED <<pc, job, current, processes, returned, files, strays, audit>>

\* wait_with_output reads the pipes until nobody holds them, and then waits for the
\* shell.
EndOfOutput(c) ==
  /\ waiter[c] = "reading"
  /\ shell[c] # "running" /\ kid[c] # "piped"
  /\ output' = [output EXCEPT ![c] = printed[c]]
  /\ waiter' = [waiter EXCEPT ![c] = "reaping"]
  /\ UNCHANGED <<pc, job, current, processes, returned, files, strays, audit>>

Reap(c) ==
  /\ waiter[c] = "reaping"
  /\ shell' = [shell EXCEPT ![c] = "reaped"]
  /\ waiter' = [waiter EXCEPT ![c] = "sending"]
  /\ UNCHANGED <<pc, job, current, code, kid, printed, output, returned, files, strays, audit>>

\* The answer goes to the channel of this call, whether or not it still listens.
SendOutput(c) ==
  /\ waiter[c] = "sending"
  /\ waiter' = [waiter EXCEPT ![c] = "done"]
  /\ UNCHANGED <<pc, job, current, processes, output, returned, files, strays, audit>>

----------------------------------------------------------------------------
(* The processes of a command *)

Fork(c) == /\ shell[c] = "running" /\ kid[c] = "none"
           /\ kid' = [kid EXCEPT ![c] = "piped"]
           /\ UNCHANGED <<shell, code, printed, files>>

Detach(c) == /\ kid[c] = "piped"
             /\ kid' = [kid EXCEPT ![c] = "detached"]
             /\ UNCHANGED <<shell, code, printed, files>>

KidEnds(c) == /\ kid[c] \in {"piped", "detached"}
              /\ kid' = [kid EXCEPT ![c] = "gone"]
              /\ UNCHANGED <<shell, code, printed, files>>

ShellEnds(c) == /\ shell[c] = "running"
                /\ shell' = [shell EXCEPT ![c] = "exited"]
                /\ code' \in {[code EXCEPT ![c] = ok] : ok \in BOOLEAN}
                /\ UNCHANGED <<kid, printed, files>>

PrintPiece(c, s) == /\ shell[c] = "running" \/ kid[c] = "piped"
                    /\ printed[c][s] < MaxPrinted
                    /\ printed' = [printed EXCEPT ![c][s] = @ + 1]
                    /\ UNCHANGED <<shell, code, kid, files>>

AppendMark(c) == /\ Alive(c)
                 /\ file' = Text(file.marks \cup {c})
                 /\ said' = Text(said.marks \cup {c})
                 /\ UNCHANGED processes

CommandStep(c) ==
  /\ \/ Fork(c) \/ Detach(c) \/ KidEnds(c) \/ ShellEnds(c)
     \/ AppendMark(c)
     \/ \E s \in Stream : PrintPiece(c, s)
  /\ UNCHANGED <<pc, job, current, waiting, returned, strays, audit>>

----------------------------------------------------------------------------
Thread == \/ OpenFile \/ WriteText \/ WriteFails
          \/ \E c \in Command : Receive(c) \/ TimeOut(c) \/ Kill(c)

Waiter(c) == EndOfOutput(c) \/ Reap(c) \/ SendOutput(c)

Next == \/ \E rule \in Rule : ReadOnly(rule)
        \/ \E p \in Path : WriteFile(p) \/ EditFile(p)
        \/ \E c \in Command : RunBash(c)
        \/ Thread
        \/ \E c \in Command : Waiter(c) \/ CommandStep(c)

Spec == Init /\ [][Next]_vars

\* Threads go on and the clock does; nothing is assumed of a command.
FairSpec == /\ Spec
            /\ WF_vars(Thread)
            /\ \A c \in Command : WF_vars(Waiter(c))

----------------------------------------------------------------------------
(* Properties *)

\* Every variable keeps its type.
TypeOK == /\ pc \in Pc
          /\ job \in [op : Operation, marks : SUBSET Mark]
          /\ current \subseteq Command
          /\ shell \in [Command -> ShellState]
          /\ code \in [Command -> BOOLEAN]
          /\ kid \in [Command -> KidState]
          /\ printed \in [Command -> [Stream -> 0..MaxPrinted]]
          /\ waiter \in [Command -> WaiterState]
          /\ output \in [Command -> [Stream -> 0..MaxPrinted]]
          /\ result \in [Command -> Result]
          /\ shown \in [Command -> Shown]
          /\ file \in File /\ said \in File
          /\ strays \subseteq Command
          /\ audit \in [calls : 0..MaxCalls, rules : SUBSET Rule]

\* A result shows all that the command ever prints to stdout, or says that it is cut and
\* shows as much as the policy allows; of a command that failed it shows all of stderr.
\* Its shell is reaped then, and no process of it writes to the pipes any more: what ran
\* in the background with them was waited for (lines 413-421, 665-721, 953-974).
OutputIsWhole ==
  \A c \in Command : result[c] \in {"ok", "failed"} =>
    /\ IF shown[c].truncated
       THEN shown[c].stdout = MaxShown /\ printed[c].stdout > MaxShown
       ELSE shown[c].stdout = printed[c].stdout
    /\ result[c] = "failed" => shown[c].error = printed[c].stderr
    /\ shell[c] = "reaped"
    /\ kid[c] # "piped"

\* As long as no command outlived its call and the audit holds no execution error,
\* the file holds between calls what the calls say it does: every append of a
\* command, every edit and every write, in their order (lines 545-641, 404-411).
FilesAreAsSaid ==
  pc = "ready" /\ strays = {} /\ "tool.execution.error" \notin audit.rules =>
    file = said

\* Whatever a command does, also if it never ends or never lets go of the pipes, its
\* call returns (lines 953-996).
CallsReturn == pc # "ready" ~> pc = "ready"

\* A shell that ended, by itself or killed, does not stay a zombie once its pipes are
\* let go of, also if its call has long returned (lines 965-968).
ShellsAreReaped ==
  \A c \in Command :
    shell[c] = "exited" /\ kid[c] # "piped" ~> shell[c] = "reaped"
=============================================================================
