---------------------------------- MODULE Cli ----------------------------------
(***************************************************************************)
(* The pi program of src/main.rs: create_agent, the commands, and the      *)
(* interactive loop, as processes that somebody may start in one workspace *)
(* at the same time.  They share the session files, with nothing that      *)
(* keeps them apart, and the resources that Catalog discovers.             *)
(*                                                                         *)
(* A session is the log and the head of SessionStore.  An append changes   *)
(* the memory and then the file, and a compaction takes three steps, each  *)
(* of which may fail; a process may be interrupted before any of them.     *)
(* What a broken line does to the file SessionStore has: here the file is  *)
(* spoiled from then on, and to open it may fail.  A turn is the message   *)
(* of the user and the answer: Agent has the turn's other steps.           *)
(***************************************************************************)
EXTENDS Catalog

CONSTANTS Proc,         \* processes
          SessionFile,  \* the paths of session files
          Default,      \* .pi/session.jsonl
          Edits,        \* what the user may put under a root: sets of manifests
          ToggleSets,   \* what the user may put into a configuration file
          MaxInputs     \* bound: launches, lines and edits

ASSUME DefaultIsAFile == Default \in SessionFile
ASSUME InputsNat == MaxInputs \in Nat
ASSUME EditsTyped == Edits \subseteq SUBSET Manifest /\ ToggleSets \subseteq Toggles

Where == {"workspace", "home"}   \* config_locations
NoId == 0

Writing == {"ask_write", "write"}                \* of AppendUnder
Opening == {"note", "note_write", "swap"}        \* of /open-by-path
Compacting == {"compact", "remove", "rename"}    \* of /compact
Pc == {"off", "open", "reset", "search", "command", "prompt", "send", "answer", "leave"}
        \cup Writing \cup Opening \cup Compacting
Command == {"none", "print", "doctor"}   \* doctor, search, info and update-index alike

VARIABLES
  shelf, configs,  \* the manifests under each root, the configuration files
  file,            \* the entries in each session file: none, if it is not there
  temp,            \* the temporary file of each session file
  pc, args,        \* what each process does next, and how it was started
  path, log, head, \* its SessionStore
  staged,          \* the store that /open-by-path has made and not yet put in place
  catalog,         \* its catalog
  spoiled,         \* history: files that two processes have had open at once, or on
                   \* which a write failed or left a line cut or without its newline
  inputs, issued   \* launches, lines and edits so far; entries so far

resources == <<shelf, configs>>
store == <<path, log, head>>
disk == <<file, temp, spoiled>>
vars == <<resources, disk, pc, args, store, staged, catalog, inputs, issued>>

Goto(p, label) == pc' = [pc EXCEPT ![p] = label]
CountInput == inputs < MaxInputs /\ inputs' = inputs + 1

NoStore == [path |-> Default, log |-> <<>>]
NoTemp == [there |-> FALSE, log |-> <<>>]

Last(s) == IF s = <<>> THEN NoId ELSE s[Len(s)].id
IdsOf(s) == {s[i].id : i \in 1..Len(s)}

\* Whether a process has read a session file and may go on writing it.
Uses(p, f) == \/ pc[p] \notin {"off", "open"} /\ path[p] = f
              \/ pc[p] \in Opening /\ staged[p].path = f

Init == /\ shelf = [root \in Root |-> {}]
        /\ configs = [where \in Where |-> [enabled |-> {}, disabled |-> {}]]
        /\ file = [f \in SessionFile |-> <<>>]
        /\ temp = [f \in SessionFile |-> NoTemp]
        /\ pc = [p \in Proc |-> "off"]
        /\ args = [p \in Proc |-> [command |-> "none", continue |-> FALSE]]
        /\ path = [p \in Proc |-> Default]
        /\ log = [p \in Proc |-> <<>>] /\ head = [p \in Proc |-> NoId]
        /\ staged = [p \in Proc |-> NoStore]
        /\ catalog = [p \in Proc |-> {}]
        /\ spoiled = {}
        /\ inputs = 0 /\ issued = 0

----------------------------------------------------------------------------
(* The user's files *)

Stock(root, manifests) ==
  /\ CountInput
  /\ shelf[root] # manifests
  /\ shelf' = [shelf EXCEPT ![root] = manifests]
  /\ UNCHANGED <<configs, disk, pc, args, store, staged, catalog, issued>>

Configure(where, toggles) ==
  /\ CountInput
  /\ configs[where] # toggles
  /\ configs' = [configs EXCEPT ![where] = toggles]
  /\ UNCHANGED <<shelf, disk, pc, args, store, staged, catalog, issued>>

----------------------------------------------------------------------------
(* Starting: create_agent *)

\* The discovery of a catalog is the first thing and the session the second.
Discover(p) ==
  \E found \in Discoveries(shelf, {configs[where] : where \in Where}) :
    catalog' = [catalog EXCEPT ![p] = found]

Launch(p, command, continue, session) ==
  /\ pc[p] = "off"
  /\ CountInput
  /\ args' = [args EXCEPT ![p] = [command |-> command, continue |-> continue]]
  /\ path' = [path EXCEPT ![p] = session]
  /\ Discover(p)
  /\ Goto(p, "open")
  /\ UNCHANGED <<resources, disk, log, head, staged, issued>>

\* A file is spoiled once two processes have it open.
Opened(p, f) ==
  spoiled' = IF \E q \in Proc \ {p} : Uses(q, f) THEN spoiled \cup {f} ELSE spoiled

OpenSession(p) ==
  /\ pc[p] = "open"
  /\ log' = [log EXCEPT ![p] = file[path[p]]]
  /\ head' = [head EXCEPT ![p] = Last(file[path[p]])]
  /\ Goto(p, IF args[p].continue THEN "search" ELSE "reset")
  /\ Opened(p, path[p])
  /\ UNCHANGED <<resources, file, temp, args, path, staged, catalog, inputs, issued>>

\* The process ends, and its memory is gone.
Gone(p) ==
  /\ Goto(p, "off")
  /\ args' = [args EXCEPT ![p] = [command |-> "none", continue |-> FALSE]]
  /\ path' = [path EXCEPT ![p] = Default]
  /\ log' = [log EXCEPT ![p] = <<>>]
  /\ head' = [head EXCEPT ![p] = NoId]
  /\ staged' = [staged EXCEPT ![p] = NoStore]
  /\ catalog' = [catalog EXCEPT ![p] = {}]

Ends(p) == Gone(p) /\ UNCHANGED <<resources, disk, inputs, issued>>

\* Mutation: the head stays where it was.
ResetSession_KeepsHead(p) ==
  /\ pc[p] = "reset"
  /\ file' = [file EXCEPT ![path[p]] = <<>>]
  /\ log' = [log EXCEPT ![p] = <<>>]
  /\ Goto(p, "search")
  /\ UNCHANGED <<resources, temp, spoiled, args, path, head, staged, catalog, inputs, issued>>

\* Without --continue the session starts anew, whatever the process is started for.
ResetSession(p) ==
  /\ pc[p] = "reset"
  /\ file' = [file EXCEPT ![path[p]] = <<>>]
  /\ log' = [log EXCEPT ![p] = <<>>]
  /\ head' = [head EXCEPT ![p] = NoId]
  /\ Goto(p, "search")
  /\ UNCHANGED <<resources, temp, spoiled, args, path, staged, catalog, inputs, issued>>

\* The user may interrupt a process at any time; nothing handles the signal.
Interrupt(p) == pc[p] # "off" /\ Ends(p)

\* A path outside the workspace is refused, a file with a broken line cannot be loaded,
\* a reset that fails is a panic, and SearchService::new may fail.
StartFails(p) == pc[p] \in {"open", "reset", "search"} /\ Ends(p)

StartSearch(p) ==
  /\ pc[p] = "search"
  /\ Goto(p, "command")
  /\ UNCHANGED <<resources, disk, args, store, staged, catalog, inputs, issued>>

----------------------------------------------------------------------------
(* Sessions: append_entry *)

\* An entry under a parent goes to the end of the log; label is where it is written to
\* the file.
AppendUnder(p, parent, label) ==
  LET entry == [id |-> issued + 1, parent |-> parent]
  IN /\ issued' = issued + 1
     /\ log' = [log EXCEPT ![p] = Append(@, entry)]
     /\ head' = [head EXCEPT ![p] = entry.id]
     /\ Goto(p, label)
     /\ UNCHANGED <<resources, disk, args, path, staged, catalog>>

\* A line goes to the end of the file as it is.  Its newline is handed over and not
\* waited for: the next line may come before it, or the end of the process.
LineWritten(f, entry) ==
  /\ file' = [file EXCEPT ![f] = Append(@, entry)]
  /\ spoiled' \in {spoiled, spoiled \cup {f}}

\* The file cannot be opened, or the line not be written whole: what there is of it is
\* no entry.
LineFails(f) == spoiled' = spoiled \cup {f} /\ UNCHANGED file

\* Where a process goes on after a turn or a session command, done or failed: an error
\* is printed.
Back(p) == IF args[p].command = "print" THEN "leave" ELSE "prompt"

WriteEntry(p) ==
  /\ pc[p] \in Writing
  /\ LineWritten(path[p], log[p][Len(log[p])])
  /\ Goto(p, IF pc[p] = "ask_write" THEN "answer" ELSE Back(p))
  /\ UNCHANGED <<resources, temp, args, store, staged, catalog, inputs, issued>>

\* The memory keeps the entry.
WriteEntryFails(p) ==
  /\ pc[p] \in Writing
  /\ LineFails(path[p])
  /\ Goto(p, Back(p))
  /\ UNCHANGED <<resources, temp, args, store, staged, catalog, inputs, issued>>

\* The user's message is stored; the answer comes later.
Ask(p) == AppendUnder(p, head[p], "ask_write")

Answer(p) == /\ pc[p] = "answer"
             /\ AppendUnder(p, head[p], "write")
             /\ UNCHANGED inputs

----------------------------------------------------------------------------
(* handle_command, and the modes *)

\* doctor, search, info and update-index print and leave; so does print mode.
Leave(p) ==
  /\ pc[p] = "leave" \/ (pc[p] = "command" /\ args[p].command = "doctor")
  /\ Ends(p)

PrintAnswer(p) ==
  /\ pc[p] = "command"
  /\ args[p].command = "print"
  /\ Ask(p)
  /\ UNCHANGED inputs

EnterLoop(p) ==
  /\ pc[p] = "command"
  /\ args[p].command = "none"
  /\ Goto(p, "prompt")
  /\ UNCHANGED <<resources, disk, args, store, staged, catalog, inputs, issued>>

----------------------------------------------------------------------------
(* run_interactive *)

Line(p) == pc[p] = "prompt" /\ CountInput

\* /exit, or the end of the input, which is no line.
Exit(p) == pc[p] = "prompt" /\ Ends(p)

\* A message; but also /help, /model, /tree and /clear, after which
\* handle_slash_command returns false: they are sent to the provider as well.
Prompt(p) == Line(p) /\ Ask(p)

\* /compact: SessionStore::compact ...
Compact(p) ==
  /\ Line(p)
  /\ Goto(p, "compact")
  /\ UNCHANGED <<resources, disk, args, store, staged, catalog, issued>>

\* Mutation: only the newest entry is kept.
WriteTemp_OnlyNewest(p) ==
  /\ pc[p] = "compact"
  /\ LET kept == IF log[p] = <<>> THEN <<>> ELSE <<log[p][Len(log[p])]>>
     IN temp' = [temp EXCEPT ![path[p]] = [there |-> TRUE, log |-> kept]]
  /\ Goto(p, "remove")
  /\ UNCHANGED <<resources, file, spoiled, args, store, staged, catalog, inputs, issued>>

\* ... writes what this process knows to the temporary file,
WriteTemp(p) ==
  /\ pc[p] = "compact"
  /\ temp' = [temp EXCEPT ![path[p]] = [there |-> TRUE, log |-> log[p]]]
  /\ Goto(p, "remove")
  /\ UNCHANGED <<resources, file, spoiled, args, store, staged, catalog, inputs, issued>>

\* removes the session file, if it is there,
RemoveFile(p) ==
  /\ pc[p] = "remove"
  /\ file' = [file EXCEPT ![path[p]] = <<>>]
  /\ Goto(p, "rename")
  /\ UNCHANGED <<resources, temp, spoiled, args, store, staged, catalog, inputs, issued>>

\* puts the temporary one in its place ...
RenameTemp(p) ==
  /\ pc[p] = "rename"
  /\ temp[path[p]].there
  /\ file' = [file EXCEPT ![path[p]] = temp[path[p]].log]
  /\ temp' = [temp EXCEPT ![path[p]] = NoTemp]
  /\ Goto(p, "send")
  /\ UNCHANGED <<resources, spoiled, args, store, staged, catalog, inputs, issued>>

\* ... or fails, which is printed; only without a rename is the session file gone.  A
\* temporary file that could not be written whole is read by nobody.
CompactFails(p) ==
  /\ pc[p] \in Compacting
  /\ spoiled' = IF pc[p] = "rename" THEN spoiled \cup {path[p]} ELSE spoiled
  /\ Goto(p, "send")
  /\ UNCHANGED <<resources, file, temp, args, store, staged, catalog, inputs, issued>>

\* The line is then sent to the provider too.
Send(p) == /\ pc[p] = "send"
           /\ Ask(p)
           /\ UNCHANGED inputs

Reload(p) ==
  /\ Line(p)
  /\ Discover(p)
  /\ UNCHANGED <<resources, disk, pc, args, store, staged, issued>>

\* /branch-from-turn.
Branch(p, from) == /\ Line(p)
                   /\ from \in IdsOf(log[p])
                   /\ AppendUnder(p, from, "write")

\* /continue-last is an error in an empty session.
ContinueLast(p) == /\ Line(p)
                   /\ head[p] # NoId
                   /\ AppendUnder(p, head[p], "write")

\* /open-by-path: select_session_path makes another store, unless it cannot be loaded ...
OpenByPath(p, f) ==
  /\ Line(p)
  /\ staged' = [staged EXCEPT ![p] = [path |-> f, log |-> file[f]]]
  /\ Goto(p, "note")
  /\ Opened(p, f)
  /\ UNCHANGED <<resources, file, temp, args, store, catalog, issued>>

\* ... appends an entry to it, in its memory ...
NoteSelection(p) ==
  /\ pc[p] = "note"
  /\ LET entry == [id |-> issued + 1, parent |-> Last(staged[p].log)]
     IN /\ issued' = issued + 1
        /\ staged' = [staged EXCEPT ![p].log = Append(@, entry)]
  /\ Goto(p, "note_write")
  /\ UNCHANGED <<resources, disk, args, store, catalog, inputs>>

\* ... and in the file ...
WriteNote(p) ==
  /\ pc[p] = "note_write"
  /\ LineWritten(staged[p].path, staged[p].log[Len(staged[p].log)])
  /\ Goto(p, "swap")
  /\ UNCHANGED <<resources, temp, args, store, staged, catalog, inputs, issued>>

\* ... or drops it, if that fails ...
WriteNoteFails(p) ==
  /\ pc[p] = "note_write"
  /\ LineFails(staged[p].path)
  /\ staged' = [staged EXCEPT ![p] = NoStore]
  /\ Goto(p, "prompt")
  /\ UNCHANGED <<resources, temp, args, store, catalog, inputs, issued>>

\* Mutation: the file is the new one, the entries in memory are those of the old.
SwapStores_KeepsLog(p) ==
  /\ pc[p] = "swap"
  /\ path' = [path EXCEPT ![p] = staged[p].path]
  /\ staged' = [staged EXCEPT ![p] = NoStore]
  /\ Goto(p, "prompt")
  /\ UNCHANGED <<resources, disk, args, log, head, catalog, inputs, issued>>

\* ... and puts it in the place of the one in use.
SwapStores(p) ==
  /\ pc[p] = "swap"
  /\ path' = [path EXCEPT ![p] = staged[p].path]
  /\ log' = [log EXCEPT ![p] = staged[p].log]
  /\ head' = [head EXCEPT ![p] = Last(staged[p].log)]
  /\ staged' = [staged EXCEPT ![p] = NoStore]
  /\ Goto(p, "prompt")
  /\ UNCHANGED <<resources, disk, args, catalog, inputs, issued>>

----------------------------------------------------------------------------
\* What a process does next, without a further input.
Step(p) == \/ OpenSession(p) \/ ResetSession(p) \/ StartFails(p) \/ StartSearch(p)
           \/ Leave(p) \/ PrintAnswer(p) \/ EnterLoop(p)
           \/ Send(p) \/ Answer(p) \/ WriteEntry(p) \/ WriteEntryFails(p)
           \/ WriteTemp(p) \/ RemoveFile(p) \/ RenameTemp(p) \/ CompactFails(p)
           \/ NoteSelection(p) \/ WriteNote(p) \/ WriteNoteFails(p) \/ SwapStores(p)

Input(p) == \/ \E command \in Command, continue \in BOOLEAN, f \in SessionFile :
                 Launch(p, command, continue, f)
            \/ Interrupt(p) \/ Exit(p) \/ Prompt(p) \/ Compact(p) \/ Reload(p) \/ ContinueLast(p)
            \/ \E id \in IdsOf(log[p]) : Branch(p, id)
            \/ \E f \in SessionFile : OpenByPath(p, f)

Next == \/ \E root \in Root, manifests \in Edits : Stock(root, manifests)
        \/ \E where \in Where, toggles \in ToggleSets : Configure(where, toggles)
        \/ \E p \in Proc : Step(p) \/ Input(p)

Spec == Init /\ [][Next]_vars

----------------------------------------------------------------------------
(* Properties *)

\* Every variable keeps its type.
TypeOK ==
  /\ shelf \in [Root -> SUBSET Manifest] /\ configs \in [Where -> Toggles]
  /\ pc \in [Proc -> Pc]
  /\ args \in [Proc -> [command : Command, continue : BOOLEAN]]
  /\ path \in [Proc -> SessionFile]
  /\ spoiled \subseteq SessionFile
  /\ inputs \in 0..MaxInputs
  /\ issued \in Nat
  /\ \A p \in Proc : \A s \in {log[p], staged[p].log} : s \in Seq([id : 1..issued, parent : 0..issued])
  /\ \A f \in SessionFile : \A s \in {file[f], temp[f].log} :
       s \in Seq([id : 1..issued, parent : 0..issued])
  /\ \A f \in SessionFile : temp[f].there \in BOOLEAN
  /\ \A p \in Proc : head[p] = Last(log[p])
  /\ \A p \in Proc : \A item \in catalog[p] : item \in Item

\* What the memory of a process says is in its session file: all it knows, but the entry
\* whose line is about to be written.
Written(p) == IF pc[p] \in Writing THEN SubSeq(log[p], 1, Len(log[p]) - 1) ELSE log[p]

\* Two pi at once may spoil a session file, which nothing locks, and so may a write that
\* fails or is cut short.  Otherwise memory and file stay the same through launches,
\* prompts, compactions and changes of the session, and processes interrupted at any
\* step of these; while the file is gone in a compaction, the temporary one has it all;
\* and every entry is under one that is in the file before it (main.rs lines 156-167 and
\* 514-581, agent.rs lines 256-279, pi-session lib.rs lines 141-183 and 228-244).
SessionsHold ==
  \A f \in SessionFile \ spoiled :
    /\ \A p \in Proc : Uses(p, f) /\ path[p] = f /\ (pc[p] = "swap" => staged[p].path # f) =>
         IF pc[p] = "rename" THEN file[f] = <<>> /\ temp[f] = [there |-> TRUE, log |-> log[p]]
                             ELSE file[f] = Written(p)
    /\ \A i \in 1..Len(file[f]) :
         file[f][i].parent \in {NoId} \cup {file[f][j].id : j \in 1..i - 1}

Extends(s, t) == Len(s) >= Len(t) /\ SubSeq(s, 1, Len(t)) = t

\* A session file that is not spoiled loses entries only where a pi is started without
\* --continue, as the first thing it does with it, and where a compaction removes it, all
\* of them being in the temporary file: no other line that can be typed, no command, no
\* failure and no interrupt loses any (main.rs lines 162-167, pi-session lib.rs lines
\* 239-244).
OnlyLaunchesForget ==
  [][\A f \in SessionFile :
       \/ f \in spoiled' \/ Extends(file'[f], file[f])
       \/ \E p \in Proc : path[p] = f /\ ResetSession(p)
       \/ \E p \in Proc : /\ path[p] = f /\ RemoveFile(p)
                          /\ temp[f] = [there |-> TRUE, log |-> file[f]]]_vars

\* What a discovery comes to, said without an order of reading: for each resource one
\* item, from the first root that has a manifest of it that can be used, and switched
\* off only if one of the files says so and none says it is on (config lines 57-101
\* and 316-322).
CatalogIsMerged ==
  LET used == {configs[where] : where \in Where}
      Usable(root, id) == \E m \in shelf[root] : m.valid /\ m.id = id
  IN \A found \in Discoveries(shelf, used) :
       /\ {item.id : item \in found} = {id \in Id : \E root \in Root : Usable(root, id)}
       /\ \A item \in found, other \in found : item.id = other.id => item = other
       /\ \A item \in found :
            /\ \E i \in 1..Len(RootSeq) :
                 /\ RootSeq[i] = item.root
                 /\ Usable(item.root, item.id)
                 /\ \A j \in 1..i - 1 : ~Usable(RootSeq[j], item.id)
            /\ item.enabled =
                 (\/ \E on \in used : item.id \in on.enabled
                  \/ \A off \in used : item.id \notin off.disabled)
=============================================================================
