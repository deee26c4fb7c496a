----------------------------- MODULE SearchIndex -----------------------------
(***************************************************************************)
(* The file index of crates/pi-search/src/lib.rs: SearchService::new takes *)
(* it from a cache file or walks the workspace, and a watcher walks again  *)
(* for every change it is told of.  Files and git's view of them change at *)
(* any time, also between two files of a walk; the process may be stopped  *)
(* at any time, also between the truncation and the writing of the cache.  *)
(*                                                                         *)
(* A file is what the index keeps of it: a stamp for its time and size.    *)
(* Paths that should_ignore_path drops, or .gitignore, are left out: the   *)
(* cache file is one of them, but it lies under the watched root, so that  *)
(* saving it is a change like any other.                                   *)
(***************************************************************************)
EXTENDS Naturals, FiniteSets

CONSTANTS File,        \* the files a walk may index
          MaxChanges,  \* bound: changes of files and commits
          MaxStarts,   \* bound: services started
          MaxQueue     \* bound: events kept in the channel, which has none

ASSUME BoundsNat == MaxChanges \in Nat /\ MaxStarts \in Nat
ASSUME MaxQueuePositive == MaxQueue \in Nat \ {0}

Absent == 0
Oversized == 1   \* longer than max_file_size; a larger number is a stamp

\* IndexedFile: its stamp, and whether its frecency was taken from a git status.
Item == [stamp : Nat, boost : BOOLEAN]
NoItem == [stamp |-> Absent, boost |-> FALSE]
Items == [File -> Item]
NoItems == [f \in File |-> NoItem]

Machine == [git : {"repo", "no_repo", "missing"}, cacheWritable : BOOLEAN]
Cache == [state : {"none", "torn", "whole"}, items : Items]
Pc == {"off", "load", "walk", "save", "write", "git", "watch", "idle"}

VARIABLES
  machine,   \* where pi runs: whether git is there, whether .pi/cache can be written
  disk,      \* the files
  dirty,     \* the files git status lists
  cache,     \* .pi/cache/search-index-v1.json
  pc,        \* what the service does next
  watching,  \* whether the watcher runs
  queue,     \* events it has not taken yet
  todo,      \* files the walk has not come to
  found,     \* items it has collected
  index, git,  \* the fields of SearchService
  missed,    \* files that changed after they were read, when nothing watched
  counts     \* changes and starts so far, for the bounds

world == <<machine, disk, dirty>>
walk == <<todo, found>>
memory == <<index, git>>
vars == <<world, cache, pc, watching, queue, walk, memory, missed, counts>>

Goto(p) == pc' = p

\* What a walk keeps of a file.
Wanted(f) == IF disk[f] > Oversized THEN disk[f] ELSE Absent

\* The watcher is told; a full channel has an event that makes it look anyway.
Notify == queue' = IF watching /\ queue < MaxQueue THEN queue + 1 ELSE queue

----------------------------------------------------------------------------
Init == /\ machine \in Machine
        /\ disk = [f \in File |-> Oversized + 1]
        /\ dirty = {}
        /\ cache = [state |-> "none", items |-> NoItems]
        /\ pc = "off" /\ watching = FALSE /\ queue = 0
        /\ todo = {} /\ found = NoItems
        /\ index = NoItems /\ git = {}
        /\ missed = {}
        /\ counts = [changes |-> 0, starts |-> 0]

----------------------------------------------------------------------------
(* The workspace *)

CountChange == /\ counts.changes < MaxChanges
               /\ counts' = [counts EXCEPT !.changes = @ + 1]

Change(f, v) ==
  /\ CountChange
  /\ v # disk[f]
  /\ disk' = [disk EXCEPT ![f] = v]
  /\ dirty' = dirty \cup {f}
  /\ Notify
  /\ missed' = IF watching THEN missed ELSE missed \cup {f}
  /\ UNCHANGED <<machine, cache, pc, watching, walk, memory>>

\* A commit writes under .git, which is watched like everything else.
Commit == /\ CountChange
          /\ dirty # {}
          /\ dirty' = {}
          /\ Notify
          /\ UNCHANGED <<machine, disk, cache, pc, watching, walk, memory, missed>>

----------------------------------------------------------------------------
(* SearchService *)

Start == /\ pc = "off"
         /\ counts.starts < MaxStarts
         /\ counts' = [counts EXCEPT !.starts = @ + 1]
         /\ Goto("load")
         /\ UNCHANGED <<world, cache, watching, queue, walk, memory, missed>>

\* The process ends, or new() returned Err: memory is gone.
Gone == /\ Goto("off")
        /\ watching' = FALSE /\ queue' = 0
        /\ todo' = {} /\ found' = NoItems
        /\ index' = NoItems /\ git' = {}
        /\ missed' = {}
        /\ UNCHANGED <<world, cache, counts>>

Stop == pc # "off" /\ Gone

\* The walk of rebuild_index begins.
BeginWalk == todo' = File /\ found' = NoItems

\* A cache file that parses is taken as it is, if each of its files exists.
Usable == /\ cache.state = "whole"
          /\ \A f \in File : cache.items[f].stamp # Absent => disk[f] # Absent

LoadIndex ==
  /\ pc = "load"
  /\ IF Usable
     THEN /\ index' = cache.items
          /\ missed' = {f \in File : index'[f].stamp # Wanted(f)}
          /\ Goto("git")
          /\ UNCHANGED walk
     ELSE /\ BeginWalk
          /\ Goto("walk")
          /\ UNCHANGED <<index, missed>>
  /\ UNCHANGED <<world, cache, watching, queue, git, counts>>

\* Mutation: a file that is gone keeps its item.
Visit_KeepsRemoved(f) ==
  /\ pc = "walk" /\ f \in todo
  /\ todo' = todo \ {f}
  /\ found' = [found EXCEPT ![f] = IF Wanted(f) = Absent THEN index[f]
                                   ELSE [stamp |-> Wanted(f), boost |-> f \in git]]
  /\ missed' = missed \ {f}
  /\ UNCHANGED <<world, cache, pc, watching, queue, memory, counts>>

\* The walk comes to the files in any order.
Visit(f) ==
  /\ pc = "walk" /\ f \in todo
  /\ todo' = todo \ {f}
  /\ found' = [found EXCEPT ![f] = IF Wanted(f) = Absent THEN NoItem
                                   ELSE [stamp |-> Wanted(f), boost |-> f \in git]]
  /\ missed' = missed \ {f}
  /\ UNCHANGED <<world, cache, pc, watching, queue, memory, counts>>

\* Mutation: a walk answers all events there are at its end.
Install_Drains == /\ pc = "walk" /\ todo = {}
                  /\ index' = found
                  /\ found' = NoItems
                  /\ queue' = 0
                  /\ Goto("save")
                  /\ UNCHANGED <<world, cache, watching, todo, git, missed, counts>>

Install == /\ pc = "walk" /\ todo = {}
           /\ index' = found
           /\ found' = NoItems
           /\ Goto("save")
           /\ UNCHANGED <<world, cache, watching, queue, todo, git, missed, counts>>

\* save_index: the write truncates the file first.  An error is ignored.
SaveOpen == /\ pc = "save"
            /\ IF machine.cacheWritable
               THEN /\ cache' = [state |-> "torn", items |-> NoItems]
                    /\ Notify
                    /\ Goto("write")
               ELSE /\ Goto("git")
                    /\ UNCHANGED <<cache, queue>>
            /\ UNCHANGED <<world, watching, walk, memory, missed, counts>>

SaveWrite == /\ pc = "write"
             /\ cache' = [state |-> "whole", items |-> index]
             /\ Notify
             /\ Goto("git")
             /\ UNCHANGED <<world, watching, walk, memory, missed, counts>>

\* Mutation: a file, once listed, keeps its status.
RefreshGitStatus_NoClear ==
  /\ pc = "git"
  /\ machine.git # "missing" \/ watching
  /\ git' = IF machine.git = "repo" THEN git \cup dirty ELSE git
  /\ Goto(IF watching THEN "idle" ELSE "watch")
  /\ UNCHANGED <<world, cache, watching, queue, walk, index, missed, counts>>

\* Without a repository the map stays as it is; so it does, with a message, if
\* git cannot be run by the watcher.
RefreshGitStatus ==
  /\ pc = "git"
  /\ machine.git # "missing" \/ watching
  /\ git' = IF machine.git = "repo" THEN dirty ELSE git
  /\ Goto(IF watching THEN "idle" ELSE "watch")
  /\ UNCHANGED <<world, cache, watching, queue, walk, index, missed, counts>>

\* If git cannot be run when the service is made, new() returns the error.
NewFails == /\ pc = "git"
            /\ machine.git = "missing" /\ ~watching
            /\ Gone

\* An error of start_watcher is ignored: the index stays what it is.
StartWatcher == /\ pc = "watch"
                /\ watching' \in BOOLEAN
                /\ Goto("idle")
                /\ UNCHANGED <<world, cache, queue, walk, memory, missed, counts>>

\* Mutation: the channel is polled, not awaited.
TakeEvent_Polls == /\ pc = "idle" /\ watching
                   /\ queue' = queue - 1
                   /\ BeginWalk
                   /\ Goto("walk")
                   /\ UNCHANGED <<world, cache, watching, memory, missed, counts>>

TakeEvent == /\ pc = "idle" /\ watching /\ queue > 0
             /\ queue' = queue - 1
             /\ BeginWalk
             /\ Goto("walk")
             /\ UNCHANGED <<world, cache, watching, memory, missed, counts>>

Service == \/ LoadIndex
           \/ \E f \in File : Visit(f)
           \/ Install
           \/ SaveOpen \/ SaveWrite
           \/ RefreshGitStatus \/ NewFails
           \/ StartWatcher
           \/ TakeEvent

Next == \/ \E f \in File : \E v \in {Absent, Oversized, counts.changes + Oversized + 2} :
             Change(f, v)
        \/ Commit
        \/ Start \/ Stop
        \/ Service

Spec == Init /\ [][Next]_vars

\* The runtime goes on polling the tasks of the service.
FairSpec == Spec /\ WF_vars(Service)

----------------------------------------------------------------------------
(* Properties *)

\* Every variable keeps its type.
TypeOK == /\ machine \in Machine
          /\ disk \in [File -> Nat]
          /\ dirty \subseteq File
          /\ cache \in Cache
          /\ pc \in Pc
          /\ watching \in BOOLEAN
          /\ queue \in 0..MaxQueue
          /\ todo \subseteq File
          /\ found \in Items
          /\ index \in Items
          /\ git \subseteq File
          /\ missed \subseteq File
          /\ counts \in [changes : Nat, starts : Nat]

Fresh(f) == index[f].stamp = Wanted(f)

\* The walk under way has f as it is, or is still to come to it.
InWalk(f) == pc = "walk" /\ (f \in todo \/ found[f].stamp = Wanted(f))

\* The index is never out of date without a cause to bring it up to date: a file it
\* shows as it no longer is has an event waiting or a walk coming to it, unless it
\* changed between its reading and the start of the watcher, or was taken from the
\* cache of an earlier process (lines 209-221, 303-321, 356-376).
StaleIsKnown ==
  pc \notin {"off", "load"} =>
    \A f \in File \ missed : Fresh(f) \/ queue > 0 \/ InWalk(f)

\* Once files stop changing, a service that watches comes to show them as they are,
\* with the same two exceptions: every event is answered by a whole walk, also one
\* that came in during a walk (lines 356-376).
IndexCatchesUp == <>[](watching => \A f \in File \ missed : Fresh(f))

\* find_files looks a file up in the git map and falls back on the frecency of the
\* index, which the walk took from the map as it was then (lines 269-278, 455-466).
Ranked(f) == f \in git \/ index[f].boost

\* Saving the cache tells the watcher to walk again, and this is what keeps the
\* ranking right: as long as saving goes on, every file comes to be shown, without
\* exception, and ranked as git lists it; the walk before the last refresh of the git
\* map is never the last walk.
RankCatchesUp ==
  machine.git = "repo" /\ []<>(pc = "write") =>
    <>[](\A f \in File : Fresh(f) /\ (Wanted(f) # Absent => (Ranked(f) <=> f \in dirty)))
=============================================================================
