---------------------------- MODULE SessionStore ----------------------------
(***************************************************************************)
(* The session store of crates/pi-session/src/lib.rs: an in-memory tree    *)
(* of entries, and the JSONL file that is meant to hold the same entries.  *)
(*                                                                         *)
(* A file is the sequence of entries on its lines, together with           *)
(*   open   - its last line does not end in a newline;                     *)
(*   broken - some line does not parse: a torn entry, or two entries that  *)
(*            were glued together because the newline between them was     *)
(*            missing.  SessionStore::new refuses such a file.             *)
(* Blank lines, which the loader skips, and the text of an entry are left  *)
(* out.  Uuids are numbered in the order they are drawn.                   *)
(*                                                                         *)
(* Every operation runs under the store's lock, so only the process dying, *)
(* an I/O error and the newline that an append leaves in flight (a tokio   *)
(* File completes its last write after write_all has returned, and the     *)
(* code never flushes) come between the steps of an operation.             *)
(***************************************************************************)
EXTENDS Naturals, Sequences

CONSTANTS MaxIssued,    \* bound: Uuids drawn in a behaviour
          CrashIn,      \* the moments at which the process may die
          IoErrors,     \* whether file operations may fail
          LateNewline   \* whether an operation may start before the newline
                        \* of the previous append has reached the file

NoId == 0
Id == Nat \ {NoId}
Entry == [id : Id, parent : Nat]

\* compact(None) rewrites the session file, compact(Some(_)) another one;
\* each target has its own temporary file (Path::with_extension("tmp")).
Target == {"session", "archive"}
Temp(t) == IF t = "session" THEN "session.tmp" ELSE "archive.tmp"
FileName == Target \cup {"session.tmp", "archive.tmp"}
File == [exists : BOOLEAN, lines : Seq(Entry), open : BOOLEAN, broken : BOOLEAN]

CompactPhase == {"write_temp", "remove", "rename", "copy_open", "copy_data"}
Phase == {"down", "idle", "append", "newline"} \cup CompactPhase

ASSUME MaxIssuedNat == MaxIssued \in Nat
ASSUME CrashInPhases == CrashIn \subseteq Phase \ {"down"}
ASSUME SwitchesBoolean == IoErrors \in BOOLEAN /\ LateNewline \in BOOLEAN

VARIABLES
  entries,   \* SessionStore.log.entries
  byId,      \* SessionStore.entry_by_id: id -> position in entries
  children,  \* SessionStore.children, as the set of pairs <<parent, child>>
  roots,     \* SessionStore.roots
  head,      \* SessionStore.head_id, NoId for None
  phase,     \* the file operation the running call is about to make
  target,    \* the target of the running compaction
  disk,      \* the files, by name
  inflight,  \* newlines queued on the session file and not yet written
  issued,    \* Uuids drawn so far
  acked,     \* history: the ids this process loaded, or appended with Ok(id)
  spoiled    \* history: since the session file was last replaced, the writing of it was
             \* cut off, a newline was lost, or an entry was written before the newline
             \* of the one before it

memory == <<entries, byId, children, roots, head>>
vars == <<memory, phase, target, disk, inflight, issued, acked, spoiled>>

----------------------------------------------------------------------------
(* Logs and the index over them *)

IdsOf(s) == {s[i].id : i \in 1..Len(s)}
LastId(s) == IF s = <<>> THEN NoId ELSE s[Len(s)].id

\* The three maps rebuild_index derives from the log.  An id occurs once in a
\* log (IdsIncrease), so the position of an id is unique.
IndexOf(s) == [d \in IdsOf(s) |-> CHOOSE i \in 1..Len(s) : s[i].id = d]
ChildPairs(s) ==
  {<<s[i].parent, s[i].id>> : i \in {j \in 1..Len(s) : s[j].parent # NoId}}

\* rebuild_index takes the entries that are nobody's parent for the roots.
RebuiltRoots(s) == IdsOf(s) \ {s[i].parent : i \in 1..Len(s)}

----------------------------------------------------------------------------
(* Files *)

Missing == [exists |-> FALSE, lines |-> <<>>, open |-> FALSE, broken |-> FALSE]
Empty == [Missing EXCEPT !.exists = TRUE]
Holding(s) == [Empty EXCEPT !.lines = s]

\* A write of an entry's bytes to the end of the file.
PutEntry(f, e) == [exists |-> TRUE, lines |-> Append(f.lines, e),
                   open |-> TRUE, broken |-> f.broken \/ f.open]
\* Part of an entry's bytes: a line that does not parse.
PutFragment(f) == [f EXCEPT !.exists = TRUE, !.open = TRUE, !.broken = TRUE]
PutNewline(f) == [f EXCEPT !.open = FALSE]

\* What may be in a file if the writing of these lines is cut off: some of them, the last
\* without its newline, or with a part of the next.
PartsOf(s) ==
  {Holding(SubSeq(s, 1, k)) : k \in 0..Len(s)}
    \cup {[Holding(SubSeq(s, 1, k)) EXCEPT !.open = TRUE] : k \in 1..Len(s)}
    \cup {PutFragment(Holding(SubSeq(s, 1, k))) : k \in 0..Len(s) - 1}

\* The files if the file operation of this phase does not happen, or stops half way.  A
\* temporary file that is cut off stands for any beginning of it: it is not read before it
\* is written again.
Cut ==
  {disk} \cup
    CASE phase = "append" -> {[disk EXCEPT !["session"] = PutFragment(@)]}
      [] phase = "write_temp" -> {[disk EXCEPT ![Temp(target)] = PutFragment(Empty)]}
      [] phase = "copy_data" ->
           {[disk EXCEPT !["session"] = f] : f \in PartsOf(disk[target].lines)}
      [] OTHER -> {}

Write(name, f) == disk' = [disk EXCEPT ![name] = f]

\* The file operation fails, or the process ends in it.
CutOff == /\ disk' \in Cut
          /\ spoiled' = (spoiled \/ disk'["session"] # disk["session"])

----------------------------------------------------------------------------
Init == /\ entries = <<>> /\ byId = IndexOf(<<>>) /\ children = {} /\ roots = {}
        /\ head = NoId
        /\ phase = "down"
        /\ target = "session"
        /\ disk = [n \in FileName |-> Missing]
        /\ inflight = 0
        /\ issued = 0
        /\ acked = {}
        /\ spoiled = FALSE

ClearMemory == /\ entries' = <<>> /\ byId' = IndexOf(<<>>) /\ children' = {}
               /\ roots' = {} /\ head' = NoId

----------------------------------------------------------------------------
(* Loading *)

\* Mutation: the head is put back at the first entry.
RebuildIndex_HeadFirst(s) == /\ byId' = IndexOf(s)
                             /\ children' = ChildPairs(s)
                             /\ roots' = RebuiltRoots(s)
                             /\ head' = IF s = <<>> THEN NoId ELSE s[1].id

RebuildIndex(s) == /\ byId' = IndexOf(s)
                   /\ children' = ChildPairs(s)
                   /\ roots' = RebuiltRoots(s)
                   /\ head' = LastId(s)

\* Mutation: an unterminated last line is dropped.
Load_DropsOpenLine ==
  LET f == disk["session"]
      kept == IF f.open THEN SubSeq(f.lines, 1, Len(f.lines) - 1) ELSE f.lines
  IN /\ phase = "down"
     /\ ~f.broken
     /\ entries' = kept
     /\ RebuildIndex(entries')
     /\ Write("session", Holding(kept))
     /\ acked' = IdsOf(entries')
     /\ phase' = "idle"
     /\ UNCHANGED <<target, inflight, issued, spoiled>>

\* SessionStore::new: read every line, or create the file; a line that does
\* not parse makes it return Err, and the program stays down.
Load == /\ phase = "down"
        /\ ~disk["session"].broken
        /\ entries' = disk["session"].lines
        /\ RebuildIndex(entries')
        /\ Write("session", [disk["session"] EXCEPT !.exists = TRUE])
        /\ acked' = IdsOf(entries')
        /\ phase' = "idle"
        /\ UNCHANGED <<target, inflight, issued, spoiled>>

----------------------------------------------------------------------------
(* Appending *)

\* The lock is free, and the blocking pool has caught up unless it may lag.
Ready == phase = "idle" /\ (LateNewline \/ inflight = 0)

\* Mutation: ids are positions in the log instead of fresh Uuids.
AppendEntry_PositionIds(parent) ==
  LET e == [id |-> Len(entries) + 1, parent |-> parent] IN
  /\ Ready
  /\ issued < MaxIssued
  /\ parent \in DOMAIN byId \cup {NoId}
  /\ issued' = issued + 1
  /\ entries' = Append(entries, e)
  /\ byId' = [d \in DOMAIN byId \cup {e.id} |->
                IF d = e.id THEN Len(entries) + 1 ELSE byId[d]]
  /\ children' = children \cup (IF parent = NoId THEN {} ELSE {<<parent, e.id>>})
  /\ roots' = roots \cup (IF parent = NoId THEN {e.id} ELSE {})
  /\ head' = e.id
  /\ phase' = "append"
  /\ UNCHANGED <<target, disk, inflight, acked, spoiled>>

\* Mutation: the position is taken before the entry is pushed.
AppendEntry_IndexBeforePush(parent) ==
  LET e == [id |-> issued + 1, parent |-> parent] IN
  /\ Ready
  /\ issued < MaxIssued
  /\ parent \in DOMAIN byId \cup {NoId}
  /\ issued' = e.id
  /\ entries' = Append(entries, e)
  /\ byId' = [d \in DOMAIN byId \cup {e.id} |->
                IF d = e.id THEN Len(entries) ELSE byId[d]]
  /\ children' = children \cup (IF parent = NoId THEN {} ELSE {<<parent, e.id>>})
  /\ roots' = roots \cup (IF parent = NoId THEN {e.id} ELSE {})
  /\ head' = e.id
  /\ phase' = "append"
  /\ UNCHANGED <<target, disk, inflight, acked, spoiled>>

\* Mutation: an entry without a parent is filed as a child all the same.
AppendEntry_ChildOfNone(parent) ==
  LET e == [id |-> issued + 1, parent |-> parent] IN
  /\ Ready
  /\ issued < MaxIssued
  /\ parent \in DOMAIN byId \cup {NoId}
  /\ issued' = e.id
  /\ entries' = Append(entries, e)
  /\ byId' = [d \in DOMAIN byId \cup {e.id} |->
                IF d = e.id THEN Len(entries) + 1 ELSE byId[d]]
  /\ children' = children \cup {<<parent, e.id>>}
  /\ roots' = roots \cup (IF parent = NoId THEN {e.id} ELSE {})
  /\ head' = e.id
  /\ phase' = "append"
  /\ UNCHANGED <<target, disk, inflight, acked, spoiled>>

\* append_entry up to its first await: the parent must be known, and the
\* memory is updated before the file is touched.
AppendEntry(parent) ==
  LET e == [id |-> issued + 1, parent |-> parent] IN
  /\ Ready
  /\ issued < MaxIssued
  /\ parent \in DOMAIN byId \cup {NoId}
  /\ issued' = e.id
  /\ entries' = Append(entries, e)
  /\ byId' = [d \in DOMAIN byId \cup {e.id} |->
                IF d = e.id THEN Len(entries) + 1 ELSE byId[d]]
  /\ children' = children \cup (IF parent = NoId THEN {} ELSE {<<parent, e.id>>})
  /\ roots' = roots \cup (IF parent = NoId THEN {e.id} ELSE {})
  /\ head' = e.id
  /\ phase' = "append"
  /\ UNCHANGED <<target, disk, inflight, acked, spoiled>>

AppendAtHead == AppendEntry(head)                           \* append
BranchFrom(id) == id \in DOMAIN byId /\ AppendEntry(id)     \* branch_from
AppendRoot == AppendEntry(NoId)                 \* append_entry with no parent

\* The first write_all: the bytes of the entry are in the file when the second one goes on.
WriteBytes == /\ phase = "append"
              /\ Write("session", PutEntry(disk["session"], entries[Len(entries)]))
              /\ phase' = "newline"
              /\ spoiled' = (spoiled \/ inflight > 0)
              /\ UNCHANGED <<memory, target, inflight, issued, acked>>

\* Mutation: the newline is forgotten.
HandOverNewline_Forgets ==
  /\ phase = "newline"
  /\ acked' = acked \cup {head}
  /\ phase' = "idle"
  /\ UNCHANGED <<memory, target, disk, inflight, issued, spoiled>>

\* The second write_all only queues the newline, and the call returns Ok.
HandOverNewline == /\ phase = "newline"
                   /\ inflight' = inflight + 1
                   /\ acked' = acked \cup {head}
                   /\ phase' = "idle"
                   /\ UNCHANGED <<memory, target, disk, issued, spoiled>>

\* open, or the write of the bytes, fails: nothing or part of the entry is in
\* the file, the call returns Err, and the memory keeps the entry.
WriteEntryFails ==
  /\ IoErrors
  /\ phase = "append"
  /\ CutOff
  /\ phase' = "idle"
  /\ UNCHANGED <<memory, target, inflight, issued, acked>>

NewlineLands == /\ inflight > 0
                /\ Write("session", PutNewline(disk["session"]))
                /\ inflight' = inflight - 1
                /\ UNCHANGED <<memory, phase, target, issued, acked, spoiled>>

\* The file was dropped when the append returned: nobody sees this error.
NewlineLost == /\ IoErrors
               /\ inflight > 0
               /\ inflight' = inflight - 1
               /\ spoiled' = TRUE
               /\ UNCHANGED <<memory, phase, target, disk, issued, acked>>

----------------------------------------------------------------------------
(* Moving the head, starting over *)

Checkout(id) == /\ Ready
                /\ id \in DOMAIN byId
                /\ head' = id
                /\ UNCHANGED <<entries, byId, children, roots, phase, target,
                               disk, inflight, issued, acked, spoiled>>

\* Mutation: reset forgets the lookup table.
Reset_KeepsIndex ==
  /\ Ready
  /\ entries' = <<>> /\ children' = {} /\ roots' = {} /\ head' = NoId
  /\ Write("session", Empty)
  /\ acked' = {}
  /\ UNCHANGED <<byId, phase, target, inflight, issued, spoiled>>

\* Mutation: reset leaves the file alone.
Reset_MemoryOnly == /\ Ready
                    /\ ClearMemory
                    /\ acked' = {}
                    /\ UNCHANGED <<phase, target, disk, inflight, issued, spoiled>>

\* reset truncates the file that is there, so newlines in flight still land
\* in it, as blank lines.
Reset == /\ Ready
         /\ ClearMemory
         /\ \/ Write("session", Empty) /\ spoiled' = FALSE
            \/ IoErrors /\ UNCHANGED <<disk, spoiled>>
         /\ acked' = {}
         /\ UNCHANGED <<phase, target, inflight, issued>>

----------------------------------------------------------------------------
(* Compaction *)

\* Mutation: the target is removed before the temporary file is written.
Compact_RemoveFirst(t) == /\ Ready
                          /\ phase' = "remove"
                          /\ target' = t
                          /\ UNCHANGED <<memory, disk, inflight, issued, acked, spoiled>>

Compact(t) == /\ Ready
              /\ phase' = "write_temp"
              /\ target' = t
              /\ UNCHANGED <<memory, disk, inflight, issued, acked, spoiled>>

\* Mutation: the lines are joined by newlines, so that the last one has none.
WriteTemp_Joined ==
  /\ phase = "write_temp"
  /\ Write(Temp(target), [Holding(entries) EXCEPT !.open = (entries # <<>>)])
  /\ phase' = "remove"
  /\ UNCHANGED <<memory, target, inflight, issued, acked, spoiled>>

WriteTemp == /\ phase = "write_temp"
             /\ Write(Temp(target), Holding(entries))
             /\ phase' = "remove"
             /\ UNCHANGED <<memory, target, inflight, issued, acked, spoiled>>

\* Newlines in flight go to the file that was removed.
RemoveTarget == /\ phase = "remove"
                /\ Write(target, Missing)
                /\ inflight' = IF target = "session" THEN 0 ELSE inflight
                /\ phase' = "rename"
                /\ UNCHANGED <<memory, target, issued, acked, spoiled>>

RenameTemp == /\ phase = "rename"
              /\ disk' = [disk EXCEPT ![target] = disk[Temp(target)],
                                      ![Temp(target)] = Missing]
              /\ phase' = IF target = "session" THEN "idle" ELSE "copy_open"
              /\ spoiled' = (spoiled /\ target # "session")
              /\ UNCHANGED <<memory, target, inflight, issued, acked>>

\* fs::copy truncates its destination, then writes it.
CopyOpen == /\ phase = "copy_open"
            /\ Write("session", Empty)
            /\ phase' = "copy_data"
            /\ UNCHANGED <<memory, target, inflight, issued, acked, spoiled>>

CopyData == /\ phase = "copy_data"
            /\ Write("session", disk[target])
            /\ phase' = "idle"
            /\ spoiled' = FALSE
            /\ UNCHANGED <<memory, target, inflight, issued, acked>>

\* The first step that fails ends the compaction; what was done stays done.
CompactFails ==
  /\ IoErrors
  /\ phase \in CompactPhase
  /\ CutOff
  /\ phase' = "idle"
  /\ UNCHANGED <<memory, target, inflight, issued, acked>>

----------------------------------------------------------------------------
\* While a newline is in flight no call need be under way, but the append is not over.
Moment == IF phase = "idle" /\ inflight > 0 THEN "newline" ELSE phase

\* The process dies, perhaps half way through a file operation; what it had not handed
\* to the kernel is gone.
Crash == /\ Moment \in CrashIn
         /\ ClearMemory
         /\ disk' \in Cut
         /\ spoiled' = (spoiled \/ inflight > 0 \/ phase = "newline"
                         \/ disk'["session"] # disk["session"])
         /\ inflight' = 0
         /\ phase' = "down"
         /\ UNCHANGED <<target, issued, acked>>

Next == \/ Load
        \/ AppendAtHead \/ AppendRoot
        \/ \E id \in DOMAIN byId : BranchFrom(id) \/ Checkout(id)
        \/ WriteBytes \/ HandOverNewline \/ WriteEntryFails \/ NewlineLands \/ NewlineLost
        \/ Reset
        \/ \E t \in Target : Compact(t)
        \/ WriteTemp \/ RemoveTarget \/ RenameTemp \/ CopyOpen \/ CopyData
        \/ CompactFails
        \/ Crash

Spec == Init /\ [][Next]_vars

----------------------------------------------------------------------------
(* Properties *)

\* The type of every variable.
TypeOK == /\ entries \in Seq(Entry)
          /\ DOMAIN byId \subseteq Id
          /\ \A d \in DOMAIN byId : byId[d] \in Nat
          /\ children \subseteq Id \X Id
          /\ roots \subseteq Id
          /\ head \in Nat
          /\ phase \in Phase
          /\ target \in Target
          /\ disk \in [FileName -> File]
          /\ inflight \in Nat
          /\ issued \in 0..MaxIssued
          /\ acked \subseteq Id
          /\ spoiled \in BOOLEAN

\* An id occurs once in a log, and an entry comes after its parent.
TreeShape(s) ==
  \A i, j \in 1..Len(s) : /\ s[i].id = s[j].id => i = j
                          /\ s[i].parent = s[j].id => j < i

\* Whatever fails and whenever the process dies, the log in memory and every
\* file a later start could load (even a temporary one) hold unique ids and no
\* cycle: what test_suite.md calls session_append_only and
\* session_tree_is_acyclic, across append_entry, compact, reset and new.
AlwaysTrees == /\ TreeShape(entries)
               /\ \A n \in FileName : TreeShape(disk[n].lines)

\* The lookup table and the child lists that append_entry maintains are those
\* rebuild_index would compute, and the roots and the head are entries of the
\* log (no head exactly when there is no entry), after any calls and failures.
IndexExact == /\ byId = IndexOf(entries)
              /\ children = ChildPairs(entries)
              /\ roots \subseteq IdsOf(entries)
              /\ head \in IdsOf(entries) \cup {NoId}
              /\ (head = NoId) <=> (entries = <<>>)

ParentsIn(s) == \A i \in 1..Len(s) : s[i].parent \in IdsOf(s) \cup {NoId}

\* No entry, in memory or in a file, has a parent its log does not hold:
\* append_entry checks the parent in memory, and the file must keep up.
ParentsKnown == /\ ParentsIn(entries)
                /\ \A n \in FileName : ParentsIn(disk[n].lines)

\* At every moment, of a compaction above all and whichever its target, one file
\* holds every entry the process loaded or was told was stored.
AckedOnDisk == \E n \in FileName : acked \subseteq IdsOf(disk[n].lines)

\* A process that starts finds every entry whose append returned Ok to the
\* one before it.
RecoversAcked ==
  [][phase = "down" /\ phase' # "down" => acked \subseteq IdsOf(entries')]_vars

\* Between two calls the session file holds the log in memory, in its order.
MirrorsMemory == phase = "idle" => disk["session"].lines = entries

\* With no call under way and no newline in flight, every line of the session file is
\* complete and parses, so that the next start can load it and append to it, unless the
\* writing of an entry or of a copy was cut off, a newline was lost, or the next entry was
\* written before it: whatever else fails and wherever else the process dies, in a
\* compaction too, no line is torn, and a reset or a compaction makes a file whole again.
SettledLoadable ==
  phase \in {"idle", "down"} /\ inflight = 0 /\ ~spoiled =>
    ~disk["session"].open /\ ~disk["session"].broken

\* A process can always be started again: every line of the session file it finds parses
\* ("easy recovery", spec.md:88).
Restartable == phase = "down" => ~disk["session"].broken

\* The store implements the log its callers count on: the log is what the
\* memory holds while the process runs, less the entry being appended, and what
\* the file holds while it does not.
Pending == IF phase = "append" THEN <<entries[Len(entries)]>> ELSE <<>>
Committed == IF phase = "down" THEN disk["session"].lines
             ELSE SubSeq(entries, 1, Len(entries) - Len(Pending))
D == INSTANCE DurableLog WITH log <- Committed, pending <- Pending
ImplementsDurableLog == D!Spec
=============================================================================
