------------------------------- MODULE CliProofs -------------------------------
(***************************************************************************)
(* Proofs about Cli, for any number of processes, session files, roots and *)
(* inputs, and whatever write fails and whenever a process is interrupted: *)
(* a session file that is not spoiled has what its process knows, every    *)
(* entry in it is under one before it, and only a launch without           *)
(* --continue takes entries out of it, or a compaction that has them in    *)
(* the temporary file; every variable keeps its type; and a discovery      *)
(* comes to the merge of the roots, whatever is in them.                   *)
(*                                                                         *)
(* SessionsHold is not inductive.  It says nothing of who may use a file   *)
(* (Sole), of the second store that /open-by-path has made, which lies     *)
(* beside the first until it takes its place (Staged), of the temporary    *)
(* file before the session file is removed (Kept), nor of the entry that   *)
(* is in memory and not yet in the file (Grown, Ready).                    *)
(*                                                                         *)
(* Discoveries is a recursive function of the roots.  That it exists, and  *)
(* that each catalog of the first i roots is their merge (First), is shown *)
(* by the least root at which it would fail (Least, from the               *)
(* well-foundedness of the naturals).                                      *)
(***************************************************************************)
EXTENDS Cli, SequenceTheorems, FiniteSetTheorems, TLAPS

Entry == [id : Nat, parent : Nat]

Typed ==
  /\ file \in [SessionFile -> Seq(Entry)]
  /\ temp \in [SessionFile -> [there : BOOLEAN, log : Seq(Entry)]]
  /\ pc \in [Proc -> Pc]
  /\ path \in [Proc -> SessionFile]
  /\ log \in [Proc -> Seq(Entry)]
  /\ head \in [Proc -> Nat]
  /\ staged \in [Proc -> [path : SessionFile, log : Seq(Entry)]]
  /\ issued \in Nat

\* A file that is not spoiled has one user.
Sole == \A f \in SessionFile \ spoiled : \A p, q \in Proc : Uses(p, f) /\ Uses(q, f) => p = q

Rooted(s) == \A i \in 1..Len(s) : s[i].parent \in {NoId} \cup {s[j].id : j \in 1..i - 1}

HasOpen(p, f) == pc[p] \notin {"off", "open"} /\ path[p] = f
HasStaged(p, f) == pc[p] \in Opening /\ staged[p].path = f

\* All but the newest.
Front(s) == SubSeq(s, 1, Len(s) - 1)

Mirrors(p, f) ==
  HasOpen(p, f) /\ (pc[p] = "swap" => staged[p].path # f) =>
    IF pc[p] = "rename" THEN file[f] = <<>> /\ temp[f] = [there |-> TRUE, log |-> log[p]]
                        ELSE file[f] = Written(p)
Kept(p, f) ==
  HasOpen(p, f) /\ pc[p] = "remove" => temp[f] = [there |-> TRUE, log |-> log[p]]
Staged(p, f) ==
  HasStaged(p, f) =>
    file[f] = IF pc[p] = "note_write" THEN Front(staged[p].log) ELSE staged[p].log
Grown(p, f) == /\ HasOpen(p, f) => Rooted(log[p])
               /\ HasStaged(p, f) => Rooted(staged[p].log)
Holds(p, f) == Mirrors(p, f) /\ Kept(p, f) /\ Staged(p, f) /\ Grown(p, f)

\* The head is the newest entry, and a process writes one that it has.
Ready(p) == /\ head[p] = Last(log[p])
            /\ pc[p] \in Writing => log[p] # <<>>
            /\ pc[p] = "note_write" => staged[p].log # <<>>

IInv == /\ Typed
        /\ Sole
        /\ \A p \in Proc : Ready(p)
        /\ \A f \in SessionFile \ spoiled : Rooted(file[f]) /\ \A p \in Proc : Holds(p, f)

----------------------------------------------------------------------------
(* Sequences of entries *)

\* The last entry is one, or there is none (store.rs line 327).
LEMMA LastKnown ==
  ASSUME NEW s \in Seq(Entry)
  PROVE  Last(s) \in Nat /\ Last(s) \in {NoId} \cup IdsOf(s)
<1>1. CASE s = <<>>
  BY <1>1 DEF Last, NoId
<1>2. CASE s # <<>>
  <2>1. Len(s) \in 1..Len(s) /\ s[Len(s)] \in Entry
    BY <1>2
  <2> QED
    BY <1>2, <2>1 DEF Last, IdsOf, Entry
<1> QED
  BY <1>1, <1>2

\* The ids of entries are numbers.
LEMMA IdsNat == \A s \in Seq(Entry) : IdsOf(s) \subseteq Nat
<1> SUFFICES ASSUME NEW s \in Seq(Entry), NEW i \in 1..Len(s) PROVE s[i].id \in Nat
  BY DEF IdsOf
<1>1. s[i] \in Entry
  OBVIOUS
<1> QED
  BY <1>1 DEF Entry

\* The entry that is appended is the last.
LEMMA LastAppended ==
  ASSUME NEW s \in Seq(Entry), NEW e \in Entry
  PROVE  Last(Append(s, e)) = e.id
<1>1. Append(s, e) # <<>> /\ Append(s, e)[Len(Append(s, e))] = e
  OBVIOUS
<1> QED
  BY <1>1 DEF Last

\* A log grows by an entry under one that it has.
LEMMA AppendRooted ==
  ASSUME NEW s \in Seq(Entry), NEW e \in Entry, Rooted(s),
         e.parent \in {NoId} \cup IdsOf(s)
  PROVE  Rooted(Append(s, e))
<1> DEFINE t == Append(s, e)
<1>1. /\ Len(s) \in Nat /\ Len(t) = Len(s) + 1
      /\ \A i \in 1..Len(s) : t[i] = s[i]
      /\ t[Len(s) + 1] = e
  OBVIOUS
<1> HIDE DEF t
<1> SUFFICES ASSUME NEW i \in 1..Len(t)
             PROVE  t[i].parent \in {NoId} \cup {t[j].id : j \in 1..i - 1}
  BY DEF Rooted, t
<1>2. CASE i \in 1..Len(s)
  <2>1. \A j \in 1..i - 1 : t[j] = s[j]
    BY <1>1, <1>2
  <2>2. t[i].parent \in {NoId} \cup {s[j].id : j \in 1..i - 1}
    BY <1>1, <1>2 DEF Rooted
  <2> QED
    BY <2>1, <2>2
<1>3. CASE i = Len(s) + 1
  <2>1. i - 1 = Len(s)
    BY <1>1, <1>3
  <2> QED
    BY <1>1, <1>3, <2>1 DEF IdsOf
<1> QED
  BY <1>1, <1>2, <1>3

\* What is appended to is still there.
LEMMA AppendExtends ==
  ASSUME NEW s \in Seq(Entry), NEW e \in Entry
  PROVE  Extends(Append(s, e), s)
BY DEF Extends

\* A log extends itself.
LEMMA SameExtends ==
  ASSUME NEW s \in Seq(Entry)
  PROVE  Extends(s, s)
BY DEF Extends

\* To append the newest entry to the others is to have them all.
LEMMA FrontAndLast ==
  ASSUME NEW s \in Seq(Entry)
  PROVE  /\ s # <<>> => /\ s[Len(s)] \in Entry
                        /\ Front(s) \in Seq(Entry)
                        /\ Append(Front(s), s[Len(s)]) = s
         /\ \A e \in Entry : Front(Append(s, e)) = s /\ Append(s, e) # <<>>
<1>1. ASSUME s # <<>>
      PROVE  s[Len(s)] \in Entry /\ Front(s) \in Seq(Entry) /\ Append(Front(s), s[Len(s)]) = s
  <2>1. Len(s) \in 1..Len(s) /\ Len(s) - 1 \in 0..Len(s)
    BY <1>1
  <2> DEFINE n == Len(s) - 1
  <2>n. n \in Int /\ 1 \in Int /\ n >= 0 /\ \A i \in 1..n : s[i] \in Entry
    BY <2>1
  <2> HIDE DEF n
  <2>f. /\ SubSeq(s, 1, n) \in Seq(Entry)
        /\ Len(SubSeq(s, 1, n)) = IF 1 <= n THEN n - 1 + 1 ELSE 0
        /\ \A i \in 1..n - 1 + 1 : SubSeq(s, 1, n)[i] = s[1 + i - 1]
    BY ONLY <2>n, SubSeqProperties
  <2>e. Front(s) = SubSeq(s, 1, n)
    BY DEF Front, n
  <2>2. Front(s) \in Seq(Entry) /\ Len(Front(s)) = Len(s) - 1
    <3>1. n = Len(s) - 1
      BY DEF n
    <3> HIDE DEF Front
    <3> QED
      BY <2>n, <2>f, <2>e, <3>1
  <2>3. \A i \in 1..Len(s) - 1 : Front(s)[i] = s[i]
    BY <2>n, <2>f DEF Front, n
  <2>4. s[Len(s)] \in Entry
    BY <2>1
  <2> DEFINE t == Append(Front(s), s[Len(s)])
  <2>5. t \in Seq(Entry) /\ Len(t) = Len(s) /\ \A i \in 1..Len(s) : t[i] = s[i]
    BY <2>1, <2>2, <2>3, <2>4
  <2>6. t = s
    BY <2>5
  <2> QED
    BY <2>2, <2>4, <2>6
<1>2. ASSUME NEW e \in Entry PROVE Front(Append(s, e)) = s /\ Append(s, e) # <<>>
  <2> DEFINE t == Append(s, e)
  <2>1. /\ t \in Seq(Entry) /\ Len(t) = Len(s) + 1 /\ Len(s) \in Nat
        /\ \A i \in 1..Len(s) : t[i] = s[i]
    OBVIOUS
  <2> HIDE DEF t
  <2>2. Len(t) - 1 = Len(s) /\ Len(s) \in 0..Len(t)
    BY <2>1
  <2>3. /\ SubSeq(t, 1, Len(s)) \in Seq(Entry) /\ Len(SubSeq(t, 1, Len(s))) = Len(s)
        /\ \A i \in 1..Len(s) : SubSeq(t, 1, Len(s))[i] = s[i]
    BY <2>1, <2>2
  <2>4. SubSeq(t, 1, Len(s)) = s
    BY <2>3
  <2>5. t # <<>>
    BY <2>1
  <2> QED
    BY <2>2, <2>4, <2>5 DEF Front, t
<1> QED
  BY <1>1, <1>2

----------------------------------------------------------------------------
(* What a step of one process has to keep *)

\* Who does not use a file, there is nothing to keep about.
LEMMA UnusedHolds ==
  ASSUME NEW p \in Proc, NEW f, ~Uses(p, f)
  PROVE  Holds(p, f)
BY DEF Holds, Mirrors, Kept, Staged, Grown, HasOpen, HasStaged, Uses

\* A step of one process keeps the invariant if it keeps what is said of this process,
\* and touches only files that it uses, or that nobody else does.
LEMMA OneProcess ==
  ASSUME IInv, NEW p \in Proc, Typed', Ready(p)', spoiled \subseteq spoiled',
         \A q \in Proc \ {p} : UNCHANGED <<pc[q], path[q], log[q], head[q], staged[q]>>,
         \A f \in SessionFile \ spoiled' :
           /\ Holds(p, f)' /\ Rooted(file'[f])
           /\ Uses(p, f)' => Uses(p, f) \/ \A q \in Proc \ {p} : ~Uses(q, f)
           /\ Uses(p, f) \/ UNCHANGED <<file[f], temp[f]>>
  PROVE  IInv'
<1>1. ASSUME NEW q \in Proc \ {p}, NEW f PROVE Uses(q, f)' <=> Uses(q, f)
  BY <1>1 DEF Uses
<1>2. ASSUME NEW f \in SessionFile \ spoiled' PROVE f \in SessionFile \ spoiled
  BY <1>2
<1>3. Sole'
  BY <1>1, <1>2 DEF IInv, Sole
<1>4. ASSUME NEW q \in Proc PROVE Ready(q)'
  <2>1. CASE q = p
    BY <2>1
  <2>2. CASE q # p
    BY <2>2 DEF IInv, Ready
  <2> QED
    BY <2>1, <2>2
<1>5. ASSUME NEW f \in SessionFile \ spoiled', NEW q \in Proc PROVE Holds(q, f)'
  <2>1. CASE q = p
    BY <1>5, <2>1
  <2>2. CASE q # p /\ Uses(p, f)
    <3>1. ~Uses(q, f)
      BY <1>2, <1>5, <2>2 DEF IInv, Sole
    <3>2. ~Uses(q, f)'
      BY <1>1, <2>2, <3>1
    <3> QED
      BY <3>2 DEF Uses, Holds, Mirrors, Kept, Staged, Grown, HasOpen, HasStaged
  <2>3. CASE q # p /\ ~Uses(p, f)
    <3>1. UNCHANGED <<file[f], temp[f], pc[q], path[q], log[q], staged[q]>>
      BY <1>5, <2>3
    <3>2. Holds(q, f)
      BY <1>2, <1>5 DEF IInv
    <3> QED
      BY <3>1, <3>2
      DEF Holds, Mirrors, Written, Kept, Staged, Grown, Rooted, HasOpen, HasStaged
  <2> QED
    BY <2>1, <2>2, <2>3
<1> QED
  BY <1>3, <1>4, <1>5 DEF IInv, Rooted

\* A process does not come to use a file in most steps.
LEMMA SameUse ==
  ASSUME NEW p \in Proc, pc[p] \notin {"off", "open"}, UNCHANGED path[p],
         pc'[p] \in Opening => pc[p] \in Opening /\ staged'[p].path = staged[p].path
  PROVE  \A f : Uses(p, f)' => Uses(p, f)
BY DEF Uses

----------------------------------------------------------------------------
(* Steps that append, and write what they have appended *)

\* The entry that AppendUnder makes is one.
LEMMA NewEntry ==
  ASSUME Typed, NEW parent \in Nat
  PROVE  [id |-> issued + 1, parent |-> parent] \in Entry
BY DEF Typed, Entry

\* The process that uses a file alone has one more entry in memory than there is in it.
LEMMA AppendKeeps ==
  ASSUME IInv, NEW p \in Proc, NEW label \in Writing,
         pc[p] \in {"prompt", "command", "answer", "send"},
         NEW parent \in {NoId} \cup IdsOf(log[p]), parent \in Nat,
         AppendUnder(p, parent, label)
  PROVE  IInv'
<1> DEFINE e == [id |-> issued + 1, parent |-> parent]
<1>1. e \in Entry /\ e.parent = parent /\ e.id = issued + 1
  BY NewEntry DEF IInv
<1>2. /\ log' = [log EXCEPT ![p] = Append(@, e)]
      /\ head' = [head EXCEPT ![p] = e.id]
      /\ pc' = [pc EXCEPT ![p] = label]
      /\ issued' = issued + 1
      /\ UNCHANGED <<file, temp, spoiled, path, staged>>
  BY DEF AppendUnder, Goto, disk
<1> HIDE DEF e
<1>t. log[p] \in Seq(Entry) /\ Append(log[p], e) \in Seq(Entry)
  BY <1>1 DEF IInv, Typed
<1>3. Typed'
  BY <1>1, <1>2, <1>t DEF IInv, Typed, Entry, Pc
<1>4. /\ pc'[p] = label /\ label \in Writing /\ log'[p] = Append(log[p], e)
      /\ head'[p] = e.id /\ path'[p] = path[p] /\ staged'[p] = staged[p]
  BY <1>2 DEF IInv, Typed
<1>5. Ready(p)'
  BY <1>1, <1>4, <1>t, LastAppended, FrontAndLast DEF Ready, Writing
<1>6. ASSUME NEW f \in SessionFile \ spoiled PROVE Holds(p, f)'
  <2>1. CASE path[p] # f
    BY <1>4, <2>1
    DEF Holds, Mirrors, Kept, Staged, Grown, HasOpen, HasStaged, Writing, Opening
  <2>2. CASE path[p] = f
    <3>1. file[f] = log[p] /\ Rooted(log[p])
      BY <1>6, <2>2 DEF IInv, Holds, Mirrors, Written, Grown, HasOpen, Writing
    <3>2. Rooted(Append(log[p], e))
      BY <1>1, <1>t, <3>1, AppendRooted
    <3>3. Front(Append(log[p], e)) = log[p]
      BY <1>1, <1>t, FrontAndLast
    <3>4. file'[f] = Written(p)'
      BY <1>2, <1>4, <3>1, <3>3 DEF Written, Front
    <3> QED
      BY <1>4, <3>2, <3>4
      DEF Holds, Mirrors, Kept, Staged, Grown, Rooted, HasOpen, HasStaged, Writing, Opening
  <2> QED
    BY <2>1, <2>2
<1>7. \A f : Uses(p, f)' => Uses(p, f)
  BY <1>4, SameUse DEF Writing, Opening
<1>8. \A q \in Proc \ {p} : UNCHANGED <<pc[q], path[q], log[q], head[q], staged[q]>>
  BY <1>2 DEF IInv, Typed
<1>9. \A f \in SessionFile \ spoiled' : Rooted(file'[f])
  BY <1>2 DEF IInv
<1> QED
  BY <1>2, <1>3, <1>5, <1>6, <1>7, <1>8, <1>9, OneProcess

\* The line completes the file.
LEMMA WriteKeeps == ASSUME IInv, NEW p \in Proc, WriteEntry(p) PROVE IInv'
<1> DEFINE g == path[p]
           e == log[p][Len(log[p])]
<1>1. PICK label \in {"answer", "leave", "prompt"} : pc' = [pc EXCEPT ![p] = label]
  BY DEF WriteEntry, Goto, Back
<1>2. /\ pc[p] \in Writing /\ g \in SessionFile /\ log[p] \in Seq(Entry) /\ log[p] # <<>>
      /\ file[g] \in Seq(Entry)
  BY DEF WriteEntry, IInv, Typed, Ready
<1>3. e \in Entry /\ Append(Front(log[p]), e) = log[p]
  BY <1>2, FrontAndLast
<1>4. /\ file' = [file EXCEPT ![g] = Append(@, e)]
      /\ spoiled \subseteq spoiled'
      /\ UNCHANGED <<temp, path, log, head, staged, issued>>
  BY DEF WriteEntry, LineWritten, store
<1> HIDE DEF g, e
<1>5. Typed'
  BY <1>1, <1>2, <1>3, <1>4 DEF IInv, Typed, Pc
<1>6. pc'[p] = label
  BY <1>1 DEF IInv, Typed
<1>7. Ready(p)'
  BY <1>4, <1>6 DEF IInv, Ready, Writing
<1>8. ASSUME NEW f \in SessionFile \ spoiled' PROVE Holds(p, f)' /\ Rooted(file'[f])
  <2>0. f \in SessionFile \ spoiled
    BY <1>4, <1>8
  <2>1. CASE g # f
    <3>1. file'[f] = file[f] /\ Rooted(file[f])
      BY <1>4, <2>0, <2>1 DEF IInv, Typed
    <3> QED
      BY <1>4, <1>6, <2>1, <3>1
      DEF Holds, Mirrors, Kept, Staged, Grown, HasOpen, HasStaged, Writing, Opening, g
  <2>2. CASE g = f
    <3>1. file[f] = Front(log[p]) /\ Rooted(log[p])
      BY <1>2, <2>0, <2>2
      DEF IInv, Holds, Mirrors, Written, Front, Grown, HasOpen, Writing, g
    <3>2. file'[f] = log[p]
      BY <1>2, <1>3, <1>4, <2>2, <3>1 DEF IInv, Typed
    <3>3. Written(p)' = log[p]
      BY <1>4, <1>6 DEF Written, Writing
    <3> QED
      BY <1>4, <1>6, <3>1, <3>2, <3>3
      DEF Holds, Mirrors, Kept, Staged, Grown, Rooted, HasOpen, HasStaged, Writing, Opening
  <2> QED
    BY <2>1, <2>2
<1>9. \A f : Uses(p, f)' => Uses(p, f)
  BY <1>2, <1>4, <1>6, SameUse DEF Writing, Opening
<1>10. \A q \in Proc \ {p} : UNCHANGED <<pc[q], path[q], log[q], head[q], staged[q]>>
  BY <1>1, <1>4 DEF IInv, Typed
<1>11. \A f \in SessionFile : Uses(p, f) \/ UNCHANGED <<file[f], temp[f]>>
  BY <1>2, <1>4 DEF Uses, Writing, IInv, Typed, g
<1> QED
  BY <1>4, <1>5, <1>7, <1>8, <1>9, <1>10, <1>11, OneProcess

----------------------------------------------------------------------------
(* Steps that leave the sessions alone, or let go of them *)

\* Where a process may be with the session file and its memory the same.
Settled == {"reset", "search", "command", "prompt", "send", "answer", "leave", "compact"}

\* A process goes on with the files and the memory as they are: if they differ, the file
\* is spoiled.
LEMMA MoveKeeps ==
  ASSUME IInv, NEW p \in Proc, NEW label \in Settled,
         pc[p] \in Settled \cup Writing \cup Compacting, pc' = [pc EXCEPT ![p] = label],
         pc[p] \in Writing \cup {"rename"} => path[p] \in spoiled',
         spoiled \subseteq spoiled',
         UNCHANGED <<file, temp, store, staged, issued>>
  PROVE  IInv'
<1> USE DEF store
<1>1. Typed'
  BY DEF IInv, Typed, Pc, Settled, Compacting
<1>2. pc'[p] = label
  BY DEF IInv, Typed
<1>3. Ready(p)'
  BY <1>2 DEF IInv, Ready, Settled, Writing
<1>4. ASSUME NEW f \in SessionFile \ spoiled' PROVE Holds(p, f)' /\ Rooted(file'[f])
  <2>1. Holds(p, f) /\ Rooted(file[f])
    BY <1>4 DEF IInv
  <2>2. path[p] = f => pc[p] \in Settled \cup {"remove"}
    BY <1>4 DEF Writing, Compacting, Settled
  <2> QED
    BY <1>2, <2>1, <2>2
    DEF Holds, Mirrors, Written, Kept, Staged, Grown, Rooted, HasOpen, HasStaged, Settled,
        Writing, Opening
<1>5. \A f : Uses(p, f)' => Uses(p, f)
  BY <1>2, SameUse DEF Settled, Writing, Compacting, Opening
<1>6. \A q \in Proc \ {p} : UNCHANGED <<pc[q], path[q], log[q], head[q], staged[q]>>
  BY DEF IInv, Typed
<1> QED
  BY <1>1, <1>3, <1>4, <1>5, <1>6, OneProcess

\* The end of a process leaves the files, and its memory is forgotten.
LEMMA GoneKeeps ==
  ASSUME IInv, NEW p \in Proc, Gone(p), UNCHANGED <<file, temp, spoiled, issued>>
  PROVE  IInv'
<1>1. Typed'
  <2>1. NoStore \in [path : SessionFile, log : Seq(Entry)] /\ <<>> \in Seq(Entry)
    BY DefaultIsAFile DEF NoStore
  <2>2. staged' \in [Proc -> [path : SessionFile, log : Seq(Entry)]]
    BY <2>1 DEF Gone, IInv, Typed
  <2> QED
    BY <2>1, <2>2, DefaultIsAFile DEF Gone, Goto, IInv, Typed, Pc, NoId
<1>2. \A q \in Proc \ {p} : UNCHANGED <<pc[q], path[q], log[q], head[q], staged[q]>>
  BY DEF Gone, Goto, IInv, Typed
<1>3. pc'[p] = "off" /\ head'[p] = NoId /\ log'[p] = <<>>
  BY DEF Gone, Goto, IInv, Typed
<1>4. \A f : ~Uses(p, f)'
  BY <1>3 DEF Uses, Opening
<1>5. Ready(p)'
  BY <1>3 DEF Ready, Last, Writing
<1>6. ASSUME NEW f \in SessionFile \ spoiled' PROVE Holds(p, f)' /\ Rooted(file'[f])
  BY <1>3, <1>6
  DEF IInv, Holds, Mirrors, Kept, Staged, Grown, HasOpen, HasStaged, Opening
<1> QED
  BY <1>1, <1>2, <1>4, <1>5, <1>6, OneProcess

\* A launch opens nothing yet.
LEMMA LaunchKeeps ==
  ASSUME IInv, NEW p \in Proc, NEW command, NEW continue, NEW session \in SessionFile,
         Launch(p, command, continue, session)
  PROVE  IInv'
<1>1. Typed'
  BY DEF Launch, Goto, disk, IInv, Typed, Pc
<1>2. \A q \in Proc \ {p} : UNCHANGED <<pc[q], path[q], log[q], head[q], staged[q]>>
  BY DEF Launch, Goto, IInv, Typed
<1>3. pc'[p] = "open" /\ UNCHANGED <<file, temp, spoiled, log, head>>
  BY DEF Launch, Goto, disk, IInv, Typed
<1>4. \A f : ~Uses(p, f)'
  BY <1>3 DEF Uses, Opening
<1>5. Ready(p)'
  BY <1>3 DEF IInv, Ready, Writing
<1>6. ASSUME NEW f \in SessionFile \ spoiled' PROVE Holds(p, f)' /\ Rooted(file'[f])
  BY <1>3, <1>6
  DEF IInv, Holds, Mirrors, Kept, Staged, Grown, HasOpen, HasStaged, Opening
<1> QED
  BY <1>1, <1>2, <1>3, <1>4, <1>5, <1>6, OneProcess

----------------------------------------------------------------------------
(* Steps that open, empty or compact a session *)

\* Memory is what was read, and whoever has the file open already is counted.
LEMMA OpenKeeps == ASSUME IInv, NEW p \in Proc, OpenSession(p) PROVE IInv'
<1> DEFINE g == path[p]
<1>0. g \in SessionFile /\ file[g] \in Seq(Entry) /\ pc[p] = "open"
  BY DEF OpenSession, IInv, Typed
<1>1. PICK label \in {"search", "reset"} : pc' = [pc EXCEPT ![p] = label]
  BY DEF OpenSession, Goto
<1>2. /\ log' = [log EXCEPT ![p] = file[g]]
      /\ head' = [head EXCEPT ![p] = Last(file[g])]
      /\ UNCHANGED <<file, temp, path, staged, issued>>
      /\ spoiled \subseteq spoiled'
      /\ g \notin spoiled' => \A q \in Proc \ {p} : ~Uses(q, g)
  BY DEF OpenSession, Opened
<1> HIDE DEF g
<1>3. Typed'
  BY <1>0, <1>1, <1>2, LastKnown DEF IInv, Typed, Pc
<1>4. pc'[p] = label /\ log'[p] = file[g] /\ head'[p] = Last(file[g])
  BY <1>1, <1>2 DEF IInv, Typed
<1>5. Ready(p)'
  BY <1>4 DEF Ready, Last, Writing
<1>6. ASSUME NEW f \in SessionFile \ spoiled' PROVE Holds(p, f)' /\ Rooted(file'[f])
  <2>1. Rooted(file[f]) /\ file'[f] = file[f]
    BY <1>2, <1>6 DEF IInv
  <2> QED
    BY <1>2, <1>4, <2>1
    DEF Holds, Mirrors, Written, Kept, Staged, Grown, Rooted, HasOpen, HasStaged, Writing,
        Opening, g
<1>7. ASSUME NEW f \in SessionFile \ spoiled', Uses(p, f)'
      PROVE  \A q \in Proc \ {p} : ~Uses(q, f)
  <2>1. f = g
    BY <1>2, <1>4, <1>7 DEF Uses, Opening, g
  <2> QED
    BY <1>2, <1>7, <2>1
<1>8. \A q \in Proc \ {p} : UNCHANGED <<pc[q], path[q], log[q], head[q], staged[q]>>
  BY <1>1, <1>2 DEF IInv, Typed
<1> QED
  BY <1>2, <1>3, <1>5, <1>6, <1>7, <1>8, OneProcess

\* Memory and file are emptied together.
LEMMA ResetKeeps == ASSUME IInv, NEW p \in Proc, ResetSession(p) PROVE IInv'
<1>0. pc[p] = "reset" /\ path[p] \in SessionFile /\ <<>> \in Seq(Entry)
  BY DEF ResetSession, IInv, Typed
<1>1. /\ pc' = [pc EXCEPT ![p] = "search"]
      /\ file' = [file EXCEPT ![path[p]] = <<>>]
      /\ log' = [log EXCEPT ![p] = <<>>]
      /\ head' = [head EXCEPT ![p] = NoId]
      /\ UNCHANGED <<temp, path, staged, spoiled, issued>>
  BY DEF ResetSession, Goto
<1>2. Typed'
  BY <1>0, <1>1 DEF IInv, Typed, Pc, NoId
<1>3. pc'[p] = "search" /\ log'[p] = <<>> /\ head'[p] = NoId
  BY <1>1 DEF IInv, Typed
<1>4. Ready(p)'
  BY <1>3 DEF Ready, Last, Writing
<1>5. ASSUME NEW f \in SessionFile \ spoiled' PROVE Holds(p, f)' /\ Rooted(file'[f])
  <2>1. Rooted(<<>>)
    BY DEF Rooted
  <2>2. file'[f] = IF f = path[p] THEN <<>> ELSE file[f]
    BY <1>1 DEF IInv, Typed
  <2>3. Rooted(file'[f])
    BY <1>1, <1>5, <2>1, <2>2 DEF IInv
  <2> QED
    BY <1>1, <1>3, <2>1, <2>2, <2>3
    DEF Holds, Mirrors, Written, Kept, Staged, Grown, Rooted, HasOpen, HasStaged, Writing,
        Opening
<1>6. /\ \A f : Uses(p, f)' => Uses(p, f)
      /\ \A f \in SessionFile : Uses(p, f) \/ UNCHANGED <<file[f], temp[f]>>
  BY <1>0, <1>1, <1>3 DEF Uses, Opening, IInv, Typed
<1>7. \A q \in Proc \ {p} : UNCHANGED <<pc[q], path[q], log[q], head[q], staged[q]>>
  BY <1>1 DEF IInv, Typed
<1> QED
  BY <1>1, <1>2, <1>4, <1>5, <1>6, <1>7, OneProcess

\* A step of a compaction changes what is on the disk, and where the process is.
LEMMA CompactStep ==
  ASSUME IInv, NEW p \in Proc, pc[p] \in Compacting, NEW label \in {"remove", "rename", "send"},
         pc' = [pc EXCEPT ![p] = label], UNCHANGED <<store, staged, spoiled, issued>>, Typed',
         \A f \in SessionFile \ {path[p]} : UNCHANGED <<file[f], temp[f]>>,
         path[p] \notin spoiled => Holds(p, path[p])' /\ Rooted(file'[path[p]])
  PROVE  IInv'
<1> USE DEF store
<1>1. pc'[p] = label
  BY DEF IInv, Typed
<1>2. Ready(p)'
  BY <1>1 DEF IInv, Ready, Writing
<1>3. ASSUME NEW f \in SessionFile \ spoiled PROVE Holds(p, f)' /\ Rooted(file'[f])
  <2>1. CASE f = path[p]
    BY <1>3, <2>1
  <2>2. CASE f # path[p]
    BY <1>1, <1>3, <2>2
    DEF IInv, Holds, Mirrors, Kept, Staged, Grown, HasOpen, HasStaged, Opening
  <2> QED
    BY <2>1, <2>2
<1>4. /\ \A f : Uses(p, f)' => Uses(p, f)
      /\ \A f \in SessionFile : Uses(p, f) \/ UNCHANGED <<file[f], temp[f]>>
  BY <1>1 DEF Uses, Compacting, Opening
<1>5. \A q \in Proc \ {p} : UNCHANGED <<pc[q], path[q], log[q], head[q], staged[q]>>
  BY DEF IInv, Typed
<1> QED
  BY <1>2, <1>3, <1>4, <1>5, OneProcess

\* The temporary file has what the process knows, ...
LEMMA WriteTempKeeps == ASSUME IInv, NEW p \in Proc, WriteTemp(p) PROVE IInv'
<1>0. /\ pc[p] = "compact" /\ path[p] \in SessionFile /\ log[p] \in Seq(Entry)
      /\ pc' = [pc EXCEPT ![p] = "remove"]
      /\ temp' = [temp EXCEPT ![path[p]] = [there |-> TRUE, log |-> log[p]]]
      /\ UNCHANGED <<file, store, staged, spoiled, issued>>
  BY DEF WriteTemp, Goto, IInv, Typed
<1> USE DEF store
<1>1. Typed'
  BY <1>0 DEF IInv, Typed, Pc, Compacting
<1>2. pc'[p] = "remove" /\ temp'[path[p]] = [there |-> TRUE, log |-> log[p]]
  BY <1>0 DEF IInv, Typed
<1>3. ASSUME path[p] \notin spoiled PROVE Holds(p, path[p])' /\ Rooted(file'[path[p]])
  <2>1. Holds(p, path[p]) /\ Rooted(file[path[p]])
    BY <1>0, <1>3 DEF IInv
  <2> QED
    BY <1>0, <1>2, <2>1
    DEF Holds, Mirrors, Written, Kept, Staged, Grown, Rooted, HasOpen, HasStaged, Writing,
        Opening
<1>4. \A f \in SessionFile \ {path[p]} : UNCHANGED <<file[f], temp[f]>>
  BY <1>0 DEF IInv, Typed
<1> QED
  BY <1>0, <1>1, <1>3, <1>4, CompactStep DEF Compacting

\* ... and still has it while there is no session file, ...
LEMMA RemoveKeeps == ASSUME IInv, NEW p \in Proc, RemoveFile(p) PROVE IInv'
<1>0. /\ pc[p] = "remove" /\ path[p] \in SessionFile /\ <<>> \in Seq(Entry)
      /\ pc' = [pc EXCEPT ![p] = "rename"]
      /\ file' = [file EXCEPT ![path[p]] = <<>>]
      /\ UNCHANGED <<temp, store, staged, spoiled, issued>>
  BY DEF RemoveFile, Goto, IInv, Typed
<1> USE DEF store
<1>1. Typed'
  BY <1>0 DEF IInv, Typed, Pc, Compacting
<1>2. pc'[p] = "rename" /\ file'[path[p]] = <<>>
  BY <1>0 DEF IInv, Typed
<1>3. ASSUME path[p] \notin spoiled PROVE Holds(p, path[p])' /\ Rooted(file'[path[p]])
  <2>1. Holds(p, path[p]) /\ Rooted(<<>>)
    BY <1>0, <1>3 DEF IInv, Rooted
  <2> QED
    BY <1>0, <1>2, <2>1
    DEF Holds, Mirrors, Kept, Staged, Grown, Rooted, HasOpen, HasStaged, Opening
<1>4. \A f \in SessionFile \ {path[p]} : UNCHANGED <<file[f], temp[f]>>
  BY <1>0 DEF IInv, Typed
<1> QED
  BY <1>0, <1>1, <1>3, <1>4, CompactStep DEF Compacting

\* ... which it then becomes.
LEMMA RenameKeeps == ASSUME IInv, NEW p \in Proc, RenameTemp(p) PROVE IInv'
<1>0. /\ pc[p] = "rename" /\ path[p] \in SessionFile
      /\ NoTemp \in [there : BOOLEAN, log : Seq(Entry)]
      /\ temp[path[p]] \in [there : BOOLEAN, log : Seq(Entry)]
      /\ pc' = [pc EXCEPT ![p] = "send"]
      /\ file' = [file EXCEPT ![path[p]] = temp[path[p]].log]
      /\ temp' = [temp EXCEPT ![path[p]] = NoTemp]
      /\ UNCHANGED <<store, staged, spoiled, issued>>
  BY DEF RenameTemp, Goto, IInv, Typed, NoTemp
<1> USE DEF store
<1>1. Typed'
  <2>1. file' \in [SessionFile -> Seq(Entry)]
    BY <1>0 DEF IInv, Typed
  <2> QED
    BY <1>0, <2>1 DEF IInv, Typed, Pc
<1>2. pc'[p] = "send" /\ file'[path[p]] = temp[path[p]].log
  BY <1>0 DEF IInv, Typed
<1>3. ASSUME path[p] \notin spoiled PROVE Holds(p, path[p])' /\ Rooted(file'[path[p]])
  <2>1. Holds(p, path[p])
    BY <1>0, <1>3 DEF IInv
  <2>2. temp[path[p]].log = log[p] /\ Rooted(log[p])
    BY <1>0, <2>1 DEF Holds, Mirrors, Grown, HasOpen
  <2> QED
    BY <1>0, <1>2, <2>2
    DEF Holds, Mirrors, Written, Kept, Staged, Grown, Rooted, HasOpen, HasStaged, Writing,
        Opening
<1>4. \A f \in SessionFile \ {path[p]} : UNCHANGED <<file[f], temp[f]>>
  BY <1>0 DEF IInv, Typed
<1> QED
  BY <1>0, <1>1, <1>3, <1>4, CompactStep DEF Compacting

----------------------------------------------------------------------------
(* Steps of /open-by-path *)

\* The second store is what was read.
LEMMA OpenByPathKeeps ==
  ASSUME IInv, NEW p \in Proc, NEW g \in SessionFile, OpenByPath(p, g)
  PROVE  IInv'
<1>0. file[g] \in Seq(Entry) /\ pc[p] = "prompt"
  BY DEF OpenByPath, Line, IInv, Typed
<1>1. /\ pc' = [pc EXCEPT ![p] = "note"]
      /\ staged' = [staged EXCEPT ![p] = [path |-> g, log |-> file[g]]]
      /\ UNCHANGED <<file, temp, path, log, head, issued>>
      /\ spoiled \subseteq spoiled'
      /\ g \notin spoiled' => \A q \in Proc \ {p} : ~Uses(q, g)
  BY DEF OpenByPath, Goto, Opened, store
<1>2. Typed'
  BY <1>0, <1>1 DEF IInv, Typed, Pc, Opening
<1>3. pc'[p] = "note" /\ staged'[p] = [path |-> g, log |-> file[g]]
  BY <1>1 DEF IInv, Typed
<1>4. Ready(p)'
  BY <1>1, <1>3 DEF IInv, Ready, Writing
<1>5. ASSUME NEW f \in SessionFile \ spoiled' PROVE Holds(p, f)' /\ Rooted(file'[f])
  <2>1. Holds(p, f) /\ Rooted(file[f])
    BY <1>1, <1>5 DEF IInv
  <2> QED
    BY <1>0, <1>1, <1>3, <2>1
    DEF Holds, Mirrors, Written, Kept, Staged, Grown, Rooted, HasOpen, HasStaged, Writing
<1>6. ASSUME NEW f \in SessionFile \ spoiled', Uses(p, f)', ~Uses(p, f)
      PROVE  \A q \in Proc \ {p} : ~Uses(q, f)
  <2>1. f = g
    BY <1>0, <1>1, <1>3, <1>6 DEF Uses
  <2> QED
    BY <1>1, <1>6, <2>1
<1>7. \A q \in Proc \ {p} : UNCHANGED <<pc[q], path[q], log[q], head[q], staged[q]>>
  BY <1>1 DEF IInv, Typed
<1> QED
  BY <1>1, <1>2, <1>4, <1>5, <1>6, <1>7, OneProcess

\* The entry that tells of the selection goes to the second store.
LEMMA NoteKeeps == ASSUME IInv, NEW p \in Proc, NoteSelection(p) PROVE IInv'
<1> DEFINE s == staged[p].log
           e == [id |-> issued + 1, parent |-> Last(s)]
<1>0. pc[p] = "note" /\ s \in Seq(Entry) /\ staged[p].path \in SessionFile
  BY DEF NoteSelection, IInv, Typed
<1>1. Last(s) \in Nat /\ Last(s) \in {NoId} \cup IdsOf(s)
  BY <1>0, LastKnown
<1>2. e \in Entry /\ e.parent = Last(s)
  BY <1>1, NewEntry DEF IInv
<1>3. /\ pc' = [pc EXCEPT ![p] = "note_write"]
      /\ staged' = [staged EXCEPT ![p].log = Append(@, e)]
      /\ issued' = issued + 1
      /\ UNCHANGED <<file, temp, spoiled, path, log, head>>
  BY DEF NoteSelection, Goto, store, disk
<1>4. /\ Append(s, e) \in Seq(Entry) /\ Append(s, e) # <<>> /\ Front(Append(s, e)) = s
      /\ Rooted(s) => Rooted(Append(s, e))
  BY <1>0, <1>1, <1>2, FrontAndLast, AppendRooted
<1>5. staged'[p] = [path |-> staged[p].path, log |-> Append(s, e)] /\ pc'[p] = "note_write"
  BY <1>3 DEF IInv, Typed
<1>6. \A q \in Proc \ {p} : UNCHANGED <<pc[q], path[q], log[q], head[q], staged[q]>>
  BY <1>3 DEF IInv, Typed
<1> HIDE DEF e
<1>7. Typed'
  <2>1. staged' = [staged EXCEPT ![p] = staged'[p]]
    BY <1>3 DEF IInv, Typed
  <2>2. staged'[p] \in [path : SessionFile, log : Seq(Entry)]
    BY <1>0, <1>4, <1>5
  <2>3. staged' \in [Proc -> [path : SessionFile, log : Seq(Entry)]]
    BY <2>1, <2>2 DEF IInv, Typed
  <2>4. pc' \in [Proc -> Pc] /\ issued' \in Nat
    BY <1>3 DEF IInv, Typed, Pc, Opening
  <2>5. UNCHANGED <<file, temp, path, log, head>>
    BY <1>3
  <2> QED
    BY <2>3, <2>4, <2>5 DEF IInv, Typed
<1>8. Ready(p)'
  BY <1>3, <1>4, <1>5 DEF IInv, Ready, Writing
<1>9. ASSUME NEW f \in SessionFile \ spoiled PROVE Holds(p, f)' /\ Rooted(file'[f])
  <2>1. Holds(p, f) /\ Rooted(file[f])
    BY <1>9 DEF IInv
  <2>2. HasStaged(p, f)' => HasStaged(p, f)
    BY <1>0, <1>5 DEF HasStaged, Opening
  <2>3. HasOpen(p, f)' => HasOpen(p, f)
    BY <1>0, <1>3 DEF HasOpen
  <2>4. Mirrors(p, f)' /\ Kept(p, f)'
    BY <1>0, <1>3, <1>5, <2>1, <2>3 DEF Holds, Mirrors, Written, Kept, Writing
  <2>5. Staged(p, f)' /\ Grown(p, f)'
    BY <1>0, <1>3, <1>4, <1>5, <2>1, <2>2, <2>3 DEF Holds, Staged, Grown, Rooted
  <2> QED
    BY <1>3, <2>1, <2>4, <2>5 DEF Holds
<1>10. \A f : Uses(p, f)' => Uses(p, f)
  BY <1>0, <1>3, <1>5, SameUse DEF Opening
<1> QED
  BY <1>3, <1>6, <1>7, <1>8, <1>9, <1>10, OneProcess

\* The line of it completes the file.  If that is the file in use, the first store is out
\* of date, and about to go.
LEMMA WriteNoteKeeps == ASSUME IInv, NEW p \in Proc, WriteNote(p) PROVE IInv'
<1> DEFINE g == staged[p].path
           s == staged[p].log
           e == s[Len(s)]
<1>0. /\ pc[p] = "note_write" /\ g \in SessionFile /\ s \in Seq(Entry) /\ s # <<>>
      /\ file[g] \in Seq(Entry)
  BY DEF WriteNote, IInv, Typed, Ready
<1>1. e \in Entry /\ Append(Front(s), e) = s
  BY <1>0, FrontAndLast
<1>2. /\ pc' = [pc EXCEPT ![p] = "swap"]
      /\ file' = [file EXCEPT ![g] = Append(@, e)]
      /\ spoiled \subseteq spoiled'
      /\ UNCHANGED <<temp, path, log, head, staged, issued>>
  BY DEF WriteNote, LineWritten, Goto, store
<1> HIDE DEF g, s, e
<1>3. Typed'
  <2>1. file' \in [SessionFile -> Seq(Entry)]
    BY <1>0, <1>1, <1>2 DEF IInv, Typed
  <2> QED
    BY <1>2, <2>1 DEF IInv, Typed, Pc, Opening
<1>4. pc'[p] = "swap"
  BY <1>2 DEF IInv, Typed
<1>5. Ready(p)'
  BY <1>2, <1>4 DEF IInv, Ready, Writing
<1>6. ASSUME NEW f \in SessionFile \ spoiled' PROVE Holds(p, f)' /\ Rooted(file'[f])
  <2>0. Holds(p, f) /\ Rooted(file[f])
    BY <1>2, <1>6 DEF IInv
  <2>1. CASE g # f
    <3>1. file'[f] = file[f]
      BY <1>2, <2>1 DEF IInv, Typed
    <3> QED
      BY <1>0, <1>2, <1>4, <2>0, <2>1, <3>1
      DEF Holds, Mirrors, Written, Kept, Staged, Grown, Rooted, HasOpen, HasStaged, Writing,
          Opening, g
  <2>2. CASE g = f
    <3>1. file[f] = Front(s) /\ Rooted(s)
      BY <1>0, <2>0, <2>2 DEF Holds, Staged, Grown, HasStaged, Opening, g, s
    <3>2. file'[f] = s
      BY <1>0, <1>1, <1>2, <2>2, <3>1 DEF IInv, Typed
    <3>3. Mirrors(p, f)' /\ Kept(p, f)'
      BY <1>2, <1>4, <2>2 DEF Mirrors, Kept, g
    <3>4. Staged(p, f)' /\ Grown(p, f)'
      BY <1>0, <1>2, <1>4, <2>0, <3>1, <3>2 DEF Holds, Staged, Grown, Rooted, HasOpen, s
    <3> QED
      BY <3>1, <3>2, <3>3, <3>4 DEF Holds
  <2> QED
    BY <2>1, <2>2
<1>7. /\ \A f : Uses(p, f)' => Uses(p, f)
      /\ \A f \in SessionFile : Uses(p, f) \/ UNCHANGED <<file[f], temp[f]>>
  BY <1>0, <1>2, <1>4 DEF Uses, Opening, IInv, Typed, g
<1>8. \A q \in Proc \ {p} : UNCHANGED <<pc[q], path[q], log[q], head[q], staged[q]>>
  BY <1>2 DEF IInv, Typed
<1> QED
  BY <1>2, <1>3, <1>5, <1>6, <1>7, <1>8, OneProcess

\* Without its line the second store is dropped, and its file spoiled.
LEMMA WriteNoteFailsKeeps == ASSUME IInv, NEW p \in Proc, WriteNoteFails(p) PROVE IInv'
<1>0. /\ pc[p] = "note_write"
      /\ NoStore \in [path : SessionFile, log : Seq(Entry)]
      /\ pc' = [pc EXCEPT ![p] = "prompt"]
      /\ staged' = [staged EXCEPT ![p] = NoStore]
      /\ spoiled' = spoiled \cup {staged[p].path}
      /\ UNCHANGED <<file, temp, path, log, head, issued>>
  BY DefaultIsAFile DEF WriteNoteFails, LineFails, Goto, store, NoStore
<1>1. Typed'
  BY <1>0 DEF IInv, Typed, Pc
<1>2. pc'[p] = "prompt"
  BY <1>0 DEF IInv, Typed
<1>3. Ready(p)'
  BY <1>0, <1>2 DEF IInv, Ready, Writing
<1>4. ASSUME NEW f \in SessionFile \ spoiled' PROVE Holds(p, f)' /\ Rooted(file'[f])
  <2>1. Holds(p, f) /\ Rooted(file[f])
    BY <1>0, <1>4 DEF IInv
  <2> QED
    BY <1>0, <1>2, <2>1
    DEF Holds, Mirrors, Written, Kept, Staged, Grown, Rooted, HasOpen, HasStaged, Writing,
        Opening
<1>5. \A f : Uses(p, f)' => Uses(p, f)
  BY <1>0, <1>2 DEF Uses, Opening
<1>6. \A q \in Proc \ {p} : UNCHANGED <<pc[q], path[q], log[q], head[q], staged[q]>>
  BY <1>0 DEF IInv, Typed
<1> QED
  BY <1>0, <1>1, <1>3, <1>4, <1>5, <1>6, OneProcess

\* The second store takes the place of the first.
LEMMA SwapKeeps == ASSUME IInv, NEW p \in Proc, SwapStores(p) PROVE IInv'
<1>0. /\ pc[p] = "swap" /\ staged[p].path \in SessionFile /\ staged[p].log \in Seq(Entry)
      /\ NoStore \in [path : SessionFile, log : Seq(Entry)]
  BY DefaultIsAFile DEF SwapStores, IInv, Typed, NoStore
<1>1. /\ pc' = [pc EXCEPT ![p] = "prompt"]
      /\ path' = [path EXCEPT ![p] = staged[p].path]
      /\ log' = [log EXCEPT ![p] = staged[p].log]
      /\ head' = [head EXCEPT ![p] = Last(staged[p].log)]
      /\ staged' = [staged EXCEPT ![p] = NoStore]
      /\ UNCHANGED <<file, temp, spoiled, issued>>
  BY DEF SwapStores, Goto, disk
<1>2. Typed'
  BY <1>0, <1>1, LastKnown DEF IInv, Typed, Pc
<1>3. /\ pc'[p] = "prompt" /\ path'[p] = staged[p].path /\ log'[p] = staged[p].log
      /\ head'[p] = Last(staged[p].log)
  BY <1>1 DEF IInv, Typed
<1>4. Ready(p)'
  BY <1>3 DEF Ready, Last, Writing
<1>5. ASSUME NEW f \in SessionFile \ spoiled PROVE Holds(p, f)' /\ Rooted(file'[f])
  <2>1. Holds(p, f) /\ Rooted(file[f])
    BY <1>5 DEF IInv
  <2>2. HasOpen(p, f)' => HasStaged(p, f)
    BY <1>0, <1>3 DEF HasOpen, HasStaged, Opening
  <2>3. Written(p)' = staged[p].log
    BY <1>3 DEF Written, Writing
  <2>4. Mirrors(p, f)' /\ Kept(p, f)'
    BY <1>0, <1>1, <1>3, <2>1, <2>2, <2>3 DEF Holds, Mirrors, Kept, Staged
  <2>5. ~HasStaged(p, f)'
    BY <1>3 DEF HasStaged, Opening
  <2>6. HasOpen(p, f)' => Rooted(log'[p])
    BY <1>3, <2>1, <2>2 DEF Holds, Grown
  <2> QED
    BY <1>1, <2>1, <2>4, <2>5, <2>6 DEF Holds, Staged, Grown, Rooted
<1>6. \A f : Uses(p, f)' => Uses(p, f)
  BY <1>0, <1>3 DEF Uses, Opening
<1>7. \A q \in Proc \ {p} : UNCHANGED <<pc[q], path[q], log[q], head[q], staged[q]>>
  BY <1>1 DEF IInv, Typed
<1> QED
  BY <1>1, <1>2, <1>4, <1>5, <1>6, <1>7, OneProcess

----------------------------------------------------------------------------
(* The invariant, and what follows from it *)

\* A message goes under the head, which is an entry of the log or none.
LEMMA AskKeeps ==
  ASSUME IInv, NEW p \in Proc, NEW label \in Writing, AppendUnder(p, head[p], label),
         pc[p] \in {"command", "prompt", "send", "answer"}
  PROVE  IInv'
<1>1. head[p] \in Nat /\ head[p] \in {NoId} \cup IdsOf(log[p])
  BY LastKnown DEF IInv, Typed, Ready
<1> QED
  BY <1>1, AppendKeeps

\* It holds before anything is started.
LEMMA InitHolds == Init => IInv
<1> SUFFICES ASSUME Init PROVE IInv
  OBVIOUS
<1>1. /\ <<>> \in Seq(Entry) /\ NoStore \in [path : SessionFile, log : Seq(Entry)]
      /\ NoTemp \in [there : BOOLEAN, log : Seq(Entry)]
  BY DefaultIsAFile DEF NoStore, NoTemp
<1>2. Typed
  BY <1>1, DefaultIsAFile DEF Init, Typed, Pc, NoId
<1>3. \A p \in Proc : \A f : ~Uses(p, f)
  BY DEF Init, Uses, Opening
<1>4. \A p \in Proc : Ready(p)
  BY DEF Init, Ready, Last, Writing
<1>5. \A f \in SessionFile : Rooted(file[f])
  BY DEF Init, Rooted
<1> QED
  BY <1>2, <1>3, <1>4, <1>5, UnusedHolds DEF IInv, Sole

\* No step of a process or of the user leaves the invariant.
LEMMA NextHolds == IInv /\ [Next]_vars => IInv'
<1> SUFFICES ASSUME IInv, [Next]_vars PROVE IInv'
  OBVIOUS
<1> USE DEF store, disk
<1>0. ASSUME UNCHANGED <<disk, pc, store, staged, issued>> PROVE IInv'
  <2>1. Typed' /\ Sole'
    BY <1>0 DEF IInv, Typed, Sole, Uses
  <2>2. \A p \in Proc : Ready(p)'
    BY <1>0 DEF IInv, Ready
  <2>3. ASSUME NEW f \in SessionFile \ spoiled PROVE Rooted(file[f])'
    BY <1>0 DEF IInv, Rooted
  <2>4. ASSUME NEW f \in SessionFile \ spoiled, NEW p \in Proc PROVE Holds(p, f)'
    <3>1. Holds(p, f)
      BY DEF IInv
    <3>2. HasOpen(p, f)' = HasOpen(p, f) /\ HasStaged(p, f)' = HasStaged(p, f)
      BY <1>0 DEF HasOpen, HasStaged, Uses
    <3>3. Mirrors(p, f)' /\ Kept(p, f)'
      BY <1>0, <3>1, <3>2 DEF Holds, Mirrors, Kept, Written
    <3>4. Staged(p, f)' /\ Grown(p, f)'
      BY <1>0, <3>1, <3>2 DEF Holds, Staged, Grown, Rooted
    <3> QED
      BY <3>3, <3>4 DEF Holds
  <2> QED
    BY <1>0, <2>1, <2>2, <2>3, <2>4 DEF IInv
<1>m. ASSUME NEW p \in Proc, NEW label \in Settled, pc[p] \in Settled, Goto(p, label),
             UNCHANGED <<disk, store, staged, issued>>
      PROVE  IInv'
  BY <1>m, MoveKeeps DEF Goto, Settled, Writing
<1>1. ASSUME NEW root \in Root, NEW manifests, Stock(root, manifests) PROVE IInv'
  BY <1>0, <1>1 DEF Stock
<1>2. ASSUME NEW where \in Where, NEW toggles, Configure(where, toggles) PROVE IInv'
  BY <1>0, <1>2 DEF Configure
<1>3. ASSUME NEW p \in Proc, Step(p) PROVE IInv'
  <2>1. CASE OpenSession(p) \/ ResetSession(p)
    BY <2>1, OpenKeeps, ResetKeeps
  <2>2. CASE StartFails(p) \/ Leave(p)
    BY <2>2, GoneKeeps DEF StartFails, Leave, Ends
  <2>3. CASE StartSearch(p) \/ EnterLoop(p)
    BY <1>m, <2>3 DEF StartSearch, EnterLoop, Settled
  <2>4. CASE PrintAnswer(p) \/ Send(p) \/ Answer(p)
    BY <2>4, AskKeeps DEF PrintAnswer, Send, Ask, Answer, Writing
  <2>5. CASE WriteEntry(p)
    BY <2>5, WriteKeeps
  <2>6. CASE WriteEntryFails(p)
    <3>1. PICK label \in Settled : pc' = [pc EXCEPT ![p] = label]
      BY <2>6 DEF WriteEntryFails, Goto, Back, Settled
    <3> QED
      BY <2>6, <3>1, MoveKeeps DEF WriteEntryFails, LineFails
  <2>7. CASE WriteTemp(p) \/ RemoveFile(p) \/ RenameTemp(p)
    BY <2>7, WriteTempKeeps, RemoveKeeps, RenameKeeps
  <2>8. CASE CompactFails(p)
    <3>1. pc[p] \in Writing \cup {"rename"} => path[p] \in spoiled'
      BY <2>8 DEF CompactFails, Compacting, Writing
    <3>2. "send" \in Settled /\ spoiled \subseteq spoiled'
      BY <2>8 DEF CompactFails, Settled
    <3> QED
      BY <2>8, <3>1, <3>2, MoveKeeps DEF CompactFails, Goto
  <2>9. CASE NoteSelection(p) \/ WriteNote(p) \/ WriteNoteFails(p) \/ SwapStores(p)
    BY <2>9, NoteKeeps, WriteNoteKeeps, WriteNoteFailsKeeps, SwapKeeps
  <2> QED
    BY <1>3, <2>1, <2>2, <2>3, <2>4, <2>5, <2>6, <2>7, <2>8, <2>9 DEF Step
<1>4. ASSUME NEW p \in Proc, Input(p) PROVE IInv'
  <2>1. ASSUME NEW command \in Command, NEW continue \in BOOLEAN, NEW f \in SessionFile,
               Launch(p, command, continue, f)
        PROVE  IInv'
    BY <2>1, LaunchKeeps
  <2>2. CASE Interrupt(p) \/ Exit(p)
    BY <2>2, GoneKeeps DEF Interrupt, Exit, Ends
  <2>3. CASE Prompt(p) \/ ContinueLast(p)
    BY <2>3, AskKeeps DEF Prompt, ContinueLast, Line, Ask, Writing
  <2>4. CASE Compact(p)
    BY <1>m, <2>4 DEF Compact, Line, Settled
  <2>5. CASE Reload(p)
    BY <1>0, <2>5 DEF Reload
  <2>6. ASSUME NEW id \in IdsOf(log[p]), Branch(p, id) PROVE IInv'
    <3>1. id \in Nat
      BY <2>6, IdsNat DEF IInv, Typed
    <3> QED
      BY <2>6, <3>1, AppendKeeps DEF Branch, Line, Writing
  <2>7. ASSUME NEW f \in SessionFile, OpenByPath(p, f) PROVE IInv'
    BY <2>7, OpenByPathKeeps
  <2> QED
    BY <1>4, <2>1, <2>2, <2>3, <2>4, <2>5, <2>6, <2>7 DEF Input
<1>5. CASE UNCHANGED vars
  BY <1>0, <1>5 DEF vars
<1> QED
  BY <1>1, <1>2, <1>3, <1>4, <1>5 DEF Next

\* It holds in every state of every behaviour, of any number of processes.
THEOREM Inductive == Spec => []IInv
BY InitHolds, NextHolds, PTL DEF Spec

\* A session file that no two pi have had open at once, and on which no write failed or
\* was cut short, has what the memory says but the entry about to be written, and every
\* entry under one before it, through any launches, prompts, compactions, changes of the
\* session and interrupts.
THEOREM OneAtATime == Spec => []SessionsHold
<1>1. IInv => SessionsHold
  <2> SUFFICES ASSUME IInv, NEW f \in SessionFile \ spoiled
               PROVE  /\ \A p \in Proc : Mirrors(p, f)
                      /\ Rooted(file[f])
    BY DEF SessionsHold, Mirrors, HasOpen, Uses, Rooted, Opening
  <2> QED
    BY DEF IInv, Holds
<1> QED
  BY Inductive, <1>1, PTL

\* A step of such a session adds to the file, unless it is the reset of a launch or the
\* removal in a compaction.
LEMMA StepForgets ==
  ASSUME IInv, [Next]_vars, NEW f \in SessionFile, f \notin spoiled'
  PROVE  \/ Extends(file'[f], file[f])
         \/ \E p \in Proc : path[p] = f /\ ResetSession(p)
         \/ \E p \in Proc : /\ path[p] = f /\ RemoveFile(p)
                            /\ temp[f] = [there |-> TRUE, log |-> file[f]]
<1> DEFINE Resets == \E p \in Proc : path[p] = f /\ ResetSession(p)
           Removes == \E p \in Proc : /\ path[p] = f /\ RemoveFile(p)
                                      /\ temp[f] = [there |-> TRUE, log |-> file[f]]
           Goal == Extends(file'[f], file[f]) \/ Resets \/ Removes
<1> USE DEF store, disk
<1>0. /\ file[f] \in Seq(Entry) /\ file \in [SessionFile -> Seq(Entry)]
      /\ temp \in [SessionFile -> [there : BOOLEAN, log : Seq(Entry)]]
      /\ path \in [Proc -> SessionFile]
  BY DEF IInv, Typed
<1>1. ASSUME file'[f] = file[f] PROVE Goal
  BY <1>0, <1>1, SameExtends
<1>2. ASSUME NEW e \in Entry, NEW g, file' = [file EXCEPT ![g] = Append(@, e)] PROVE Goal
  <2>1. file'[f] = Append(file[f], e) \/ file'[f] = file[f]
    BY <1>0, <1>2
  <2>2. Extends(Append(file[f], e), file[f])
    BY <1>0, <1>2, AppendExtends
  <2> QED
    BY <1>1, <2>1, <2>2
<1>3. ASSUME NEW p \in Proc, Step(p) PROVE Goal
  <2>1. CASE ResetSession(p)
    <3>1. path[p] # f => file'[f] = file[f]
      BY <1>0, <2>1 DEF ResetSession
    <3> QED
      BY <1>1, <2>1, <3>1
  <2>2. CASE WriteEntry(p)
    <3>1. log[p] \in Seq(Entry) /\ log[p] # <<>>
      BY <2>2 DEF WriteEntry, IInv, Typed, Ready
    <3>2. log[p][Len(log[p])] \in Entry
      BY <3>1, FrontAndLast
    <3> QED
      BY <1>2, <2>2, <3>2 DEF WriteEntry, LineWritten
  <2>3. CASE WriteNote(p)
    <3>1. staged[p].log \in Seq(Entry) /\ staged[p].log # <<>>
      BY <2>3 DEF WriteNote, IInv, Typed, Ready
    <3>2. staged[p].log[Len(staged[p].log)] \in Entry
      BY <3>1, FrontAndLast
    <3> QED
      BY <1>2, <2>3, <3>2 DEF WriteNote, LineWritten
  <2>4. CASE RemoveFile(p)
    <3>1. path[p] # f => file'[f] = file[f]
      BY <1>0, <2>4 DEF RemoveFile
    <3>2. ASSUME path[p] = f PROVE temp[f] = [there |-> TRUE, log |-> file[f]]
      <4>1. Holds(p, f) /\ pc[p] = "remove"
        BY <2>4 DEF RemoveFile, IInv
      <4> QED
        BY <3>2, <4>1 DEF Holds, Mirrors, Kept, Written, Writing, HasOpen
    <3> QED
      BY <1>1, <2>4, <3>1, <3>2
  <2>5. CASE RenameTemp(p)
    <3>1. path[p] # f => file'[f] = file[f]
      BY <1>0, <2>5 DEF RenameTemp
    <3>2. ASSUME path[p] = f PROVE Extends(file'[f], file[f])
      <4> HIDE DEF Goal
      <4>1. Holds(p, f) /\ pc[p] = "rename" /\ file'[f] = temp[f].log
        BY <1>0, <2>5, <3>2 DEF RenameTemp, IInv
      <4>2. file[f] = <<>>
        BY <3>2, <4>1 DEF Holds, Mirrors, HasOpen
      <4>3. file'[f] \in Seq(Entry)
        BY <1>0, <4>1
      <4> QED
        BY <4>2, <4>3 DEF Extends
    <3> QED
      BY <1>1, <3>1, <3>2
  <2>6. CASE UNCHANGED file
    BY <1>1, <2>6
  <2>7. CASE PrintAnswer(p) \/ Send(p) \/ Answer(p)
    BY <1>1, <2>7 DEF PrintAnswer, Send, Answer, Ask, AppendUnder
  <2> QED
    BY <1>3, <2>1, <2>2, <2>3, <2>4, <2>5, <2>6, <2>7
    DEF Step, OpenSession, StartFails, Leave, Ends, StartSearch, EnterLoop, WriteEntryFails,
        LineFails, WriteTemp, CompactFails, NoteSelection, WriteNoteFails, SwapStores
<1>4. ASSUME NEW p \in Proc, Input(p) PROVE Goal
  <2>1. UNCHANGED file
    BY <1>4
    DEF Input, Launch, Interrupt, Exit, Ends, Prompt, Ask, AppendUnder, Compact, Reload,
        ContinueLast, Branch, OpenByPath
  <2> QED
    BY <1>1, <2>1
<1>5. CASE UNCHANGED file
  BY <1>1, <1>5
<1> QED
  BY <1>3, <1>4, <1>5 DEF Next, Stock, Configure, vars

\* Nothing but a launch without --continue takes an entry out of a session file that is
\* not spoiled, but for a compaction between the removal and the rename.
THEOREM LaunchesForget == Spec => OnlyLaunchesForget
<1>1. IInv /\ [Next]_vars =>
        [\A f \in SessionFile :
           \/ f \in spoiled' \/ Extends(file'[f], file[f])
           \/ \E p \in Proc : path[p] = f /\ ResetSession(p)
           \/ \E p \in Proc : /\ path[p] = f /\ RemoveFile(p)
                              /\ temp[f] = [there |-> TRUE, log |-> file[f]]]_vars
  BY StepForgets
<1> QED
  BY Inductive, <1>1, PTL DEF Spec, OnlyLaunchesForget


----------------------------------------------------------------------------
(* Discoveries, root by root *)

\* Naturals are well founded.
LEMMA Least ==
  ASSUME NEW T \in SUBSET Nat, T # {}
  PROVE  \E n \in T : \A m \in T : n <= m
<1>1. IsWellFoundedOn(OpToRel(<, Nat), Nat)
  BY NatLessThanWellFounded
<1>2. PICK n \in T : \A m \in T : ~(<<m, n>> \in OpToRel(<, Nat))
  BY <1>1, WFMin
<1>3. \A m \in T : m < n <=> <<m, n>> \in OpToRel(<, Nat)
  BY DEF OpToRel
<1>4. \A m \in T : ~(m < n)
  BY <1>2, <1>3, Zenon
<1> QED BY <1>4

\* The catalogs of the roots up to one, given those of the roots before it.
WithRoot(before, manifests, switches, i) ==
  {Keep(items, more) :
     items \in before,
     more \in OneEach(ItemsOf(RootSeq[i], manifests[RootSeq[i]], switches))}
UpToAt(f, manifests, switches, i) ==
  IF i = 0 THEN {{}} ELSE WithRoot(f[i - 1], manifests, switches, i)
UpTo(f, manifests, switches) ==
  f = [i \in 0..Len(RootSeq) |-> UpToAt(f, manifests, switches, i)]

\* They are defined by those before.
LEMMA UpToExists ==
  ASSUME NEW manifests, NEW switches
  PROVE  \E f : UpTo(f, manifests, switches)
<1> DEFINE At(f, i) == UpToAt(f, manifests, switches, i)
           Defined(k) == \E f : f = [i \in 0..k |-> At(f, i)]
           Bad == {k \in 0..Len(RootSeq) : ~Defined(k)}
<1>1. Len(RootSeq) \in Nat
  BY RootsAreASequence
<1>2. Defined(0)
  <2>1. [i \in 0..0 |-> {{}}] = [i \in 0..0 |-> At([j \in 0..0 |-> {{}}], i)]
    BY DEF UpToAt
  <2> QED BY <2>1
<1>3. ASSUME NEW k \in 1..Len(RootSeq), Defined(k - 1)
      PROVE  Defined(k)
  <2>1. PICK f : f = [i \in 0..k - 1 |-> At(f, i)]
    BY <1>3
  <2> DEFINE g == [i \in 0..k |-> IF i = k THEN At(f, k) ELSE f[i]]
  <2>2. \A i \in 0..k : At(g, i) = At(f, i)
    <3>1. \A i \in 1..k : g[i - 1] = f[i - 1]
      OBVIOUS
    <3> HIDE DEF g
    <3>2. \A i \in 1..k : At(g, i) = At(f, i)
      BY <3>1 DEF UpToAt
    <3>3. At(g, 0) = At(f, 0)
      BY DEF UpToAt
    <3>4. \A i \in 0..k : i = 0 \/ i \in 1..k
      OBVIOUS
    <3> QED BY <3>2, <3>3, <3>4
  <2> HIDE DEF At
  <2>3. \A i \in 0..k : g[i] = At(f, i)
    BY <2>1
  <2>4. g = [i \in 0..k |-> At(g, i)]
    BY <2>2, <2>3
  <2> QED BY <2>4
<1>4. Bad = {}
  <2> SUFFICES ASSUME Bad # {} PROVE FALSE
    OBVIOUS
  <2>1. PICK k \in Bad : \A j \in Bad : k <= j
    <3>1. Bad \in SUBSET Nat
      BY <1>1
    <3> HIDE DEF Bad
    <3> QED BY <3>1, Least
  <2> HIDE DEF Defined
  <2>2. k # 0 /\ k \in 1..Len(RootSeq)
    BY <1>2
  <2>3. k - 1 \notin Bad /\ k - 1 \in 0..Len(RootSeq)
    BY <1>1, <2>1, <2>2
  <2> QED BY <1>3, <2>2, <2>3
<1> QED BY <1>1, <1>4 DEF UpTo

\* A discovery comes to one of the catalogs of all roots.
LEMMA DiscoveriesAre ==
  ASSUME NEW manifests, NEW used
  PROVE  \E f : /\ UpTo(f, manifests, LoadSwitches(used))
                /\ Discoveries(manifests, used) = f[Len(RootSeq)]
<1> DEFINE switches == LoadSwitches(used)
           Next1(f) == [i \in 0..Len(RootSeq) |->
                    IF i = 0 THEN {{}}
                    ELSE {Keep(items, more) :
                            items \in f[i - 1],
                            more \in OneEach(ItemsOf(RootSeq[i], manifests[RootSeq[i]], switches))}]
           upTo == CHOOSE f : f = Next1(f)
<1>1. Discoveries(manifests, used) = upTo[Len(RootSeq)]
  BY DEF Discoveries
<1>2. ASSUME NEW f PROVE UpTo(f, manifests, switches) <=> f = Next1(f)
  BY DEF UpTo, UpToAt, WithRoot
<1> HIDE DEF Next1, switches
<1>3. PICK f : f = Next1(f)
  BY <1>2, UpToExists
<1>4. upTo = Next1(upTo)
  BY <1>3
<1>5. UpTo(upTo, manifests, switches)
  <2> HIDE DEF upTo
  <2> QED BY <1>2, <1>4
<1> QED BY <1>1, <1>5 DEF switches

----------------------------------------------------------------------------
(* A catalog is the merge of its roots *)

\* What can be used of a root.
Usable(manifests, id) == \E m \in manifests : m.valid /\ m.id = id

\* A catalog of the first i roots: items from the first root that has them, one for each
\* id, none left out.
First(items, shelves, switches, i) ==
  /\ \A item \in items :
       /\ item \in Item
       /\ \E k \in 1..i : /\ RootSeq[k] = item.root
                          /\ Usable(shelves[item.root], item.id)
                          /\ \A j \in 1..k - 1 : ~Usable(shelves[RootSeq[j]], item.id)
       /\ item.enabled = IsEnabled(switches, item.id)
  /\ \A item, other \in items : item.id = other.id => item = other
  /\ \A k \in 1..i : \A id : Usable(shelves[RootSeq[k]], id) =>
       \E item \in items : item.id = id

\* One item for each id that can be used of a root.
Whole(more, root, manifests, switches) ==
  /\ \A item \in more :
       /\ item \in Item /\ item.root = root /\ Usable(manifests, item.id)
       /\ item.enabled = IsEnabled(switches, item.id)
  /\ \A item, other \in more : item.id = other.id => item = other
  /\ \A id : Usable(manifests, id) => \E item \in more : item.id = id

\* That is what the choice between manifests of one id leaves.
LEMMA ItemsTyped ==
  ASSUME NEW root \in Root, NEW manifests, manifests \subseteq Manifest, NEW switches,
         NEW more, more \in OneEach(ItemsOf(root, manifests, switches))
  PROVE  Whole(more, root, manifests, switches)
<1> DEFINE items == ItemsOf(root, manifests, switches)
<1>1. ASSUME NEW item \in items
      PROVE  /\ item \in Item /\ item.root = root /\ Usable(manifests, item.id)
             /\ item.enabled = IsEnabled(switches, item.id)
  <2>1. PICK m \in manifests :
          m.valid /\ item = [id |-> m.id, root |-> root, dir |-> m.dir,
                             enabled |-> IsEnabled(switches, m.id)]
    BY DEF ItemsOf
  <2>2. m.id \in Id /\ m.dir \in Nat
    BY DEF Manifest
  <2>3. IsEnabled(switches, m.id) \in BOOLEAN
    BY DEF IsEnabled
  <2> QED BY <2>1, <2>2, <2>3 DEF Item, Usable
<1>2. ASSUME NEW id, Usable(manifests, id) PROVE \E item \in items : item.id = id
  <2>1. PICK m \in manifests : m.valid /\ m.id = id
    BY <1>2 DEF Usable
  <2>2. [id |-> m.id, root |-> root, dir |-> m.dir,
         enabled |-> IsEnabled(switches, m.id)] \in items
    BY <2>1 DEF ItemsOf
  <2> QED BY <2>1, <2>2
<1>3. /\ more \subseteq items
      /\ {item.id : item \in more} = {item.id : item \in items}
      /\ \A a, b \in more : a.id = b.id => a = b
  BY DEF OneEach
<1> HIDE DEF items
<1>4. ASSUME NEW id, Usable(manifests, id) PROVE \E item \in more : item.id = id
  <2>1. id \in {item.id : item \in items}
    BY <1>2, <1>4
  <2> QED BY <1>3, <2>1
<1> QED BY <1>1, <1>3, <1>4 DEF Whole

\* Keep goes on to the next root.
LEMMA KeepFirst ==
  ASSUME NEW i \in 1..Len(RootSeq), NEW shelves \in [Root -> SUBSET Manifest], NEW switches,
         NEW items, First(items, shelves, switches, i - 1),
         NEW more \in OneEach(ItemsOf(RootSeq[i], shelves[RootSeq[i]], switches))
  PROVE  First(Keep(items, more), shelves, switches, i)
<1> DEFINE root == RootSeq[i]
           kept == Keep(items, more)
<1>0. root \in Root /\ shelves[root] \in SUBSET Manifest
  BY DEF Root
<1>m. more \in OneEach(ItemsOf(root, shelves[root], switches))
  OBVIOUS
<1>r. root = RootSeq[i]
  OBVIOUS
<1> HIDE DEF root
<1>1. /\ \A item \in more :
           /\ item \in Item /\ item.root = root /\ Usable(shelves[root], item.id)
           /\ item.enabled = IsEnabled(switches, item.id)
      /\ \A item, other \in more : item.id = other.id => item = other
      /\ \A id : Usable(shelves[root], id) => \E item \in more : item.id = id
  <2>1. Whole(more, root, shelves[root], switches)
    BY <1>0, <1>m, ItemsTyped
  <2> QED BY <2>1 DEF Whole
<1>2. kept = items \cup {item \in more : \A other \in items : other.id # item.id}
  BY DEF Keep
<1> HIDE DEF kept
<1>3. ASSUME NEW item \in kept
      PROVE  /\ item \in Item
             /\ \E k \in 1..i : /\ RootSeq[k] = item.root
                                /\ Usable(shelves[item.root], item.id)
                                /\ \A j \in 1..k - 1 : ~Usable(shelves[RootSeq[j]], item.id)
             /\ item.enabled = IsEnabled(switches, item.id)
  <2>1. CASE item \in items
    BY <2>1 DEF First
  <2>2. CASE item \in more /\ \A other \in items : other.id # item.id
    <3>1. \A j \in 1..i - 1 : ~Usable(shelves[RootSeq[j]], item.id)
      BY <2>2 DEF First
    <3>2. i \in 1..i /\ RootSeq[i] = item.root /\ Usable(shelves[item.root], item.id)
      BY <1>1, <1>r, <2>2
    <3> QED BY <1>1, <2>2, <3>1, <3>2
  <2> QED BY <1>2, <2>1, <2>2
<1>4. \A item, other \in kept : item.id = other.id => item = other
  BY <1>1, <1>2 DEF First
<1>5. ASSUME NEW k \in 1..i, NEW id, Usable(shelves[RootSeq[k]], id)
      PROVE  \E item \in kept : item.id = id
  <2>1. CASE k = i
    <3>1. PICK item \in more : item.id = id
      BY <1>1, <1>5, <1>r, <2>1
    <3> QED BY <1>2, <3>1
  <2>2. CASE k \in 1..i - 1
    BY <1>2, <1>5, <2>2 DEF First
  <2> QED BY <2>1, <2>2
<1> QED BY <1>3, <1>4, <1>5 DEF First, kept

\* Whatever order a directory is read in, a discovery comes to a catalog of all roots.
LEMMA DiscoveriesFirst ==
  ASSUME NEW shelves \in [Root -> SUBSET Manifest], NEW used,
         NEW found \in Discoveries(shelves, used)
  PROVE  First(found, shelves, LoadSwitches(used), Len(RootSeq))
<1>1. Len(RootSeq) \in Nat
  BY RootsAreASequence
<1>2. PICK f : /\ UpTo(f, shelves, LoadSwitches(used))
               /\ Discoveries(shelves, used) = f[Len(RootSeq)]
  BY DiscoveriesAre
<1> DEFINE switches == LoadSwitches(used)
           Good(k) == \A items \in f[k] : First(items, shelves, switches, k)
           Bad == {k \in 0..Len(RootSeq) : ~Good(k)}
<1> HIDE DEF switches
<1>3. \A k \in 0..Len(RootSeq) : f[k] = UpToAt(f, shelves, switches, k)
  BY <1>2 DEF UpTo, switches
<1>4. Good(0)
  <2>1. f[0] = {{}}
    <3>1. f[0] = UpToAt(f, shelves, switches, 0)
      BY <1>1, <1>3
    <3> QED BY <3>1 DEF UpToAt
  <2>2. First({}, shelves, switches, 0)
    BY DEF First
  <2> QED BY <2>1, <2>2
<1>5. ASSUME NEW k \in 1..Len(RootSeq), Good(k - 1) PROVE Good(k)
  <2>1. f[k] = UpToAt(f, shelves, switches, k)
    BY <1>3
  <2> SUFFICES ASSUME NEW items \in f[k] PROVE First(items, shelves, switches, k)
    OBVIOUS
  <2>2. PICK before \in f[k - 1],
             more \in OneEach(ItemsOf(RootSeq[k], shelves[RootSeq[k]], switches)) :
          items = Keep(before, more)
    BY <2>1 DEF UpToAt, WithRoot
  <2> QED BY <1>5, <2>2, KeepFirst
<1>6. Bad = {}
  <2> SUFFICES ASSUME Bad # {} PROVE FALSE
    OBVIOUS
  <2>1. PICK k \in Bad : \A j \in Bad : k <= j
    <3>1. Bad \in SUBSET Nat
      BY <1>1
    <3> HIDE DEF Bad
    <3> QED BY <3>1, Least
  <2> HIDE DEF Good
  <2>2. k # 0 /\ k \in 1..Len(RootSeq)
    BY <1>4
  <2>3. k - 1 \notin Bad /\ k - 1 \in 0..Len(RootSeq)
    BY <1>1, <2>1, <2>2
  <2> QED BY <1>5, <2>2, <2>3
<1>7. Good(Len(RootSeq))
  <2> HIDE DEF Good
  <2> QED BY <1>1, <1>6
<1> QED BY <1>2, <1>7 DEF switches

\* The roots hold manifests, and the configuration files lists.
ResourcesTyped == shelf \in [Root -> SUBSET Manifest] /\ configs \in [Where -> Toggles]

\* What a discovery comes to, whatever the user has put under the roots.
LEMMA Merged == ResourcesTyped => CatalogIsMerged
<1> SUFFICES ASSUME ResourcesTyped,
                    NEW found \in Discoveries(shelf, {configs[where] : where \in Where})
             PROVE
       LET used == {configs[where] : where \in Where}
           Use(root, id) == \E m \in shelf[root] : m.valid /\ m.id = id
       IN
       /\ {item.id : item \in found} = {id \in Id : \E root \in Root : Use(root, id)}
       /\ \A item \in found, other \in found : item.id = other.id => item = other
       /\ \A item \in found :
            /\ \E i \in 1..Len(RootSeq) :
                 /\ RootSeq[i] = item.root
                 /\ Use(item.root, item.id)
                 /\ \A j \in 1..i - 1 : ~Use(RootSeq[j], item.id)
            /\ item.enabled =
                 (\/ \E on \in used : item.id \in on.enabled
                  \/ \A off \in used : item.id \notin off.disabled)
  BY DEF CatalogIsMerged
<1> DEFINE used == {configs[where] : where \in Where}
<1>1. First(found, shelf, LoadSwitches(used), Len(RootSeq))
  BY DiscoveriesFirst DEF ResourcesTyped
<1>2. ASSUME NEW id
      PROVE IsEnabled(LoadSwitches(used), id) =
                 (\/ \E on \in used : id \in on.enabled
                  \/ \A off \in used : id \notin off.disabled)
  BY DEF IsEnabled, LoadSwitches
<1> HIDE DEF used
<1>3. \A item \in found :
        /\ item.id \in Id /\ item.root \in Root
        /\ Usable(shelf[item.root], item.id)
  BY <1>1 DEF First, Item
<1>4. ASSUME NEW id \in Id, NEW root \in Root, Usable(shelf[root], id)
      PROVE  id \in {item.id : item \in found}
  <2>1. PICK k \in 1..Len(RootSeq) : RootSeq[k] = root
    BY DEF Root
  <2> QED BY <1>1, <1>4, <2>1 DEF First
<1>5. {item.id : item \in found} = {id \in Id : \E root \in Root : Usable(shelf[root], id)}
  BY <1>3, <1>4
<1>6. \A item \in found, other \in found : item.id = other.id => item = other
  BY <1>1 DEF First
<1>7. ASSUME NEW item \in found
      PROVE  /\ \E i \in 1..Len(RootSeq) :
                  /\ RootSeq[i] = item.root
                  /\ Usable(shelf[item.root], item.id)
                  /\ \A j \in 1..i - 1 : ~Usable(shelf[RootSeq[j]], item.id)
             /\ item.enabled = IsEnabled(LoadSwitches(used), item.id)
  BY <1>1 DEF First
<1>8. \A item \in found :
        item.enabled = (\/ \E on \in used : item.id \in on.enabled
                        \/ \A off \in used : item.id \notin off.disabled)
  BY <1>2, <1>7
<1> QED BY <1>5, <1>6, <1>7, <1>8, Zenon DEF Usable, used

----------------------------------------------------------------------------
(* Types *)

\* Entries numbered so far.
Numbered(n) == [id : 1..n, parent : 0..n]

\* What TypeOK says besides what IInv does, and where the processes' variables are.
Others ==
  /\ ResourcesTyped
  /\ args \in [Proc -> [command : Command, continue : BOOLEAN]]
  /\ spoiled \subseteq SessionFile
  /\ inputs \in 0..MaxInputs
  /\ catalog \in [Proc -> SUBSET Item]

\* The entries in memory and in the files are numbered ones.
AllNumbered ==
  /\ \A p \in Proc : log[p] \in Seq(Numbered(issued)) /\ staged[p].log \in Seq(Numbered(issued))
  /\ \A f \in SessionFile : /\ file[f] \in Seq(Numbered(issued))
                              /\ temp[f].log \in Seq(Numbered(issued))

\* Together that is TypeOK.
LEMMA TypeParts == IInv /\ Others /\ AllNumbered => TypeOK
BY DEF IInv, Typed, Ready, Others, ResourcesTyped, AllNumbered, Numbered, TypeOK

\* A catalog is made of items.
LEMMA FoundAreItems ==
  ASSUME Others, NEW p \in Proc, Discover(p)
  PROVE  catalog' \in [Proc -> SUBSET Item]
<1>1. PICK found \in Discoveries(shelf, {configs[where] : where \in Where}) :
        catalog' = [catalog EXCEPT ![p] = found]
  BY DEF Discover
<1>2. shelf \in [Root -> SUBSET Manifest]
  BY DEF Others, ResourcesTyped
<1>3. First(found, shelf, LoadSwitches({configs[where] : where \in Where}), Len(RootSeq))
  BY <1>2, DiscoveriesFirst
<1>4. found \in SUBSET Item
  BY <1>3 DEF First
<1> QED BY <1>1, <1>4 DEF Others

\* An input is counted while there is room.
LEMMA CountTyped ==
  ASSUME inputs \in 0..MaxInputs, CountInput
  PROVE  inputs' \in 0..MaxInputs
BY InputsNat DEF CountInput

\* No step leaves those types.
LEMMA NextOthers == IInv /\ Others /\ [Next]_vars => Others'
<1> SUFFICES ASSUME IInv, Others, [Next]_vars PROVE Others'
  OBVIOUS
<1>i. inputs \in 0..MaxInputs
  BY DEF Others
<1> USE DEF resources, disk
<1>0. ASSUME UNCHANGED <<resources, args, catalog>>, spoiled' \subseteq SessionFile,
             inputs' = inputs \/ CountInput
      PROVE  Others'
  <2>1. inputs' \in 0..MaxInputs
    BY <1>0, <1>i, CountTyped
  <2> QED BY <1>0, <2>1 DEF Others, ResourcesTyped
<1>s. /\ spoiled \subseteq SessionFile
      /\ \A p \in Proc : path[p] \in SessionFile /\ staged[p].path \in SessionFile
  BY DEF Others, IInv, Typed
<1>g. ASSUME NEW p \in Proc, Gone(p), UNCHANGED <<resources, spoiled, inputs>>
      PROVE  Others'
  <2>1. "none" \in Command /\ {} \in SUBSET Item
    BY DEF Command
  <2> QED BY <1>g, <2>1 DEF Gone, Others, ResourcesTyped
<1>1. ASSUME NEW root \in Root, NEW manifests \in Edits, Stock(root, manifests) PROVE Others'
  <2>1. shelf' \in [Root -> SUBSET Manifest]
    BY <1>1, EditsTyped DEF Stock, Others, ResourcesTyped
  <2>2. inputs' \in 0..MaxInputs
    BY <1>1, <1>i, CountTyped DEF Stock
  <2> QED BY <1>1, <2>1, <2>2 DEF Stock, Others, ResourcesTyped
<1>2. ASSUME NEW where \in Where, NEW toggles \in ToggleSets, Configure(where, toggles)
      PROVE  Others'
  <2>1. configs' \in [Where -> Toggles]
    BY <1>2, EditsTyped DEF Configure, Others, ResourcesTyped
  <2>2. inputs' \in 0..MaxInputs
    BY <1>2, <1>i, CountTyped DEF Configure
  <2> QED BY <1>2, <2>1, <2>2 DEF Configure, Others, ResourcesTyped
<1>3. ASSUME NEW p \in Proc, Step(p) PROVE Others'
  <2>1. CASE OpenSession(p)
    BY <1>0, <1>s, <2>1 DEF OpenSession, Opened
  <2>2. CASE StartFails(p) \/ Leave(p)
    BY <1>g, <2>2 DEF StartFails, Leave, Ends
  <2>3. CASE ResetSession(p) \/ StartSearch(p) \/ EnterLoop(p)
    BY <1>0, <1>s, <2>3 DEF ResetSession, StartSearch, EnterLoop
  <2>4. CASE PrintAnswer(p) \/ Send(p) \/ Answer(p)
    BY <1>0, <1>s, <2>4 DEF PrintAnswer, Send, Ask, Answer, AppendUnder
  <2>5. CASE WriteEntry(p) \/ WriteEntryFails(p) \/ WriteNote(p) \/ WriteNoteFails(p)
    BY <1>0, <1>s, <2>5
    DEF WriteEntry, WriteEntryFails, WriteNote, WriteNoteFails, LineWritten, LineFails
  <2>6. CASE WriteTemp(p) \/ RemoveFile(p) \/ RenameTemp(p) \/ CompactFails(p)
    BY <1>0, <1>s, <2>6 DEF WriteTemp, RemoveFile, RenameTemp, CompactFails
  <2>7. CASE NoteSelection(p) \/ SwapStores(p)
    BY <1>0, <1>s, <2>7 DEF NoteSelection, SwapStores
  <2> QED BY <1>3, <2>1, <2>2, <2>3, <2>4, <2>5, <2>6, <2>7 DEF Step
<1>4. ASSUME NEW p \in Proc, Input(p) PROVE Others'
  <2>1. ASSUME NEW command \in Command, NEW continue \in BOOLEAN, NEW f \in SessionFile,
               Launch(p, command, continue, f)
        PROVE  Others'
    <3>1. catalog' \in [Proc -> SUBSET Item]
      BY <2>1, FoundAreItems DEF Launch
    <3>2. args' \in [Proc -> [command : Command, continue : BOOLEAN]]
      BY <2>1 DEF Launch, Others
    <3>3. inputs' \in 0..MaxInputs
      BY <2>1, <1>i, CountTyped DEF Launch
    <3> QED BY <2>1, <3>1, <3>2, <3>3 DEF Launch, Others, ResourcesTyped
  <2>2. CASE Interrupt(p) \/ Exit(p)
    BY <1>g, <2>2 DEF Interrupt, Exit, Ends
  <2>3. CASE Reload(p)
    <3>1. catalog' \in [Proc -> SUBSET Item]
      BY <2>3, FoundAreItems DEF Reload
    <3>2. inputs' \in 0..MaxInputs
      BY <2>3, <1>i, CountTyped DEF Reload, Line
    <3> QED BY <2>3, <3>1, <3>2 DEF Reload, Others, ResourcesTyped
  <2>4. ASSUME NEW f \in SessionFile, OpenByPath(p, f) PROVE Others'
    BY <1>0, <1>s, <2>4 DEF OpenByPath, Opened, Line
  <2>5. CASE Prompt(p) \/ Compact(p) \/ ContinueLast(p)
    BY <1>0, <1>s, <2>5 DEF Prompt, Ask, Compact, ContinueLast, AppendUnder, Line
  <2>6. ASSUME NEW id, Branch(p, id) PROVE Others'
    BY <1>0, <1>s, <2>6 DEF Branch, AppendUnder, Line
  <2> QED BY <1>4, <2>1, <2>2, <2>3, <2>4, <2>5, <2>6 DEF Input
<1>5. CASE UNCHANGED vars
  BY <1>0, <1>s, <1>5 DEF vars
<1> QED BY <1>1, <1>2, <1>3, <1>4, <1>5 DEF Next

\* A log of numbered entries, and one more.
LEMMA NumberedAppend ==
  ASSUME NEW n \in Nat, NEW s \in Seq(Numbered(n)), NEW parent \in 0..n
  PROVE  /\ s \in Seq(Numbered(n + 1))
         /\ Append(s, [id |-> n + 1, parent |-> parent]) \in Seq(Numbered(n + 1))
         /\ Last(s) \in 0..n
         /\ IdsOf(s) \subseteq 0..n
<1>1. Numbered(n) \subseteq Numbered(n + 1)
  BY DEF Numbered
<1>2. [id |-> n + 1, parent |-> parent] \in Numbered(n + 1)
  BY DEF Numbered
<1>3. s \in Seq(Numbered(n + 1))
  BY <1>1
<1>4. \A i \in 1..Len(s) : s[i].id \in 0..n
  <2>1. \A i \in 1..Len(s) : s[i] \in Numbered(n)
    OBVIOUS
  <2> QED BY <2>1 DEF Numbered
<1>5. s # <<>> => Len(s) \in 1..Len(s)
  OBVIOUS
<1> QED BY <1>2, <1>3, <1>4, <1>5 DEF Last, IdsOf, NoId

\* An entry that AppendUnder or NoteSelection makes is the next one.
LEMMA AppendNumbered ==
  ASSUME IInv, AllNumbered, issued' = issued + 1, NEW parent \in 0..issued,
         NEW e, e = [id |-> issued + 1, parent |-> parent], UNCHANGED <<file, temp>>,
         \A q \in Proc : /\ log'[q] \in {log[q], Append(log[q], e)}
                         /\ staged'[q].log \in {staged[q].log, Append(staged[q].log, e)}
  PROVE  AllNumbered'
<1>1. issued \in Nat
  BY DEF IInv, Typed
<1>2. \A s \in Seq(Numbered(issued)) :
        s \in Seq(Numbered(issued')) /\ Append(s, e) \in Seq(Numbered(issued'))
  BY <1>1, NumberedAppend
<1> QED BY <1>2 DEF AllNumbered

\* What a step copies from a log or a file is numbered.
LEMMA CopyNumbered ==
  ASSUME AllNumbered, UNCHANGED issued, NEW copied \in Seq(Numbered(issued)),
         \A q \in Proc : /\ log'[q] \in {log[q], staged[q].log, copied, <<>>}
                         /\ staged'[q].log \in {staged[q].log, copied, <<>>},
         \A f \in SessionFile : /\ file'[f] \in {file[f], copied, <<>>}
                                /\ temp'[f].log \in {temp[f].log, copied, <<>>}
  PROVE  AllNumbered'
<1>1. <<>> \in Seq(Numbered(issued))
  OBVIOUS
<1> QED BY <1>1 DEF AllNumbered

\* So is the line that is written to a file.
LEMMA LineNumbered ==
  ASSUME AllNumbered, NEW s \in Seq(Numbered(issued)), s # <<>>, NEW f \in SessionFile
  PROVE  Append(file[f], s[Len(s)]) \in Seq(Numbered(issued))
<1>1. s[Len(s)] \in Numbered(issued)
  <2>1. Len(s) \in 1..Len(s)
    OBVIOUS
  <2> QED BY <2>1
<1> QED BY <1>1 DEF AllNumbered

\* No step leaves an entry without its number.
LEMMA NextNumbered == IInv /\ AllNumbered /\ [Next]_vars => AllNumbered'
<1> SUFFICES ASSUME IInv, AllNumbered, [Next]_vars PROVE AllNumbered'
  OBVIOUS
<1>t. /\ issued \in Nat /\ DOMAIN log = Proc /\ DOMAIN staged = Proc
      /\ DOMAIN file = SessionFile /\ DOMAIN temp = SessionFile
      /\ \A q \in Proc : path[q] \in SessionFile /\ staged[q].path \in SessionFile
      /\ \A q \in Proc : DOMAIN staged[q] = {"path", "log"}
  BY DEF IInv, Typed
<1>e. <<>> \in Seq(Numbered(issued)) /\ NoStore.log = <<>> /\ NoTemp.log = <<>>
  BY DEF NoStore, NoTemp
<1>n. /\ \A q \in Proc : /\ log[q] \in Seq(Numbered(issued))
                         /\ staged[q].log \in Seq(Numbered(issued))
      /\ \A f \in SessionFile : /\ file[f] \in Seq(Numbered(issued))
                                /\ temp[f].log \in Seq(Numbered(issued))
  BY DEF AllNumbered
<1> USE DEF store, disk
<1>0. ASSUME UNCHANGED <<file, temp, log, staged, issued>> PROVE AllNumbered'
  BY <1>0 DEF AllNumbered
<1>p. ASSUME NEW p \in Proc
      PROVE  /\ head[p] \in 0..issued /\ Last(staged[p].log) \in 0..issued
             /\ IdsOf(log[p]) \subseteq 0..issued
  <2>1. head[p] = Last(log[p]) /\ 0 \in 0..issued
    BY <1>t DEF IInv, Ready
  <2> QED BY <1>n, <1>t, <2>1, NumberedAppend
<1>a. ASSUME NEW p \in Proc, NEW parent \in 0..issued, NEW label, AppendUnder(p, parent, label)
      PROVE  AllNumbered'
  <2>1. PICK e : e = [id |-> issued + 1, parent |-> parent]
    OBVIOUS
  <2>2. /\ issued' = issued + 1 /\ UNCHANGED <<file, temp, staged>>
        /\ log' = [log EXCEPT ![p] = Append(@, e)]
    BY <1>a, <2>1 DEF AppendUnder
  <2>3. \A q \in Proc : /\ log'[q] \in {log[q], Append(log[q], e)}
                        /\ staged'[q].log \in {staged[q].log, Append(staged[q].log, e)}
    BY <1>t, <2>2
  <2> QED BY <2>1, <2>2, <2>3, AppendNumbered
<1>g. ASSUME NEW p \in Proc, Gone(p), UNCHANGED <<file, temp, issued>> PROVE AllNumbered'
  <2>1. \A q \in Proc : log'[q] \in {log[q], <<>>} /\ staged'[q].log \in {staged[q].log, <<>>}
    BY <1>e, <1>g, <1>t DEF Gone
  <2> QED BY <1>e, <1>g, <2>1, CopyNumbered
<1>w. ASSUME NEW s \in Seq(Numbered(issued)), s # <<>>, NEW f \in SessionFile,
             file' = [file EXCEPT ![f] = Append(@, s[Len(s)])],
             UNCHANGED <<temp, log, staged, issued>>
      PROVE  AllNumbered'
  <2>1. PICK copied : copied = Append(file[f], s[Len(s)])
    OBVIOUS
  <2>2. copied \in Seq(Numbered(issued))
    BY <1>w, <2>1, LineNumbered
  <2>3. \A g \in SessionFile : file'[g] \in {file[g], copied, <<>>}
    BY <1>t, <1>w, <2>1
  <2> QED BY <1>w, <2>2, <2>3, CopyNumbered
<1>1. ASSUME NEW root, NEW manifests, Stock(root, manifests) PROVE AllNumbered'
  BY <1>0, <1>1 DEF Stock
<1>2. ASSUME NEW where, NEW toggles, Configure(where, toggles) PROVE AllNumbered'
  BY <1>0, <1>2 DEF Configure
<1>3. ASSUME NEW p \in Proc, Step(p) PROVE AllNumbered'
  <2>1. CASE OpenSession(p)
    <3>1. \A q \in Proc : log'[q] \in {log[q], file[path[p]]}
      BY <1>t, <2>1 DEF OpenSession
    <3> QED BY <1>n, <1>t, <2>1, <3>1, CopyNumbered DEF OpenSession
  <2>2. CASE ResetSession(p)
    <3>1. \A q \in Proc : log'[q] \in {log[q], <<>>}
      BY <1>t, <2>2 DEF ResetSession
    <3>2. \A f \in SessionFile : file'[f] \in {file[f], <<>>}
      BY <1>t, <2>2 DEF ResetSession
    <3> QED BY <1>e, <2>2, <3>1, <3>2, CopyNumbered DEF ResetSession
  <2>3. CASE StartFails(p) \/ Leave(p)
    BY <1>g, <2>3 DEF StartFails, Leave, Ends
  <2>4. CASE UNCHANGED <<file, temp, log, staged, issued>>
    BY <1>0, <2>4
  <2>5. CASE PrintAnswer(p) \/ Send(p) \/ Answer(p)
    BY <1>a, <1>p, <2>5 DEF PrintAnswer, Send, Answer, Ask
  <2>6. CASE WriteEntry(p)
    <3>1. log[p] # <<>>
      BY <2>6 DEF WriteEntry, IInv, Ready
    <3> QED BY <1>n, <1>t, <1>w, <2>6, <3>1 DEF WriteEntry, LineWritten
  <2>7. CASE WriteTemp(p)
    <3>1. \A f \in SessionFile : temp'[f].log \in {temp[f].log, log[p]}
      BY <1>t, <2>7 DEF WriteTemp
    <3> QED BY <1>n, <2>7, <3>1, CopyNumbered DEF WriteTemp
  <2>8. CASE RemoveFile(p)
    <3>1. \A f \in SessionFile : file'[f] \in {file[f], <<>>}
      BY <1>t, <2>8 DEF RemoveFile
    <3> QED BY <1>e, <2>8, <3>1, CopyNumbered DEF RemoveFile
  <2>9. CASE RenameTemp(p)
    <3>1. \A f \in SessionFile : /\ file'[f] \in {file[f], temp[path[p]].log}
                                 /\ temp'[f].log \in {temp[f].log, <<>>}
      BY <1>e, <1>t, <2>9 DEF RenameTemp
    <3> QED BY <1>n, <1>t, <2>9, <3>1, CopyNumbered DEF RenameTemp
  <2>10. CASE NoteSelection(p)
    <3> DEFINE parent == Last(staged[p].log)
    <3>1. PICK e : e = [id |-> issued + 1, parent |-> parent]
      OBVIOUS
    <3>2. /\ issued' = issued + 1 /\ UNCHANGED <<file, temp, log>>
          /\ staged' = [staged EXCEPT ![p].log = Append(@, e)]
      BY <2>10, <3>1 DEF NoteSelection
    <3>3. parent \in 0..issued
      BY <1>p
    <3> HIDE DEF parent
    <3>4. \A q \in Proc : /\ log'[q] \in {log[q], Append(log[q], e)}
                          /\ staged'[q].log \in {staged[q].log, Append(staged[q].log, e)}
      BY <1>t, <3>2
    <3> QED BY <3>1, <3>2, <3>3, <3>4, AppendNumbered
  <2>11. CASE WriteNote(p)
    <3>1. staged[p].log # <<>>
      BY <2>11 DEF WriteNote, IInv, Ready
    <3> QED BY <1>n, <1>t, <1>w, <2>11, <3>1 DEF WriteNote, LineWritten
  <2>12. CASE WriteNoteFails(p)
    <3>1. \A q \in Proc : staged'[q].log \in {staged[q].log, <<>>}
      BY <1>e, <1>t, <2>12 DEF WriteNoteFails
    <3> QED BY <1>e, <2>12, <3>1, CopyNumbered DEF WriteNoteFails, LineFails
  <2>13. CASE SwapStores(p)
    <3>1. \A q \in Proc : /\ log'[q] \in {log[q], staged[q].log}
                          /\ staged'[q].log \in {staged[q].log, <<>>}
      BY <1>e, <1>t, <2>13 DEF SwapStores
    <3> QED BY <1>e, <2>13, <3>1, CopyNumbered DEF SwapStores
  <2> QED
    BY <1>3, <2>1, <2>2, <2>3, <2>4, <2>5, <2>6, <2>7, <2>8, <2>9, <2>10, <2>11, <2>12, <2>13
    DEF Step, StartSearch, EnterLoop, WriteEntryFails, LineFails, CompactFails
<1>4. ASSUME NEW p \in Proc, Input(p) PROVE AllNumbered'
  <2>1. CASE Interrupt(p) \/ Exit(p)
    BY <1>g, <2>1 DEF Interrupt, Exit, Ends
  <2>2. CASE Prompt(p) \/ ContinueLast(p)
    BY <1>a, <1>p, <2>2 DEF Prompt, ContinueLast, Ask
  <2>3. CASE UNCHANGED <<file, temp, log, staged, issued>>
    BY <1>0, <2>3
  <2>4. ASSUME NEW id \in IdsOf(log[p]), Branch(p, id) PROVE AllNumbered'
    BY <1>a, <1>p, <2>4 DEF Branch
  <2>5. ASSUME NEW f \in SessionFile, OpenByPath(p, f) PROVE AllNumbered'
    <3>1. \A q \in Proc : staged'[q].log \in {staged[q].log, file[f]}
      BY <1>t, <2>5 DEF OpenByPath
    <3> QED BY <1>n, <2>5, <3>1, CopyNumbered DEF OpenByPath
  <2> QED BY <1>4, <2>1, <2>2, <2>3, <2>4, <2>5 DEF Input, Launch, Compact, Reload
<1>5. CASE UNCHANGED vars
  BY <1>0, <1>5 DEF vars
<1> QED BY <1>1, <1>2, <1>3, <1>4, <1>5 DEF Next

\* What there is besides the sessions keeps its type, and so does each entry.
LEMMA TypeInvariance == Spec => [](IInv /\ Others /\ AllNumbered)
<1>1. Init => Others /\ AllNumbered
  <2> SUFFICES ASSUME Init PROVE Others /\ AllNumbered
    OBVIOUS
  <2>1. shelf \in [Root -> SUBSET Manifest] /\ configs \in [Where -> Toggles]
    BY DEF Init, Toggles
  <2>2. Others
    BY <2>1, InputsNat DEF Init, Others, ResourcesTyped, Command
  <2>3. AllNumbered
    <3>1. <<>> \in Seq(Numbered(issued))
      OBVIOUS
    <3> QED BY <3>1 DEF Init, AllNumbered, NoStore, NoTemp
  <2> QED BY <2>2, <2>3
<1> QED BY <1>1, Inductive, NextOthers, NextNumbered, PTL DEF Spec

\* Every variable keeps its type, through any launches, lines and edits.
THEOREM TypeCorrect == Spec => []TypeOK
BY TypeInvariance, TypeParts, PTL

\* Whatever the user puts under the roots and into the configuration files, and in
\* whatever order a directory is read, a discovery comes to the merge of the roots.
THEOREM CatalogMerged == Spec => []CatalogIsMerged
<1>1. Others => CatalogIsMerged
  BY Merged DEF Others
<1> QED BY <1>1, TypeInvariance, PTL
====================================================================================
