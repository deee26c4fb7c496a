------------------------------ MODULE SearchProofs ------------------------------
(***************************************************************************)
(* Proofs about SearchIndex and SearchPages.                               *)
(*                                                                         *)
(* For any files, any number of changes and starts, and any bound on the   *)
(* channel, every variable keeps its type and the index is never out of    *)
(* date without a cause to correct it.  StaleIsKnown is not inductive:     *)
(* while a walk is under way, the index it is going to replace may happen  *)
(* to be right about a file that the walk has wrong.  What carries it over *)
(* Install is that a walk knows of every file, by itself or by an event    *)
(* that is still in the channel.                                           *)
(*                                                                         *)
(* For any result, offset and limit, whoever holds the results before a    *)
(* page holds, with the page, the results before the offset its token      *)
(* stands for, or all of them.  So following the tokens gives every result *)
(* once and in order: the induction is over the pages (UpTo), along the    *)
(* recursive function of Following.  A grep, which stops to read one line  *)
(* after the page, gives the page it would give had it read every file.    *)
(* What find_files pages through holds each matching file once.            *)
(***************************************************************************)
EXTENDS SearchPages, FiniteSetTheorems, SequenceTheorems, TLAPS

----------------------------------------------------------------------------
(* The index *)

\* During a walk, what the index says does not count.
WalkKnows == pc = "walk" => \A f \in File \ missed : queue > 0 \/ InWalk(f)

IInv == TypeOK /\ StaleIsKnown /\ WalkKnows

\* The channel may be empty (lines 340-348).
LEMMA EmptyQueue == 0 \in 0..MaxQueue
BY MaxQueuePositive

\* What a walk keeps of a file is a stamp (lines 242-261).
LEMMA WantedNat ==
  ASSUME disk \in [File -> Nat], NEW f \in File
  PROVE  Wanted(f) \in Nat
BY DEF Wanted, Absent, Oversized

\* An event told to the watcher stays in the channel, or finds it full (lines 340-348).
LEMMA NotifyCounts ==
  ASSUME queue \in 0..MaxQueue, watching \in BOOLEAN, Notify
  PROVE  queue' \in 0..MaxQueue /\ queue' >= queue /\ (watching => queue' > 0)
BY MaxQueuePositive DEF Notify

\* An index without files is one (lines 205-209).
LEMMA EmptyIndex == NoItem \in Item /\ NoItems \in Items
<1>1. NoItem \in Item
  BY DEF NoItem, Item, Absent
<1> QED
  BY <1>1 DEF NoItems, Items

\* A torn cache file is one (lines 323-337).
LEMMA TornCache ==
  ASSUME NEW state \in {"none", "torn", "whole"}, NEW items \in Items
  PROVE  [state |-> state, items |-> items] \in Cache
BY DEF Cache

\* Every variable has its type at the start.
LEMMA InitTypes == Init => TypeOK
<1> SUFFICES ASSUME Init PROVE TypeOK
  OBVIOUS
<1>1. cache \in Cache
  BY EmptyIndex, TornCache DEF Init
<1>2. disk \in [File -> Nat]
  BY DEF Init, Oversized
<1>3. counts \in [changes : Nat, starts : Nat]
  BY DEF Init
<1>4. machine \in Machine /\ pc \in Pc /\ watching \in BOOLEAN /\ queue \in 0..MaxQueue
  BY EmptyQueue DEF Init, Pc
<1>5. found \in Items /\ index \in Items
  BY EmptyIndex DEF Init
<1>6. dirty \subseteq File /\ todo \subseteq File /\ git \subseteq File /\ missed \subseteq File
  BY DEF Init
<1> QED
  BY <1>1, <1>2, <1>3, <1>4, <1>5, <1>6 DEF TypeOK

\* Nothing is in memory any more once the process has gone (lines 211-216).
LEMMA GoneTypes == TypeOK /\ Gone => TypeOK'
BY EmptyIndex, EmptyQueue DEF TypeOK, Gone, Goto, world, Pc

\* No step leaves the types.
LEMMA NextTypes == TypeOK /\ [Next]_vars => TypeOK'
<1> SUFFICES ASSUME TypeOK, [Next]_vars PROVE TypeOK'
  OBVIOUS
<1>1. ASSUME NEW f \in File, NEW v \in {Absent, Oversized, counts.changes + Oversized + 2},
             Change(f, v)
      PROVE  TypeOK'
  <2>1. v \in Nat
    BY DEF TypeOK, Absent, Oversized
  <2>2. queue' \in 0..MaxQueue
    BY <1>1, NotifyCounts DEF Change, TypeOK
  <2>3. disk' \in [File -> Nat]
    BY <1>1, <2>1 DEF Change, TypeOK
  <2>4. counts' \in [changes : Nat, starts : Nat]
    BY <1>1 DEF Change, CountChange, TypeOK
  <2> QED
    BY <1>1, <2>2, <2>3, <2>4 DEF Change, TypeOK, memory, walk
<1>2. CASE Commit
  <2>1. queue' \in 0..MaxQueue
    BY <1>2, NotifyCounts DEF Commit, TypeOK
  <2>2. counts' \in [changes : Nat, starts : Nat]
    BY <1>2 DEF Commit, CountChange, TypeOK
  <2> QED
    BY <1>2, <2>1, <2>2 DEF Commit, TypeOK, memory, walk
<1>3. CASE Start
  BY <1>3 DEF Start, Goto, TypeOK, Pc, world, memory, walk
<1>4. CASE Stop
  BY <1>4, GoneTypes DEF Stop
<1>5. CASE LoadIndex
  <2>1. CASE Usable
    BY <1>5, <2>1 DEF LoadIndex, Goto, TypeOK, Pc, Cache, world, walk
  <2>2. CASE ~Usable
    BY <1>5, <2>2, EmptyIndex DEF LoadIndex, BeginWalk, Goto, TypeOK, Pc, world
  <2> QED
    BY <2>1, <2>2
<1>6. ASSUME NEW f \in File, Visit(f) PROVE TypeOK'
  <2>1. Wanted(f) \in Nat
    BY WantedNat DEF TypeOK
  <2>2. found' \in Items
    BY <1>6, <2>1, EmptyIndex DEF Visit, TypeOK, Items, Item
  <2> QED
    BY <1>6, <2>2 DEF Visit, TypeOK, world, memory
<1>7. CASE Install
  BY <1>7, EmptyIndex DEF Install, Goto, TypeOK, Pc, world
<1>8. CASE SaveOpen
  <2>1. queue' \in 0..MaxQueue
    BY <1>8, NotifyCounts DEF SaveOpen, TypeOK
  <2>2. cache' \in Cache
    BY <1>8, EmptyIndex, TornCache DEF SaveOpen, TypeOK
  <2> QED
    BY <1>8, <2>1, <2>2 DEF SaveOpen, Goto, TypeOK, Pc, world, memory, walk
<1>9. CASE SaveWrite
  <2>1. queue' \in 0..MaxQueue
    BY <1>9, NotifyCounts DEF SaveWrite, TypeOK
  <2>2. cache' \in Cache
    BY <1>9, TornCache DEF SaveWrite, TypeOK
  <2> QED
    BY <1>9, <2>1, <2>2 DEF SaveWrite, Goto, TypeOK, Pc, world, memory, walk
<1>10. CASE RefreshGitStatus
  BY <1>10 DEF RefreshGitStatus, Goto, TypeOK, Pc, world, walk
<1>11. CASE NewFails
  BY <1>11, GoneTypes DEF NewFails
<1>12. CASE StartWatcher
  BY <1>12 DEF StartWatcher, Goto, TypeOK, Pc, world, memory, walk
<1>13. CASE TakeEvent
  <2>1. queue' \in 0..MaxQueue
    BY <1>13, MaxQueuePositive DEF TakeEvent, TypeOK
  <2> QED
    BY <1>13, <2>1, EmptyIndex DEF TakeEvent, BeginWalk, Goto, TypeOK, Pc, world, memory
<1>14. CASE UNCHANGED vars
  BY <1>14 DEF vars, TypeOK, world, memory, walk
<1> QED
  BY <1>1, <1>2, <1>3, <1>4, <1>5, <1>6, <1>7, <1>8, <1>9, <1>10, <1>11, <1>12, <1>13, <1>14
  DEF Next, Service

\* Every variable of the service keeps its type, for any number of files.
THEOREM TypeCorrect == Spec => []TypeOK
BY InitTypes, NextTypes, PTL DEF Spec

----------------------------------------------------------------------------
(* The index is out of date only with a cause *)

\* Every event is worth a walk of its own: one comes for each change that the
\* watcher sees, and the walks under way are not taken for it (lines 356-376).
LEMMA ChangeKeeps ==
  ASSUME IInv, NEW f \in File, NEW v, Change(f, v)
  PROVE  StaleIsKnown' /\ WalkKnows'
<1>1. CASE watching
  <2>1. queue' > 0
    BY <1>1, NotifyCounts DEF IInv, TypeOK, Change
  <2> QED
    BY <2>1 DEF StaleIsKnown, WalkKnows
<1>2. CASE ~watching
  <2>1. UNCHANGED <<pc, queue, todo, found, index>> /\ missed' = missed \cup {f}
    BY <1>2 DEF Change, Notify, walk, memory
  <2>2. ASSUME NEW g \in File, g \notin missed' PROVE Wanted(g)' = Wanted(g)
    BY <2>1, <2>2 DEF Change, Wanted, IInv, TypeOK
  <2>3. ASSUME NEW g \in File, g \notin missed'
        PROVE  Fresh(g)' = Fresh(g) /\ InWalk(g)' = InWalk(g)
    BY <2>1, <2>2, <2>3 DEF Fresh, InWalk
  <2> QED
    BY <2>1, <2>3 DEF IInv, StaleIsKnown, WalkKnows
<1> QED
  BY <1>1, <1>2 DEF IInv, TypeOK

\* A step that leaves files, index and walk alone and takes no event keeps it.
LEMMA OthersKeep ==
  ASSUME IInv, UNCHANGED <<disk, index, todo, found, missed>>,
         queue' \in Nat, queue' >= queue,
         pc' = pc \/ (pc \notin {"off", "load"} /\ pc' # "walk"),
         pc = "walk" => pc' = "walk"
  PROVE  StaleIsKnown' /\ WalkKnows'
<1>1. ASSUME NEW f \in File PROVE Fresh(f)' = Fresh(f)
  BY DEF Fresh, Wanted
<1>2. ASSUME NEW f \in File, InWalk(f) PROVE InWalk(f)'
  BY <1>2 DEF InWalk, Wanted
<1>3. queue > 0 => queue' > 0
  BY DEF IInv, TypeOK
<1>4. StaleIsKnown'
  BY <1>1, <1>2, <1>3 DEF IInv, StaleIsKnown
<1>5. WalkKnows'
  BY <1>2, <1>3 DEF IInv, WalkKnows
<1> QED
  BY <1>4, <1>5

\* No step of the service or of the workspace leaves the invariant.
LEMMA NextKeeps == IInv /\ [Next]_vars => StaleIsKnown' /\ WalkKnows'
<1> SUFFICES ASSUME IInv, [Next]_vars PROVE StaleIsKnown' /\ WalkKnows'
  OBVIOUS
<1> DEFINE Keeps == StaleIsKnown' /\ WalkKnows'
<1>q. queue \in Nat
  BY MaxQueuePositive DEF IInv, TypeOK
<1>1. ASSUME NEW f \in File, NEW v \in {Absent, Oversized, counts.changes + Oversized + 2},
             Change(f, v)
      PROVE  Keeps
  BY <1>1, ChangeKeeps
<1>2. CASE Commit
  <2>1. queue' \in 0..MaxQueue /\ queue' >= queue
    BY <1>2, NotifyCounts DEF Commit, IInv, TypeOK
  <2> QED
    BY <1>2, <2>1, OthersKeep DEF Commit, walk, memory
<1>3. CASE Start
  BY <1>3 DEF Start, Goto, StaleIsKnown, WalkKnows
<1>4. ASSUME Gone PROVE Keeps
  BY <1>4 DEF Gone, Goto, StaleIsKnown, WalkKnows
<1>5. CASE LoadIndex
  <2>1. CASE Usable
    <3>1. pc' = "git" /\ UNCHANGED disk
      BY <1>5, <2>1 DEF LoadIndex, Goto, world
    <3>2. missed' = {f \in File : index'[f].stamp # Wanted(f)}
      BY <1>5, <2>1 DEF LoadIndex
    <3>3. \A f \in File \ missed' : Fresh(f)'
      BY <3>1, <3>2 DEF Fresh, Wanted
    <3> QED
      BY <3>1, <3>3 DEF StaleIsKnown, WalkKnows
  <2>2. CASE ~Usable
    BY <1>5, <2>2 DEF LoadIndex, Goto, BeginWalk, StaleIsKnown, WalkKnows, InWalk
  <2> QED
    BY <2>1, <2>2
<1>6. ASSUME NEW f \in File, Visit(f) PROVE Keeps
  <2>1. UNCHANGED <<disk, index, queue, pc>> /\ pc = "walk" /\ missed' = missed \ {f}
    BY <1>6 DEF Visit, world, memory
  <2>2. ASSUME NEW g \in File PROVE Wanted(g)' = Wanted(g)
    BY <2>1 DEF Wanted
  <2>3. InWalk(f)'
    BY <1>6, <2>1, <2>2 DEF Visit, InWalk, IInv, TypeOK, Items, NoItem
  <2>4. ASSUME NEW g \in File, g # f, InWalk(g) PROVE InWalk(g)'
    BY <1>6, <2>1, <2>2, <2>4 DEF Visit, InWalk, IInv, TypeOK, Items
  <2>5. WalkKnows'
    BY <2>1, <2>3, <2>4 DEF IInv, WalkKnows
  <2> QED
    BY <2>1, <2>5 DEF StaleIsKnown, WalkKnows
<1>7. CASE Install
  <2>1. UNCHANGED <<disk, queue, missed>> /\ pc' = "save" /\ index' = found
    BY <1>7 DEF Install, Goto, world
  <2>2. ASSUME NEW f \in File \ missed' PROVE Fresh(f)' \/ queue' > 0
    <3>1. InWalk(f) \/ queue > 0
      BY <1>7, <2>1 DEF Install, IInv, WalkKnows
    <3> QED
      BY <1>7, <2>1, <3>1 DEF Install, InWalk, Fresh, Wanted
  <2> QED
    BY <2>1, <2>2 DEF StaleIsKnown, WalkKnows
<1>8. CASE SaveOpen
  <2>1. queue' \in 0..MaxQueue /\ queue' >= queue
    BY <1>8, <1>q, NotifyCounts DEF SaveOpen, IInv, TypeOK
  <2>2. pc = "save" /\ pc' \in {"write", "git"}
    BY <1>8 DEF SaveOpen, Goto
  <2> QED
    BY <1>8, <2>1, <2>2, OthersKeep DEF SaveOpen, world, walk, memory
<1>9. CASE SaveWrite
  <2>1. queue' \in 0..MaxQueue /\ queue' >= queue
    BY <1>9, NotifyCounts DEF SaveWrite, IInv, TypeOK
  <2> QED
    BY <1>9, <2>1, OthersKeep DEF SaveWrite, Goto, world, walk, memory
<1>10. CASE RefreshGitStatus
  BY <1>10, <1>q, OthersKeep DEF RefreshGitStatus, Goto, world, walk
<1>11. CASE StartWatcher
  BY <1>11, <1>q, OthersKeep DEF StartWatcher, Goto, world, walk, memory
<1>12. CASE TakeEvent
  BY <1>12 DEF TakeEvent, BeginWalk, Goto, StaleIsKnown, WalkKnows, InWalk
<1>13. CASE UNCHANGED vars
  BY <1>13, <1>q, OthersKeep DEF vars, world, walk, memory
<1> QED
  BY <1>1, <1>2, <1>3, <1>4, <1>5, <1>6, <1>7, <1>8, <1>9, <1>10, <1>11, <1>12, <1>13
  DEF Next, Service, Stop, NewFails

\* The strengthened invariant holds in every state of every behaviour.
THEOREM Inductive == Spec => []IInv
<1>1. Init => IInv
  BY InitTypes DEF Init, IInv, StaleIsKnown, WalkKnows
<1>2. IInv /\ [Next]_vars => IInv'
  BY NextTypes, NextKeeps DEF IInv
<1> QED
  BY <1>1, <1>2, PTL DEF Spec

\* The index is never out of date without an event waiting or a walk that comes to
\* the file: no order of changes, walks, saves, stops and restarts loses a change
\* that the watcher was told of.
THEOREM StaleKnown == Spec => []StaleIsKnown
<1>1. IInv => StaleIsKnown
  BY DEF IInv
<1> QED
  BY Inductive, <1>1, PTL
----------------------------------------------------------------------------
(* Pages *)

\* A slice that starts where the last one ended goes on with it (lines 482-488).
LEMMA SliceExtends ==
  ASSUME NEW S, NEW s \in Seq(S), NEW start \in 0..Len(s), NEW end \in start..Len(s)
  PROVE  SubSeq(s, 1, start) \o Slice(s, start, end) = SubSeq(s, 1, end)
<1>1. start <= end /\ Len(s) \in Nat
  OBVIOUS
<1>2. 1 \in 1..Len(s) + 1 /\ start \in 1 - 1..Len(s) /\ end \in start..Len(s)
  BY <1>1
<1> QED
  BY <1>1, <1>2, ConcatAdjacentSubSeq DEF Slice

\* A page of find_files with a limit that is not zero takes up where the results
\* before it ended; its token, if it has one, is the number of results so far, and it
\* has none only with the last result (lines 482-495).
THEOREM FindPageExtends ==
  ASSUME NEW S, NEW matched \in Seq(S), NEW start \in 0..Len(matched),
         NEW limit \in Nat \ {0}
  PROVE  LET page == FindPage(matched, start, limit)
             soFar == SubSeq(matched, 1, start) \o page.items
         IN \/ page.token = NoToken /\ soFar = matched
            \/ /\ page.token \in start + 1..Len(matched) - 1
               /\ soFar = SubSeq(matched, 1, page.token)
<1> DEFINE end == Lesser(start + limit, Len(matched))
           page == FindPage(matched, start, limit)
           soFar == SubSeq(matched, 1, start) \o page.items
<1>1. Len(matched) \in Nat /\ start + limit \in Nat
  OBVIOUS
<1>2. end \in start..Len(matched) /\ (end < Len(matched) => end = start + limit)
  BY <1>1 DEF Lesser
<1>3. page.items = Slice(matched, start, end)
      /\ page.token = (IF end < Len(matched) THEN end ELSE NoToken)
  BY DEF FindPage
<1>4. soFar = SubSeq(matched, 1, end)
  <2> HIDE DEF end, page
  <2> QED
    BY <1>2, <1>3, SliceExtends
<1>5. CASE end < Len(matched)
  <2>1. end \in start + 1..Len(matched) - 1
    BY <1>1, <1>2, <1>5
  <2> QED
    BY <1>3, <1>4, <1>5, <2>1
<1>6. CASE ~(end < Len(matched))
  <2>1. end = Len(matched)
    BY <1>1, <1>2, <1>6
  <2>2. soFar = matched
    BY <1>4, <2>1, SubSeqFull
  <2> QED
    BY <1>3, <1>6, <2>2
<1> QED
  BY <1>5, <1>6

\* The start of the start of a sequence is its start.
LEMMA SliceOfStart ==
  ASSUME NEW S, NEW s \in Seq(S), NEW n \in 0..Len(s), NEW start \in Nat, NEW end \in 0..n
  PROVE  Slice(SubSeq(s, 1, n), start, end) = Slice(s, start, end)
<1> DEFINE t == SubSeq(s, 1, n)
<1>1. Len(s) \in Nat
  OBVIOUS
<1>2. CASE start < end
  <2>1. 1 \in 1..Len(s) /\ n \in 1..Len(s)
    BY <1>1, <1>2
  <2>2. start + 1 \in 1..n - 1 + 1 /\ end \in 1..n - 1 + 1
    BY <1>1, <1>2
  <2>3. SubSeq(t, start + 1, end) = SubSeq(s, 1 + (start + 1) - 1, 1 + end - 1)
    BY <2>1, <2>2, SubSeqOfSubSeq
  <2>4. 1 + (start + 1) - 1 = start + 1 /\ 1 + end - 1 = end
    OBVIOUS
  <2> QED
    BY <1>2, <2>3, <2>4 DEF Slice
<1>3. CASE ~(start < end)
  <2>1. end < start + 1
    BY <1>3
  <2>2. SubSeq(t, start + 1, end) = <<>> /\ SubSeq(s, start + 1, end) = <<>>
    BY <2>1, SubSeqEmpty
  <2> QED
    BY <2>2 DEF Slice
<1> QED
  BY <1>2, <1>3

\* A grep that stops reading one line after its page finds the page, and whether it is
\* the last, as if it had read all: the line more is needed and enough (lines 545-551,
\* 619-620 and 700-713).
THEOREM GrepReadsEnough ==
  ASSUME NEW S, NEW hits \in Seq(S), NEW start \in Nat, NEW limit \in Nat
  PROVE  GrepPage(hits, start, limit) = FindPage(hits, start, GrepLimit(limit))
<1> DEFINE bound == GrepLimit(limit)
           required == start + bound + 1
           read == Lesser(required, Len(hits))
           matches == SubSeq(hits, 1, read)
           endRead == Lesser(start + bound, Len(matches))
           end == Lesser(start + bound, Len(hits))
<1>1. Len(hits) \in Nat /\ bound \in Nat
  BY GrepLineLimitPositive DEF GrepLimit, Lesser
<1>2. required \in Nat /\ start + bound \in Nat
  BY <1>1
<1>3. read \in 0..Len(hits)
  BY <1>1, <1>2 DEF Lesser
<1>4. Len(matches) = read
  BY <1>3, SubSeqProperties
<1>5. endRead = end /\ end \in 0..read
  BY <1>1, <1>2, <1>4 DEF Lesser
<1>6. (endRead < Len(matches) \/ Len(matches) >= required) <=> end < Len(hits)
  BY <1>1, <1>2, <1>4 DEF Lesser
<1>7. Slice(matches, start, endRead) = Slice(hits, start, end)
  <2> HIDE DEF read, end, endRead
  <2> QED
    BY <1>3, <1>5, SliceOfStart
<1> QED
  BY <1>5, <1>6, <1>7 DEF GrepPage, FindPage

----------------------------------------------------------------------------
(* All pages *)

\* Naturals are well founded.
LEMMA Least ==
  ASSUME NEW T \in SUBSET Nat, T # {}
  PROVE  \E n \in T : \A m \in T : n <= m
<1>1. IsWellFoundedOn(OpToRel(<, Nat), Nat)
  BY NatLessThanWellFounded
<1>2. PICK n \in T : \A m \in T : ~(<<m, n>> \in OpToRel(<, Nat))
  BY <1>1, WFMin
<1>3. \A m \in T : m < n <=> <<m, n>> \in OpToRel(<, Nat)
  BY DEF OpToRel
<1>4. \A m \in T : ~(m < n)
  BY <1>2, <1>3, Zenon
<1> QED BY <1>4

\* A set that holds 0, and each number up to n after the one before, holds n.
LEMMA UpTo ==
  ASSUME NEW n \in Nat, NEW T, 0 \in T, \A k \in 0..n : k < n /\ k \in T => k + 1 \in T
  PROVE  \A k \in 0..n : k \in T
<1> DEFINE Bad == {k \in 0..n : k \notin T}
<1>1. SUFFICES ASSUME Bad # {} PROVE FALSE
  OBVIOUS
<1>2. PICK k \in Bad : \A j \in Bad : k <= j
  <2>1. Bad \in SUBSET Nat
    OBVIOUS
  <2> HIDE DEF Bad
  <2> QED BY <1>1, <2>1, Least
<1>3. k - 1 \in 0..n /\ k - 1 < n /\ k - 1 \notin Bad
  BY <1>2
<1>4. k - 1 + 1 \in T
  BY <1>3
<1> QED BY <1>2, <1>4

\* The k-th value of what Following defines, from the values of f before it.
TrailAt(pages, f, k) ==
  IF k = 0 THEN pages[0]
  ELSE LET before == f[k - 1]
           page == pages[before.token]
       IN IF before.token = NoToken THEN before
          ELSE [items |-> before.items \o page.items, token |-> page.token]

\* The pages that are gone through so far are defined by those before them.
LEMMA TrailExists ==
  ASSUME NEW pages, NEW n \in Nat
  PROVE  \E f : f = [k \in 0..n |-> TrailAt(pages, f, k)]
<1> DEFINE Defined == {m \in 0..n : \E f : f = [k \in 0..m |-> TrailAt(pages, f, k)]}
<1>1. 0 \in Defined
  <2> DEFINE g == [k \in 0..0 |-> pages[0]]
  <2>1. g = [k \in 0..0 |-> TrailAt(pages, g, k)]
    BY DEF TrailAt
  <2> QED BY <2>1
<1>2. ASSUME NEW m \in 0..n, m < n, m \in Defined
      PROVE  m + 1 \in Defined
  <2>1. PICK f : f = [k \in 0..m |-> TrailAt(pages, f, k)]
    BY <1>2
  <2> DEFINE g == [k \in 0..m + 1 |-> IF k = m + 1 THEN TrailAt(pages, f, m + 1) ELSE f[k]]
  <2>2. ASSUME NEW k \in 0..m + 1
        PROVE  TrailAt(pages, g, k) = TrailAt(pages, f, k)
    <3>1. CASE k = 0
      BY <3>1 DEF TrailAt
    <3>2. CASE k # 0
      <4>1. g[k - 1] = f[k - 1]
        BY <3>2
      <4> HIDE DEF g
      <4> QED BY <3>2, <4>1 DEF TrailAt
    <3> QED BY <3>1, <3>2
  <2>3. \A k \in 0..m + 1 : g[k] = TrailAt(pages, f, k)
    BY <2>1
  <2>4. g = [k \in 0..m + 1 |-> TrailAt(pages, g, k)]
    BY <2>2, <2>3
  <2>5. m + 1 \in 0..n
    BY <1>2
  <2> QED BY <2>4, <2>5
<1>3. n \in Defined
  <2> HIDE DEF Defined
  <2> QED BY <1>1, <1>2, UpTo
<1> QED BY <1>3

\* Whoever follows the tokens, over any result and with any limit but zero, gets the
\* whole result, and no page after the last (lines 482-495).
THEOREM FollowingIsAll ==
  ASSUME NEW S, NEW matched \in Seq(S), NEW limit \in Nat \ {0}
  PROVE  Following(FindPages(matched, limit), Len(matched)) =
           [items |-> matched, token |-> NoToken]
<1>1. PICK n \in Nat : n = Len(matched)
  BY LenProperties
<1> DEFINE pages == FindPages(matched, limit)
           trail == CHOOSE f : f = [k \in 0..n |-> TrailAt(pages, f, k)]
           All == [items |-> matched, token |-> NoToken]
           Part(k) == \E m \in k + 1..n - 1 :
                        trail[k] = [items |-> SubSeq(matched, 1, m), token |-> m]
           Good == {k \in 0..n : trail[k] = All \/ Part(k)}
<1>2. trail = [k \in 0..n |-> TrailAt(pages, trail, k)]
  BY <1>1, TrailExists
<1>3. Following(pages, n) = trail[n]
  BY DEF Following, TrailAt
<1>4. ASSUME NEW k \in 0..n
      PROVE  trail[k] = TrailAt(pages, trail, k)
  <2> HIDE DEF trail
  <2> QED BY <1>2
<1> HIDE DEF trail
<1>5. ASSUME NEW start \in 0..n
      PROVE  \/ /\ pages[start].token = NoToken
                /\ SubSeq(matched, 1, start) \o pages[start].items = matched
             \/ \E m \in start + 1..n - 1 :
                  /\ pages[start].token = m
                  /\ SubSeq(matched, 1, start) \o pages[start].items = SubSeq(matched, 1, m)
  <2>1. pages[start] = FindPage(matched, start, limit)
    BY <1>1 DEF FindPages
  <2>2. PICK page : page = FindPage(matched, start, limit)
    OBVIOUS
  <2>3. \/ page.token = NoToken /\ SubSeq(matched, 1, start) \o page.items = matched
        \/ /\ page.token \in start + 1..n - 1
           /\ SubSeq(matched, 1, start) \o page.items = SubSeq(matched, 1, page.token)
    BY <1>1, <2>2, FindPageExtends
  <2> HIDE DEF pages
  <2> QED BY <2>1, <2>2, <2>3
<1>6. 0 \in Good
  <2>1. trail[0] = pages[0]
    <3>1. trail[0] = TrailAt(pages, trail, 0)
      BY <1>4
    <3> HIDE DEF pages
    <3> QED BY <3>1 DEF TrailAt
  <2>2. /\ pages[0] = [items |-> pages[0].items, token |-> pages[0].token]
        /\ pages[0].items \in Seq(S)
    <3>1. pages[0] = FindPage(matched, 0, limit)
      BY <1>1 DEF FindPages
    <3>2. PICK end \in 0..n : FindPage(matched, 0, limit).items = Slice(matched, 0, end)
      BY <1>1 DEF FindPage, Lesser
    <3>3. Slice(matched, 0, end) \in Seq(S)
      <4>1. SubSeq(matched, 1, end) \in Seq(S)
        BY <1>1, SubSeqProperties
      <4> QED BY <4>1 DEF Slice
    <3> QED BY <3>1, <3>2, <3>3 DEF FindPage
  <2>3. SubSeq(matched, 1, 0) \o pages[0].items = pages[0].items
    BY <2>2, SubSeqEmpty, ConcatEmptySeq
  <2>4. 0 \in 0..n
    OBVIOUS
  <2> HIDE DEF pages
  <2>5. CASE /\ pages[0].token = NoToken
             /\ SubSeq(matched, 1, 0) \o pages[0].items = matched
    BY <2>1, <2>2, <2>3, <2>4, <2>5
  <2>6. ASSUME NEW m \in 0 + 1..n - 1, pages[0].token = m,
               SubSeq(matched, 1, 0) \o pages[0].items = SubSeq(matched, 1, m)
        PROVE  Part(0)
    BY <2>1, <2>2, <2>3, <2>6
  <2> QED BY <1>5, <2>4, <2>5, <2>6
<1>7. ASSUME NEW k \in 0..n, k < n, k \in Good
      PROVE  k + 1 \in Good
  <2>1. k + 1 \in 0..n
    BY <1>7
  <2>2. trail[k + 1] = IF trail[k].token = NoToken THEN trail[k]
                       ELSE [items |-> trail[k].items \o pages[trail[k].token].items,
                             token |-> pages[trail[k].token].token]
    <3> HIDE DEF pages
    <3>1. k + 1 # 0 /\ k + 1 - 1 = k
      OBVIOUS
    <3>2. trail[k + 1] = TrailAt(pages, trail, k + 1)
      BY <1>4, <2>1
    <3> QED BY <3>1, <3>2 DEF TrailAt
  <2>3. CASE trail[k] = All
    BY <2>1, <2>2, <2>3
  <2>4. CASE Part(k)
    <3>1. PICK m \in k + 1..n - 1 : trail[k] = [items |-> SubSeq(matched, 1, m), token |-> m]
      BY <2>4
    <3>2. m # NoToken /\ m \in 0..n
      BY <1>1, <3>1 DEF NoToken
    <3>3. trail[k + 1] = [items |-> SubSeq(matched, 1, m) \o pages[m].items,
                          token |-> pages[m].token]
      BY <2>2, <3>1, <3>2
    <3> HIDE DEF pages
    <3>4. CASE /\ pages[m].token = NoToken
               /\ SubSeq(matched, 1, m) \o pages[m].items = matched
      BY <2>1, <3>3, <3>4
    <3>5. ASSUME NEW j \in m + 1..n - 1, pages[m].token = j,
                 SubSeq(matched, 1, m) \o pages[m].items = SubSeq(matched, 1, j)
          PROVE  Part(k + 1)
      <4>1. j \in k + 1 + 1..n - 1
        BY <1>1, <3>1, <3>5
      <4> QED BY <3>3, <3>5, <4>1
    <3> QED BY <1>5, <2>1, <3>2, <3>4, <3>5
  <2> QED BY <1>7, <2>3, <2>4
<1>8. n \in Good
  <2> HIDE DEF Good
  <2>1. \A k \in 0..n : k < n /\ k \in Good => k + 1 \in Good
    BY <1>7
  <2>2. n \in 0..n
    OBVIOUS
  <2> QED BY <1>6, <2>1, <2>2, UpTo
<1>9. ~Part(n)
  <2>1. n + 1..n - 1 = {}
    OBVIOUS
  <2> QED BY <2>1
<1> QED BY <1>1, <1>3, <1>8, <1>9

\* A grep too, whatever its limit (lines 571-574 and 700-713).
LEMMA GrepFollowingIsAll ==
  ASSUME NEW S, NEW hits \in Seq(S), NEW limit \in Nat
  PROVE  Following(GrepPages(hits, limit), Len(hits)) = [items |-> hits, token |-> NoToken]
<1>1. Len(hits) \in Nat
  BY LenProperties
<1>2. GrepLimit(limit) \in Nat \ {0}
  BY GrepLineLimitPositive DEF GrepLimit, Lesser
<1>3. \A start \in 0..Len(hits) :
        GrepPage(hits, start, limit) = FindPage(hits, start, GrepLimit(limit))
  BY <1>1, GrepReadsEnough
<1>4. GrepPages(hits, limit) = FindPages(hits, GrepLimit(limit))
  BY <1>3 DEF GrepPages, FindPages
<1> QED BY <1>2, <1>4, FollowingIsAll

----------------------------------------------------------------------------
(* Results *)

\* There are as many files as the paths in their order, and each has its place.
LEMMA Places ==
  /\ Len(PathOrder) \in Nat /\ IsFiniteSet(File)
  /\ \A f \in File : Place(f) \in 1..Len(PathOrder) /\ PathOrder[Place(f)] = f
<1>1. Len(PathOrder) \in Nat /\ PathOrder \in [1..Len(PathOrder) -> File]
  BY PathOrderComplete, LenProperties
<1>2. \A f \in File : Place(f) \in 1..Len(PathOrder) /\ PathOrder[Place(f)] = f
  BY PathOrderComplete DEF Place
<1>3. PathOrder \in Surjection(1..Len(PathOrder), File)
  BY <1>1, <1>2 DEF Surjection
<1>4. IsFiniteSet(1..Len(PathOrder))
  BY <1>1, FS_Interval
<1> QED BY <1>1, <1>2, <1>3, <1>4, FS_Surjection

\* The order of the results is one: of two files, one comes before the other.
LEMMA BeforeIsOrder ==
  /\ \A f \in File : ~Before(f, f)
  /\ \A f, g \in File : f # g => Before(f, g) \/ Before(g, f)
  /\ \A f, g, h \in File : Before(f, g) /\ Before(g, h) => Before(f, h)
<1>1. \A f \in File : Score(f) \in 0..2
  BY DEF Score
<1>2. \A f \in File : Place(f) \in Nat
  BY Places
<1>3. \A f, g \in File : Place(f) = Place(g) => f = g
  BY Places
<1>4. \A f \in File : ~Before(f, f)
  BY <1>1, <1>2 DEF Before
<1>5. ASSUME NEW f \in File, NEW g \in File, f # g
      PROVE  Before(f, g) \/ Before(g, f)
  BY <1>1, <1>2, <1>3, <1>5 DEF Before
<1>6. ASSUME NEW f \in File, NEW g \in File, NEW h \in File, Before(f, g), Before(g, h)
      PROVE  Before(f, h)
  BY <1>1, <1>2, <1>6 DEF Before
<1> QED BY <1>4, <1>5, <1>6

\* The files of S that come before f.
Ahead(S, f) == {g \in S : Before(g, f)}

\* Each file that matches stands once in the result, at the place that the number of
\* those before it gives (lines 430-491).
THEOREM MatchedOnce ==
  ASSUME NEW matching \in SUBSET File,
         NEW some, some = {f \in matching : index[f].stamp # Absent}
  PROVE  /\ Matched(matching) \in Seq(some)
         /\ Len(Matched(matching)) = Cardinality(some)
         /\ \A f \in some : \E n \in 1..Len(Matched(matching)) :
              \A m \in 1..Len(Matched(matching)) : Matched(matching)[m] = f <=> m = n
         /\ \A m, n \in 1..Len(Matched(matching)) :
              m < n => Before(Matched(matching)[m], Matched(matching)[n])
<1>1. PICK c : c = Cardinality(some)
  OBVIOUS
<1>2. some \in SUBSET File /\ IsFiniteSet(some) /\ c \in Nat
  BY <1>1, Places, FS_Subset, FS_CardinalityType
<1>3. ASSUME NEW f \in some
      PROVE  /\ IsFiniteSet(Ahead(some, f)) /\ Cardinality(Ahead(some, f)) \in 0..c - 1
  <2>1. Ahead(some, f) \in SUBSET some /\ f \notin Ahead(some, f)
    BY <1>2, BeforeIsOrder DEF Ahead
  <2>2. /\ IsFiniteSet(Ahead(some, f)) /\ Cardinality(Ahead(some, f)) <= c
        /\ Cardinality(Ahead(some, f)) # c
    BY <1>1, <1>2, <2>1, FS_Subset
  <2> QED BY <1>2, <2>2, FS_CardinalityType
<1>4. ASSUME NEW f \in some, NEW g \in some, Before(f, g)
      PROVE  Cardinality(Ahead(some, f)) < Cardinality(Ahead(some, g))
  <2>1. Ahead(some, f) \in SUBSET Ahead(some, g)
    BY <1>2, <1>4, BeforeIsOrder DEF Ahead
  <2>2. f \in Ahead(some, g) /\ f \notin Ahead(some, f)
    BY <1>2, <1>4, BeforeIsOrder DEF Ahead
  <2>3. /\ Cardinality(Ahead(some, f)) <= Cardinality(Ahead(some, g))
        /\ Cardinality(Ahead(some, f)) # Cardinality(Ahead(some, g))
    BY <1>3, <2>1, <2>2, FS_Subset
  <2> QED BY <1>3, <2>3
<1> DEFINE rank == [f \in some |-> Cardinality(Ahead(some, f))]
<1>5. rank \in Surjection(some, 0..c - 1)
  <2>1. rank \in [some -> 0..c - 1]
    BY <1>3
  <2>2. \A f, g \in some : rank[f] = rank[g] => f = g
    BY <1>2, <1>3, <1>4, BeforeIsOrder
  <2>3. rank \in Injection(some, 0..c - 1)
    BY <2>1, <2>2 DEF Injection, IsInjective
  <2>4. IsFiniteSet(0..c - 1) /\ Cardinality(0..c - 1) = c
    BY <1>2, FS_Interval
  <2> HIDE DEF rank
  <2> QED BY <1>1, <2>3, <2>4, FS_Injection
<1>6. PICK s : s = [n \in 1..c |-> CHOOSE f \in some : Cardinality(Ahead(some, f)) = n - 1]
  OBVIOUS
<1>7. Matched(matching) = s
  BY <1>1, <1>6 DEF Matched, Ahead
<1>8. ASSUME NEW n \in 1..c
      PROVE  s[n] \in some /\ Cardinality(Ahead(some, s[n])) = n - 1
  <2>1. n - 1 \in 0..c - 1
    BY <1>2
  <2>2. \E f \in some : rank[f] = n - 1
    <3> HIDE DEF rank
    <3> QED BY <1>5, <2>1 DEF Surjection
  <2>3. \E f \in some : Cardinality(Ahead(some, f)) = n - 1
    BY <2>2
  <2>4. s[n] = CHOOSE f \in some : Cardinality(Ahead(some, f)) = n - 1
    BY <1>6
  <2> QED BY <2>3, <2>4
<1>9. s \in Seq(some) /\ Len(s) = c
  <2>1. s \in [1..c -> some]
    BY <1>6, <1>8
  <2> QED BY <1>2, <2>1
<1>10. ASSUME NEW f \in some
       PROVE  \E n \in 1..c : \A m \in 1..c : s[m] = f <=> m = n
  <2>0. Cardinality(Ahead(some, f)) + 1 \in Nat
    BY <1>2, <1>3
  <2>1. PICK n \in Nat : n = Cardinality(Ahead(some, f)) + 1
    BY <2>0
  <2>2. n \in 1..c /\ Cardinality(Ahead(some, f)) = n - 1
    BY <1>2, <1>3, <2>1
  <2>3. \A g \in some : Cardinality(Ahead(some, g)) = n - 1 => g = f
    BY <1>2, <1>3, <1>4, <2>2, BeforeIsOrder
  <2>4. \A m \in 1..c : s[m] = f => m = n
    BY <1>8, <2>2
  <2> QED BY <1>8, <2>2, <2>3, <2>4
<1>11. ASSUME NEW m \in 1..c, NEW n \in 1..c, m < n
       PROVE  Before(s[m], s[n])
  <2>1. /\ s[m] \in some /\ Cardinality(Ahead(some, s[m])) = m - 1
        /\ s[n] \in some /\ Cardinality(Ahead(some, s[n])) = n - 1
    BY <1>8
  <2>2. s[m] # s[n]
    BY <1>11, <2>1
  <2>3. ~Before(s[n], s[m])
    BY <1>4, <1>11, <2>1
  <2> QED BY <1>2, <2>1, <2>2, <2>3, BeforeIsOrder
<1> QED BY <1>1, <1>7, <1>9, <1>10, <1>11

\* The i-th value of what GrepHits defines, from the values of f before it.
HitsAt(f, i) ==
  IF i = 0 THEN <<>>
  ELSE f[i - 1] \o (IF index[PathOrder[i]].stamp # Absent THEN HitsIn(PathOrder[i]) ELSE <<>>)

\* The lines a grep finds are a sequence of lines of files.
LEMMA GrepHitsTyped == TypeOK => GrepHits \in Seq(File \X Nat)
<1> SUFFICES ASSUME TypeOK PROVE GrepHits \in Seq(File \X Nat)
  OBVIOUS
<1>1. PICK n \in Nat : n = Len(PathOrder)
  BY Places
<1>2. ASSUME NEW i \in 1..n
      PROVE  HitsIn(PathOrder[i]) \in Seq(File \X Nat)
  <2>1. PICK f \in File : f = PathOrder[i]
    BY <1>1, PathOrderComplete
  <2>2. disk[f] \in Nat
    BY DEF TypeOK
  <2>3. disk[f] % 3 \in Nat
    BY <2>2
  <2>4. \A k \in 1..disk[f] % 3 : <<f, k>> \in File \X Nat
    BY <2>3
  <2>5. HitsIn(f) \in Seq(File \X Nat)
    BY <2>3, <2>4 DEF HitsIn
  <2> QED BY <2>1, <2>5
<1> DEFINE Defined == {m \in 0..n : \E f : f = [i \in 0..m |-> HitsAt(f, i)]}
<1>3. 0 \in Defined
  <2> DEFINE g == [i \in 0..0 |-> <<>>]
  <2>1. g = [i \in 0..0 |-> HitsAt(g, i)]
    BY DEF HitsAt
  <2> QED BY <2>1
<1>4. ASSUME NEW m \in 0..n, m < n, m \in Defined
      PROVE  m + 1 \in Defined
  <2>1. PICK f : f = [i \in 0..m |-> HitsAt(f, i)]
    BY <1>4
  <2> DEFINE g == [i \in 0..m + 1 |-> IF i = m + 1 THEN HitsAt(f, m + 1) ELSE f[i]]
  <2>2. ASSUME NEW i \in 0..m + 1
        PROVE  HitsAt(g, i) = HitsAt(f, i)
    <3>1. CASE i = 0
      BY <3>1 DEF HitsAt
    <3>2. CASE i # 0
      <4>1. g[i - 1] = f[i - 1]
        BY <3>2
      <4> HIDE DEF g
      <4> QED BY <3>2, <4>1 DEF HitsAt
    <3> QED BY <3>1, <3>2
  <2>3. \A i \in 0..m + 1 : g[i] = HitsAt(f, i)
    BY <2>1
  <2>4. g = [i \in 0..m + 1 |-> HitsAt(g, i)]
    BY <2>2, <2>3
  <2>5. m + 1 \in 0..n
    BY <1>4
  <2> QED BY <2>4, <2>5
<1>5. n \in Defined
  <2> HIDE DEF Defined
  <2> QED BY <1>3, <1>4, UpTo
<1> DEFINE hits == CHOOSE f : f = [i \in 0..n |-> HitsAt(f, i)]
<1>6. hits = [i \in 0..n |-> HitsAt(hits, i)]
  BY <1>5
<1>7. GrepHits = hits[n]
  BY <1>1 DEF GrepHits, HitsAt
<1> HIDE DEF hits
<1>8. ASSUME NEW i \in 0..n
       PROVE  hits[i] = HitsAt(hits, i)
  BY <1>6
<1> DEFINE Typed == {i \in 0..n : hits[i] \in Seq(File \X Nat)}
<1>9. 0 \in Typed
  <2>1. 0 \in 0..n /\ hits[0] = HitsAt(hits, 0)
    BY <1>8
  <2>2. HitsAt(hits, 0) = <<>>
    BY DEF HitsAt
  <2>3. <<>> \in Seq(File \X Nat)
    OBVIOUS
  <2> QED BY <2>1, <2>2, <2>3
<1>10. ASSUME NEW m \in 0..n, m < n, m \in Typed
      PROVE  m + 1 \in Typed
  <2>1. hits[m] \in Seq(File \X Nat) /\ m + 1 \in 1..n /\ m + 1 - 1 = m /\ m + 1 # 0
    BY <1>10
  <2>2. HitsIn(PathOrder[m + 1]) \in Seq(File \X Nat)
    BY <1>2, <2>1
  <2>3. \A more \in Seq(File \X Nat) : hits[m] \o more \in Seq(File \X Nat)
    BY <2>1, ConcatProperties
  <2>4. <<>> \in Seq(File \X Nat)
    OBVIOUS
  <2>5. m + 1 \in 0..n /\ hits[m + 1] = HitsAt(hits, m + 1)
    BY <1>8, <2>1
  <2>6. hits[m + 1] \in Seq(File \X Nat)
    BY <2>1, <2>2, <2>3, <2>4, <2>5 DEF HitsAt
  <2> QED BY <2>5, <2>6
<1>11. n \in Typed
  <2> HIDE DEF Typed
  <2> QED BY <1>9, <1>10, UpTo
<1> QED BY <1>7, <1>11

\* In every state, following the tokens over one snapshot gives every result of a
\* find or a grep once and in order, and comes to an end.
THEOREM PagesArePartition == Spec => []PagesPartition
<1>1. TypeOK => PagesPartition
  <2> SUFFICES ASSUME TypeOK PROVE PagesPartition
    OBVIOUS
  <2>1. ASSUME NEW matching \in SUBSET File, NEW limit \in 1..Len(PathOrder)
        PROVE  Following(FindPages(Matched(matching), limit), Len(Matched(matching))) =
                 [items |-> Matched(matching), token |-> NoToken]
    <3>1. PICK some : some = {f \in matching : index[f].stamp # Absent}
      OBVIOUS
    <3>2. Matched(matching) \in Seq(some)
      BY <3>1, MatchedOnce
    <3>3. limit \in Nat \ {0}
      BY Places
    <3> QED BY <3>2, <3>3, FollowingIsAll
  <2>2. ASSUME NEW limit \in 0..GrepLineLimit + 1
        PROVE  Following(GrepPages(GrepHits, limit), Len(GrepHits)) =
                 [items |-> GrepHits, token |-> NoToken]
    <3>1. limit \in Nat
      BY GrepLineLimitPositive
    <3> QED BY <3>1, GrepHitsTyped, GrepFollowingIsAll
  <2> QED BY <2>1, <2>2 DEF PagesPartition
<1> QED BY <1>1, TypeCorrect, PTL
=============================================================================
