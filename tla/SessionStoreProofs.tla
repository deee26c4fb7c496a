------------------------- MODULE SessionStoreProofs -------------------------
(***************************************************************************)
(* What holds of the session store for every number of Uuids, wherever the *)
(* process dies, and whichever file operations fail.                       *)
(*                                                                         *)
(* The first invariant (IInv) is about the order of ids.  append_entry     *)
(* draws an id that is above every id in memory and in any file, and names *)
(* a parent it knows; so ids increase along every log, parents point       *)
(* backwards, and uniqueness and acyclicity follow.  Files matter because  *)
(* Load makes one of them the log, and because a failed write leaves the   *)
(* memory ahead.                                                           *)
(*                                                                         *)
(* The second (DurableInv) is about a store whose file operations do not   *)
(* fail: which file holds the log at each step of an append and of a       *)
(* compaction.  From it follow durability, and that the store implements   *)
(* DurableLog.  The third (SettledInv) is about lines that are cut off.    *)
(***************************************************************************)
EXTENDS SessionStore, SequenceTheorems, TLAPS

IdsIncrease(s) == \A i, j \in 1..Len(s) : i < j => s[i].id < s[j].id
ParentsSmaller(s) == \A i \in 1..Len(s) : s[i].parent < s[i].id
IdsUpTo(s, n) == \A i \in 1..Len(s) : s[i].id <= n

\* A log whose ids increase, point backwards, and have all been issued.
Ordered(s, n) == IdsIncrease(s) /\ ParentsSmaller(s) /\ IdsUpTo(s, n)

\* The entry in memory that append_entry has not written yet is newer than
\* every line of the session file.
PendingIsNewest ==
  /\ phase = "append" =>
       /\ entries # <<>>
       /\ IdsUpTo(disk["session"].lines, entries[Len(entries)].id - 1)
  /\ phase \in {"append", "newline"} => head \in Id

LogsOrdered == /\ Ordered(entries, issued)
               /\ \A n \in FileName : Ordered(disk[n].lines, issued)

IInv == TypeOK /\ LogsOrdered /\ PendingIsNewest /\ IndexExact

----------------------------------------------------------------------------
(* Logs *)

\* The fields of a log's entries.
LEMMA EntryFields ==
  ASSUME NEW s \in Seq(Entry)
  PROVE  /\ Len(s) \in Nat
         /\ \A i \in 1..Len(s) : s[i] \in Entry /\ s[i].id \in Id /\ s[i].parent \in Nat
<1>1. Len(s) \in Nat /\ \A i \in 1..Len(s) : s[i] \in Entry
  BY LenProperties, ElementOfSeq
<1> QED BY <1>1 DEF Entry

\* A log whose ids increase and point backwards is a tree in log order.
LEMMA OrderedIsTree ==
  ASSUME NEW s \in Seq(Entry), NEW n \in Nat, Ordered(s, n)
  PROVE  TreeShape(s)
<1> SUFFICES ASSUME NEW i \in 1..Len(s), NEW j \in 1..Len(s)
             PROVE  /\ s[i].id = s[j].id => i = j
                    /\ s[i].parent = s[j].id => j < i
  BY DEF TreeShape
<1>1. /\ i \in Nat /\ j \in Nat
      /\ s[i] \in Entry /\ s[j] \in Entry
  BY ElementOfSeq, LenProperties
<1>2. /\ s[i].id \in Nat /\ s[j].id \in Nat /\ s[i].parent \in Nat
  BY <1>1 DEF Entry, Id
<1>3. i < j => s[i].id < s[j].id
  BY DEF Ordered, IdsIncrease
<1>4. j < i => s[j].id < s[i].id
  BY DEF Ordered, IdsIncrease
<1>5. s[i].parent < s[i].id
  BY DEF Ordered, ParentsSmaller
<1> QED BY <1>1, <1>2, <1>3, <1>4, <1>5

\* Appending an entry newer than the log, under an older parent, keeps the order.
LEMMA AppendOrdered ==
  ASSUME NEW s \in Seq(Entry), NEW e \in Entry, NEW n \in Nat, NEW m \in Nat,
         Ordered(s, n), IdsUpTo(s, e.id - 1), e.parent < e.id,
         n <= m, e.id <= m
  PROVE  Ordered(Append(s, e), m)
<1> DEFINE t == Append(s, e)
<1>1. /\ t \in Seq(Entry) /\ Len(t) = Len(s) + 1 /\ Len(s) \in Nat
      /\ \A i \in 1..Len(s) : t[i] = s[i] /\ s[i] \in Entry
      /\ t[Len(s) + 1] = e
  BY AppendProperties, LenProperties, ElementOfSeq
<1>2. e.id \in Nat /\ e.parent \in Nat /\ \A i \in 1..Len(s) : s[i].id \in Nat
  BY EntryFields DEF Entry, Id
<1>3. \A i \in 1..Len(t) : i \in 1..Len(s) \/ i = Len(s) + 1
  BY <1>1
<1>4. IdsIncrease(t)
  <2> SUFFICES ASSUME NEW i \in 1..Len(t), NEW j \in 1..Len(t), i < j
               PROVE  t[i].id < t[j].id
    BY DEF IdsIncrease
  <2>1. i \in 1..Len(s)
    BY <1>1, <1>3
  <2>2. CASE j \in 1..Len(s)
    BY <2>1, <2>2, <1>1 DEF Ordered, IdsIncrease
  <2>3. CASE j = Len(s) + 1
    <3>1. s[i].id <= e.id - 1
      BY <2>1 DEF IdsUpTo
    <3> QED BY <3>1, <2>1, <2>3, <1>1, <1>2
  <2> QED BY <2>2, <2>3, <1>3
<1>5. ParentsSmaller(t)
  BY <1>1, <1>3 DEF Ordered, ParentsSmaller
<1>6. IdsUpTo(t, m)
  <2> SUFFICES ASSUME NEW i \in 1..Len(t) PROVE t[i].id <= m
    BY DEF IdsUpTo
  <2>1. CASE i \in 1..Len(s)
    <3>1. s[i].id <= n /\ s[i].id \in Nat
      BY <2>1, <1>2 DEF Ordered, IdsUpTo
    <3> QED BY <3>1, <2>1, <1>1
  <2>2. CASE i = Len(s) + 1
    BY <2>2, <1>1
  <2> QED BY <2>1, <2>2, <1>3
<1> QED BY <1>4, <1>5, <1>6 DEF Ordered

\* More ids may be issued.
LEMMA OrderedMonotone ==
  ASSUME NEW s \in Seq(Entry), NEW n \in Nat, NEW m \in Nat, n <= m, Ordered(s, n)
  PROVE  Ordered(s, m)
<1>1. \A i \in 1..Len(s) : s[i].id \in Nat
  BY EntryFields DEF Id
<1> QED BY <1>1 DEF Ordered, IdsUpTo

\* The first entries of a log are a log.
LEMMA PrefixOf ==
  ASSUME NEW s \in Seq(Entry), NEW k \in 0..Len(s)
  PROVE  /\ SubSeq(s, 1, k) \in Seq(Entry) /\ Len(SubSeq(s, 1, k)) = k
         /\ \A i \in 1..k : SubSeq(s, 1, k)[i] = s[i] /\ i \in 1..Len(s)
<1>1. Len(s) \in Nat
  BY LenProperties
<1>2. \A i \in 1..k : s[i] \in Entry
  BY <1>1, ElementOfSeq
<1> QED BY <1>1, <1>2, SubSeqProperties

\* They are in the same order.
LEMMA PrefixOrdered ==
  ASSUME NEW s \in Seq(Entry), NEW n, Ordered(s, n), NEW k \in 0..Len(s)
  PROVE  Ordered(SubSeq(s, 1, k), n)
BY PrefixOf DEF Ordered, IdsIncrease, ParentsSmaller, IdsUpTo

\* The empty log.
LEMMA EmptyOrdered ==
  ASSUME NEW n \in Nat
  PROVE  /\ <<>> \in Seq(Entry) /\ Ordered(<<>>, n)
         /\ IdsOf(<<>>) = {} /\ ChildPairs(<<>>) = {} /\ LastId(<<>>) = NoId
         /\ DOMAIN IndexOf(<<>>) = {}
<1>1. <<>> \in Seq(Entry) /\ Len(<<>>) = 0
  BY EmptySeq
<1>2. IdsOf(<<>>) = {}
  BY <1>1 DEF IdsOf
<1> QED BY <1>1, <1>2
        DEF Ordered, IdsIncrease, ParentsSmaller, IdsUpTo, ChildPairs, LastId, IndexOf

\* What the maps computed from a log contain.
LEMMA IndexTypes ==
  ASSUME NEW s \in Seq(Entry)
  PROVE  /\ IdsOf(s) \subseteq Id
         /\ DOMAIN IndexOf(s) = IdsOf(s)
         /\ \A d \in IdsOf(s) : IndexOf(s)[d] \in Nat
         /\ ChildPairs(s) \subseteq Id \X Id
         /\ RebuiltRoots(s) \subseteq Id
         /\ LastId(s) \in IdsOf(s) \cup {NoId}
         /\ (LastId(s) = NoId) <=> (s = <<>>)
<1>1. Len(s) \in Nat /\ \A i \in 1..Len(s) : s[i].id \in Id /\ s[i].parent \in Nat
  BY EntryFields
<1>2. IdsOf(s) \subseteq Id
  BY <1>1 DEF IdsOf
<1>3. DOMAIN IndexOf(s) = IdsOf(s)
  BY DEF IndexOf
<1>4. \A d \in IdsOf(s) : IndexOf(s)[d] \in Nat
  <2> SUFFICES ASSUME NEW d \in IdsOf(s) PROVE IndexOf(s)[d] \in Nat
    OBVIOUS
  <2>1. \E i \in 1..Len(s) : s[i].id = d
    BY DEF IdsOf
  <2>2. IndexOf(s)[d] = CHOOSE i \in 1..Len(s) : s[i].id = d
    BY DEF IndexOf
  <2> QED BY <2>1, <2>2, <1>1
<1>5. ChildPairs(s) \subseteq Id \X Id
  BY <1>1 DEF ChildPairs, Id
<1>6. RebuiltRoots(s) \subseteq Id
  BY <1>2 DEF RebuiltRoots
<1>7. /\ LastId(s) \in IdsOf(s) \cup {NoId}
      /\ (LastId(s) = NoId) <=> (s = <<>>)
  <2>1. CASE s = <<>>
    BY <2>1 DEF LastId
  <2>2. CASE s # <<>>
    <3>1. Len(s) \in 1..Len(s)
      BY <2>2, EmptySeq, <1>1
    <3>2. LastId(s) = s[Len(s)].id
      BY <2>2 DEF LastId
    <3>3. s[Len(s)].id \in IdsOf(s) /\ s[Len(s)].id # NoId
      BY <3>1, <1>1 DEF IdsOf, Id
    <3> QED BY <3>2, <3>3, <2>2
  <2> QED BY <2>1, <2>2
<1> QED BY <1>2, <1>3, <1>4, <1>5, <1>6, <1>7

\* In an ordered log the index of an entry's id is its position.
LEMMA IndexIsPosition ==
  ASSUME NEW s \in Seq(Entry), NEW n \in Nat, Ordered(s, n), NEW i \in 1..Len(s)
  PROVE  IndexOf(s)[s[i].id] = i
<1>1. s[i].id \in IdsOf(s)
  BY DEF IdsOf
<1>2. TreeShape(s)
  BY OrderedIsTree
<1>3. \A j \in 1..Len(s) : s[j].id = s[i].id => j = i
  BY <1>2 DEF TreeShape
<1>4. IndexOf(s)[s[i].id] = CHOOSE j \in 1..Len(s) : s[j].id = s[i].id
  BY <1>1 DEF IndexOf
<1> QED BY <1>3, <1>4

\* The maps of a log one entry longer, as append_entry computes them.
LEMMA IndexOfAppend ==
  ASSUME NEW s \in Seq(Entry), NEW e \in Entry, NEW m \in Nat,
         Ordered(s, m), Ordered(Append(s, e), m)
  PROVE  /\ IdsOf(Append(s, e)) = IdsOf(s) \cup {e.id}
         /\ IndexOf(Append(s, e)) =
              [d \in IdsOf(s) \cup {e.id} |->
                 IF d = e.id THEN Len(s) + 1 ELSE IndexOf(s)[d]]
         /\ ChildPairs(Append(s, e)) =
              ChildPairs(s) \cup (IF e.parent = NoId THEN {} ELSE {<<e.parent, e.id>>})
<1> DEFINE t == Append(s, e)
<1>1. /\ t \in Seq(Entry) /\ Len(t) = Len(s) + 1 /\ Len(s) \in Nat
      /\ \A i \in 1..Len(s) : t[i] = s[i]
      /\ t[Len(s) + 1] = e
  BY AppendProperties, LenProperties
<1>2. 1..Len(t) = (1..Len(s)) \cup {Len(s) + 1}
  BY <1>1
<1>3. IdsOf(t) = IdsOf(s) \cup {e.id}
  BY <1>1, <1>2 DEF IdsOf
<1>4. ChildPairs(t) =
        ChildPairs(s) \cup (IF e.parent = NoId THEN {} ELSE {<<e.parent, e.id>>})
  <2> DEFINE pairs(u) == {<<u[i].parent, u[i].id>> : i \in {j \in 1..Len(u) : u[j].parent # NoId}}
  <2>1. ASSUME NEW p
        PROVE  p \in pairs(t) <=>
                 \/ p \in pairs(s)
                 \/ e.parent # NoId /\ p = <<e.parent, e.id>>
    BY <1>1, <1>2
  <2> QED BY <2>1 DEF ChildPairs
<1>5. IndexOf(t) = [d \in IdsOf(s) \cup {e.id} |->
                      IF d = e.id THEN Len(s) + 1 ELSE IndexOf(s)[d]]
  <2>1. DOMAIN IndexOf(t) = IdsOf(s) \cup {e.id}
    BY <1>3 DEF IndexOf
  <2>2. IndexOf(t)[e.id] = Len(s) + 1
    BY <1>1, <1>2, IndexIsPosition, t[Len(s) + 1] = e
  <2>3. ASSUME NEW d \in IdsOf(s), d # e.id
        PROVE  IndexOf(t)[d] = IndexOf(s)[d]
    <3>1. PICK i \in 1..Len(s) : s[i].id = d
      BY DEF IdsOf
    <3>2. IndexOf(s)[d] = i
      BY <3>1, IndexIsPosition
    <3>3. i \in 1..Len(t) /\ t[i].id = d
      BY <3>1, <1>1, <1>2
    <3>4. IndexOf(t)[d] = i
      BY <3>3, <1>1, IndexIsPosition
    <3> QED BY <3>2, <3>4
  <2>4. IndexOf(t) = [d \in DOMAIN IndexOf(t) |-> IndexOf(t)[d]]
    BY DEF IndexOf
  <2> QED BY <2>1, <2>2, <2>3, <2>4
<1> QED BY <1>3, <1>4, <1>5
----------------------------------------------------------------------------
(* Files *)

\* The fields of a file, and the lines of the files the operations write.
LEMMA FileShapes ==
  /\ Missing \in File /\ Missing.lines = <<>>
  /\ Empty \in File /\ Empty.lines = <<>>
  /\ PutFragment(Empty) \in File /\ PutFragment(Empty).lines = <<>>
  /\ \A s \in Seq(Entry) : Holding(s) \in File /\ Holding(s).lines = s
  /\ \A f \in File :
       /\ f.lines \in Seq(Entry)
       /\ PutFragment(f) \in File /\ PutFragment(f).lines = f.lines
       /\ PutNewline(f) \in File /\ PutNewline(f).lines = f.lines
       /\ [f EXCEPT !.exists = TRUE] \in File
       /\ [f EXCEPT !.exists = TRUE].lines = f.lines
       /\ \A e \in Entry : /\ PutEntry(f, e) \in File
                           /\ PutEntry(f, e).lines = Append(f.lines, e)
<1>1. <<>> \in Seq(Entry)
  BY EmptySeq
<1>2. \A f \in File, e \in Entry : Append(f.lines, e) \in Seq(Entry)
  BY AppendProperties DEF File
<1> QED BY <1>1, <1>2 DEF Missing, Empty, Holding, PutFragment, PutNewline, PutEntry, File

\* A file of which only a part was written holds the first of its lines.
LEMMA Parts ==
  ASSUME NEW s \in Seq(Entry), NEW f \in PartsOf(s)
  PROVE  /\ f \in File
         /\ \E k \in 0..Len(s) : f.lines = SubSeq(s, 1, k)
<1>1. Len(s) \in Nat
  BY LenProperties
<1>2. ASSUME NEW k \in 0..Len(s)
      PROVE  LET g == Holding(SubSeq(s, 1, k))
             IN  /\ g \in File /\ g.lines = SubSeq(s, 1, k)
                 /\ PutFragment(g) \in File /\ PutFragment(g).lines = SubSeq(s, 1, k)
                 /\ [g EXCEPT !.open = TRUE] \in File
                 /\ [g EXCEPT !.open = TRUE].lines = SubSeq(s, 1, k)
  <2> DEFINE g == Holding(SubSeq(s, 1, k))
  <2>1. g \in File /\ g.lines = SubSeq(s, 1, k)
    BY PrefixOf, FileShapes
  <2>2. PutFragment(g) \in File /\ PutFragment(g).lines = g.lines
    BY <2>1, FileShapes
  <2> HIDE DEF g
  <2>3. [g EXCEPT !.open = TRUE] \in File /\ [g EXCEPT !.open = TRUE].lines = g.lines
    BY <2>1 DEF File
  <2> QED BY <2>1, <2>2, <2>3 DEF g
<1>3. \E k \in 0..Len(s) : f \in {Holding(SubSeq(s, 1, k)), PutFragment(Holding(SubSeq(s, 1, k))),
                                  [Holding(SubSeq(s, 1, k)) EXCEPT !.open = TRUE]}
  BY <1>1 DEF PartsOf
<1> QED BY <1>2, <1>3

\* Names of the files a compaction touches.
LEMMA TempNames ==
  /\ "session" \in FileName
  /\ \A t \in Target : t \in FileName /\ Temp(t) \in FileName
BY DEF Target, FileName, Temp

\* What a file operation that is cut off leaves: the lines that there were, a temporary
\* file without lines, or a part of a copy.
LEMMA CutFiles ==
  ASSUME TypeOK, NEW d \in Cut
  PROVE  /\ d \in [FileName -> File]
         /\ \A n \in FileName :
              \/ d[n].lines = disk[n].lines
              \/ phase = "write_temp" /\ n = Temp(target) /\ d[n].lines = <<>>
              \/ /\ phase = "copy_data" /\ n = "session"
                 /\ \E k \in 0..Len(disk[target].lines) :
                      d[n].lines = SubSeq(disk[target].lines, 1, k)
         /\ phase \notin {"append", "copy_data"} => d["session"] = disk["session"]
<1>1. /\ disk \in [FileName -> File] /\ "session" \in FileName /\ target \in FileName
      /\ Temp(target) \in FileName /\ Temp(target) # "session"
  BY DEF TypeOK, Target, FileName, Temp
<1>2. disk["session"] \in File /\ disk[target].lines \in Seq(Entry)
  BY <1>1, FileShapes
<1>3. CASE d = disk
  BY <1>1, <1>3
<1>4. CASE phase = "append" /\ d = [disk EXCEPT !["session"] = PutFragment(@)]
  BY <1>1, <1>2, <1>4, FileShapes
<1>5. CASE phase = "write_temp" /\ d = [disk EXCEPT ![Temp(target)] = PutFragment(Empty)]
  BY <1>1, <1>5, FileShapes
<1>6. ASSUME phase = "copy_data", NEW f \in PartsOf(disk[target].lines),
             d = [disk EXCEPT !["session"] = f]
      PROVE  /\ d \in [FileName -> File]
             /\ \A n \in FileName : n # "session" => d[n] = disk[n]
             /\ \E k \in 0..Len(disk[target].lines) :
                  d["session"].lines = SubSeq(disk[target].lines, 1, k)
  BY <1>1, <1>2, <1>6, Parts
<1> QED BY <1>3, <1>4, <1>5, <1>6 DEF Cut

\* Writing an ordered file keeps the files well typed and ordered.
LEMMA WriteKeepsFiles ==
  ASSUME IInv, NEW name \in FileName, NEW f \in File,
         Ordered(f.lines, issued), Write(name, f), issued' = issued
  PROVE  /\ disk' \in [FileName -> File]
         /\ \A n \in FileName : Ordered(disk'[n].lines, issued')
         /\ \A n \in FileName : disk'[n] = IF n = name THEN f ELSE disk[n]
<1>1. disk \in [FileName -> File]
  BY DEF IInv, TypeOK
<1>2. disk' \in [FileName -> File]
  BY <1>1 DEF Write
<1>3. \A n \in FileName : disk'[n] = IF n = name THEN f ELSE disk[n]
  BY <1>1 DEF Write
<1>4. \A n \in FileName : Ordered(disk'[n].lines, issued')
  BY <1>3 DEF IInv, LogsOrdered
<1> QED BY <1>2, <1>3, <1>4

\* A step that leaves the memory and the ids alone, writes ordered files, and
\* ends no append it has not written, keeps the invariant.
LEMMA FileStep ==
  ASSUME IInv, UNCHANGED <<memory, issued>>,
         disk' \in [FileName -> File],
         \A n \in FileName : Ordered(disk'[n].lines, issued'),
         phase' \in Phase \ {"append"}, phase' = "newline" => phase = "append",
         target' \in Target,
         inflight' \in Nat, acked' \subseteq Id, spoiled' \in BOOLEAN
  PROVE  IInv'
<1>1. TypeOK'
  BY DEF IInv, TypeOK, memory
<1>2. LogsOrdered'
  BY DEF IInv, LogsOrdered, memory
<1>3. PendingIsNewest'
  BY DEF IInv, PendingIsNewest, memory
<1>4. IndexExact'
  BY DEF IInv, IndexExact, memory
<1> QED BY <1>1, <1>2, <1>3, <1>4 DEF IInv

\* It is ordered.
LEMMA CutOrdered ==
  ASSUME IInv, disk' \in Cut, issued' = issued
  PROVE  /\ disk' \in [FileName -> File]
         /\ \A n \in FileName : Ordered(disk'[n].lines, issued')
<1>1. /\ TypeOK /\ issued \in Nat /\ target \in FileName
      /\ \A n \in FileName : disk[n] \in File /\ Ordered(disk[n].lines, issued)
  BY MaxIssuedNat, TempNames DEF IInv, TypeOK, LogsOrdered
<1>2. disk[target].lines \in Seq(Entry) /\ Ordered(disk[target].lines, issued)
  BY <1>1, FileShapes
<1>3. \A k \in 0..Len(disk[target].lines) :
        Ordered(SubSeq(disk[target].lines, 1, k), issued)
  BY <1>2, PrefixOrdered
<1>4. Ordered(<<>>, issued)
  BY <1>1, EmptyOrdered
<1> QED BY <1>1, <1>3, <1>4, CutFiles

----------------------------------------------------------------------------
(* The initial states and the steps *)

\* A store that was never used has no entries.
LEMMA InitIInv == Init => IInv
<1> SUFFICES ASSUME Init PROVE IInv
  OBVIOUS
<1> USE EmptyOrdered, FileShapes
<1>1. TypeOK
  <2>1. disk \in [FileName -> File]
    BY DEF Init
  <2>2. 0 \in 0..MaxIssued
    BY MaxIssuedNat
  <2> QED BY <2>1, <2>2 DEF Init, TypeOK, Phase, Target, NoId
<1>2. LogsOrdered
  BY DEF Init, LogsOrdered
<1>3. PendingIsNewest
  BY DEF Init, PendingIsNewest
<1>4. IndexExact
  BY DEF Init, IndexExact
<1> QED BY <1>1, <1>2, <1>3, <1>4 DEF IInv

\* Clearing the memory, whatever happens to the files that keeps them ordered.
LEMMA ClearStep ==
  ASSUME IInv, ClearMemory, issued' = issued, target' = target,
         disk' \in [FileName -> File],
         \A n \in FileName : Ordered(disk'[n].lines, issued'),
         phase' \in {"down", "idle"}, inflight' \in Nat, acked' \subseteq Id,
         spoiled' \in BOOLEAN
  PROVE  IInv'
<1> USE EmptyOrdered
<1>1. TypeOK'
  BY DEF IInv, TypeOK, ClearMemory, Phase, NoId
<1>2. LogsOrdered'
  BY DEF IInv, LogsOrdered, TypeOK, ClearMemory
<1>3. PendingIsNewest'
  BY DEF PendingIsNewest
<1>4. IndexExact'
  BY DEF IndexExact, ClearMemory
<1> QED BY <1>1, <1>2, <1>3, <1>4 DEF IInv

\* Loading makes an ordered file the log, and the index is that log's.
LEMMA LoadStep ==
  ASSUME IInv, Load, spoiled' \in BOOLEAN
  PROVE  IInv'
<1> DEFINE s == disk["session"].lines
           f == [disk["session"] EXCEPT !.exists = TRUE]
<1>1. /\ disk["session"] \in File /\ s \in Seq(Entry) /\ Ordered(s, issued)
      /\ f \in File /\ f.lines = s
  BY FileShapes, TempNames DEF IInv, TypeOK, LogsOrdered
<1>2. /\ entries' = s /\ byId' = IndexOf(s) /\ children' = ChildPairs(s)
      /\ roots' = RebuiltRoots(s) /\ head' = LastId(s) /\ acked' = IdsOf(s)
      /\ phase' = "idle" /\ issued' = issued /\ inflight' = inflight
      /\ target' = target
  BY DEF Load, RebuildIndex
<1>3. /\ disk' \in [FileName -> File]
      /\ \A n \in FileName : Ordered(disk'[n].lines, issued')
  <2>1. Write("session", f)
    BY DEF Load
  <2> QED BY <1>1, <1>2, <2>1, TempNames, WriteKeepsFiles
<1> HIDE DEF s
<1>4. TypeOK'
  <2>1. head' \in Nat
    BY <1>1, <1>2, IndexTypes DEF Id, NoId
  <2> QED BY <1>1, <1>2, <1>3, <2>1, IndexTypes DEF IInv, TypeOK, Phase
<1>5. LogsOrdered'
  BY <1>1, <1>2, <1>3 DEF LogsOrdered
<1>6. PendingIsNewest'
  BY <1>2 DEF PendingIsNewest
<1>7. IndexExact'
  <2>1. RebuiltRoots(s) \subseteq IdsOf(s)
    BY DEF RebuiltRoots
  <2> QED BY <1>1, <1>2, <2>1, IndexTypes DEF IndexExact
<1> QED BY <1>4, <1>5, <1>6, <1>7 DEF IInv

\* append_entry adds the newest entry under one the log holds.
LEMMA AppendStep ==
  ASSUME IInv, NEW parent, AppendEntry(parent), spoiled' \in BOOLEAN
  PROVE  IInv'
<1> DEFINE e == [id |-> issued + 1, parent |-> parent]
<1>1. /\ entries \in Seq(Entry) /\ issued \in Nat /\ MaxIssued \in Nat
      /\ Ordered(entries, issued) /\ DOMAIN byId = IdsOf(entries)
      /\ byId = IndexOf(entries) /\ children = ChildPairs(entries)
      /\ issued < MaxIssued /\ roots \subseteq Id /\ roots \subseteq IdsOf(entries)
  BY MaxIssuedNat, IndexTypes DEF IInv, TypeOK, LogsOrdered, IndexExact, AppendEntry
<1>2. /\ entries' = Append(entries, e) /\ issued' = issued + 1 /\ head' = issued + 1
      /\ byId' = [d \in DOMAIN byId \cup {e.id} |->
                    IF d = e.id THEN Len(entries) + 1 ELSE byId[d]]
      /\ children' = children \cup (IF parent = NoId THEN {} ELSE {<<parent, e.id>>})
      /\ roots' = roots \cup (IF parent = NoId THEN {e.id} ELSE {})
      /\ phase' = "append"
      /\ UNCHANGED <<target, disk, inflight, acked>>
  BY DEF AppendEntry
<1>3. parent \in Nat /\ parent <= issued
  <2>1. CASE parent \in IdsOf(entries)
    <3>1. PICK i \in 1..Len(entries) : entries[i].id = parent
      BY <2>1 DEF IdsOf
    <3> QED BY <3>1, <1>1, EntryFields DEF Ordered, IdsUpTo, Id
  <2>2. CASE parent = NoId
    BY <2>2, <1>1 DEF NoId
  <2> QED BY <2>1, <2>2, <1>1 DEF AppendEntry
<1>4. e \in Entry /\ e.id = issued + 1 /\ e.parent = parent /\ e.parent < e.id
  BY <1>1, <1>3 DEF Entry, Id, NoId
<1>5. Ordered(Append(entries, e), issued + 1)
  <2>1. IdsUpTo(entries, e.id - 1)
    BY <1>1, <1>4 DEF Ordered
  <2> HIDE DEF e
  <2> QED BY <1>1, <1>4, <2>1, AppendOrdered
<1>6. Ordered(entries, issued + 1)
  BY <1>1, OrderedMonotone
<1> HIDE DEF e
<1>7. Append(entries, e) \in Seq(Entry) /\ Append(entries, e)[Len(entries) + 1] = e
      /\ Len(Append(entries, e)) = Len(entries) + 1
      /\ Append(entries, e) # <<>>
  BY <1>1, <1>4, AppendProperties, LenProperties
<1>8. IndexExact'
  <2>1. /\ byId' = IndexOf(entries') /\ children' = ChildPairs(entries')
        /\ IdsOf(entries') = IdsOf(entries) \cup {e.id}
    <3>1. issued + 1 \in Nat
      BY <1>1
    <3>2. /\ IdsOf(Append(entries, e)) = IdsOf(entries) \cup {e.id}
          /\ IndexOf(Append(entries, e)) =
               [d \in IdsOf(entries) \cup {e.id} |->
                  IF d = e.id THEN Len(entries) + 1 ELSE IndexOf(entries)[d]]
          /\ ChildPairs(Append(entries, e)) =
               ChildPairs(entries)
                 \cup (IF e.parent = NoId THEN {} ELSE {<<e.parent, e.id>>})
      BY <1>1, <1>4, <1>5, <1>6, <3>1, IndexOfAppend
    <3> QED BY <1>1, <1>2, <1>4, <3>2
  <2> QED BY <2>1, <1>1, <1>2, <1>4, <1>7 DEF IndexExact, NoId
<1>9. TypeOK'
  <2>1. head' \in Nat /\ issued' \in 0..MaxIssued
    BY <1>1, <1>2
  <2>2. roots' \subseteq Id
    BY <1>1, <1>2, <1>4 DEF Entry
  <2>3. /\ DOMAIN byId' \subseteq Id /\ \A d \in DOMAIN byId' : byId'[d] \in Nat
        /\ children' \subseteq Id \X Id
    BY <1>2, <1>7, <1>8, IndexTypes DEF IndexExact
  <2> QED BY <2>1, <2>2, <2>3, <1>2, <1>7 DEF IInv, TypeOK, Phase
<1>10. LogsOrdered'
  <2>1. \A n \in FileName : Ordered(disk[n].lines, issued + 1)
    <3>1. \A n \in FileName : disk[n].lines \in Seq(Entry) /\ Ordered(disk[n].lines, issued)
      BY FileShapes DEF IInv, TypeOK, LogsOrdered
    <3>2. issued + 1 \in Nat /\ issued <= issued + 1
      BY <1>1
    <3> QED BY <1>1, <3>1, <3>2, OrderedMonotone
  <2> QED BY <1>2, <1>5, <2>1 DEF LogsOrdered
<1>11. PendingIsNewest'
  <2>1. IdsUpTo(disk["session"].lines, issued)
    BY TempNames DEF IInv, LogsOrdered, Ordered
  <2>2. entries'[Len(entries')].id - 1 = issued
    BY <1>1, <1>2, <1>4, <1>7
  <2>3. head' \in Id
    BY <1>1, <1>2 DEF Id, NoId
  <2> QED BY <1>2, <1>7, <2>1, <2>2, <2>3 DEF PendingIsNewest
<1> QED BY <1>8, <1>9, <1>10, <1>11 DEF IInv

\* The entry written is newer than the lines of the session file.
LEMMA WriteBytesStep ==
  ASSUME IInv, WriteBytes, spoiled' \in BOOLEAN
  PROVE  IInv'
<1> DEFINE e == entries[Len(entries)]
           f == disk["session"]
<1>1. /\ entries \in Seq(Entry) /\ entries # <<>> /\ Ordered(entries, issued)
      /\ f \in File /\ f.lines \in Seq(Entry) /\ Ordered(f.lines, issued)
      /\ IdsUpTo(f.lines, e.id - 1) /\ issued \in Nat /\ head \in Id
  <2>1. issued \in Nat /\ f \in File
    BY MaxIssuedNat, TempNames DEF IInv, TypeOK
  <2>2. f.lines \in Seq(Entry)
    BY <2>1, FileShapes
  <2>3. phase = "append"
    BY DEF WriteBytes
  <2> QED BY <2>1, <2>2, <2>3, TempNames DEF IInv, TypeOK, LogsOrdered, PendingIsNewest
<1>2. Len(entries) \in 1..Len(entries)
  BY <1>1, EmptySeq, LenProperties
<1>3. e \in Entry /\ e.parent < e.id /\ e.id <= issued
  BY <1>1, <1>2, EntryFields DEF Ordered, ParentsSmaller, IdsUpTo
<1> HIDE DEF e, f
<1>4. Ordered(Append(f.lines, e), issued)
  BY <1>1, <1>3, AppendOrdered
<1>5. PutEntry(f, e) \in File /\ PutEntry(f, e).lines = Append(f.lines, e)
  BY <1>1, <1>3, FileShapes
<1>6. Write("session", PutEntry(f, e)) /\ issued' = issued
  BY DEF WriteBytes, e, f
<1>7. /\ disk' \in [FileName -> File]
      /\ \A n \in FileName : Ordered(disk'[n].lines, issued')
  BY <1>4, <1>5, <1>6, TempNames, WriteKeepsFiles
<1>8. /\ UNCHANGED <<memory, issued>> /\ phase' \in Phase \ {"append"}
      /\ phase = "append" /\ target' \in Target /\ inflight' \in Nat /\ acked' \subseteq Id
  <2>1. target \in Target /\ inflight \in Nat /\ acked \subseteq Id
    BY DEF IInv, TypeOK
  <2>2. /\ UNCHANGED <<memory, issued>> /\ phase' = "newline" /\ target' = target
        /\ inflight' = inflight /\ acked' = acked /\ phase = "append"
    BY DEF WriteBytes
  <2> QED BY <1>1, <2>1, <2>2 DEF Phase
<1> QED BY <1>7, <1>8, FileStep

\* The history of the session file is one bit.
LEMMA SpoiledBoolean ==
  ASSUME IInv, [Next]_vars
  PROVE  spoiled' \in BOOLEAN
<1>1. spoiled \in BOOLEAN
  BY DEF IInv, TypeOK
<1>2. CASE UNCHANGED spoiled
  BY <1>1, <1>2
<1>3. CASE WriteBytes \/ NewlineLost \/ RenameTemp \/ CopyData \/ Crash
  BY <1>3 DEF WriteBytes, NewlineLost, RenameTemp, CopyData, Crash
<1>4. CASE WriteEntryFails \/ CompactFails
  BY <1>4 DEF WriteEntryFails, CompactFails, CutOff
<1>5. CASE Reset
  BY <1>1, <1>5 DEF Reset
<1> QED BY <1>2, <1>3, <1>4, <1>5
        DEF Next, Load, AppendAtHead, AppendRoot, BranchFrom, AppendEntry, Checkout,
            HandOverNewline, NewlineLands, Compact, WriteTemp, RemoveTarget, CopyOpen, vars

\* No step breaks the invariant: an append extends it, a load rebuilds it, and every
\* other step writes a file that is empty, or the log, or another file.
LEMMA NextIInv ==
  ASSUME IInv, [Next]_vars
  PROVE  IInv'
<1> DEFINE FilesKept == /\ disk' \in [FileName -> File]
                        /\ \A n \in FileName : Ordered(disk'[n].lines, issued')
<1> spoiled' \in BOOLEAN
  BY SpoiledBoolean
<1>1. /\ issued \in Nat /\ MaxIssued \in Nat /\ disk \in [FileName -> File]
      /\ target \in Target /\ inflight \in Nat /\ acked \subseteq Id
      /\ entries \in Seq(Entry) /\ Ordered(entries, issued)
      /\ \A n \in FileName : disk[n] \in File /\ Ordered(disk[n].lines, issued)
  BY MaxIssuedNat DEF IInv, TypeOK, LogsOrdered
<1>2. issued' = issued /\ disk' = disk => FilesKept
  BY <1>1
<1>3. ASSUME NEW name \in FileName, NEW f \in File, Ordered(f.lines, issued),
             Write(name, f), issued' = issued
      PROVE  FilesKept
  BY <1>3, WriteKeepsFiles
<1>4. /\ "session" \in FileName /\ target \in FileName /\ Temp(target) \in FileName
      /\ Ordered(<<>>, issued)
  BY <1>1, TempNames, EmptyOrdered
<1>5. ASSUME UNCHANGED <<memory, issued, target, acked>>, inflight' \in Nat,
             phase' \in Phase \ {"append", "newline"}, FilesKept
      PROVE  IInv'
  BY <1>1, <1>5, FileStep
<1> HIDE DEF FilesKept
<1>6. CASE Load
  BY <1>6, LoadStep
<1>7. CASE AppendAtHead \/ AppendRoot
  BY <1>7, AppendStep DEF AppendAtHead, AppendRoot
<1>8. ASSUME NEW id \in DOMAIN byId, BranchFrom(id)
      PROVE  IInv'
  BY <1>8, AppendStep DEF BranchFrom
<1>9. ASSUME NEW id \in DOMAIN byId, Checkout(id)
      PROVE  IInv'
  <2>1. id \in IdsOf(entries) /\ id \in Id
    BY <1>1, IndexTypes DEF IInv, IndexExact
  <2>2. entries # <<>>
    BY <2>1, EmptyOrdered
  <2>3. UNCHANGED <<entries, byId, children, roots, phase, target, disk, inflight, issued, acked,
                 spoiled>>
        /\ head' = id /\ phase = "idle"
    BY <1>9 DEF Checkout, Ready
  <2>4. TypeOK'
    BY <2>1, <2>3 DEF IInv, TypeOK, Id
  <2>5. LogsOrdered' /\ PendingIsNewest'
    BY <2>3 DEF IInv, LogsOrdered, PendingIsNewest
  <2>6. IndexExact'
    BY <2>1, <2>2, <2>3 DEF IInv, IndexExact, Id
  <2> QED BY <2>4, <2>5, <2>6 DEF IInv
<1>10. CASE WriteBytes
  BY <1>10, WriteBytesStep
<1>24. CASE HandOverNewline
  <2>1. /\ UNCHANGED <<memory, issued, target, disk>> /\ phase' = "idle"
        /\ inflight' = inflight + 1 /\ acked' = acked \cup {head} /\ phase = "newline"
    BY <1>24 DEF HandOverNewline
  <2>2. head \in Id
    BY <2>1 DEF IInv, PendingIsNewest
  <2>3. FilesKept
    BY <1>2, <2>1
  <2> QED BY <1>1, <2>1, <2>2, <2>3, FileStep DEF FilesKept, Phase
<1>11. CASE WriteEntryFails
  <2>1. FilesKept
    BY <1>11, CutOrdered DEF WriteEntryFails, CutOff, FilesKept
  <2> QED BY <1>1, <1>5, <1>11, <2>1 DEF WriteEntryFails, Phase
<1>12. CASE NewlineLands
  <2>1. FilesKept
    BY <1>1, <1>3, <1>4, <1>12, FileShapes DEF NewlineLands
  <2>2. phase' \in Phase /\ inflight' \in Nat
    BY <1>1, <1>12 DEF NewlineLands, IInv, TypeOK
  <2>3. TypeOK'
    BY <1>12, <2>1, <2>2 DEF NewlineLands, IInv, TypeOK, memory, FilesKept
  <2>4. LogsOrdered' /\ IndexExact'
    BY <1>12, <2>1 DEF NewlineLands, IInv, LogsOrdered, IndexExact, memory, FilesKept
  <2>5. disk'["session"].lines = disk["session"].lines
    BY <1>1, <1>4, <1>12, FileShapes DEF NewlineLands, Write
  <2>6. PendingIsNewest'
    BY <1>12, <2>5 DEF NewlineLands, IInv, PendingIsNewest, memory
  <2> QED BY <2>3, <2>4, <2>6 DEF IInv
<1>13. CASE NewlineLost
  <2>1. TypeOK'
    BY <1>1, <1>13 DEF NewlineLost, IInv, TypeOK, memory
  <2>2. LogsOrdered' /\ IndexExact' /\ PendingIsNewest'
    BY <1>13 DEF NewlineLost, IInv, LogsOrdered, IndexExact, PendingIsNewest, memory
  <2> QED BY <2>1, <2>2 DEF IInv
<1>14. CASE Reset
  <2>1. FilesKept
    BY <1>1, <1>2, <1>3, <1>4, <1>14, FileShapes DEF Reset
  <2>2. phase' = "idle"
    BY <1>14 DEF Reset, Ready
  <2> QED BY <1>1, <1>14, <2>1, <2>2, ClearStep DEF Reset, FilesKept
<1>15. ASSUME NEW t \in Target, Compact(t)
       PROVE  IInv'
  <2>1. FilesKept
    BY <1>2, <1>15 DEF Compact
  <2> QED BY <1>1, <1>15, <2>1, FileStep DEF Compact, FilesKept, Phase, CompactPhase
<1>16. CASE WriteTemp
  <2>1. FilesKept
    BY <1>1, <1>3, <1>4, <1>16, FileShapes DEF WriteTemp
  <2> QED BY <1>1, <1>5, <1>16, <2>1 DEF WriteTemp, Phase, CompactPhase
<1>17. CASE RemoveTarget
  <2>1. FilesKept
    BY <1>1, <1>3, <1>4, <1>17, FileShapes DEF RemoveTarget
  <2> QED BY <1>1, <1>5, <1>17, <2>1 DEF RemoveTarget, Phase, CompactPhase
<1>18. CASE RenameTemp
  <2>1. FilesKept
    <3>1. disk' = [disk EXCEPT ![target] = disk[Temp(target)], ![Temp(target)] = Missing]
          /\ issued' = issued
      BY <1>18 DEF RenameTemp
    <3>2. \A n \in FileName : disk'[n] \in {disk[Temp(target)], Missing, disk[n]}
      BY <1>1, <1>4, <3>1
    <3>3. \A n \in FileName : Ordered(disk'[n].lines, issued')
      BY <1>1, <1>4, <3>1, <3>2, FileShapes
    <3>4. disk' \in [FileName -> File]
      BY <1>1, <1>4, <3>1, FileShapes
    <3> QED BY <3>3, <3>4 DEF FilesKept
  <2> QED BY <1>1, <1>5, <1>18, <2>1 DEF RenameTemp, Phase, CompactPhase
<1>19. CASE CopyOpen
  <2>1. FilesKept
    BY <1>1, <1>3, <1>4, <1>19, FileShapes DEF CopyOpen
  <2> QED BY <1>1, <1>5, <1>19, <2>1 DEF CopyOpen, Phase, CompactPhase
<1>20. CASE CopyData
  <2>1. FilesKept
    BY <1>1, <1>3, <1>4, <1>20 DEF CopyData
  <2> QED BY <1>1, <1>5, <1>20, <2>1 DEF CopyData, Phase
<1>21. CASE CompactFails
  <2>1. FilesKept
    BY <1>21, CutOrdered DEF CompactFails, CutOff, FilesKept
  <2> QED BY <1>1, <1>5, <1>21, <2>1 DEF CompactFails, Phase
<1>22. CASE Crash
  <2>1. FilesKept
    BY <1>22, CutOrdered DEF Crash, FilesKept
  <2> QED BY <1>1, <1>22, <2>1, ClearStep DEF Crash, FilesKept
<1>23. CASE UNCHANGED vars
  BY <1>23 DEF vars, memory, IInv, TypeOK, LogsOrdered, PendingIsNewest, IndexExact
<1> QED BY <1>6, <1>7, <1>8, <1>9, <1>10, <1>11, <1>12, <1>13, <1>14, <1>15, <1>16,
           <1>17, <1>18, <1>19, <1>20, <1>21, <1>22, <1>23, <1>24 DEF Next

----------------------------------------------------------------------------
(* The theorems *)

\* The invariant holds of every reachable state.
THEOREM Invariance == Spec => []IInv
BY InitIInv, NextIInv, PTL DEF Spec

\* Every variable of the store keeps its type.
THEOREM TypeCorrect == Spec => []TypeOK
<1>1. IInv => TypeOK
  BY DEF IInv
<1> QED BY <1>1, Invariance, PTL

\* Whatever fails and whenever the process dies, the log in memory and every
\* file hold unique ids and no cycle.
THEOREM TreesAlways == Spec => []AlwaysTrees
<1>1. ASSUME IInv PROVE AlwaysTrees
  <2>1. issued \in Nat /\ entries \in Seq(Entry)
        /\ \A n \in FileName : disk[n].lines \in Seq(Entry)
    <3>1. issued \in Nat /\ entries \in Seq(Entry) /\ \A n \in FileName : disk[n] \in File
      BY <1>1, MaxIssuedNat DEF IInv, TypeOK
    <3> QED BY <3>1, FileShapes
  <2> QED BY <1>1, <2>1, OrderedIsTree DEF IInv, LogsOrdered, AlwaysTrees
<1> QED BY <1>1, Invariance, PTL

\* The index that append_entry maintains is the one rebuild_index computes.
THEOREM IndexAlwaysExact == Spec => []IndexExact
<1>1. IInv => IndexExact
  BY DEF IInv
<1> QED BY <1>1, Invariance, PTL

----------------------------------------------------------------------------
(* A store whose files do not fail *)

\* The session file holds what is committed, except while a compaction replaces it,
\* and then the temporary file or the archive does.
FilesFollow ==
  /\ phase \in {"idle", "append", "newline", "write_temp", "remove", "copy_open"} =>
       disk["session"].lines = Committed
  /\ phase = "rename" /\ target = "archive" => disk["session"].lines = entries
  /\ phase \in {"remove", "rename"} => disk[Temp(target)].lines = entries
  /\ phase \in {"copy_open", "copy_data"} =>
       target = "archive" /\ disk["archive"].lines = entries
  /\ phase = "down" => entries = <<>> /\ head = NoId
  /\ phase \in {"append", "newline"} => entries # <<>> /\ head = entries[Len(entries)].id

AckedKept == IF phase = "down" THEN AckedOnDisk ELSE acked \subseteq IdsOf(Committed)

DurableInv == FilesFollow /\ AckedKept /\ ParentsKnown

\* What is committed: the file of a store that is down, and otherwise the log,
\* without the entry that is being appended.
CommittedFits ==
  /\ phase = "down" => Committed = disk["session"].lines
  /\ phase = "append" /\ entries # <<>> =>
       /\ Committed \in Seq(Entry)
       /\ entries = Append(Committed, entries[Len(entries)])
  /\ phase \notin {"down", "append"} => Committed = entries

\* Committed, in every state.
LEMMA CommittedCases == TypeOK => CommittedFits
<1> SUFFICES ASSUME TypeOK PROVE CommittedFits
  OBVIOUS
<1>1. entries \in Seq(Entry)
  BY DEF TypeOK
<1>2. CASE phase = "down"
  BY <1>2 DEF Committed, CommittedFits
<1>3. CASE phase = "append" /\ entries # <<>>
  <2>1. PICK s \in Seq(Entry), e \in Entry : entries = Append(s, e)
    BY <1>1, <1>3, SequenceEmptyOrAppend
  <2>2. Len(entries) = Len(s) + 1 /\ entries[Len(entries)] = e /\ Len(s) \in Nat
    BY <2>1, AppendProperties, LenProperties
  <2>3. Committed = SubSeq(entries, 1, Len(s))
    BY <1>3, <2>2 DEF Committed, Pending
  <2>4. SubSeq(entries, 1, Len(s)) = s
    BY <2>1, <2>2
  <2> QED BY <1>3, <2>1, <2>2, <2>3, <2>4 DEF CommittedFits
<1>4. CASE phase \notin {"down", "append"}
  BY <1>1, <1>4, SubSeqFull DEF Committed, Pending, CommittedFits
<1> QED BY <1>2, <1>3, <1>4 DEF CommittedFits

\* The ids of a log one entry longer, and its parents.
LEMMA AppendIds ==
  ASSUME NEW s \in Seq(Entry), NEW e \in Entry
  PROVE  /\ IdsOf(Append(s, e)) = IdsOf(s) \cup {e.id}
         /\ ParentsIn(s) /\ e.parent \in IdsOf(s) \cup {NoId} => ParentsIn(Append(s, e))
<1> DEFINE t == Append(s, e)
<1>1. /\ Len(t) = Len(s) + 1 /\ Len(s) \in Nat
      /\ \A i \in 1..Len(s) : t[i] = s[i]
      /\ t[Len(s) + 1] = e
  BY AppendProperties, LenProperties
<1>2. 1..Len(t) = (1..Len(s)) \cup {Len(s) + 1}
  BY <1>1
<1> HIDE DEF t
<1>3. IdsOf(t) = IdsOf(s) \cup {e.id}
  BY <1>1, <1>2 DEF IdsOf
<1>4. ASSUME ParentsIn(s), e.parent \in IdsOf(s) \cup {NoId}
      PROVE  ParentsIn(t)
  BY <1>1, <1>2, <1>3, <1>4 DEF ParentsIn
<1> QED BY <1>3, <1>4 DEF t

\* The first entries of a log have their parents among them.
LEMMA PrefixParents ==
  ASSUME NEW s \in Seq(Entry), NEW n \in Nat, Ordered(s, n), ParentsIn(s),
         NEW k \in 0..Len(s)
  PROVE  ParentsIn(SubSeq(s, 1, k))
<1> DEFINE t == SubSeq(s, 1, k)
<1> SUFFICES ASSUME NEW i \in 1..Len(t), t[i].parent # NoId PROVE t[i].parent \in IdsOf(t)
  BY DEF ParentsIn
<1>1. /\ Len(t) = k /\ i \in 1..Len(s) /\ t[i] = s[i]
      /\ \A j \in 1..k : t[j] = s[j]
  BY PrefixOf
<1> HIDE DEF t
<1>2. PICK j \in 1..Len(s) : s[j].id = s[i].parent
  BY <1>1 DEF ParentsIn, IdsOf
<1>3. s[j].id < s[i].id /\ s[j].id \in Nat /\ s[i].id \in Nat
  BY <1>1, <1>2, EntryFields DEF Ordered, ParentsSmaller, Id
<1>4. j <= i
  BY <1>1, <1>3 DEF Ordered, IdsIncrease
<1> QED BY <1>1, <1>2, <1>4 DEF IdsOf

\* The empty log has no parents.
LEMMA EmptyParents == ParentsIn(<<>>)
<1>1. Len(<<>>) = 0
  BY EmptySeq
<1> QED BY <1>1 DEF ParentsIn

\* One file that is written, and the others.
LEMMA WrittenFile ==
  ASSUME TypeOK, NEW name \in FileName, NEW f, Write(name, f)
  PROVE  /\ disk'[name] = f
         /\ \A n \in FileName \ {name} : disk'[n] = disk[n]
BY DEF Write, TypeOK

\* The names are those of four files.
LEMMA NamesDiffer ==
  /\ Target = {"session", "archive"} /\ Target \subseteq FileName
  /\ \A t \in Target : Temp(t) \in FileName \ Target
BY DEF Target, FileName, Temp

\* In every phase one file holds what was acknowledged.
LEMMA SomeFileHolds ==
  ASSUME IInv, DurableInv
  PROVE  AckedOnDisk
<1>1. CommittedFits /\ target \in Target /\ phase \in Phase
  BY CommittedCases DEF IInv, TypeOK
<1>2. CASE phase = "down"
  BY <1>2 DEF DurableInv, AckedKept
<1>3. CASE phase \in {"idle", "append", "newline", "write_temp", "remove", "copy_open"}
  BY <1>3, NamesDiffer DEF DurableInv, FilesFollow, AckedKept, AckedOnDisk
<1>4. CASE phase = "rename"
  <2>1. disk[Temp(target)].lines = Committed /\ Temp(target) \in FileName
    BY <1>1, <1>4, NamesDiffer DEF DurableInv, FilesFollow, CommittedFits
  <2> QED BY <1>4, <2>1 DEF DurableInv, AckedKept, AckedOnDisk
<1>5. CASE phase = "copy_data"
  <2>1. disk["archive"].lines = Committed
    BY <1>1, <1>5 DEF DurableInv, FilesFollow, CommittedFits
  <2> QED BY <1>5, <2>1, NamesDiffer DEF DurableInv, AckedKept, AckedOnDisk
<1> QED BY <1>1, <1>2, <1>3, <1>4, <1>5 DEF Phase, CompactPhase

\* So it is if the file operation of the phase is cut off.
LEMMA CutHolds ==
  ASSUME IInv, DurableInv, disk' \in Cut, acked' = acked
  PROVE  AckedOnDisk'
<1>1. CommittedFits /\ TypeOK /\ target \in Target
  BY CommittedCases DEF IInv, TypeOK
<1>2. CASE phase \notin {"write_temp", "copy_data"}
  BY <1>1, <1>2, CutFiles, SomeFileHolds DEF AckedOnDisk
<1>3. CASE phase = "write_temp"
  <2>1. disk["session"].lines = Committed /\ disk'["session"].lines = disk["session"].lines
    BY <1>1, <1>3, CutFiles, NamesDiffer DEF DurableInv, FilesFollow
  <2> QED BY <1>3, <2>1, NamesDiffer DEF DurableInv, AckedKept, AckedOnDisk
<1>4. CASE phase = "copy_data"
  <2>1. disk["archive"].lines = Committed /\ disk'["archive"].lines = disk["archive"].lines
    BY <1>1, <1>4, CutFiles, NamesDiffer DEF DurableInv, FilesFollow, CommittedFits
  <2> QED BY <1>4, <2>1, NamesDiffer DEF DurableInv, AckedKept, AckedOnDisk
<1> QED BY <1>2, <1>3, <1>4

\* No step breaks the invariant, wherever the process may die.
LEMMA NextDurable ==
  ASSUME ~IoErrors, IInv, IInv', DurableInv, [Next]_vars
  PROVE  DurableInv'
<1>1. CommittedFits /\ CommittedFits'
  <2>1. (IInv => CommittedFits)
    BY CommittedCases DEF IInv
  <2>2. IInv' => CommittedFits'
    BY <2>1, CommittedCases, PTL DEF IInv
  <2> QED BY <2>1, <2>2
<1>2. /\ entries \in Seq(Entry) /\ target \in Target /\ disk \in [FileName -> File]
      /\ \A n \in FileName : disk[n] \in File
      /\ DOMAIN byId = IdsOf(entries) /\ (entries = <<>> => head = NoId)
  BY IndexTypes DEF IInv, TypeOK, IndexExact
<1>3. FilesFollow /\ AckedKept /\ ParentsKnown /\ TypeOK
  BY DEF DurableInv, IInv
<1> USE NamesDiffer
<1>4. CASE Load
  <2>1. /\ phase = "down" /\ phase' = "idle" /\ entries' = disk["session"].lines
        /\ Write("session", [disk["session"] EXCEPT !.exists = TRUE])
        /\ acked' = IdsOf(entries')
    BY <1>4 DEF Load
  <2>2. \A n \in FileName : disk'[n].lines = disk[n].lines
    <3> DEFINE f == [disk["session"] EXCEPT !.exists = TRUE]
    <3>1. f.lines = disk["session"].lines
      BY <1>2, FileShapes
    <3>2. Write("session", f)
      BY <2>1
    <3> HIDE DEF f
    <3> QED BY <1>3, <3>1, <3>2, WrittenFile
  <2>3. Committed' = entries' /\ ParentsKnown'
    BY <1>1, <1>3, <2>1, <2>2 DEF CommittedFits, ParentsKnown
  <2> QED BY <2>1, <2>2, <2>3 DEF DurableInv, FilesFollow, AckedKept
<1>5. ASSUME NEW parent, AppendEntry(parent)
      PROVE  DurableInv'
  <2> DEFINE e == [id |-> issued + 1, parent |-> parent]
  <2>1. /\ phase = "idle" /\ phase' = "append" /\ UNCHANGED <<disk, acked>>
        /\ entries' = Append(entries, e) /\ head' = e.id
        /\ parent \in IdsOf(entries) \cup {NoId}
    BY <1>2, <1>5 DEF AppendEntry, Ready
  <2>2. e \in Entry /\ e.parent = parent
    <3>1. issued \in Nat /\ parent \in Nat
      BY <1>2, <2>1, MaxIssuedNat, IndexTypes DEF IInv, TypeOK, Id, NoId
    <3> QED BY <3>1 DEF Entry, Id, NoId
  <2> HIDE DEF e
  <2>3. /\ entries' \in Seq(Entry) /\ entries' # <<>> /\ entries'[Len(entries')] = e
    BY <1>2, <2>1, <2>2, AppendProperties, LenProperties
  <2>4. Committed' = entries /\ Committed = entries
    <3>1. Committed' \in Seq(Entry) /\ entries' = Append(Committed', e)
      BY <1>1, <2>1, <2>3 DEF CommittedFits
    <3>2. Committed' = entries
      <4>1. PICK s \in Seq(Entry) : s = Committed'
        BY <3>1
      <4>2. Append(s, e) = Append(entries, e)
        BY <2>1, <3>1, <4>1
      <4> QED BY <1>2, <2>2, <4>1, <4>2, AppendInjective
    <3>3. CommittedFits /\ phase = "idle"
      BY <1>1, <2>1
    <3>4. Committed = entries
      BY <3>3 DEF CommittedFits
    <3> QED BY <3>2, <3>4
  <2>5. ParentsKnown'
    BY <1>2, <1>3, <2>1, <2>2, AppendIds DEF ParentsKnown
  <2> QED BY <1>3, <2>1, <2>3, <2>4, <2>5 DEF DurableInv, FilesFollow, AckedKept
<1>6. ASSUME NEW id \in DOMAIN byId, Checkout(id)
      PROVE  DurableInv'
  <2>1. UNCHANGED <<entries, phase, target, disk, acked>> /\ phase = "idle"
    BY <1>6 DEF Checkout, Ready
  <2>2. Committed' = Committed
    BY <1>1, <2>1 DEF CommittedFits
  <2> QED BY <1>3, <2>1, <2>2 DEF DurableInv, FilesFollow, AckedKept, ParentsKnown
<1>7. CASE WriteBytes
  <2> DEFINE e == entries[Len(entries)]
  <2>1. /\ phase = "append" /\ phase' = "newline" /\ UNCHANGED <<entries, head>>
        /\ Write("session", PutEntry(disk["session"], e))
        /\ acked' = acked /\ entries # <<>> /\ head = e.id
    BY <1>3, <1>7 DEF WriteBytes, memory, FilesFollow
  <2>2. e \in Entry
    BY <1>2, <2>1, EmptySeq, ElementOfSeq
  <2> HIDE DEF e
  <2>3. Committed \in Seq(Entry) /\ entries = Append(Committed, e) /\ Committed' = entries
    BY <1>1, <2>1 DEF CommittedFits, e
  <2>4. /\ disk'["session"].lines = entries
        /\ \A n \in FileName \ {"session"} : disk'[n] = disk[n]
    <3>1. PutEntry(disk["session"], e).lines = Append(disk["session"].lines, e)
      BY <1>2, <2>2, FileShapes
    <3>2. disk["session"].lines = Committed
      BY <1>3, <2>1 DEF FilesFollow
    <3> QED BY <1>3, <2>1, <2>3, <3>1, <3>2, WrittenFile
  <2>5. IdsOf(entries) = IdsOf(Committed) \cup {head}
    BY <2>1, <2>2, <2>3, AppendIds
  <2>6. ParentsKnown'
    BY <1>3, <2>1, <2>4 DEF ParentsKnown
  <2> QED BY <1>3, <2>1, <2>3, <2>4, <2>5, <2>6 DEF DurableInv, FilesFollow, AckedKept
<1>19. CASE HandOverNewline
  <2>1. /\ phase = "newline" /\ phase' = "idle" /\ UNCHANGED <<entries, head, disk>>
        /\ acked' = acked \cup {head} /\ entries # <<>>
        /\ head = entries[Len(entries)].id
    BY <1>3, <1>19 DEF HandOverNewline, memory, FilesFollow
  <2>2. Committed = entries /\ Committed' = entries
    BY <1>1, <2>1 DEF CommittedFits
  <2>3. head \in IdsOf(entries)
    BY <1>2, <2>1, EmptySeq, LenProperties DEF IdsOf
  <2>4. ParentsKnown'
    BY <1>3, <2>1 DEF ParentsKnown
  <2> QED BY <1>3, <2>1, <2>2, <2>3, <2>4 DEF DurableInv, FilesFollow, AckedKept
<1>8. CASE NewlineLands
  <2>1. /\ UNCHANGED <<entries, head, phase, target, acked>>
        /\ Write("session", PutNewline(disk["session"]))
    BY <1>8 DEF NewlineLands, memory
  <2>2. \A n \in FileName : disk'[n].lines = disk[n].lines
    <3>1. PutNewline(disk["session"]).lines = disk["session"].lines
      BY <1>2, FileShapes
    <3> QED BY <1>3, <2>1, <3>1, WrittenFile
  <2>3. Committed' = Committed
    BY <2>1, <2>2 DEF Committed, Pending
  <2> QED BY <1>2, <1>3, <2>1, <2>2, <2>3
          DEF DurableInv, FilesFollow, AckedKept, AckedOnDisk, ParentsKnown
<1>9. CASE Reset
  <2>1. /\ phase = "idle" /\ phase' = phase /\ entries' = <<>> /\ acked' = {}
        /\ Write("session", Empty)
    BY <1>9 DEF Reset, Ready, ClearMemory
  <2>2. /\ disk'["session"].lines = <<>>
        /\ \A n \in FileName \ {"session"} : disk'[n] = disk[n]
    BY <1>3, <2>1, WrittenFile, FileShapes
  <2>3. Committed' = entries' /\ ParentsKnown'
    BY <1>1, <1>3, <2>1, <2>2, EmptyParents DEF CommittedFits, ParentsKnown
  <2> QED BY <2>1, <2>2, <2>3 DEF DurableInv, FilesFollow, AckedKept
<1>10. ASSUME NEW t \in Target, Compact(t)
       PROVE  DurableInv'
  <2>1. /\ phase = "idle" /\ phase' = "write_temp"
        /\ UNCHANGED <<entries, head, disk, acked>>
    BY <1>10 DEF Compact, Ready, memory
  <2>2. Committed' = Committed
    BY <1>1, <2>1 DEF CommittedFits
  <2> QED BY <1>3, <2>1, <2>2 DEF DurableInv, FilesFollow, AckedKept, ParentsKnown
<1>11. ASSUME phase \in CompactPhase, phase' \in CompactPhase \cup {"idle"},
              UNCHANGED <<entries, head, acked>>, FilesFollow',
              \A n \in FileName : ParentsIn(disk'[n].lines)
       PROVE  DurableInv'
  <2>1. Committed' = Committed
    BY <1>1, <1>11 DEF CommittedFits, CompactPhase
  <2> QED BY <1>3, <1>11, <2>1 DEF DurableInv, AckedKept, ParentsKnown, CompactPhase
<1>12. CASE WriteTemp
  <2>1. /\ phase = "write_temp" /\ phase' = "remove"
        /\ UNCHANGED <<entries, head, target, acked>>
        /\ Write(Temp(target), Holding(entries))
    BY <1>12 DEF WriteTemp, memory
  <2>2. /\ disk'[Temp(target)].lines = entries
        /\ \A n \in FileName \ {Temp(target)} : disk'[n] = disk[n]
    BY <1>2, <1>3, <2>1, WrittenFile, FileShapes
  <2>3. Committed' = Committed
    BY <1>1, <2>1 DEF CommittedFits
  <2>4. FilesFollow'
    BY <1>2, <1>3, <2>1, <2>2, <2>3 DEF FilesFollow
  <2> QED BY <1>3, <1>11, <2>1, <2>2, <2>4 DEF ParentsKnown, CompactPhase
<1>13. CASE RemoveTarget
  <2>1. /\ phase = "remove" /\ phase' = "rename" /\ Write(target, Missing)
        /\ UNCHANGED <<entries, head, target, acked>>
    BY <1>13 DEF RemoveTarget, memory
  <2>2. /\ disk'[target].lines = <<>>
        /\ \A n \in FileName \ {target} : disk'[n] = disk[n]
    BY <1>2, <1>3, <2>1, WrittenFile, FileShapes
  <2>3. Committed = entries
    BY <1>1, <2>1 DEF CommittedFits
  <2>4. FilesFollow'
    BY <1>2, <1>3, <2>1, <2>2, <2>3 DEF FilesFollow
  <2> QED BY <1>3, <1>11, <2>1, <2>2, <2>4, EmptyParents DEF ParentsKnown, CompactPhase
<1>14. CASE RenameTemp
  <2>1. /\ phase = "rename" /\ UNCHANGED <<entries, head, target, acked>>
        /\ phase' = IF target = "session" THEN "idle" ELSE "copy_open"
        /\ disk' = [disk EXCEPT ![target] = disk[Temp(target)], ![Temp(target)] = Missing]
    BY <1>14 DEF RenameTemp, memory
  <2>2. target \in FileName /\ Temp(target) \in FileName /\ Temp(target) # target
    BY <1>2
  <2>3. /\ disk'[target].lines = entries /\ disk'[Temp(target)].lines = <<>>
        /\ \A n \in FileName \ {target, Temp(target)} : disk'[n] = disk[n]
    BY <1>2, <1>3, <2>1, <2>2, FileShapes DEF FilesFollow
  <2>4. Committed' = entries'
    BY <1>1, <2>1 DEF CommittedFits
  <2>5. "session" \in FileName \ {target, Temp(target)} \/ target = "session"
    BY <1>2
  <2>6. FilesFollow'
    BY <1>2, <1>3, <2>1, <2>3, <2>4, <2>5 DEF FilesFollow
  <2>7. \A n \in FileName : ParentsIn(disk'[n].lines)
    BY <1>3, <2>3, EmptyParents DEF ParentsKnown
  <2> QED BY <1>11, <2>1, <2>6, <2>7 DEF CompactPhase
<1>15. CASE CopyOpen
  <2>1. /\ phase = "copy_open" /\ phase' = "copy_data" /\ Write("session", Empty)
        /\ UNCHANGED <<entries, head, target, acked>>
    BY <1>15 DEF CopyOpen, memory
  <2>2. /\ disk'["session"].lines = <<>>
        /\ \A n \in FileName \ {"session"} : disk'[n] = disk[n]
    BY <1>3, <2>1, WrittenFile, FileShapes
  <2>3. FilesFollow'
    BY <1>3, <2>1, <2>2 DEF FilesFollow
  <2> QED BY <1>3, <1>11, <2>1, <2>2, <2>3, EmptyParents DEF ParentsKnown, CompactPhase
<1>16. CASE CopyData
  <2>1. /\ phase = "copy_data" /\ phase' = "idle" /\ Write("session", disk[target])
        /\ UNCHANGED <<entries, head, target, acked>>
    BY <1>16 DEF CopyData, memory
  <2>2. /\ disk'["session"].lines = entries
        /\ \A n \in FileName \ {"session"} : disk'[n] = disk[n]
    BY <1>3, <2>1, WrittenFile DEF FilesFollow
  <2>3. Committed' = entries'
    BY <1>1, <2>1 DEF CommittedFits
  <2>4. FilesFollow'
    BY <1>3, <2>1, <2>2, <2>3 DEF FilesFollow
  <2> QED BY <1>3, <1>11, <2>1, <2>2, <2>4 DEF ParentsKnown, CompactPhase
<1>17. CASE Crash
  <2>1. /\ phase' = "down" /\ disk' \in Cut /\ acked' = acked
        /\ entries' = <<>> /\ head' = NoId
    BY <1>17 DEF Crash, ClearMemory
  <2>2. AckedOnDisk'
    BY <2>1, CutHolds
  <2>3. \A n \in FileName : ParentsIn(disk'[n].lines)
    <3>1. /\ disk[target].lines \in Seq(Entry) /\ issued \in Nat
          /\ Ordered(disk[target].lines, issued) /\ ParentsIn(disk[target].lines)
      <4>1. /\ target \in FileName /\ issued \in Nat
            /\ \A n \in FileName : disk[n] \in File /\ Ordered(disk[n].lines, issued)
        BY TempNames, MaxIssuedNat DEF IInv, TypeOK, LogsOrdered
      <4> QED BY <1>3, <4>1, FileShapes DEF ParentsKnown
    <3>2. \A k \in 0..Len(disk[target].lines) : ParentsIn(SubSeq(disk[target].lines, 1, k))
      BY <3>1, PrefixParents
    <3> QED BY <1>3, <2>1, <3>2, CutFiles, EmptyParents DEF ParentsKnown, IInv
  <2> QED BY <1>3, <2>1, <2>2, <2>3, EmptyParents
          DEF DurableInv, FilesFollow, AckedKept, ParentsKnown
<1>18. CASE UNCHANGED vars
  <2>1. UNCHANGED <<entries, head, phase, target, disk, acked>> /\ Committed' = Committed
    BY <1>18 DEF vars, memory, Committed, Pending
  <2> QED BY <1>3, <2>1
          DEF DurableInv, FilesFollow, AckedKept, AckedOnDisk, ParentsKnown
<1> QED BY <1>4, <1>5, <1>6, <1>7, <1>8, <1>9, <1>10, <1>12, <1>13, <1>14, <1>15, <1>16,
           <1>17, <1>18, <1>19
        DEF Next, AppendAtHead, AppendRoot, BranchFrom, WriteEntryFails, NewlineLost,
            CompactFails

\* A store that was never used.
LEMMA InitDurable == Init => DurableInv
<1> SUFFICES ASSUME Init PROVE DurableInv
  OBVIOUS
<1>1. \A n \in FileName : disk[n].lines = <<>>
  BY FileShapes DEF Init
<1>2. phase = "down" /\ entries = <<>> /\ head = NoId /\ acked = {}
  BY DEF Init
<1>3. ParentsKnown
  BY <1>1, <1>2, EmptyParents DEF ParentsKnown
<1> QED BY <1>1, <1>2, <1>3, NamesDiffer DEF DurableInv, FilesFollow, AckedKept, AckedOnDisk

\* The invariants of a store whose files do not fail.
THEOREM DurableInvariance ==
  ASSUME ~IoErrors
  PROVE  Spec => [](IInv /\ DurableInv)
<1>1. Init => DurableInv
  BY InitDurable
<1>2. IInv /\ IInv' /\ DurableInv /\ [Next]_vars => DurableInv'
  BY NextDurable
<1> QED BY <1>1, <1>2, Invariance, PTL DEF Spec

\* If no file operation fails, the session file holds the log in memory whenever
\* no call is under way, wherever the process died before.
THEOREM MemoryMirrored ==
  ASSUME ~IoErrors
  PROVE  Spec => []MirrorsMemory
<1>1. ASSUME IInv, DurableInv PROVE MirrorsMemory
  BY <1>1, CommittedCases DEF IInv, DurableInv, FilesFollow, CommittedFits, MirrorsMemory
<1> QED BY <1>1, DurableInvariance, PTL

\* If no file operation fails, no entry is an orphan, in memory or in any file.
THEOREM NoOrphans ==
  ASSUME ~IoErrors
  PROVE  Spec => []ParentsKnown
<1>1. DurableInv => ParentsKnown
  BY DEF DurableInv
<1> QED BY <1>1, DurableInvariance, PTL

\* If no file operation fails, one file holds all that was acknowledged at every
\* moment, in the middle of a compaction and after a crash there too.
THEOREM AckedStaysOnDisk ==
  ASSUME ~IoErrors
  PROVE  Spec => []AckedOnDisk
<1>1. IInv /\ DurableInv => AckedOnDisk
  BY SomeFileHolds
<1> QED BY <1>1, DurableInvariance, PTL

----------------------------------------------------------------------------
(* Restarts *)

\* The process does not die while the session file is missing or empty: after compact
\* has removed it, or while it is copied back.
SafeCrashes == CrashIn \cap {"rename", "copy_data"} = {}

\* What a start would find, or the process has, includes what was acknowledged.
SessionKeeps == acked \subseteq IdsOf(Committed)

\* A crash loses the entry that was being appended, and nothing that is committed.
LEMMA CrashKeeps ==
  ASSUME SafeCrashes, IInv, DurableInv, Crash
  PROVE  Committed' = Committed /\ Pending' = <<>> /\ acked' = acked
<1>1. /\ phase \in {"idle", "append", "newline", "write_temp", "remove", "copy_open"}
      /\ phase' = "down" /\ disk' \in Cut /\ acked' = acked
  BY CrashInPhases DEF SafeCrashes, Crash, Moment, Phase, CompactPhase
<1>2. /\ disk["session"].lines = Committed
      /\ disk'["session"].lines = disk["session"].lines
  BY <1>1, CutFiles, NamesDiffer DEF IInv, DurableInv, FilesFollow
<1>3. Committed' = disk'["session"].lines
  BY <1>1 DEF Committed
<1> QED BY <1>1, <1>2, <1>3 DEF Pending

\* A newline that lands changes no line.
LEMMA NewlineKeeps ==
  ASSUME IInv, NewlineLands
  PROVE  Committed' = Committed
<1>1. /\ UNCHANGED <<entries, phase>> /\ Write("session", PutNewline(disk["session"]))
  BY DEF NewlineLands, memory
<1>2. disk["session"] \in File /\ TypeOK
  BY NamesDiffer DEF IInv, TypeOK
<1>3. PutNewline(disk["session"]).lines = disk["session"].lines
  BY <1>2, FileShapes
<1>4. disk'["session"].lines = disk["session"].lines
  BY <1>1, <1>2, <1>3, NamesDiffer, WrittenFile
<1> QED BY <1>1, <1>4 DEF Committed, Pending

\* A step other than a load, a reset or a crash keeps what is committed, but for the
\* writing of the entry that is being appended; it is acknowledged after that.
LEMMA CommittedSteps ==
  ASSUME ~IoErrors, IInv, IInv', DurableInv, [Next]_vars
  PROVE  \/ Load \/ Crash \/ Reset
         \/ /\ phase = "append" /\ acked' = acked
            /\ Committed' = Append(Committed, entries[Len(entries)])
         \/ /\ Committed' = Committed /\ head \in IdsOf(Committed)
            /\ acked' = acked \cup {head}
         \/ Committed' = Committed /\ acked' = acked
<1>1. CommittedFits /\ CommittedFits'
  <2>1. IInv => CommittedFits
    BY CommittedCases DEF IInv
  <2>2. IInv' => CommittedFits'
    BY <2>1, CommittedCases, PTL DEF IInv
  <2> QED BY <2>1, <2>2
<1>2. ASSUME NEW parent, AppendEntry(parent)
      PROVE  Committed' = Committed /\ acked' = acked
  <2>1. phase = "idle" /\ phase' = "append" /\ acked' = acked
    BY <1>2 DEF AppendEntry, Ready
  <2>2. PICK e : entries' = Append(entries, e) /\ e \in Entry
    <3>1. /\ entries' = Append(entries, [id |-> issued + 1, parent |-> parent])
          /\ parent \in IdsOf(entries) \cup {NoId} /\ issued \in Nat
      BY <1>2, IndexTypes, MaxIssuedNat DEF AppendEntry, IInv, TypeOK, IndexExact
    <3>2. parent \in Nat
      BY <3>1, IndexTypes DEF IInv, TypeOK, Id, NoId
    <3> QED BY <3>1, <3>2 DEF Entry, Id, NoId
  <2>3. entries \in Seq(Entry) /\ entries' # <<>> /\ entries'[Len(entries')] = e
    <3>1. entries \in Seq(Entry)
      BY DEF IInv, TypeOK
    <3> QED BY <2>2, <3>1, AppendProperties, LenProperties
  <2>4. PICK s \in Seq(Entry) : s = Committed' /\ Append(s, e) = Append(entries, e)
    BY <1>1, <2>1, <2>2, <2>3 DEF CommittedFits
  <2>5. Committed' = entries
    BY <2>2, <2>3, <2>4, AppendInjective
  <2>6. Committed = entries
    BY <1>1, <2>1 DEF CommittedFits
  <2> QED BY <2>1, <2>5, <2>6
<1>3. ASSUME UNCHANGED <<entries, acked>>, phase \notin {"down", "append"},
             phase' \notin {"down", "append"}
      PROVE  Committed' = Committed /\ acked' = acked
  BY <1>1, <1>3 DEF CommittedFits
<1>4. CASE WriteBytes
  <2>1. /\ phase = "append" /\ phase' = "newline" /\ entries' = entries
        /\ acked' = acked /\ entries # <<>>
    BY <1>4 DEF WriteBytes, memory, DurableInv, FilesFollow
  <2> QED BY <1>1, <2>1 DEF CommittedFits
<1>10. CASE HandOverNewline
  <2>1. /\ phase = "newline" /\ phase' = "idle" /\ entries' = entries
        /\ acked' = acked \cup {head} /\ entries # <<>> /\ entries \in Seq(Entry)
        /\ head = entries[Len(entries)].id
    BY <1>10 DEF HandOverNewline, memory, DurableInv, FilesFollow, IInv, TypeOK
  <2>2. head \in IdsOf(entries)
    BY <2>1, EmptySeq, LenProperties DEF IdsOf
  <2> QED BY <1>1, <2>1, <2>2 DEF CommittedFits
<1>5. CASE NewlineLands
  BY <1>5, NewlineKeeps DEF NewlineLands
<1>6. ASSUME NEW id, Checkout(id)
      PROVE  Committed' = Committed /\ acked' = acked
  BY <1>3, <1>6 DEF Checkout, Ready
<1>7. CASE (\E t \in Target : Compact(t)) \/ WriteTemp \/ RemoveTarget
  BY <1>3, <1>7 DEF Compact, Ready, WriteTemp, RemoveTarget, memory
<1>8. CASE RenameTemp \/ CopyOpen \/ CopyData
  BY <1>3, <1>8 DEF RenameTemp, CopyOpen, CopyData, memory
<1>9. CASE UNCHANGED vars
  BY <1>9 DEF vars, memory, Committed, Pending
<1> QED BY <1>2, <1>4, <1>5, <1>6, <1>7, <1>8, <1>9, <1>10
        DEF Next, AppendAtHead, AppendRoot, BranchFrom, WriteEntryFails, NewlineLost,
            CompactFails

\* A start finds everything that was acknowledged.
LEMMA KeepsStep ==
  ASSUME ~IoErrors, SafeCrashes, IInv, IInv', DurableInv, SessionKeeps, [Next]_vars
  PROVE  SessionKeeps'
<1>1. entries \in Seq(Entry) /\ TypeOK
  BY DEF IInv, TypeOK
<1>2. IInv' => CommittedFits'
  BY CommittedCases, PTL DEF IInv
<1>3. CASE Load
  <2>1. phase' = "idle" /\ acked' = IdsOf(entries')
    BY <1>3 DEF Load
  <2> QED BY <1>2, <2>1 DEF CommittedFits, SessionKeeps
<1>4. CASE Crash
  BY <1>4, CrashKeeps DEF SessionKeeps
<1>5. CASE Reset
  BY <1>5 DEF Reset, SessionKeeps
<1>6. ASSUME phase = "append", Committed' = Append(Committed, entries[Len(entries)]),
             acked' = acked
      PROVE  SessionKeeps'
  <2>1. entries # <<>> /\ CommittedFits
    BY <1>1, <1>6, CommittedCases DEF DurableInv, FilesFollow
  <2>2. Committed \in Seq(Entry)
    BY <1>6, <2>1 DEF CommittedFits
  <2>3. entries[Len(entries)] \in Entry
    BY <1>1, <2>1, EmptySeq, ElementOfSeq
  <2> QED BY <1>6, <2>2, <2>3, AppendIds DEF SessionKeeps
<1>8. CASE Committed' = Committed /\ head \in IdsOf(Committed) /\ acked' = acked \cup {head}
  BY <1>8 DEF SessionKeeps
<1>7. CASE Committed' = Committed /\ acked' = acked
  BY <1>7 DEF SessionKeeps
<1> QED BY <1>3, <1>4, <1>5, <1>6, <1>7, <1>8, CommittedSteps

\* The invariants of such a store.
LEMMA KeepsAlways ==
  ASSUME ~IoErrors, SafeCrashes
  PROVE  Spec => [](IInv /\ DurableInv /\ SessionKeeps)
<1>1. Init => SessionKeeps
  BY DEF Init, SessionKeeps
<1>2. IInv /\ IInv' /\ DurableInv /\ SessionKeeps /\ [Next]_vars => SessionKeeps'
  BY KeepsStep
<1> QED BY <1>1, <1>2, DurableInvariance, PTL DEF Spec

\* If no file operation fails, and the process does not die while compact has the
\* session file removed or empty, the next start finds all that was acknowledged.
THEOREM AckedRecovered ==
  ASSUME ~IoErrors, SafeCrashes
  PROVE  Spec => RecoversAcked
<1>1. ASSUME IInv, SessionKeeps, [Next]_vars
      PROVE  [phase = "down" /\ phase' # "down" => acked \subseteq IdsOf(entries')]_vars
  <2>1. ASSUME phase = "down", phase' # "down"
        PROVE  Load
    BY <1>1, <2>1, CrashInPhases
       DEF Next, AppendAtHead, AppendRoot, BranchFrom, AppendEntry, Ready, Checkout,
           WriteBytes, HandOverNewline, WriteEntryFails, NewlineLands, NewlineLost,
           Reset, Compact, WriteTemp, RemoveTarget, RenameTemp, CopyOpen, CopyData,
           CompactFails, CompactPhase, Crash, vars
  <2>2. phase = "down" => acked \subseteq IdsOf(disk["session"].lines)
    BY <1>1 DEF SessionKeeps, Committed
  <2> QED BY <2>1, <2>2 DEF Load
<1> QED BY <1>1, KeepsAlways, PTL DEF Spec, RecoversAcked

\* Every step of the store is one of a log that grows by what is appended and is cut
\* by nothing but a reset, or leaves that log alone.
LEMMA StepMaps ==
  ASSUME ~IoErrors, SafeCrashes, IInv, IInv', DurableInv, [Next]_vars
  PROVE  [D!Next]_(D!vars)
<1>1. /\ TypeOK /\ FilesFollow /\ CommittedFits /\ CommittedFits'
  <2>1. IInv => CommittedFits
    BY CommittedCases DEF IInv
  <2>2. IInv' => CommittedFits'
    BY <2>1, CommittedCases, PTL DEF IInv
  <2> QED BY <2>1, <2>2 DEF IInv, DurableInv
<1>2. \A s : D!IdsOf(s) = IdsOf(s) /\ D!LastId(s) = LastId(s)
  BY DEF D!IdsOf, IdsOf, D!LastId, LastId, D!NoId, NoId
<1>3. D!NoId = NoId
  BY DEF D!NoId, NoId
<1>4. /\ entries \in Seq(Entry) /\ DOMAIN byId = IdsOf(entries)
      /\ (phase # "append" => Pending = <<>>) /\ (phase' # "append" => Pending' = <<>>)
  BY <1>1, IndexTypes DEF IInv, TypeOK, IndexExact, Pending
<1>5. CASE Load
  <2>1. /\ phase = "down" /\ phase' = "idle" /\ entries' = disk["session"].lines
        /\ head' = LastId(entries')
    BY <1>5 DEF Load, RebuildIndex
  <2>2. Committed' = Committed /\ head = NoId /\ entries' = Committed
    BY <1>1, <2>1 DEF FilesFollow, CommittedFits
  <2>3. D!Resume
    BY <1>2, <1>3, <1>4, <2>1, <2>2 DEF D!Resume
  <2> QED BY <2>3 DEF D!Next
<1>6. ASSUME NEW parent, AppendEntry(parent)
      PROVE  D!Next
  <2> DEFINE e == [id |-> issued + 1, parent |-> parent]
  <2>1. /\ phase = "idle" /\ phase' = "append" /\ entries' = Append(entries, e)
        /\ head' = e.id /\ parent \in IdsOf(entries) \cup {NoId}
    BY <1>4, <1>6 DEF AppendEntry, Ready
  <2>2. e \in Entry /\ e.parent = parent /\ \A d \in IdsOf(entries) : d < e.id
    <3>1. issued \in Nat /\ parent \in Nat /\ IdsOf(entries) \subseteq Nat
      BY <1>4, <2>1, MaxIssuedNat, IndexTypes DEF IInv, TypeOK, Id, NoId
    <3>2. \A i \in 1..Len(entries) : entries[i].id <= issued
      BY DEF IInv, LogsOrdered, Ordered, IdsUpTo
    <3>3. \A d \in IdsOf(entries) : d <= issued
      BY <3>2 DEF IdsOf
    <3> QED BY <3>1, <3>3 DEF Entry, Id, NoId
  <2> HIDE DEF e
  <2>3. entries' \in Seq(Entry) /\ entries' # <<>> /\ entries'[Len(entries')] = e
    BY <1>4, <2>1, <2>2, AppendProperties, LenProperties
  <2>4. Pending' = <<e>>
    BY <2>1, <2>3 DEF Pending
  <2>5. Committed = entries /\ Committed' = Committed
    <3>1. Committed = entries
      BY <1>1, <2>1 DEF CommittedFits
    <3>2. PICK s \in Seq(Entry) : s = Committed' /\ Append(s, e) = Append(entries, e)
      BY <1>1, <2>1, <2>3 DEF CommittedFits
    <3> QED BY <1>4, <2>2, <3>1, <3>2, AppendInjective
  <2>6. D!Begin(e)
    BY <1>2, <1>3, <1>4, <2>1, <2>2, <2>4, <2>5 DEF D!Begin
  <2> QED BY <2>4, <2>6 DEF D!Next
<1>7. ASSUME NEW id \in DOMAIN byId, Checkout(id)
      PROVE  D!Next
  <2>1. /\ UNCHANGED <<entries, phase>> /\ head' = id /\ phase = "idle"
    BY <1>7 DEF Checkout, Ready
  <2>2. Committed = entries /\ Committed' = Committed /\ Pending' = Pending
    BY <1>1, <1>4, <2>1 DEF CommittedFits
  <2>3. head # NoId
    BY <1>4, <1>7, EmptyOrdered DEF IInv, IndexExact
  <2>4. D!MoveHead(id)
    BY <1>2, <1>3, <1>4, <2>1, <2>2, <2>3 DEF D!MoveHead
  <2> QED BY <1>2, <1>4, <2>2, <2>4 DEF D!Next
<1>8. CASE WriteBytes
  <2> DEFINE e == entries[Len(entries)]
  <2>1. /\ phase = "append" /\ phase' = "newline" /\ entries' = entries /\ head' = head
    BY <1>8 DEF WriteBytes, memory
  <2>2. /\ Pending = <<e>> /\ Committed' = Append(Committed, e) /\ Committed \in Seq(Entry)
        /\ e \in Entry
    BY <1>1, <1>4, <2>1, EmptySeq, ElementOfSeq DEF Pending, CommittedFits, FilesFollow
  <2> HIDE DEF e
  <2>3. D!Commit
    BY <1>4, <2>1, <2>2, AppendIsConcat DEF D!Commit
  <2> QED BY <2>3 DEF D!Next
<1>9. CASE Reset
  <2>1. /\ phase = "idle" /\ phase' = phase /\ entries' = <<>> /\ head' = NoId
    BY <1>9 DEF Reset, Ready, ClearMemory
  <2>2. Committed' = <<>>
    BY <1>1, <2>1 DEF CommittedFits
  <2>3. D!Clear
    BY <1>3, <1>4, <2>1, <2>2 DEF D!Clear
  <2> QED BY <2>3 DEF D!Next
<1>10. CASE Crash
  <2>1. head' = NoId /\ Committed' = Committed /\ Pending' = <<>>
    BY <1>10, CrashKeeps DEF Crash, ClearMemory
  <2>2. D!Stop
    BY <1>3, <2>1 DEF D!Stop
  <2> QED BY <2>2 DEF D!Next
<1>11. CASE NewlineLands
  <2>1. Committed' = Committed
    BY <1>11, NewlineKeeps
  <2>2. UNCHANGED <<head, Pending>>
    BY <1>11 DEF NewlineLands, memory, Pending
  <2> QED BY <2>1, <2>2 DEF D!vars
<1>12. ASSUME UNCHANGED <<entries, head>>, phase \notin {"down", "append"},
              phase' \notin {"down", "append"}
       PROVE  UNCHANGED D!vars
  BY <1>1, <1>4, <1>12 DEF CommittedFits, D!vars
<1>16. CASE HandOverNewline
  <2>1. /\ phase = "newline" /\ phase' = "idle" /\ UNCHANGED <<entries, head>>
    BY <1>16 DEF HandOverNewline, memory
  <2> QED BY <1>12, <2>1
<1>13. CASE (\E t \in Target : Compact(t)) \/ WriteTemp \/ RemoveTarget
  BY <1>12, <1>13 DEF Compact, Ready, WriteTemp, RemoveTarget, memory
<1>14. CASE RenameTemp \/ CopyOpen \/ CopyData
  BY <1>12, <1>14 DEF RenameTemp, CopyOpen, CopyData, memory
<1>15. CASE UNCHANGED vars
  BY <1>15 DEF vars, memory, Committed, Pending, D!vars
<1> QED BY <1>5, <1>6, <1>7, <1>8, <1>9, <1>10, <1>11, <1>13, <1>14, <1>15, <1>16
        DEF Next, AppendAtHead, AppendRoot, BranchFrom, WriteEntryFails, NewlineLost,
            CompactFails

\* The store implements the log its callers count on: under the same conditions, what
\* is committed and what is being appended make the steps DurableLog allows.
THEOREM LogImplemented ==
  ASSUME ~IoErrors, SafeCrashes
  PROVE  Spec => ImplementsDurableLog
<1>1. Init => D!Init
  <2> SUFFICES ASSUME Init PROVE D!Init
    OBVIOUS
  <2>1. disk["session"].lines = <<>>
    BY FileShapes, NamesDiffer DEF Init
  <2> QED BY <2>1 DEF Init, D!Init, D!NoId, NoId, Committed, Pending
<1>2. IInv /\ IInv' /\ DurableInv /\ [Next]_vars => [D!Next]_(D!vars)
  BY StepMaps
<1> QED BY <1>1, <1>2, KeepsAlways, PTL DEF Spec, ImplementsDurableLog, D!Spec
----------------------------------------------------------------------------
(* Whole files *)

Whole(f) == ~f.open /\ ~f.broken

\* A file that is not spoiled misses its newline only while that is in flight or about to
\* be handed over, and what a compaction puts in the place of the session file is whole.
SettledInv ==
  /\ ~spoiled => /\ ~disk["session"].broken
                 /\ inflight = 0 /\ phase # "newline" => ~disk["session"].open
  /\ phase \in {"remove", "rename"} => Whole(disk[Temp(target)])
  /\ phase \in {"copy_open", "copy_data"} => target = "archive" /\ Whole(disk["archive"])

\* The marks of the files the operations write.
LEMMA FileMarks ==
  /\ Whole(Missing) /\ Whole(Empty) /\ \A s : Whole(Holding(s))
  /\ \A f \in File : /\ Whole(f) => Whole([f EXCEPT !.exists = TRUE])
                     /\ ~f.broken => Whole(PutNewline(f))
                     /\ \A e : Whole(f) => ~PutEntry(f, e).broken
                     /\ [f EXCEPT !.exists = TRUE].open = f.open
                     /\ [f EXCEPT !.exists = TRUE].broken = f.broken
BY DEF Whole, Missing, Empty, Holding, PutNewline, PutEntry, File

\* No step leaves a file that is torn, and not spoiled.
LEMMA NextSettled ==
  ASSUME TypeOK, SettledInv, [Next]_vars
  PROVE  SettledInv'
<1>1. /\ inflight \in Nat /\ target \in Target /\ spoiled \in BOOLEAN
      /\ disk["session"] \in File /\ disk[target] \in File /\ disk[Temp(target)] \in File
  BY NamesDiffer DEF TypeOK
<1> USE NamesDiffer DEF SettledInv
<1>2. CASE Load
  <2> DEFINE f == [disk["session"] EXCEPT !.exists = TRUE]
  <2>1. /\ phase = "down" /\ phase' = "idle" /\ UNCHANGED <<inflight, spoiled>>
        /\ Write("session", f)
    BY <1>2 DEF Load
  <2>2. f.open = disk["session"].open /\ f.broken = disk["session"].broken
    BY <1>1, FileMarks
  <2> HIDE DEF f
  <2>3. disk'["session"] = f
    BY <2>1, WrittenFile
  <2> QED BY <2>1, <2>2, <2>3
<1>3. ASSUME NEW parent, AppendEntry(parent)
      PROVE  SettledInv'
  BY <1>3 DEF AppendEntry, Ready
<1>4. ASSUME NEW id, Checkout(id)
      PROVE  SettledInv'
  BY <1>4 DEF Checkout, Ready
<1>5. CASE WriteBytes
  <2> DEFINE f == PutEntry(disk["session"], entries[Len(entries)])
  <2>1. /\ phase = "append" /\ phase' = "newline" /\ inflight' = inflight
        /\ spoiled' = (spoiled \/ inflight > 0)
        /\ Write("session", f)
    BY <1>5 DEF WriteBytes
  <2>2. ~spoiled' => ~f.broken
    <3>1. ASSUME ~spoiled' PROVE Whole(disk["session"])
      <4>1. ~spoiled /\ ~(inflight > 0)
        BY <2>1, <3>1, Zenon
      <4> QED BY <1>1, <2>1, <4>1 DEF Whole
    <3>2. Whole(disk["session"]) => ~f.broken
      BY <1>1, FileMarks
    <3> QED BY <3>1, <3>2
  <2> HIDE DEF f
  <2>3. disk'["session"] = f
    BY <2>1, WrittenFile
  <2> QED BY <1>1, <2>1, <2>2, <2>3
<1>16. CASE HandOverNewline
  BY <1>1, <1>16 DEF HandOverNewline
<1>6. CASE NewlineLands
  <2> DEFINE f == PutNewline(disk["session"])
  <2>1. UNCHANGED <<phase, target, spoiled>> /\ Write("session", f)
    BY <1>6 DEF NewlineLands
  <2>2. ~spoiled => Whole(f)
    BY <1>1, FileMarks
  <2> HIDE DEF f
  <2>3. disk'["session"] = f /\ \A n \in FileName \ {"session"} : disk'[n] = disk[n]
    BY <1>1, <2>1, WrittenFile
  <2> QED BY <1>1, <2>1, <2>2, <2>3 DEF Whole
<1>17. CASE NewlineLost
  BY <1>17 DEF NewlineLost
<1>7. CASE Reset
  <2>1. /\ phase = "idle" /\ phase' = phase /\ inflight' = inflight
        /\ Write("session", Empty) \/ UNCHANGED <<disk, spoiled>>
    BY <1>7 DEF Reset, Ready
  <2>2. CASE Write("session", Empty)
    <3>1. disk'["session"] = Empty
      BY <2>2, WrittenFile
    <3> QED BY <2>1, <3>1, FileMarks DEF Whole
  <2>3. CASE UNCHANGED <<disk, spoiled>>
    BY <2>1, <2>3
  <2> QED BY <2>1, <2>2, <2>3
<1>8. ASSUME NEW t \in Target, Compact(t)
      PROVE  SettledInv'
  BY <1>8 DEF Compact, Ready
<1>9. CASE WriteTemp
  <2>1. /\ phase = "write_temp" /\ phase' = "remove" /\ UNCHANGED <<inflight, target, spoiled>>
        /\ Write(Temp(target), Holding(entries))
    BY <1>9 DEF WriteTemp
  <2>2. /\ disk'[Temp(target)] = Holding(entries) /\ disk'["session"] = disk["session"]
    BY <1>1, <2>1, WrittenFile
  <2> QED BY <2>1, <2>2, FileMarks
<1>10. CASE RemoveTarget
  <2>1. /\ phase = "remove" /\ phase' = "rename" /\ UNCHANGED <<target, spoiled>>
        /\ inflight' \in {0, inflight} /\ (target # "session" => inflight' = inflight)
        /\ Write(target, Missing)
    BY <1>10 DEF RemoveTarget
  <2>2. /\ disk'[target] = Missing
        /\ \A n \in FileName \ {target} : disk'[n] = disk[n]
    BY <1>1, <2>1, WrittenFile
  <2>3. disk'["session"] = IF target = "session" THEN Missing ELSE disk["session"]
    BY <1>1, <2>2
  <2>4. disk'[Temp(target)] = disk[Temp(target)]
    BY <1>1, <2>2
  <2> QED BY <2>1, <2>3, <2>4, FileMarks DEF Whole
<1>11. CASE RenameTemp
  <2>1. /\ phase = "rename" /\ UNCHANGED <<target, inflight>>
        /\ spoiled' = (spoiled /\ target # "session")
        /\ phase' = IF target = "session" THEN "idle" ELSE "copy_open"
        /\ disk' = [disk EXCEPT ![target] = disk[Temp(target)], ![Temp(target)] = Missing]
    BY <1>11 DEF RenameTemp
  <2>2. /\ target \in FileName /\ Temp(target) \in FileName /\ Temp(target) # target
        /\ DOMAIN disk = FileName
    BY <1>1 DEF TypeOK
  <2>3. /\ disk'[target] = disk[Temp(target)]
        /\ \A n \in FileName \ {target, Temp(target)} : disk'[n] = disk[n]
    BY <2>1, <2>2
  <2>4. CASE target = "session"
    BY <2>1, <2>3, <2>4 DEF Whole
  <2>5. CASE target = "archive"
    <3>1. disk'["session"] = disk["session"]
      BY <1>1, <2>3, <2>5
    <3> QED BY <2>1, <2>3, <2>5, <3>1
  <2> QED BY <1>1, <2>4, <2>5
<1>12. CASE CopyOpen
  <2>1. /\ phase = "copy_open" /\ phase' = "copy_data" /\ UNCHANGED <<target, inflight, spoiled>>
        /\ Write("session", Empty)
    BY <1>12 DEF CopyOpen
  <2>2. disk'["session"] = Empty /\ disk'["archive"] = disk["archive"]
    BY <2>1, WrittenFile
  <2> QED BY <2>1, <2>2, FileMarks DEF Whole
<1>13. CASE CopyData
  <2>1. /\ phase = "copy_data" /\ phase' = "idle" /\ UNCHANGED <<target, inflight>>
        /\ Write("session", disk[target])
    BY <1>13 DEF CopyData
  <2>2. disk'["session"] = disk["archive"]
    BY <2>1, WrittenFile
  <2> QED BY <2>1, <2>2 DEF Whole
<1>14. CASE Crash
  <2>1. /\ phase' = "down" /\ disk' \in Cut
        /\ spoiled' = (spoiled \/ inflight > 0 \/ phase = "newline"
                        \/ disk'["session"] # disk["session"])
    BY <1>14 DEF Crash
  <2>2. ASSUME ~spoiled'
        PROVE  /\ ~spoiled /\ ~(inflight > 0) /\ phase # "newline"
               /\ disk'["session"] = disk["session"]
    BY <2>1, <2>2, Zenon
  <2>3. ASSUME ~spoiled'
        PROVE  ~disk'["session"].broken /\ ~disk'["session"].open
    BY <1>1, <2>2, <2>3
  <2> QED BY <2>1, <2>3
<1>18. CASE WriteEntryFails \/ CompactFails
  <2>1. /\ phase # "newline" /\ phase' = "idle" /\ UNCHANGED <<target, inflight>>
        /\ spoiled' = (spoiled \/ disk'["session"] # disk["session"])
    BY <1>18 DEF WriteEntryFails, CompactFails, CompactPhase, CutOff
  <2>2. phase' \notin {"newline", "remove", "rename", "copy_open", "copy_data"}
    BY <2>1
  <2> QED BY <1>1, <2>1, <2>2
<1>15. CASE UNCHANGED vars
  BY <1>15 DEF vars
<1> QED BY <1>2, <1>3, <1>4, <1>5, <1>6, <1>7, <1>8, <1>9, <1>10, <1>11, <1>12, <1>13,
           <1>14, <1>15, <1>16, <1>17, <1>18
        DEF Next, AppendAtHead, AppendRoot, BranchFrom

\* Whatever fails and wherever the process dies: since the session file was last replaced,
\* every line of it is complete and parses at rest, unless the writing of it was cut off, a
\* newline was lost, or an entry was written before the newline of the last.
THEOREM SettledAlwaysLoadable == Spec => []SettledLoadable
<1>1. Init => SettledInv
  BY NamesDiffer, FileMarks DEF Init, SettledInv, Whole
<1>2. TypeOK /\ SettledInv /\ [Next]_vars => SettledInv'
  BY NextSettled
<1>3. SettledInv => SettledLoadable
  BY DEF SettledInv, SettledLoadable
<1> QED BY <1>1, <1>2, <1>3, TypeCorrect, PTL DEF Spec
=============================================================================
