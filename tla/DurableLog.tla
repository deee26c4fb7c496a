----------------------------- MODULE DurableLog -----------------------------
(***************************************************************************)
(* What a session promises its callers, with no file in sight: a tree of   *)
(* entries kept as a log that only grows, one entry at a time, under       *)
(* parents it already holds; a head to append at; and restarts that lose   *)
(* at most the entry whose append had not returned.                        *)
(***************************************************************************)
EXTENDS Naturals, Sequences

NoId == 0
Id == Nat \ {NoId}
Entry == [id : Id, parent : Nat]

VARIABLES
  log,      \* the entries every later restart will find
  pending,  \* the entry being appended, as a sequence of at most one
  head      \* the entry the next append goes under; NoId while stopped

vars == <<log, pending, head>>

IdsOf(s) == {s[i].id : i \in 1..Len(s)}
LastId(s) == IF s = <<>> THEN NoId ELSE s[Len(s)].id

Init == log = <<>> /\ pending = <<>> /\ head = NoId

Begin(e) == /\ pending = <<>>
            /\ \A d \in IdsOf(log) : d < e.id
            /\ e.parent \in IdsOf(log) \cup {NoId}
            /\ pending' = <<e>>
            /\ head' = e.id
            /\ UNCHANGED log

Commit == /\ pending # <<>>
          /\ log' = log \o pending
          /\ pending' = <<>>
          /\ UNCHANGED head

MoveHead(d) == /\ head # NoId
               /\ d \in IdsOf(log)
               /\ head' = d
               /\ UNCHANGED <<log, pending>>

Clear == pending = <<>> /\ log' = <<>> /\ head' = NoId /\ UNCHANGED pending

Stop == pending' = <<>> /\ head' = NoId /\ UNCHANGED log

Resume == /\ head = NoId
          /\ pending = <<>>
          /\ head' = LastId(log)
          /\ UNCHANGED <<log, pending>>

\* The entry a step begins is the last of the two sequences after the step, so
\* that a refinement can be checked without enumerating entries.
Next == \/ pending' # <<>> /\ Begin(pending'[1])
        \/ Commit
        \/ \E d \in IdsOf(log) : MoveHead(d)
        \/ Clear
        \/ Stop
        \/ Resume

Spec == Init /\ [][Next]_vars
=============================================================================
