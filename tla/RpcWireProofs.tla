----------------------------- MODULE RpcWireProofs -----------------------------
(***************************************************************************)
(* Proofs about RpcWire, for any lines, any streams of a provider and any  *)
(* number of lines: the events a client reads can be told apart by         *)
(* counting, and a turn shows every text of its provider or says why not.  *)
(*                                                                         *)
(* AnswersInOrder looks only at what is written, and is not inductive:     *)
(* what is written next depends on how many lines have been read and on    *)
(* the events a turn has collected.  WireInv adds that between lines there *)
(* is one final event for each line that was to be answered, that there is *)
(* one less while a turn is served, and that the events of a turn are of   *)
(* its line and not final.                                                 *)
(*                                                                         *)
(* Nor is TextsAreWhole.  WholeInv adds that what a turn has collected and *)
(* what it has still to take are together the texts, and that what is      *)
(* written is of earlier lines.  That the texts are those of the stream up *)
(* to its Done is a hypothesis about the replies, Truthful, which is       *)
(* proved of both providers, for responses of any length.                  *)
(***************************************************************************)
EXTENDS RpcWire, FiniteSetTheorems, SequenceTheorems, TLAPS

\* What an event may hold.
Id == {NoId} \cup {IdOf(line) : line \in Line}
TextLists == {<<>>} \cup {reply.texts : reply \in Replies}
TurnKind == {"delta", "tool_started", "tool_result", "tool_error", "provider_error", "aborted"}
Kind == TurnKind \cup {"state", "error", "turn_start", "last_delta", "turn_end"}
Events == [kind : Kind, id : Id, text : Nat, line : Nat, wanted : TextLists]

Types == /\ sent \in Seq(Line) /\ taken \in 0..Len(sent)
         /\ stream \in Seq([event : STRING, text : Nat])
         /\ events \in Seq(Events) /\ wanted \in TextLists
         /\ output \in Seq(Events) /\ open \in BOOLEAN

\* The lines to be answered among the first k of s, and the final events among the
\* first k of out.
Asked(s, k) == {j \in 1..k : s[j].size # "blank"}
Finals(out, k) == {j \in 1..k : Final(out[j])}

Answers(s, out, n) == Cardinality(Asked(s, n)) = Cardinality(Finals(out, Len(out)))
Answering(s, out, n) == Cardinality(Asked(s, n)) = 1 + Cardinality(Finals(out, Len(out)))

\* The i-th event of out is of the line it is to be counted for, one of the first n.
Fits(s, n, out, i) ==
  /\ out[i].line \in 1..n
  /\ s[out[i].line].size # "blank"
  /\ Cardinality(Asked(s, out[i].line)) = 1 + Cardinality(Finals(out, i - 1))
  /\ out[i].id \in {NoId, IdOf(s[out[i].line])}
InOrder(s, n, out) == \A i \in 1..Len(out) : Fits(s, n, out, i)

\* Events of the n-th line, none of them final.
IsOf(s, n, e) == e.line = n /\ e.id \in {NoId, IdOf(s[n])}
AreOf(s, n, new) == \A i \in 1..Len(new) : IsOf(s, n, new[i]) /\ ~Final(new[i])

Serving(s, n) == n \in 1..Len(s) /\ s[n].size # "blank"

\* The counts while s is the input, of which n lines have been read, and out is written;
\* mine are the events of a turn, now is where the loop is and reads whether the client
\* reads.
Wired(s, n, out, mine, now, reads) ==
  /\ InOrder(s, n, out)
  /\ now = "read" /\ reads => Answers(s, out, n)
  /\ now \in {"stream", "close"} =>
       Serving(s, n) /\ AreOf(s, n, mine) /\ (reads => Answering(s, out, n))

WireInv == Types /\ Wired(sent, taken, output, events, pc, open)

----------------------------------------------------------------------------
(* Counting *)

\* Both counts are numbers.
LEMMA Counts ==
  ASSUME NEW s, NEW out, NEW k \in Nat
  PROVE  /\ IsFiniteSet(Asked(s, k)) /\ Cardinality(Asked(s, k)) \in Nat
         /\ IsFiniteSet(Finals(out, k)) /\ Cardinality(Finals(out, k)) \in Nat
<1>1. IsFiniteSet(1..k)
  BY FS_Interval
<1>2. Asked(s, k) \in SUBSET (1..k) /\ Finals(out, k) \in SUBSET (1..k)
  BY DEF Asked, Finals
<1> QED BY <1>1, <1>2, FS_Subset, FS_CardinalityType

\* A line adds itself to the count, unless it is blank.
LEMMA AskedGrows ==
  ASSUME NEW s, NEW k \in Nat
  PROVE  Cardinality(Asked(s, k + 1)) =
           IF s[k + 1].size # "blank" THEN Cardinality(Asked(s, k)) + 1
                                      ELSE Cardinality(Asked(s, k))
<1>1. Asked(s, k + 1) = Asked(s, k) \cup (IF s[k + 1].size # "blank" THEN {k + 1} ELSE {})
  <2>1. 1..k + 1 = 1..k \cup {k + 1}
    OBVIOUS
  <2> QED BY <2>1 DEF Asked
<1>2. k + 1 \notin Asked(s, k)
  BY DEF Asked
<1>3. CASE s[k + 1].size # "blank"
  BY <1>1, <1>2, <1>3, Counts, FS_AddElement
<1>4. CASE s[k + 1].size = "blank"
  BY <1>1, <1>4
<1> QED BY <1>3, <1>4

\* Two lines to be answered with the same count are one.
LEMMA CountedOnce ==
  ASSUME NEW s, NEW k \in Nat, NEW m \in Nat,
         k \in Asked(s, k), m \in Asked(s, m),
         Cardinality(Asked(s, k)) = Cardinality(Asked(s, m))
  PROVE  k = m
<1>1. ASSUME NEW i \in Nat, NEW j \in Nat, i < j, j \in Asked(s, j),
             Cardinality(Asked(s, i)) = Cardinality(Asked(s, j))
      PROVE  FALSE
  <2>1. Asked(s, i) \in SUBSET Asked(s, j)
    BY <1>1 DEF Asked
  <2>2. Asked(s, j) = Asked(s, i)
    BY <1>1, <2>1, Counts, FS_Subset
  <2>3. j \notin Asked(s, i)
    BY <1>1 DEF Asked
  <2> QED BY <1>1, <2>2, <2>3
<1>2. ~(k < m) /\ ~(m < k)
  BY <1>1
<1> QED BY <1>2

\* A line that is written changes none of the counts up to those before it.
LEMMA AskedStays ==
  ASSUME NEW s \in Seq(Line), NEW line \in Line, NEW k \in 0..Len(s)
  PROVE  Asked(Append(s, line), k) = Asked(s, k)
<1>1. \A j \in 1..k : j \in 1..Len(s)
  BY LenProperties
<1>2. \A j \in 1..Len(s) : Append(s, line)[j] = s[j]
  OBVIOUS
<1> QED BY <1>1, <1>2 DEF Asked

\* What is written goes before nothing that was.
LEMMA FinalsStay ==
  ASSUME NEW out \in Seq(Events), NEW more \in Seq(Events), NEW k \in 0..Len(out)
  PROVE  Finals(out \o more, k) = Finals(out, k)
<1>1. Len(out) \in Nat /\ Len(more) \in Nat
  BY LenProperties
<1>2. \A j \in 1..k : (out \o more)[j] = out[j]
  BY <1>1, ConcatProperties
<1> QED BY <1>2 DEF Finals

\* Events that are not final leave the count as it is.
LEMMA FinalsAfter ==
  ASSUME NEW out \in Seq(Events), NEW more \in Seq(Events), NEW k \in 0..Len(more),
         \A j \in 1..k : ~Final(more[j])
  PROVE  Finals(out \o more, Len(out) + k) = Finals(out, Len(out))
<1>1. Len(out) \in Nat /\ Len(more) \in Nat
  BY LenProperties
<1> DEFINE both == out \o more
<1>2. \A j \in 1..Len(out) + Len(more) :
        both[j] = IF j <= Len(out) THEN out[j] ELSE more[j - Len(out)]
  BY ConcatProperties
<1> HIDE DEF both
<1>3. \A j \in 1..Len(out) : j \in 1..Len(out) + k /\ both[j] = out[j]
  BY <1>1, <1>2
<1>4. ASSUME NEW j \in 1..Len(out) + k, Final(both[j])
      PROVE  j \in 1..Len(out)
  <2>1. SUFFICES ASSUME j > Len(out) PROVE FALSE
    BY <1>1
  <2>2. j - Len(out) \in 1..k /\ both[j] = more[j - Len(out)]
    BY <1>1, <1>2, <2>1
  <2> QED BY <1>4, <2>2
<1>5. Finals(both, Len(out) + k) = Finals(out, Len(out))
  BY <1>3, <1>4 DEF Finals
<1> QED BY <1>5 DEF both

----------------------------------------------------------------------------
(* Writing *)

\* Events of which the last one is final, and no other.
Ends(s, n, new) ==
  /\ new \in Seq(Events) /\ Len(new) > 0
  /\ \A i \in 1..Len(new) : IsOf(s, n, new[i]) /\ (Final(new[i]) <=> i = Len(new))

\* The first of the events of a line are in order behind those of the lines before,
\* and all of them answer the line.
LEMMA FirstOfThem ==
  ASSUME NEW s, NEW k \in Nat, Serving(s, k), NEW out \in Seq(Events),
         InOrder(s, k, out), Answering(s, out, k),
         NEW new, Ends(s, k, new), NEW n \in 0..Len(new)
  PROVE  /\ out \o SubSeq(new, 1, n) \in Seq(Events)
         /\ InOrder(s, k, out \o SubSeq(new, 1, n))
         /\ n = Len(new) => Answers(s, out \o SubSeq(new, 1, n), k)
<1> DEFINE more == SubSeq(new, 1, n)
           both == out \o more
<1>1. new \in Seq(Events) /\ Len(new) \in Nat /\ Len(out) \in Nat /\ n \in Nat
  BY LenProperties DEF Ends
<1>2. /\ more \in Seq(Events) /\ Len(more) = n
      /\ \A i \in 1..n : more[i] = new[i]
  BY <1>1, SubSeqProperties
<1> HIDE DEF more
<1>3. /\ both \in Seq(Events) /\ Len(both) = Len(out) + n
      /\ \A i \in 1..Len(out) + n :
           both[i] = IF i <= Len(out) THEN out[i] ELSE more[i - Len(out)]
  BY <1>2, ConcatProperties
<1>4. ASSUME NEW i \in 0..Len(out)
      PROVE  Finals(both, i) = Finals(out, i)
  BY <1>2, FinalsStay
<1>5. ASSUME NEW i \in 0..n, i < Len(new)
      PROVE  Finals(both, Len(out) + i) = Finals(out, Len(out))
  <2>1. \A j \in 1..i : ~Final(more[j])
    BY <1>1, <1>2, <1>5 DEF Ends
  <2> QED BY <1>2, <2>1, FinalsAfter
<1> HIDE DEF both
<1>6. ASSUME NEW i \in 1..Len(both)
      PROVE  Fits(s, k, both, i)
  <2>1. CASE i <= Len(out)
    <3>1. i \in 1..Len(out) /\ i - 1 \in 0..Len(out)
      BY <1>1, <1>3, <2>1
    <3>2. both[i] = out[i] /\ Finals(both, i - 1) = Finals(out, i - 1)
      BY <1>3, <1>4, <3>1, <2>1
    <3>3. Fits(s, k, out, i)
      BY <3>1 DEF InOrder
    <3> QED BY <3>2, <3>3 DEF Fits
  <2>2. CASE i > Len(out)
    <3>1. i - Len(out) \in Nat
      BY <1>1, <1>3, <2>2
    <3>2. PICK j \in Nat : j = i - Len(out)
      BY <3>1
    <3>3. j \in 1..n /\ i = Len(out) + j /\ j - 1 \in 0..n /\ j - 1 < Len(new)
      BY <1>1, <1>3, <2>2, <3>2
    <3>4. both[i] = new[j]
      BY <1>1, <1>2, <1>3, <2>2, <3>2, <3>3
    <3>5. Finals(both, i - 1) = Finals(out, Len(out))
      <4>1. i - 1 = Len(out) + (j - 1)
        BY <1>1, <3>3
      <4> QED BY <1>5, <3>3, <4>1
    <3>6. IsOf(s, k, new[j])
      BY <1>1, <3>3 DEF Ends
    <3>7. k \in 1..k /\ s[k].size # "blank"
      BY DEF Serving
    <3> QED BY <3>4, <3>5, <3>6, <3>7 DEF Fits, IsOf, Answering
  <2> QED BY <1>1, <1>3, <2>1, <2>2
<1>7. ASSUME n = Len(new)
      PROVE  Answers(s, both, k)
  <2>1. n - 1 \in Nat
    BY <1>1, <1>7 DEF Ends
  <2>2. PICK m \in Nat : n = m + 1
    BY <1>1, <2>1
  <2>3. Finals(both, Len(out) + m) = Finals(out, Len(out))
    <3>1. m \in 0..n /\ m < Len(new)
      BY <1>1, <1>7, <2>2
    <3> QED BY <1>5, <3>1
  <2>4. Final(both[Len(out) + n])
    <3>1. both[Len(out) + n] = new[n]
      BY <1>1, <1>2, <1>3, <2>2
    <3> QED BY <1>1, <1>7, <2>2, <3>1 DEF Ends
  <2>5. Finals(both, Len(out) + n) = Finals(both, Len(out) + m) \cup {Len(out) + n}
    <3>1. 1..Len(out) + n = 1..Len(out) + m \cup {Len(out) + n}
      BY <1>1, <2>2
    <3> QED BY <2>4, <3>1 DEF Finals
  <2>6. Len(out) + n \notin Finals(out, Len(out))
    BY <1>1, <2>2 DEF Finals
  <2>7. Cardinality(Finals(both, Len(out) + n)) = Cardinality(Finals(out, Len(out))) + 1
    <3>1. IsFiniteSet(Finals(out, Len(out)))
      BY <1>1, Counts
    <3>2. Finals(both, Len(out) + n) = Finals(out, Len(out)) \cup {Len(out) + n}
      BY <2>3, <2>5
    <3> QED BY <2>6, <3>1, <3>2, FS_AddElement
  <2>8. Cardinality(Finals(out, Len(out))) \in Nat
    BY <1>1, Counts
  <2> QED BY <1>3, <2>7, <2>8 DEF Answers, Answering
<1>8. InOrder(s, k, both)
  BY <1>6 DEF InOrder
<1> QED BY <1>3, <1>7, <1>8 DEF both, more

\* What was in order stays in order when more is read, and when more is sent.
LEMMA StaysInOrder ==
  ASSUME NEW s \in Seq(Line), NEW k \in 0..Len(s), NEW out, Len(out) \in Nat,
         InOrder(s, k, out)
  PROVE  /\ InOrder(s, k + 1, out)
         /\ \A line \in Line : InOrder(Append(s, line), k, out)
<1>1. ASSUME NEW i \in 1..Len(out)
      PROVE  Fits(s, k + 1, out, i)
  <2>1. Fits(s, k, out, i)
    BY DEF InOrder
  <2> QED BY <2>1 DEF Fits
<1>2. ASSUME NEW line \in Line, NEW i \in 1..Len(out)
      PROVE  Fits(Append(s, line), k, out, i)
  <2>1. Fits(s, k, out, i)
    BY DEF InOrder
  <2>2. out[i].line \in 1..Len(s) /\ out[i].line \in 0..Len(s)
    BY <2>1 DEF Fits
  <2>3. Append(s, line)[out[i].line] = s[out[i].line]
    BY <2>2
  <2>4. Asked(Append(s, line), out[i].line) = Asked(s, out[i].line)
    BY <2>2, AskedStays
  <2> QED BY <2>1, <2>3, <2>4 DEF Fits
<1> QED BY <1>1, <1>2 DEF InOrder

\* Write for a line to be answered.
LEMMA WriteAnswers ==
  ASSUME output \in Seq(Events), open \in BOOLEAN,
         NEW s, NEW k \in Nat, Serving(s, k), InOrder(s, k, output),
         open => Answering(s, output, k),
         NEW new, Ends(s, k, new), Write(new)
  PROVE  /\ output' \in Seq(Events) /\ open' \in BOOLEAN
         /\ InOrder(s, k, output')
         /\ open' => Answers(s, output', k)
<1>1. CASE open
  <2>1. PICK n \in 0..Len(new) :
          output' = output \o SubSeq(new, 1, n) /\ open' = (n = Len(new))
    BY <1>1 DEF Write
  <2> QED BY <1>1, <2>1, FirstOfThem
<1>2. CASE ~open
  BY <1>2 DEF Write
<1> QED BY <1>1, <1>2

----------------------------------------------------------------------------
(* Steps *)

\* A line that is read: the lines before it are answered, and it is to be answered
\* unless it is blank.
LEMMA ReadServes ==
  ASSUME Types, Wired(sent, taken, output, events, pc, open), NEW line \in Line, Read(line)
  PROVE  /\ sent' = sent /\ input' = input
         /\ taken' = taken + 1 /\ taken' \in 1..Len(sent) /\ sent[taken'] = line
         /\ InOrder(sent, taken', output)
         /\ line.size # "blank" => /\ Serving(sent, taken')
                                   /\ open => Answering(sent, output, taken')
         /\ line.size = "blank" => (open => Answers(sent, output, taken'))
<1>1. /\ sent \in Seq(Line) /\ taken \in 0..Len(sent) /\ Len(sent) \in Nat
      /\ output \in Seq(Events) /\ Len(output) \in Nat
  BY LenProperties DEF Types
<1>2. /\ sent' = sent /\ input' = input /\ taken' = taken + 1 /\ taken < Len(sent)
      /\ sent[taken + 1] = line /\ pc = "read"
  BY DEF Read, client
<1>3. taken + 1 \in 1..Len(sent) /\ taken \in Nat
  BY <1>1, <1>2
<1>4. InOrder(sent, taken + 1, output)
  BY <1>1, StaysInOrder DEF Wired
<1>5. open => Answers(sent, output, taken)
  BY <1>2 DEF Wired
<1>6. /\ Cardinality(Asked(sent, taken + 1)) =
           IF line.size # "blank" THEN Cardinality(Asked(sent, taken)) + 1
                                  ELSE Cardinality(Asked(sent, taken))
      /\ Cardinality(Asked(sent, taken)) \in Nat
      /\ Cardinality(Finals(output, Len(output))) \in Nat
  BY <1>1, <1>2, <1>3, AskedGrows, Counts
<1> QED BY <1>2, <1>3, <1>4, <1>5, <1>6 DEF Serving, Answers, Answering

\* The answer of one event to the line that is read.
LEMMA SingleAnswers ==
  ASSUME Types, Wired(sent, taken, output, events, pc, open),
         NEW line \in Line, Read(line), line.size # "blank",
         NEW kind \in {"state", "error"}, NEW id \in {NoId, IdOf(line)},
         Write(<<Single(kind, id)>>)
  PROVE  /\ output' \in Seq(Events) /\ open' \in BOOLEAN
         /\ InOrder(sent, taken', output')
         /\ open' => Answers(sent, output', taken')
<1>1. PICK k : k = taken'
  OBVIOUS
<1>2. /\ k \in 1..Len(sent) /\ sent[k] = line /\ Serving(sent, k)
      /\ InOrder(sent, k, output) /\ (open => Answering(sent, output, k))
  BY <1>1, ReadServes
<1>3. PICK e : e = Single(kind, id)
  OBVIOUS
<1>4. /\ e.kind = kind /\ e.line = k /\ e.id = id /\ e.text = 0 /\ e.wanted = <<>>
      /\ e = [kind |-> kind, id |-> id, text |-> 0, line |-> k, wanted |-> <<>>]
  BY <1>1, <1>3 DEF Single
<1>5. k \in Nat /\ id \in Id /\ <<>> \in TextLists /\ kind \in Kind
  <2>1. k \in Nat
    BY <1>2, LenProperties DEF Types
  <2>2. id \in Id
    BY DEF Id
  <2>3. <<>> \in TextLists
    BY DEF TextLists
  <2>4. kind \in Kind
    BY DEF Kind
  <2> QED BY <2>1, <2>2, <2>3, <2>4
<1>6. e \in Events
  BY <1>4, <1>5 DEF Events
<1>7. Ends(sent, k, <<e>>)
  <2>1. <<e>> \in Seq(Events) /\ Len(<<e>>) = 1 /\ <<e>>[1] = e
    BY <1>6
  <2>2. IsOf(sent, k, e) /\ Final(e)
    BY <1>2, <1>4 DEF IsOf, Final
  <2>3. \A i \in 1..1 : i = 1
    OBVIOUS
  <2> QED BY <2>1, <2>2, <2>3 DEF Ends
<1>8. Write(<<e>>)
  BY <1>3
<1> QED BY <1>1, <1>2, <1>5, <1>7, <1>8, WriteAnswers DEF Types

\* Such an answer leaves the turn, if there is one, behind.
LEMMA ReadAnswered ==
  ASSUME Types, Wired(sent, taken, output, events, pc, open),
         NEW line \in Line, Read(line), line.size # "blank",
         NEW kind \in {"state", "error"}, NEW id \in {NoId, IdOf(line)},
         Write(<<Single(kind, id)>>), pc' \in {"read", "ended"},
         stream' \in Seq([event : STRING, text : Nat]), events' \in Seq(Events),
         wanted' \in TextLists
  PROVE  WireInv'
<1>1. sent' = sent /\ taken' \in 1..Len(sent)
  BY ReadServes
<1>2. /\ output' \in Seq(Events) /\ open' \in BOOLEAN
      /\ InOrder(sent, taken', output')
      /\ open' => Answers(sent, output', taken')
  BY SingleAnswers
<1>3. Types'
  BY <1>1, <1>2 DEF Types
<1>4. Wired(sent', taken', output', events', pc', open')
  BY <1>1, <1>2 DEF Wired
<1> QED BY <1>3, <1>4 DEF WireInv, Wired

\* Actions that do not write and leave the turn alone.
LEMMA ClientSteps ==
  ASSUME WireInv
  PROVE  /\ \A line \in Line : WriteLine(line) => WireInv'
         /\ CloseInput \/ EndOfInput \/ UNCHANGED vars => WireInv'
<1> USE DEF WireInv
<1>1. ASSUME NEW line \in Line, WriteLine(line)
      PROVE  WireInv'
  <2>1. /\ sent' = Append(sent, line) /\ sent \in Seq(Line) /\ Len(sent) \in Nat
        /\ taken' = taken /\ taken \in 0..Len(sent) /\ output' = output
        /\ events' = events /\ pc' = pc /\ open' = open
    BY <1>1, LenProperties DEF WriteLine, Types, turn
  <2>2. Types'
    <3>1. sent' \in Seq(Line) /\ taken' \in 0..Len(sent')
      BY <2>1
    <3> QED BY <1>1, <2>1, <3>1 DEF WriteLine, Types, turn
  <2>3. InOrder(sent', taken, output)
    <3>1. Len(output) \in Nat
      BY LenProperties DEF Types
    <3> QED BY <2>1, <3>1, StaysInOrder DEF Wired
  <2>4. Asked(sent', taken) = Asked(sent, taken)
    BY <2>1, AskedStays
  <2>5. Serving(sent, taken) => Serving(sent', taken) /\ sent'[taken] = sent[taken]
    <3>1. \A i \in 1..Len(sent) : sent'[i] = sent[i] /\ i \in 1..Len(sent')
      BY <2>1
    <3> QED BY <3>1 DEF Serving
  <2>6. Wired(sent', taken, output, events, pc, open)
    BY <2>3, <2>4, <2>5 DEF Wired, Answers, Answering, AreOf, IsOf
  <2> QED BY <2>1, <2>2, <2>6 DEF WireInv, Wired
<1>2. ASSUME CloseInput \/ EndOfInput \/ UNCHANGED vars
      PROVE  WireInv'
  <2>1. /\ UNCHANGED <<sent, taken, stream, events, wanted, output, open>>
        /\ pc' = pc \/ pc' = "ended"
    BY <1>2 DEF CloseInput, EndOfInput, vars, client, turn
  <2>2. Types'
    BY <2>1 DEF Types
  <2>3. Wired(sent', taken', output', events', pc', open')
    BY <2>1 DEF Wired
  <2> QED BY <2>2, <2>3 DEF WireInv, Wired
<1> QED BY <1>1, <1>2

\* A line that is no request, and a session command or a look at the state.
LEMMA LineSteps ==
  ASSUME WireInv, NEW line \in Line,
         ReadFails(line) \/ Skip(line) \/ RefuseLine(line) \/ AnswerState(line)
  PROVE  WireInv'
<1> USE DEF WireInv
<1>1. ASSUME ReadFails(line) \/ Skip(line)
      PROVE  WireInv'
  <2>1. /\ Read(line) /\ UNCHANGED <<stream, events, wanted, output, open>>
        /\ pc' = "ended" \/ (pc' = "read" /\ line.size = "blank")
    BY <1>1 DEF ReadFails, Skip, Read, turn
  <2>2. /\ sent' = sent /\ taken' \in 1..Len(sent)
        /\ InOrder(sent, taken', output)
        /\ line.size = "blank" => (open => Answers(sent, output, taken'))
    BY <2>1, ReadServes
  <2>3. Types'
    BY <2>1, <2>2 DEF Types
  <2>4. Wired(sent', taken', output', events', pc', open')
    BY <2>1, <2>2 DEF Wired
  <2> QED BY <2>3, <2>4 DEF WireInv, Wired
<1>2. ASSUME UNCHANGED turn
      PROVE  /\ stream' \in Seq([event : STRING, text : Nat])
             /\ events' \in Seq(Events) /\ wanted' \in TextLists
  BY <1>2 DEF turn, Types
<1>3. CASE RefuseLine(line)
  <2>1. /\ Read(line) /\ line.size # "blank" /\ UNCHANGED turn
        /\ Write(<<Single("error", NoId)>>) /\ pc' \in {"read", "ended"}
    BY <1>3 DEF RefuseLine, NoRequest, Refuse
  <2> QED BY <1>2, <2>1, ReadAnswered
<1>4. CASE AnswerState(line)
  <2>1. /\ Read(line) /\ line.size # "blank" /\ UNCHANGED turn /\ pc' = "read"
        /\ \E kind \in {"state", "error"}, id \in {NoId, IdOf(line)} :
             Write(<<Single(kind, id)>>)
    BY <1>4 DEF AnswerState, Request, Answer
  <2> QED BY <1>2, <2>1, ReadAnswered
<1> QED BY <1>1, <1>3, <1>4

\* A turn fails, or begins with turn_start.
LEMMA BeginSteps ==
  ASSUME WireInv, NEW line \in Line, BeginTurn(line)
  PROVE  WireInv'
<1> USE DEF WireInv
<1>1. Read(line) /\ line.size # "blank"
  BY DEF BeginTurn, Request
<1>2. CASE TurnFails
  <2>1. /\ Write(<<Single("error", NoId)>>) /\ pc' = "read"
        /\ stream' = <<>> /\ events' = <<>> /\ wanted' = <<>>
    BY <1>2 DEF TurnFails, Answer, NoTurn
  <2>2. /\ stream' \in Seq([event : STRING, text : Nat])
        /\ events' \in Seq(Events) /\ wanted' \in TextLists
    BY <2>1 DEF TextLists
  <2> QED BY <1>1, <2>1, <2>2, ReadAnswered
<1>3. ASSUME NEW reply \in Replies,
             pc' = "stream" /\ stream' = reply.stream /\ wanted' = reply.texts,
             events' = <<[kind |-> "turn_start", id |-> IdOf(line), text |-> 0,
                          line |-> taken', wanted |-> reply.texts]>>,
             UNCHANGED <<output, open>>
      PROVE  WireInv'
  <2>1. /\ sent' = sent /\ taken' \in 1..Len(sent) /\ sent[taken'] = line
        /\ InOrder(sent, taken', output)
        /\ Serving(sent, taken') /\ (open => Answering(sent, output, taken'))
    BY <1>1, ReadServes
  <2>2. PICK e : e = [kind |-> "turn_start", id |-> IdOf(line), text |-> 0,
                      line |-> taken', wanted |-> reply.texts]
    OBVIOUS
  <2>3. reply.texts \in TextLists /\ IdOf(line) \in Id /\ taken' \in Nat
    <3>1. taken' \in Nat
      BY <2>1, LenProperties DEF Types
    <3> QED BY <3>1 DEF TextLists, Id
  <2>4. e \in Events
    <3>1. "turn_start" \in Kind
      BY DEF Kind
    <3> QED BY <2>2, <2>3, <3>1 DEF Events
  <2>5. events' = <<e>> /\ events' \in Seq(Events) /\ Len(events') = 1 /\ events'[1] = e
    BY <1>3, <2>2, <2>4
  <2>6. IsOf(sent, taken', e) /\ ~Final(e)
    BY <2>1, <2>2 DEF IsOf, Final
  <2>7. AreOf(sent, taken', events')
    <3>1. \A i \in 1..1 : i = 1
      OBVIOUS
    <3> QED BY <2>5, <2>6, <3>1 DEF AreOf
  <2>8. reply.stream \in Seq([event : STRING, text : Nat])
    BY RepliesHaveTexts
  <2>9. Types'
    BY <1>3, <2>1, <2>3, <2>5, <2>8 DEF Types
  <2>10. Wired(sent', taken', output', events', pc', open')
    BY <1>3, <2>1, <2>7 DEF Wired
  <2> QED BY <2>9, <2>10 DEF WireInv, Wired
<1> QED BY <1>2, <1>3 DEF BeginTurn

\* What a turn collects is of its line and not final.
LEMMA CollectKeeps ==
  ASSUME WireInv, pc = "stream", NEW kinds \in Seq(TurnKind), NEW text \in Nat,
         Collect(kinds, text)
  PROVE  /\ events' \in Seq(Events) /\ AreOf(sent, taken, events')
         /\ \E new \in Seq(Events) :
              /\ events' = events \o new /\ Len(new) = Len(kinds)
              /\ \A i \in 1..Len(kinds) : new[i].kind = kinds[i] /\ new[i].text = text
<1> USE DEF WireInv
<1>1. /\ events \in Seq(Events) /\ Len(events) \in Nat /\ Len(kinds) \in Nat
      /\ Serving(sent, taken) /\ AreOf(sent, taken, events)
  BY LenProperties DEF Types, Wired
<1>2. PICK id : id = IdOf(Current)
  OBVIOUS
<1>3. id \in Id /\ id = IdOf(sent[taken]) /\ taken \in Nat /\ wanted \in TextLists
  <2>1. taken \in 1..Len(sent) /\ sent \in Seq(Line) /\ Len(sent) \in Nat
    BY <1>1, LenProperties DEF Serving, Types
  <2>2. sent[taken] \in Line
    BY <2>1
  <2> QED BY <1>2, <2>1, <2>2 DEF Id, Current, Types
<1> DEFINE new == [i \in 1..Len(kinds) |-> Event(kinds[i], id, text)]
<1>4. ASSUME NEW i \in 1..Len(kinds)
      PROVE  /\ new[i] \in Events
             /\ IsOf(sent, taken, new[i]) /\ ~Final(new[i])
             /\ new[i].kind = kinds[i] /\ new[i].text = text
  <2>1. kinds[i] \in TurnKind
    OBVIOUS
  <2>2. /\ new[i] = Event(kinds[i], id, text)
    OBVIOUS
  <2> HIDE DEF new
  <2>3. new[i] = [kind |-> kinds[i], id |-> id, text |-> text, line |-> taken, wanted |-> wanted]
    BY <2>2 DEF Event
  <2>4. kinds[i] \in Kind /\ kinds[i] \notin {"state", "error", "turn_end"}
    BY <2>1 DEF TurnKind, Kind
  <2> QED BY <1>3, <2>3, <2>4 DEF Events, IsOf, Final
<1>5. new \in Seq(Events) /\ Len(new) = Len(kinds)
  BY <1>1, <1>4
<1>6. events' = events \o new
  BY <1>2 DEF Collect
<1> HIDE DEF new
<1> DEFINE both == events \o new
<1>7. /\ events' = both
      /\ both \in Seq(Events) /\ Len(both) = Len(events) + Len(kinds)
      /\ \A i \in 1..Len(events) + Len(kinds) :
           both[i] = IF i <= Len(events) THEN events[i] ELSE new[i - Len(events)]
  <2>1. events' = both
    BY <1>6
  <2>2. /\ both \in Seq(Events) /\ Len(both) = Len(events) + Len(new)
        /\ \A i \in 1..Len(events) + Len(new) :
             both[i] = IF i <= Len(events) THEN events[i] ELSE new[i - Len(events)]
    <3>1. events \in Seq(Events) /\ new \in Seq(Events)
      BY <1>1, <1>5
    <3> HIDE DEF new
    <3> QED BY <3>1, ConcatProperties
  <2> QED BY <1>5, <2>1, <2>2
<1> HIDE DEF both
<1>8. ASSUME NEW i \in 1..Len(events')
      PROVE  IsOf(sent, taken, events'[i]) /\ ~Final(events'[i])
  <2>1. CASE i <= Len(events)
    BY <1>1, <1>7, <2>1 DEF AreOf
  <2>2. CASE i > Len(events)
    <3>1. i - Len(events) \in 1..Len(kinds) /\ i \in 1..Len(events) + Len(kinds)
      BY <1>1, <1>7, <2>2
    <3>2. PICK j \in 1..Len(kinds) : j = i - Len(events)
      BY <3>1
    <3>3. events'[i] = new[j]
      BY <1>1, <1>7, <2>2, <3>1, <3>2
    <3> QED BY <1>4, <3>3
  <2> QED BY <1>1, <1>7, <2>1, <2>2
<1> QED BY <1>4, <1>5, <1>6, <1>7, <1>8 DEF AreOf

\* An event of the provider is taken.
LEMMA StreamSteps ==
  ASSUME WireInv, TakeText \/ TakeCall \/ TakeDone \/ TakeError
  PROVE  WireInv'
<1> USE DEF WireInv
<1>1. /\ pc = "stream" /\ stream # <<>> /\ stream' = Tail(stream)
      /\ UNCHANGED <<sent, taken, wanted, output, open>>
  BY DEF TakeText, TakeCall, TakeDone, TakeError, InStream, client
<1>2. /\ stream \in Seq([event : STRING, text : Nat])
      /\ stream' \in Seq([event : STRING, text : Nat]) /\ Head(stream).text \in Nat
  <2>1. stream \in Seq([event : STRING, text : Nat])
    BY DEF Types
  <2>2. Head(stream) \in [event : STRING, text : Nat]
        /\ Tail(stream) \in Seq([event : STRING, text : Nat])
    BY <1>1, <2>1, HeadTailProperties
  <2> QED BY <1>1, <2>1, <2>2
<1>3. ASSUME events' \in Seq(Events), AreOf(sent, taken, events'), pc' \in {"stream", "close"}
      PROVE  WireInv'
  <2>1. Types'
    BY <1>1, <1>2, <1>3 DEF Types
  <2>2. Wired(sent', taken', output', events', pc', open')
    BY <1>1, <1>3 DEF Wired
  <2> QED BY <2>1, <2>2 DEF WireInv, Wired
<1>4. ASSUME NEW kinds \in Seq(TurnKind), NEW text \in Nat, GoOn(kinds, text)
      PROVE  WireInv'
  <2>1. "aborted" \in TurnKind
    BY DEF TurnKind
  <2>2. Append(kinds, "aborted") \in Seq(TurnKind)
    BY <2>1
  <2>3. Collect(kinds, text) \/ Collect(Append(kinds, "aborted"), text)
    BY <1>4 DEF GoOn
  <2>4. pc' \in {"stream", "close"}
    BY <1>4 DEF GoOn
  <2>5. events' \in Seq(Events) /\ AreOf(sent, taken, events')
    BY <1>1, <2>2, <2>3, CollectKeeps
  <2> QED BY <1>3, <2>4, <2>5
<1>5. CASE TakeText
  <2>1. <<"delta">> \in Seq(TurnKind)
    BY DEF TurnKind
  <2> QED BY <1>2, <1>4, <1>5, <2>1 DEF TakeText
<1>6. CASE TakeCall
  <2>1. PICK outcome \in {"tool_result", "tool_error"} : GoOn(<<"tool_started", outcome>>, 0)
    BY <1>6 DEF TakeCall
  <2>2. <<"tool_started", outcome>> \in Seq(TurnKind)
    BY DEF TurnKind
  <2> QED BY <1>4, <2>1, <2>2
<1>7. CASE TakeDone
  <2>1. events' = events /\ pc' = "close"
    BY <1>7 DEF TakeDone
  <2>2. events \in Seq(Events) /\ AreOf(sent, taken, events)
    BY <1>1 DEF Types, Wired
  <2> QED BY <1>3, <2>1, <2>2
<1>8. CASE TakeError
  <2>1. Collect(<<"provider_error">>, 0) /\ pc' = "close"
    BY <1>8 DEF TakeError
  <2>2. <<"provider_error">> \in Seq(TurnKind)
    BY DEF TurnKind
  <2> QED BY <1>1, <1>3, <2>1, <2>2, CollectKeeps
<1> QED BY <1>5, <1>6, <1>7, <1>8

\* The turn is answered by all it has collected, or by an error.
LEMMA CloseSteps ==
  ASSUME WireInv, CloseTurn
  PROVE  WireInv'
<1> USE DEF WireInv
<1>1. pc = "close" /\ sent' = sent /\ taken' = taken
  BY DEF CloseTurn, client
<1>2. /\ events \in Seq(Events) /\ Len(events) \in Nat
      /\ sent \in Seq(Line) /\ Len(sent) \in Nat /\ output \in Seq(Events)
      /\ open \in BOOLEAN /\ InOrder(sent, taken, output)
      /\ Serving(sent, taken) /\ AreOf(sent, taken, events)
      /\ open => Answering(sent, output, taken)
  BY <1>1, LenProperties DEF Types, Wired
<1>3. PICK id : id = IdOf(Current)
  OBVIOUS
<1>4. id \in Id /\ id = IdOf(sent[taken]) /\ taken \in Nat /\ wanted \in TextLists
  <2>1. taken \in 1..Len(sent)
    BY <1>2 DEF Serving
  <2>2. sent[taken] \in Line
    BY <1>2, <2>1
  <2> QED BY <1>2, <1>3, <2>1, <2>2 DEF Id, Current, Types
<1>5. ASSUME NEW new, Ends(sent, taken, new), Answer(new), NoTurn
      PROVE  WireInv'
  <2>1. /\ output' \in Seq(Events) /\ open' \in BOOLEAN
        /\ InOrder(sent, taken, output')
        /\ open' => Answers(sent, output', taken)
    BY <1>2, <1>4, <1>5, WriteAnswers DEF Answer
  <2>2. /\ stream' \in Seq([event : STRING, text : Nat])
        /\ events' \in Seq(Events) /\ wanted' \in TextLists
    BY <1>5 DEF NoTurn, TextLists
  <2>3. Types'
    BY <1>1, <2>1, <2>2 DEF Types
  <2>4. Wired(sent', taken', output', events', pc', open')
    BY <1>1, <1>5, <2>1 DEF Wired, Answer
  <2> QED BY <2>3, <2>4 DEF WireInv, Wired
<1>6. CASE TurnFails
  <2>1. PICK e : e = Single("error", NoId)
    OBVIOUS
  <2>2. e = [kind |-> "error", id |-> NoId, text |-> 0, line |-> taken, wanted |-> <<>>]
    BY <1>1, <2>1 DEF Single
  <2>3. "error" \in Kind /\ NoId \in Id /\ <<>> \in TextLists
    BY DEF Kind, Id, TextLists
  <2>4. e \in Events /\ IsOf(sent, taken, e) /\ Final(e)
    BY <1>4, <2>2, <2>3 DEF Events, IsOf, Final
  <2>5. Ends(sent, taken, <<e>>)
    <3>1. <<e>> \in Seq(Events) /\ Len(<<e>>) = 1 /\ <<e>>[1] = e
      BY <2>4
    <3>2. \A i \in 1..1 : i = 1
      OBVIOUS
    <3> QED BY <2>4, <3>1, <3>2 DEF Ends
  <2>6. Answer(<<e>>) /\ NoTurn
    BY <1>6, <2>1 DEF TurnFails
  <2> QED BY <1>5, <2>5, <2>6
<1>7. ASSUME Answer(events \o <<Event("last_delta", IdOf(Current), 0),
                                Event("turn_end", IdOf(Current), 0)>>),
             NoTurn
      PROVE  WireInv'
  <2>1. PICK e : e = Event("last_delta", IdOf(Current), 0)
    OBVIOUS
  <2>2. PICK f : f = Event("turn_end", IdOf(Current), 0)
    OBVIOUS
  <2>3. /\ e = [kind |-> "last_delta", id |-> id, text |-> 0, line |-> taken, wanted |-> wanted]
        /\ f = [kind |-> "turn_end", id |-> id, text |-> 0, line |-> taken, wanted |-> wanted]
    BY <1>3, <2>1, <2>2 DEF Event
  <2>4. "last_delta" \in Kind /\ "turn_end" \in Kind
    BY DEF Kind
  <2>5. /\ e \in Events /\ IsOf(sent, taken, e) /\ ~Final(e)
        /\ f \in Events /\ IsOf(sent, taken, f) /\ Final(f)
    BY <1>4, <2>3, <2>4 DEF Events, IsOf, Final
  <2>6. /\ <<e, f>> \in Seq(Events) /\ Len(<<e, f>>) = 2
        /\ <<e, f>>[1] = e /\ <<e, f>>[2] = f
    BY <2>5
  <2>7. PICK new : new = events \o <<e, f>>
    OBVIOUS
  <2>8. PICK last : last = <<e, f>>
    OBVIOUS
  <2>9. /\ new \in Seq(Events) /\ Len(new) = Len(events) + 2
        /\ \A i \in 1..Len(events) + 2 :
             new[i] = IF i <= Len(events) THEN events[i] ELSE last[i - Len(events)]
    BY <1>2, <2>6, <2>7, <2>8, ConcatProperties
  <2>10. ASSUME NEW i \in 1..Len(new)
         PROVE  IsOf(sent, taken, new[i]) /\ (Final(new[i]) <=> i = Len(new))
    <3>1. CASE i <= Len(events)
      <4>1. i \in 1..Len(events) /\ i # Len(new) /\ new[i] = events[i]
        BY <1>2, <2>9, <3>1
      <4> QED BY <1>2, <4>1 DEF AreOf
    <3>2. CASE i = Len(events) + 1
      <4>1. new[i] = last[1] /\ i # Len(new)
        BY <1>2, <2>9, <3>2
      <4> QED BY <2>5, <2>6, <2>8, <4>1
    <3>3. CASE i = Len(events) + 2
      <4>1. new[i] = last[2] /\ i = Len(new)
        BY <1>2, <2>9, <3>3
      <4> QED BY <2>5, <2>6, <2>8, <4>1
    <3> QED BY <1>2, <2>9, <3>1, <3>2, <3>3
  <2>11. Ends(sent, taken, new)
    BY <1>2, <2>9, <2>10 DEF Ends
  <2>12. Answer(new)
    BY <1>7, <2>1, <2>2, <2>7
  <2> QED BY <1>5, <1>7, <2>11, <2>12
<1> QED BY <1>6, <1>7 DEF CloseTurn

\* However the steps of the client, the loop and a turn mix, the counts hold.
THEOREM WireInvariance == Spec => []WireInv
<1>1. Init => WireInv
  <2> SUFFICES ASSUME Init PROVE WireInv
    OBVIOUS
  <2>1. Types
    BY DEF Init, Types, TextLists
  <2>2. Asked(sent, 0) = {} /\ Finals(output, 0) = {} /\ Len(output) = 0
    BY DEF Init, Asked, Finals
  <2> QED BY <2>1, <2>2 DEF Init, WireInv, Wired, InOrder, Answers
<1>2. WireInv /\ [Next]_vars => WireInv'
  BY ClientSteps, LineSteps, BeginSteps, StreamSteps, CloseSteps DEF Next
<1> QED BY <1>1, <1>2, PTL DEF Spec

\* A client can tell by counting which line an event is for, however far it reads
\* and whatever it goes on to write (run_rpc, lines 34-97 of rpc.rs).
THEOREM ToldByCounting == Spec => []AnswersInOrder
<1>1. WireInv => AnswersInOrder
  <2> SUFFICES ASSUME WireInv, NEW i \in 1..Len(output)
               PROVE  LET line == LineNumber(1 + Cardinality({j \in 1..i - 1 : Final(output[j])}))
                      IN /\ output[i].line = line
                         /\ output[i].id \in {NoId, ValueToString(sent[line].id)}
    BY DEF AnswersInOrder
  <2>1. Fits(sent, taken, output, i) /\ Types
    BY DEF WireInv, Wired, InOrder
  <2>2. PICK m : m = 1 + Cardinality(Finals(output, i - 1))
    OBVIOUS
  <2>3. PICK k : k = output[i].line
    OBVIOUS
  <2>4. /\ k \in 1..Len(sent) /\ Len(sent) \in Nat /\ sent[k].size # "blank"
        /\ Cardinality(Asked(sent, k)) = m
        /\ output[i].id \in {NoId, IdOf(sent[k])}
    BY <2>1, <2>2, <2>3, LenProperties DEF Fits, Types
  <2>5. LineNumber(m) \in 1..Len(sent) /\ sent[LineNumber(m)].size # "blank"
        /\ Cardinality(Asked(sent, LineNumber(m))) = m
    BY <2>4 DEF LineNumber, Asked
  <2>6. LineNumber(m) = k
    BY <2>4, <2>5, CountedOnce DEF Asked
  <2> QED BY <2>2, <2>3, <2>4, <2>6 DEF Finals, IdOf
<1> QED BY WireInvariance, <1>1, PTL

----------------------------------------------------------------------------
(* The texts of chosen members *)

\* A set of numbers has a least.
LEMMA Least ==
  ASSUME NEW T \in SUBSET Nat, T # {}
  PROVE  \E n \in T : \A m \in T : n <= m
<1>1. IsWellFoundedOn(OpToRel(<, Nat), Nat)
  BY NatLessThanWellFounded
<1>2. PICK n \in T : \A m \in T : ~(<<m, n>> \in OpToRel(<, Nat))
  BY <1>1, WFMin
<1>3. \A m \in T : m < n <=> <<m, n>> \in OpToRel(<, Nat)
  BY DEF OpToRel
<1>4. \A m \in T : ~(m < n)
  BY <1>2, <1>3, Zenon
<1> QED BY <1>4

\* A set that holds 0, and each number up to n after the one before, holds n.
LEMMA UpTo ==
  ASSUME NEW n \in Nat, NEW T, 0 \in T, \A k \in 0..n : k < n /\ k \in T => k + 1 \in T
  PROVE  \A k \in 0..n : k \in T
<1> DEFINE Bad == {k \in 0..n : k \notin T}
<1>1. SUFFICES ASSUME Bad # {} PROVE FALSE
  OBVIOUS
<1>2. PICK k \in Bad : \A j \in Bad : k <= j
  <2>1. Bad \in SUBSET Nat
    OBVIOUS
  <2> HIDE DEF Bad
  <2> QED BY <1>1, <2>1, Least
<1>3. k - 1 \in 0..n /\ k - 1 < n /\ k - 1 \notin Bad
  BY <1>2
<1>4. k - 1 + 1 \in T
  BY <1>3
<1> QED BY <1>2, <1>4

\* The texts of the first m members, if f has those of fewer; and f has.
TextsAt(f, s, chosen, m) ==
  IF m = 0 THEN <<>>
  ELSE IF m \in chosen THEN Append(f[m - 1], s[m].text) ELSE f[m - 1]

Follows(f, s, chosen, n) == \A m \in 0..n : f[m] = TextsAt(f, s, chosen, m)

\* The texts up to each number are defined by those up to the one before.
LEMMA TextsExist ==
  ASSUME NEW s, NEW chosen, NEW n \in Nat
  PROVE  \E f : f = [m \in 0..n |-> TextsAt(f, s, chosen, m)]
<1> DEFINE Defined == {k \in 0..n : \E f : f = [m \in 0..k |-> TextsAt(f, s, chosen, m)]}
<1>1. 0 \in Defined
  <2> DEFINE g == [m \in 0..0 |-> <<>>]
  <2>1. g = [m \in 0..0 |-> TextsAt(g, s, chosen, m)]
    BY DEF TextsAt
  <2> QED BY <2>1
<1>2. ASSUME NEW k \in 0..n, k < n, k \in Defined
      PROVE  k + 1 \in Defined
  <2>1. PICK f : f = [m \in 0..k |-> TextsAt(f, s, chosen, m)]
    BY <1>2
  <2> DEFINE g == [m \in 0..k + 1 |-> IF m = k + 1 THEN TextsAt(f, s, chosen, k + 1) ELSE f[m]]
  <2>2. ASSUME NEW m \in 0..k + 1
        PROVE  TextsAt(g, s, chosen, m) = TextsAt(f, s, chosen, m)
    <3>1. CASE m = 0
      BY <3>1 DEF TextsAt
    <3>2. CASE m # 0
      <4>1. g[m - 1] = f[m - 1]
        BY <3>2
      <4> HIDE DEF g
      <4> QED BY <3>2, <4>1 DEF TextsAt
    <3> QED BY <3>1, <3>2
  <2>3. \A m \in 0..k + 1 : g[m] = TextsAt(f, s, chosen, m)
    BY <2>1
  <2>4. g = [m \in 0..k + 1 |-> TextsAt(g, s, chosen, m)]
    BY <2>2, <2>3
  <2>5. k + 1 \in 0..n
    BY <1>2
  <2> QED BY <2>4, <2>5
<1>3. n \in Defined
  <2> HIDE DEF Defined
  <2> QED BY <1>1, <1>2, UpTo
<1> QED BY <1>3

\* Texts as one of those functions.
LEMMA TextsAre ==
  ASSUME NEW s, NEW chosen, NEW n \in Nat
  PROVE  \E f : /\ Texts(s, chosen, n) = f[n]
                /\ Follows(f, s, chosen, n)
<1> DEFINE texts == CHOOSE f : f = [m \in 0..n |-> TextsAt(f, s, chosen, m)]
<1>1. Texts(s, chosen, n) = texts[n]
  BY DEF Texts, TextsAt
<1>2. texts = [m \in 0..n |-> TextsAt(texts, s, chosen, m)]
  BY TextsExist
<1> HIDE DEF texts
<1>3. \A m \in 0..n : texts[m] = TextsAt(texts, s, chosen, m)
  BY <1>2
<1> QED BY <1>1, <1>3 DEF Follows

\* The functions for two bounds agree up to the lesser.
LEMMA TextsAgree ==
  ASSUME NEW s, NEW chosen, NEW n \in Nat, NEW f, NEW g,
         Follows(f, s, chosen, n), Follows(g, s, chosen, n)
  PROVE  f[n] = g[n]
<1> USE DEF Follows
<1> DEFINE Same == {m \in 0..n : f[m] = g[m]}
<1>1. 0 \in Same
  BY DEF TextsAt
<1>2. ASSUME NEW k \in 0..n, k < n, k \in Same
      PROVE  k + 1 \in Same
  <2>1. k + 1 \in 0..n /\ k + 1 # 0 /\ k + 1 - 1 = k
    BY <1>2
  <2>2. f[k] = g[k]
    BY <1>2
  <2> QED BY <2>1, <2>2 DEF TextsAt
<1>3. n \in Same
  <2> HIDE DEF Same
  <2> QED BY <1>1, <1>2, UpTo
<1> QED BY <1>3

\* One number more.
LEMMA TextsStep ==
  ASSUME NEW s, NEW chosen, NEW n \in Nat
  PROVE  /\ Texts(s, chosen, 0) = <<>>
         /\ Texts(s, chosen, n + 1) =
              IF n + 1 \in chosen THEN Append(Texts(s, chosen, n), s[n + 1].text)
                                  ELSE Texts(s, chosen, n)
<1>1. Texts(s, chosen, 0) = <<>>
  BY TextsAre DEF TextsAt, Follows
<1>2. PICK f : /\ Texts(s, chosen, n) = f[n]
               /\ Follows(f, s, chosen, n)
  BY TextsAre
<1>3. PICK k \in Nat : k = n + 1
  OBVIOUS
<1>4. PICK g : /\ Texts(s, chosen, k) = g[k]
               /\ Follows(g, s, chosen, k)
  BY TextsAre
<1>5. f[n] = g[n]
  <2>1. \A m \in 0..n : m \in 0..k
    BY <1>3
  <2>2. Follows(g, s, chosen, n)
    BY <1>4, <2>1 DEF Follows
  <2> QED BY <1>2, <2>2, TextsAgree
<1>6. g[k] = TextsAt(g, s, chosen, k) /\ k # 0 /\ k - 1 = n
  BY <1>3, <1>4 DEF Follows
<1> QED BY <1>1, <1>2, <1>3, <1>4, <1>5, <1>6 DEF TextsAt

\* They depend on the chosen members only.
LEMMA TextsSame ==
  ASSUME NEW s, NEW chosen, NEW t, NEW others, NEW n \in Nat,
         \A m \in 1..n : /\ m \in chosen <=> m \in others
                         /\ m \in chosen => s[m].text = t[m].text
  PROVE  Texts(s, chosen, n) = Texts(t, others, n)
<1> DEFINE Same == {m \in 0..n : Texts(s, chosen, m) = Texts(t, others, m)}
<1>1. 0 \in Same
  BY TextsStep
<1>2. ASSUME NEW k \in 0..n, k < n, k \in Same
      PROVE  k + 1 \in Same
  <2>1. k + 1 \in 1..n /\ k \in Nat /\ k + 1 \in 0..n
    BY <1>2
  <2>2. Texts(s, chosen, k) = Texts(t, others, k)
    BY <1>2
  <2>3. Texts(s, chosen, k + 1) = Texts(t, others, k + 1)
    BY <2>1, <2>2, TextsStep
  <2> QED BY <2>1, <2>3
<1>3. n \in Same
  <2> HIDE DEF Same
  <2> QED BY <1>1, <1>2, UpTo
<1> QED BY <1>3

\* If the chosen members have numbers for texts, these are a sequence of numbers.
LEMMA TextsTyped ==
  ASSUME NEW s, NEW chosen, NEW n \in Nat, \A m \in 1..n : m \in chosen => s[m].text \in Nat
  PROVE  Texts(s, chosen, n) \in Seq(Nat)
<1> DEFINE Typed == {m \in 0..n : Texts(s, chosen, m) \in Seq(Nat)}
<1>1. 0 \in Typed
  <2>1. <<>> \in Seq(Nat) /\ 0 \in 0..n
    OBVIOUS
  <2>2. Texts(s, chosen, 0) = <<>>
    BY TextsStep
  <2> QED BY <2>1, <2>2
<1>2. ASSUME NEW k \in 0..n, k < n, k \in Typed
      PROVE  k + 1 \in Typed
  <2>1. k + 1 \in 1..n /\ k \in Nat /\ k + 1 \in 0..n
    BY <1>2
  <2>2. Texts(s, chosen, k) \in Seq(Nat)
    BY <1>2
  <2>3. k + 1 \in chosen => Append(Texts(s, chosen, k), s[k + 1].text) \in Seq(Nat)
    BY <2>1, <2>2
  <2>4. Texts(s, chosen, k + 1) = IF k + 1 \in chosen
          THEN Append(Texts(s, chosen, k), s[k + 1].text) ELSE Texts(s, chosen, k)
    BY <2>1, TextsStep
  <2>5. Texts(s, chosen, k + 1) \in Seq(Nat)
    BY <2>2, <2>3, <2>4
  <2> QED BY <2>1, <2>5
<1>3. n \in Typed
  <2> HIDE DEF Typed
  <2> QED BY <1>1, <1>2, UpTo
<1> QED BY <1>3

\* Behind the first a members of s are the b of t, as far as texts go.
Joins(s, chosen, a, t, others, b) ==
  /\ \A m \in 1..a : m \in chosen => s[m].text \in Nat
  /\ \A m \in 1..b : m \in others => t[m].text \in Nat
  /\ \A m \in 1..b : /\ a + m \in chosen <=> m \in others
                     /\ m \in others => s[a + m].text = t[m].text

\* The texts of the first a members and of b more behind them.
LEMMA TextsJoin ==
  ASSUME NEW s, NEW chosen, NEW a \in Nat, NEW t, NEW others, NEW b \in Nat,
         Joins(s, chosen, a, t, others, b)
  PROVE  Texts(s, chosen, a + b) = Texts(s, chosen, a) \o Texts(t, others, b)
<1> USE DEF Joins
<1> DEFINE Joined ==
      {m \in 0..b : Texts(s, chosen, a + m) = Texts(s, chosen, a) \o Texts(t, others, m)}
<1>1. Texts(s, chosen, a) \in Seq(Nat)
  BY TextsTyped
<1>2. 0 \in Joined
  <2>1. Texts(s, chosen, a) \o <<>> = Texts(s, chosen, a)
    BY <1>1, ConcatEmptySeq
  <2>2. Texts(t, others, 0) = <<>>
    BY TextsStep
  <2>3. a + 0 = a /\ 0 \in 0..b
    OBVIOUS
  <2>4. Texts(s, chosen, a + 0) = Texts(s, chosen, a) \o Texts(t, others, 0)
    BY <2>1, <2>2, <2>3
  <2> QED BY <2>3, <2>4
<1>3. ASSUME NEW k \in 0..b, k < b, k \in Joined
      PROVE  k + 1 \in Joined
  <2>1. k + 1 \in 1..b /\ k \in Nat /\ k + 1 \in 0..b
    BY <1>3
  <2>2. Texts(s, chosen, a + k) = Texts(s, chosen, a) \o Texts(t, others, k)
    BY <1>3
  <2>3. Texts(t, others, k) \in Seq(Nat)
    <3>1. \A m \in 1..k : m \in 1..b
      BY <2>1
    <3> QED BY <2>1, <3>1, TextsTyped
  <2>4. Texts(s, chosen, a + (k + 1)) = IF k + 1 \in others
          THEN Append(Texts(s, chosen, a + k), t[k + 1].text) ELSE Texts(s, chosen, a + k)
    <3>1. PICK c \in Nat : c = a + k
      BY <2>1
    <3>2. c + 1 = a + (k + 1)
      BY <2>1, <3>1
    <3> QED BY <2>1, <3>1, <3>2, TextsStep
  <2>5. Texts(t, others, k + 1) = IF k + 1 \in others
          THEN Append(Texts(t, others, k), t[k + 1].text) ELSE Texts(t, others, k)
    BY <2>1, TextsStep
  <2>6. \A p, q \in Seq(Nat), x \in Nat : Append(p \o q, x) = p \o Append(q, x)
    <3> SUFFICES ASSUME NEW p \in Seq(Nat), NEW q \in Seq(Nat), NEW x \in Nat
                 PROVE  Append(p \o q, x) = p \o Append(q, x)
      OBVIOUS
    <3>1. p \o q \in Seq(Nat) /\ <<x>> \in Seq(Nat)
      BY ConcatProperties
    <3>2. Append(p \o q, x) = (p \o q) \o <<x>> /\ Append(q, x) = q \o <<x>>
      BY <3>1, AppendIsConcat
    <3> QED BY <3>1, <3>2, ConcatAssociative
  <2>7. Texts(s, chosen, a + (k + 1)) = Texts(s, chosen, a) \o Texts(t, others, k + 1)
    <3>1. CASE k + 1 \in others
      <4>1. t[k + 1].text \in Nat
        BY <2>1, <3>1
      <4> QED BY <1>1, <2>2, <2>3, <2>4, <2>5, <2>6, <3>1, <4>1
    <3>2. CASE k + 1 \notin others
      BY <2>2, <2>4, <2>5, <3>2
    <3> QED BY <3>1, <3>2
  <2> QED BY <2>1, <2>7
<1>4. b \in Joined
  <2> HIDE DEF Joined
  <2> QED BY <1>2, <1>3, UpTo
<1> QED BY <1>4


\* None chosen, no texts.
LEMMA TextsNone ==
  ASSUME NEW s, NEW chosen, NEW n \in Nat, \A m \in 1..n : m \notin chosen
  PROVE  Texts(s, chosen, n) = <<>>
<1> DEFINE Empty == {m \in 0..n : Texts(s, chosen, m) = <<>>}
<1>1. 0 \in Empty
  BY TextsStep
<1>2. ASSUME NEW k \in 0..n, k < n, k \in Empty
      PROVE  k + 1 \in Empty
  <2>1. k + 1 \in 1..n /\ k \in Nat /\ k + 1 \in 0..n
    BY <1>2
  <2>2. Texts(s, chosen, k) = <<>>
    BY <1>2
  <2>3. Texts(s, chosen, k + 1) = <<>>
    BY <2>1, <2>2, TextsStep
  <2> QED BY <2>1, <2>3
<1>3. n \in Empty
  <2> HIDE DEF Empty
  <2> QED BY <1>1, <1>2, UpTo
<1> QED BY <1>3

\* A text of one chosen member.
LEMMA TextsOne ==
  ASSUME NEW s, NEW chosen, 1 \in chosen => s[1].text \in Nat
  PROVE  Texts(s, chosen, 1) = IF 1 \in chosen THEN <<s[1].text>> ELSE <<>>
<1>1. PICK k \in Nat : k = 0
  OBVIOUS
<1>2. Texts(s, chosen, k + 1) = IF k + 1 \in chosen THEN Append(Texts(s, chosen, k), s[k + 1].text)
                                                   ELSE Texts(s, chosen, k)
  BY TextsStep
<1>3. Texts(s, chosen, k) = <<>> /\ k + 1 = 1
  BY <1>1, TextsStep
<1>4. 1 \in chosen => Append(<<>>, s[1].text) = <<s[1].text>>
  OBVIOUS
<1> QED BY <1>2, <1>3, <1>4

----------------------------------------------------------------------------
(* The texts of a turn *)

\* The texts of all the deltas of a sequence of events.
Deltas(s) == {j \in 1..Len(s) : s[j].kind = "delta"}
DeltaTexts(s) == Texts(s, Deltas(s), Len(s))

\* The texts of the first n events that a provider yields.
TextsBefore(s, n) == Texts(s, {j \in 1..Len(s) : s[j].event = "text"}, n)

\* The n-th event of a provider says that it is done, and none before it ends the turn.
DoneAt(s, n) == /\ s[n].event = "done"
                /\ \A m \in 1..n - 1 : s[m].event \in {"text", "call"}

\* The texts of a reply are those that are yielded before it is done.
Truth(s, texts) == \A n \in 1..Len(s) : DoneAt(s, n) => TextsBefore(s, n - 1) = texts
Truthful(reply) == Truth(reply.stream, reply.texts)

Bad(e) == e.kind \in {"provider_error", "aborted"}
Broken(s) == \E j \in 1..Len(s) : Bad(s[j])

\* TextsAreWhole of out.
Mine(out, i) == {j \in 1..Len(out) : out[j].line = out[i].line}
MyDeltas(out, i) == {j \in Mine(out, i) : out[j].kind = "delta"}
WholeAt(out, i) ==
  \/ \E j \in Mine(out, i) : Bad(out[j])
  \/ Texts(out, MyDeltas(out, i), Len(out)) = out[i].wanted
Whole(out) == \A i \in 1..Len(out) : out[i].kind = "turn_end" => WholeAt(out, i)

Below(out, n) == \A i \in 1..Len(out) : out[i].line < n

\* What a turn has collected, mine, and what it has still to take, coming, are the texts.
ToCome(mine, coming, texts) ==
  \A n \in 1..Len(coming) :
    DoneAt(coming, n) => DeltaTexts(mine) \o TextsBefore(coming, n - 1) = texts

WholeSoFar(out, n, mine, coming, texts, now) ==
  /\ Whole(out)
  /\ now \in {"stream", "close"} => Below(out, n)
  /\ now = "stream" => ToCome(mine, coming, texts)
  /\ now = "close" => Broken(mine) \/ DeltaTexts(mine) = texts

WholeInv == WholeSoFar(output, taken, events, stream, wanted, pc)

\* The texts of events are numbers.
LEMMA EventTexts ==
  ASSUME NEW s \in Seq(Events)
  PROVE  \A m \in 1..Len(s) : s[m].text \in Nat
<1> SUFFICES ASSUME NEW m \in 1..Len(s) PROVE s[m].text \in Nat
  OBVIOUS
<1>1. s[m] \in Events
  OBVIOUS
<1> QED BY <1>1 DEF Events

\* And those of what a provider yields.
Yield == [event : STRING, text : Nat]

\* As RepliesHaveTexts says it.
LEMMA YieldTexts ==
  ASSUME NEW s \in Seq([event : STRING, text : Nat])
  PROVE  \A m \in 1..Len(s) : s[m].text \in Nat
<1> SUFFICES ASSUME NEW m \in 1..Len(s) PROVE s[m].text \in Nat
  OBVIOUS
<1>1. s \in Seq(Yield)
  BY DEF Yield
<1>2. s[m] \in Yield
  BY <1>1
<1> QED BY <1>2 DEF Yield

\* Events behind others add their texts.
LEMMA DeltasJoin ==
  ASSUME NEW s \in Seq(Events), NEW t \in Seq(Events)
  PROVE  /\ DeltaTexts(s \o t) = DeltaTexts(s) \o DeltaTexts(t)
         /\ DeltaTexts(s) \in Seq(Nat)
<1>1. Len(s) \in Nat /\ Len(t) \in Nat
  BY LenProperties
<1>2. PICK both : both = s \o t
  OBVIOUS
<1>3. /\ Len(both) = Len(s) + Len(t)
      /\ \A i \in 1..Len(s) + Len(t) : both[i] = IF i <= Len(s) THEN s[i] ELSE t[i - Len(s)]
  BY <1>2, ConcatProperties
<1>4. \A m \in 1..Len(s) : both[m] = s[m] /\ (m \in Deltas(both) <=> m \in Deltas(s))
  <2>1. ASSUME NEW m \in 1..Len(s)
        PROVE  both[m] = s[m] /\ m \in 1..Len(both)
    BY <1>1, <1>3
  <2> QED BY <2>1 DEF Deltas
<1>5. \A m \in 1..Len(t) : /\ Len(s) + m \in Deltas(both) <=> m \in Deltas(t)
                           /\ both[Len(s) + m] = t[m]
  <2>1. ASSUME NEW m \in 1..Len(t)
        PROVE  both[Len(s) + m] = t[m] /\ Len(s) + m \in 1..Len(both)
    <3>1. Len(s) + m \in 1..Len(s) + Len(t) /\ ~(Len(s) + m <= Len(s)) /\ Len(s) + m - Len(s) = m
      BY <1>1
    <3> QED BY <1>3, <3>1
  <2> QED BY <2>1 DEF Deltas
<1>6. /\ \A m \in 1..Len(s) : s[m].text \in Nat
      /\ \A m \in 1..Len(t) : t[m].text \in Nat
  BY EventTexts
<1>7. Texts(both, Deltas(both), Len(s)) = DeltaTexts(s)
  BY <1>1, <1>4, TextsSame DEF DeltaTexts
<1>8. Texts(both, Deltas(both), Len(s) + Len(t)) =
        Texts(both, Deltas(both), Len(s)) \o Texts(t, Deltas(t), Len(t))
  <2>1. \A m \in 1..Len(s) : m \in Deltas(both) => both[m].text \in Nat
    BY <1>4, <1>6
  <2>2. \A m \in 1..Len(t) : m \in Deltas(t) => t[m].text \in Nat
    BY <1>6
  <2>3. \A m \in 1..Len(t) : /\ Len(s) + m \in Deltas(both) <=> m \in Deltas(t)
                             /\ m \in Deltas(t) => both[Len(s) + m].text = t[m].text
    BY <1>5
  <2>4. Joins(both, Deltas(both), Len(s), t, Deltas(t), Len(t))
    BY <2>1, <2>2, <2>3 DEF Joins
  <2> QED BY <1>1, <2>4, TextsJoin
<1>9. DeltaTexts(s) \in Seq(Nat)
  BY <1>1, <1>6, TextsTyped DEF DeltaTexts
<1> QED BY <1>2, <1>3, <1>7, <1>8, <1>9 DEF DeltaTexts

\* Events that are not deltas have no texts.
LEMMA NoDeltas ==
  ASSUME NEW s, Len(s) \in Nat, \A i \in 1..Len(s) : s[i].kind # "delta"
  PROVE  DeltaTexts(s) = <<>>
<1>1. \A m \in 1..Len(s) : m \notin Deltas(s)
  BY DEF Deltas
<1> QED BY <1>1, TextsNone DEF DeltaTexts

\* Events of a line that is later than all before, written after them: what was whole
\* stays whole, and the end of a turn among them is of their texts.
LEMMA WholeGrows ==
  ASSUME NEW out \in Seq(Events), NEW more \in Seq(Events), NEW k \in Nat,
         Whole(out), Below(out, k),
         \A i \in 1..Len(more) : more[i].line = k,
         \A i \in 1..Len(more) : more[i].kind = "turn_end" =>
           Broken(more) \/ DeltaTexts(more) = more[i].wanted
  PROVE  Whole(out \o more)
<1>1. Len(out) \in Nat /\ Len(more) \in Nat
  BY LenProperties
<1>2. PICK both : both = out \o more
  OBVIOUS
<1>3. /\ Len(both) = Len(out) + Len(more)
      /\ \A i \in 1..Len(out) + Len(more) :
           both[i] = IF i <= Len(out) THEN out[i] ELSE more[i - Len(out)]
  BY <1>2, ConcatProperties
<1>4. ASSUME NEW i \in 1..Len(out)
      PROVE  both[i] = out[i] /\ i \in 1..Len(both) /\ both[i].line < k
  <2>1. both[i] = out[i] /\ i \in 1..Len(both)
    BY <1>1, <1>3
  <2> QED BY <2>1 DEF Below
<1>5. ASSUME NEW i \in 1..Len(more)
      PROVE  /\ both[Len(out) + i] = more[i] /\ Len(out) + i \in 1..Len(both)
             /\ both[Len(out) + i].line = k
  <2>1. /\ Len(out) + i \in 1..Len(out) + Len(more) /\ ~(Len(out) + i <= Len(out))
        /\ Len(out) + i - Len(out) = i
    BY <1>1
  <2> QED BY <1>3, <2>1
<1>6. ASSUME NEW i \in 1..Len(both), i > Len(out)
      PROVE  \E j \in 1..Len(more) : i = Len(out) + j
  <2>1. i - Len(out) \in 1..Len(more) /\ i = Len(out) + (i - Len(out))
    BY <1>1, <1>3, <1>6
  <2> QED BY <2>1
<1>7. /\ \A m \in 1..Len(out) : out[m].text \in Nat
      /\ \A m \in 1..Len(more) : more[m].text \in Nat
  BY EventTexts
<1>8. ASSUME NEW p, NEW q, Joins(both, p, Len(out), more, q, Len(more))
      PROVE  Texts(both, p, Len(out) + Len(more)) =
               Texts(both, p, Len(out)) \o Texts(more, q, Len(more))
  BY <1>1, <1>8, TextsJoin
<1>9. ASSUME NEW i \in 1..Len(both), both[i].kind = "turn_end"
      PROVE  WholeAt(both, i)
  <2>1. CASE i <= Len(out)
    <3>1. i \in 1..Len(out) /\ both[i] = out[i] /\ out[i].line < k
      BY <1>1, <1>4, <2>1
    <3>2. Mine(both, i) = Mine(out, i)
      <4>1. ASSUME NEW j \in Mine(both, i)
            PROVE  j \in Mine(out, i)
        <5>1. j \in 1..Len(both) /\ both[j].line < k
          BY <3>1 DEF Mine
        <5>2. ASSUME NEW a \in 1..Len(more), j = Len(out) + a
              PROVE  FALSE
          BY <1>5, <5>1, <5>2
        <5>3. j <= Len(out)
          BY <1>1, <1>3, <1>6, <5>1, <5>2
        <5> QED BY <1>1, <1>4, <3>1, <5>1, <5>3 DEF Mine
      <4>2. ASSUME NEW j \in Mine(out, i)
            PROVE  j \in Mine(both, i)
        BY <1>4, <3>1 DEF Mine
      <4> QED BY <4>1, <4>2
    <3>3. \A j \in Mine(out, i) : j \in 1..Len(out) /\ both[j] = out[j]
      BY <1>4 DEF Mine
    <3>4. WholeAt(out, i)
      BY <1>9, <3>1 DEF Whole
    <3>5. MyDeltas(both, i) = MyDeltas(out, i)
      BY <3>2, <3>3 DEF MyDeltas
    <3>6. Texts(both, MyDeltas(both, i), Len(both)) = Texts(out, MyDeltas(out, i), Len(out))
      <4>1. Texts(both, MyDeltas(out, i), Len(out)) = Texts(out, MyDeltas(out, i), Len(out))
        <5>1. \A m \in 1..Len(out) : m \in MyDeltas(out, i) => both[m].text = out[m].text
          BY <1>4
        <5> QED BY <1>1, <5>1, TextsSame
      <4>2. Texts(both, MyDeltas(out, i), Len(out) + Len(more)) =
              Texts(both, MyDeltas(out, i), Len(out)) \o Texts(more, {}, Len(more))
        <5>1. \A m \in 1..Len(out) : m \in MyDeltas(out, i) => both[m].text \in Nat
          BY <1>4, <1>7
        <5>2. \A m \in 1..Len(more) : Len(out) + m \notin MyDeltas(out, i)
          BY <1>1 DEF MyDeltas, Mine
        <5>3. Joins(both, MyDeltas(out, i), Len(out), more, {}, Len(more))
          BY <5>1, <5>2 DEF Joins
        <5> QED BY <1>8, <5>3
      <4>3. Texts(more, {}, Len(more)) = <<>>
        BY <1>1, TextsNone
      <4>4. Texts(out, MyDeltas(out, i), Len(out)) \in Seq(Nat)
        BY <1>1, <1>7, TextsTyped
      <4>5. \A p \in Seq(Nat) : p \o <<>> = p
        BY ConcatEmptySeq
      <4> QED BY <1>3, <3>5, <4>1, <4>2, <4>3, <4>4, <4>5
    <3>7. CASE \E j \in Mine(out, i) : Bad(out[j])
      BY <3>2, <3>3, <3>7 DEF WholeAt
    <3>8. CASE Texts(out, MyDeltas(out, i), Len(out)) = out[i].wanted
      BY <3>1, <3>6, <3>8 DEF WholeAt
    <3> QED BY <3>4, <3>7, <3>8 DEF WholeAt
  <2>2. CASE i > Len(out)
    <3>1. PICK c \in 1..Len(more) : i = Len(out) + c
      BY <1>6, <2>2
    <3>2. both[i] = more[c] /\ both[i].line = k
      BY <1>5, <3>1
    <3>3. Broken(more) \/ DeltaTexts(more) = both[i].wanted
      BY <1>9, <3>2
    <3>4. \A j \in 1..Len(more) : Len(out) + j \in Mine(both, i) /\ both[Len(out) + j] = more[j]
      BY <1>5, <3>2 DEF Mine
    <3>5. \A j \in 1..Len(out) : j \notin Mine(both, i)
      <4>1. ASSUME NEW j \in 1..Len(out)
            PROVE  both[j].line # k
        <5>1. both[j].line < k /\ both[j].line \in Nat
          <6>1. out[j] \in Events
            OBVIOUS
          <6> QED BY <1>4, <6>1 DEF Events
        <5> QED BY <5>1
      <4> QED BY <3>2, <4>1 DEF Mine
    <3>6. CASE Broken(more)
      <4>1. PICK j \in 1..Len(more) : Bad(more[j])
        BY <3>6 DEF Broken
      <4> QED BY <3>4, <4>1 DEF WholeAt
    <3>7. CASE DeltaTexts(more) = both[i].wanted
      <4>1. \A m \in 1..Len(out) : m \notin MyDeltas(both, i)
        BY <3>5 DEF MyDeltas
      <4>2. \A m \in 1..Len(more) : Len(out) + m \in MyDeltas(both, i) <=> m \in Deltas(more)
        BY <3>4 DEF MyDeltas, Deltas
      <4>3. Texts(both, MyDeltas(both, i), Len(out) + Len(more)) =
              Texts(both, MyDeltas(both, i), Len(out)) \o Texts(more, Deltas(more), Len(more))
        <5>1. \A m \in 1..Len(more) :
                /\ Len(out) + m \in MyDeltas(both, i) <=> m \in Deltas(more)
                /\ m \in Deltas(more) => both[Len(out) + m].text = more[m].text
          BY <3>4, <4>2
        <5>2. \A m \in 1..Len(more) : m \in Deltas(more) => more[m].text \in Nat
          BY <1>7
        <5>3. \A m \in 1..Len(out) : m \in MyDeltas(both, i) => both[m].text \in Nat
          BY <4>1
        <5>4. Joins(both, MyDeltas(both, i), Len(out), more, Deltas(more), Len(more))
          BY <5>1, <5>2, <5>3 DEF Joins
        <5> QED BY <1>8, <5>4
      <4>4. Texts(both, MyDeltas(both, i), Len(out)) = <<>>
        BY <1>1, <4>1, TextsNone
      <4>5. Texts(more, Deltas(more), Len(more)) \in Seq(Nat)
        BY <1>1, <1>7, TextsTyped
      <4>6. \A p \in Seq(Nat) : <<>> \o p = p
        BY ConcatEmptySeq
      <4> QED BY <1>3, <3>7, <4>3, <4>4, <4>5, <4>6 DEF WholeAt, DeltaTexts
    <3> QED BY <3>3, <3>6, <3>7
  <2> QED BY <1>1, <2>1, <2>2
<1> QED BY <1>2, <1>9 DEF Whole


\* What a turn has collected and has still to take is as much after it takes a text or
\* a tool call.
LEMMA TakeOne ==
  ASSUME NEW s \in Seq([event : STRING, text : Nat]), s # <<>>,
         Head(s).event \in {"text", "call"},
         NEW n \in 1..Len(Tail(s)), DoneAt(Tail(s), n)
  PROVE  /\ n + 1 \in 1..Len(s) /\ DoneAt(s, n + 1)
         /\ TextsBefore(s, n) =
              (IF Head(s).event = "text" THEN <<Head(s).text>> ELSE <<>>)
                \o TextsBefore(Tail(s), n - 1)
<1>1. PICK t : t = Tail(s)
  OBVIOUS
<1>2. /\ s \in Seq(Yield) /\ t \in Seq(Yield) /\ Len(s) \in Nat /\ Len(s) # 0
      /\ Head(s) = s[1] /\ Len(t) = Len(s) - 1
      /\ \A i \in 1..Len(t) : t[i] = s[i + 1]
  <2>1. s \in Seq(Yield)
    BY DEF Yield
  <2> QED BY <1>1, <2>1, HeadTailProperties, LenProperties
<1>3. n \in 1..Len(t) /\ DoneAt(t, n)
  BY <1>1
<1>4. PICK k \in Nat : n = k + 1
  <2>1. n - 1 \in Nat
    BY <1>2, <1>3
  <2> QED BY <2>1
<1>5. n \in Nat /\ n - 1 = k /\ n + 1 - 1 = n /\ n + 1 \in 1..Len(s)
  BY <1>2, <1>3, <1>4
<1>6. s[n + 1] = t[n]
  BY <1>2, <1>3
<1>7. \A m \in 1..n : s[m].event \in {"text", "call"}
  <2>1. ASSUME NEW m \in 1..n
        PROVE  s[m].event \in {"text", "call"}
    <3>1. CASE m = 1
      BY <1>2, <3>1
    <3>2. CASE m # 1
      <4>1. m - 1 \in 1..n - 1 /\ m - 1 \in 1..Len(t) /\ m - 1 + 1 = m
        BY <1>2, <1>3, <3>2
      <4>2. t[m - 1].event \in {"text", "call"} /\ t[m - 1] = s[m]
        BY <1>2, <1>3, <4>1 DEF DoneAt
      <4> QED BY <4>2
    <3> QED BY <3>1, <3>2
  <2> QED BY <2>1
<1>8. DoneAt(s, n + 1)
  BY <1>3, <1>5, <1>6, <1>7 DEF DoneAt
<1>9. PICK p : p = {j \in 1..Len(s) : s[j].event = "text"}
  OBVIOUS
<1>10. PICK q : q = {j \in 1..Len(t) : t[j].event = "text"}
  OBVIOUS
<1>11. \A m \in 1..Len(s) : s[m].text \in Nat
  BY YieldTexts
<1>12. \A m \in 1..Len(t) : t[m].text \in Nat
  <2>1. \A m \in 1..Len(t) : m + 1 \in 1..Len(s)
    BY <1>2
  <2> QED BY <1>2, <1>11, <2>1
<1>13. Joins(s, p, 1, t, q, k)
  <2>1. \A m \in 1..1 : s[m].text \in Nat
    BY <1>2, <1>11
  <2>2. \A m \in 1..k : m \in 1..Len(t)
    BY <1>2, <1>3, <1>4
  <2>3. \A m \in 1..Len(t) : 1 + m \in 1..Len(s) /\ 1 + m = m + 1 /\ t[m] = s[m + 1]
    BY <1>2
  <2>4. \A m \in 1..k : 1 + m \in p <=> m \in q
    BY <1>9, <1>10, <2>2, <2>3
  <2>5. \A m \in 1..k : s[1 + m].text = t[m].text
    BY <2>2, <2>3
  <2> QED BY <1>12, <2>1, <2>2, <2>4, <2>5 DEF Joins
<1>14. Texts(s, p, 1 + k) = Texts(s, p, 1) \o Texts(t, q, k)
  BY <1>13, TextsJoin
<1>15. 1 \in p <=> Head(s).event = "text"
  BY <1>2, <1>9
<1>16. 1 \in 1..Len(s)
  BY <1>2
<1>17. Texts(s, p, 1) = IF Head(s).event = "text" THEN <<Head(s).text>> ELSE <<>>
  BY <1>2, <1>11, <1>15, <1>16, TextsOne
<1>18. 1 + k = n
  BY <1>4
<1> QED BY <1>1, <1>5, <1>8, <1>9, <1>10, <1>14, <1>17, <1>18 DEF TextsBefore

\* Nothing comes before the first event.
LEMMA DoneFirst ==
  ASSUME NEW mine \in Seq(Events), NEW coming \in Seq([event : STRING, text : Nat]),
         NEW texts, coming # <<>>, Head(coming).event = "done", ToCome(mine, coming, texts)
  PROVE  DeltaTexts(mine) = texts
<1>1. 1 \in 1..Len(coming) /\ coming[1].event = "done"
  <2>1. Len(coming) \in Nat /\ Len(coming) # 0 /\ coming[1] = Head(coming)
    BY HeadTailProperties, LenProperties
  <2> QED BY <2>1
<1>2. PICK k \in Nat : k = 0
  OBVIOUS
<1>3. 1 - 1 = k /\ (\A m \in 1..k : FALSE)
  BY <1>2
<1>4. DoneAt(coming, 1)
  BY <1>1, <1>3 DEF DoneAt
<1>5. DeltaTexts(mine) \o TextsBefore(coming, k) = texts
  BY <1>1, <1>3, <1>4 DEF ToCome
<1>6. TextsBefore(coming, k) = <<>>
  BY <1>2, TextsStep DEF TextsBefore
<1>7. DeltaTexts(mine) \in Seq(Nat)
  BY DeltasJoin
<1> QED BY <1>5, <1>6, <1>7, ConcatEmptySeq


\* Write of events of a line later than those that are written.
LEMMA WriteWhole ==
  ASSUME output \in Seq(Events), Whole(output), NEW k \in Nat, Below(output, k),
         NEW new \in Seq(Events), \A i \in 1..Len(new) : new[i].line = k,
         \A i \in 1..Len(new) : new[i].kind = "turn_end" =>
           i = Len(new) /\ (Broken(new) \/ DeltaTexts(new) = new[i].wanted),
         Write(new)
  PROVE  Whole(output')
<1>1. CASE ~open
  BY <1>1 DEF Write
<1>2. CASE open
  <2>1. PICK n \in 0..Len(new) : output' = output \o SubSeq(new, 1, n)
    BY <1>2 DEF Write
  <2>2. PICK more : more = SubSeq(new, 1, n)
    OBVIOUS
  <2>3. Len(new) \in Nat
    BY LenProperties
  <2>4. /\ more \in Seq(Events) /\ Len(more) = n
        /\ \A i \in 1..n : more[i] = new[i] /\ i \in 1..Len(new)
    BY <2>2, <2>3, SubSeqProperties
  <2>5. \A i \in 1..Len(more) : more[i].line = k
    BY <2>4
  <2>6. ASSUME NEW i \in 1..Len(more), more[i].kind = "turn_end"
        PROVE  Broken(more) \/ DeltaTexts(more) = more[i].wanted
    <3>1. i = Len(new) /\ n = Len(new) /\ more[i] = new[i]
      BY <2>3, <2>4, <2>6
    <3>2. more = new
      BY <2>3, <2>4, <3>1
    <3> QED BY <2>6, <3>2
  <2>7. Whole(output \o more)
    BY <2>4, <2>5, <2>6, WholeGrows
  <2> QED BY <2>1, <2>2, <2>7
<1> QED BY <1>1, <1>2

\* What is written is of the lines that have been read.
LEMMA ReadBefore ==
  ASSUME WireInv
  PROVE  taken + 1 \in Nat /\ taken \in Nat /\ Below(output, taken + 1)
<1>1. taken \in Nat /\ Len(sent) \in Nat
  BY LenProperties DEF WireInv, Types
<1>2. ASSUME NEW i \in 1..Len(output)
      PROVE  output[i].line < taken + 1
  <2>1. Fits(sent, taken, output, i)
    BY DEF WireInv, Wired, InOrder
  <2> QED BY <1>1, <2>1 DEF Fits
<1> QED BY <1>1, <1>2 DEF Below

\* An answer of one event.
LEMMA SingleWhole ==
  ASSUME WireInv, Whole(output), Below(output, taken'), taken' \in Nat,
         NEW kind \in {"state", "error"}, NEW id \in Id, Write(<<Single(kind, id)>>)
  PROVE  Whole(output')
<1>1. PICK k : k = taken'
  OBVIOUS
<1>2. PICK e : e = Single(kind, id)
  OBVIOUS
<1>3. e = [kind |-> kind, id |-> id, text |-> 0, line |-> k, wanted |-> <<>>]
  BY <1>1, <1>2 DEF Single
<1>4. k \in Nat /\ <<>> \in TextLists /\ kind \in Kind
  BY <1>1 DEF TextLists, Kind
<1>5. e \in Events /\ e.line = k /\ e.kind # "turn_end"
  BY <1>3, <1>4 DEF Events
<1>6. PICK new : new = <<e>>
  OBVIOUS
<1>7. /\ new \in Seq(Events)
      /\ \A i \in 1..Len(new) : new[i].line = k /\ new[i].kind # "turn_end"
  BY <1>5, <1>6
<1>8. Write(new) /\ Below(output, k) /\ output \in Seq(Events)
  BY <1>1, <1>2, <1>6 DEF WireInv, Types
<1> QED BY <1>4, <1>7, <1>8, WriteWhole

\* A line that is read and does not begin a turn.
LEMMA LineWhole ==
  ASSUME WireInv, WholeInv, NEW line \in Line, Read(line)
  PROVE  /\ Whole(output) /\ Below(output, taken') /\ taken' \in Nat
         /\ ReadFails(line) \/ Skip(line) \/ RefuseLine(line) \/ AnswerState(line) => WholeInv'
<1>1. /\ Whole(output) /\ taken' = taken + 1
  BY DEF WholeInv, WholeSoFar, Read
<1>2. Below(output, taken') /\ taken' \in Nat
  BY <1>1, ReadBefore
<1>3. ASSUME Whole(output'), pc' \in {"read", "ended"}
      PROVE  WholeInv'
  BY <1>3 DEF WholeInv, WholeSoFar
<1>4. pc = "read"
  BY DEF Read
<1>5. CASE ReadFails(line) \/ Skip(line)
  <2>1. output' = output /\ pc' \in {"read", "ended"}
    BY <1>4, <1>5 DEF ReadFails, Skip
  <2> QED BY <1>1, <1>2, <1>3, <2>1
<1>6. NoId \in Id /\ IdOf(line) \in Id
  BY DEF Id
<1>7. CASE RefuseLine(line)
  <2>1. Write(<<Single("error", NoId)>>) /\ pc' \in {"read", "ended"}
    BY <1>7 DEF RefuseLine, Refuse
  <2>2. Whole(output')
    BY <1>1, <1>2, <1>6, <2>1, SingleWhole
  <2> QED BY <1>1, <1>2, <1>3, <2>1, <2>2
<1>8. CASE AnswerState(line)
  <2>1. PICK kind \in {"state", "error"}, id \in {NoId, IdOf(line)} :
          Write(<<Single(kind, id)>>)
    BY <1>8 DEF AnswerState, Answer
  <2>2. pc' = "read"
    BY <1>8 DEF AnswerState, Answer
  <2>3. Whole(output')
    BY <1>1, <1>2, <1>6, <2>1, SingleWhole
  <2> QED BY <1>1, <1>2, <1>3, <2>2, <2>3
<1> QED BY <1>1, <1>2, <1>5, <1>7, <1>8

\* A turn that begins has everything still to take.
LEMMA BeginWhole ==
  ASSUME WireInv, WholeInv, \A reply \in Replies : Truthful(reply),
         NEW line \in Line, BeginTurn(line)
  PROVE  WholeInv'
<1>1. Read(line)
  BY DEF BeginTurn, Request
<1>2. Whole(output) /\ Below(output, taken') /\ taken' \in Nat
  BY <1>1, LineWhole
<1>3. CASE TurnFails
  <2>1. Write(<<Single("error", NoId)>>) /\ pc' = "read" /\ NoId \in Id
    BY <1>3 DEF TurnFails, Answer, Id
  <2>2. Whole(output')
    BY <1>2, <2>1, SingleWhole
  <2> QED BY <2>1, <2>2 DEF WholeInv, WholeSoFar
<1>4. ASSUME NEW reply \in Replies,
             pc' = "stream" /\ stream' = reply.stream /\ wanted' = reply.texts,
             events' = <<[kind |-> "turn_start", id |-> IdOf(line), text |-> 0,
                          line |-> taken', wanted |-> reply.texts]>>,
             UNCHANGED <<output, open>>
      PROVE  WholeInv'
  <2>1. PICK mine : mine = events'
    OBVIOUS
  <2>2. Len(mine) = 1 /\ mine[1].kind = "turn_start"
    BY <1>4, <2>1
  <2>3. \A i \in 1..Len(mine) : mine[i].kind # "delta"
    BY <2>2
  <2>4. DeltaTexts(mine) = <<>>
    BY <2>2, <2>3, NoDeltas
  <2>5. PICK coming \in Seq([event : STRING, text : Nat]) : coming = reply.stream
    BY RepliesHaveTexts
  <2>6. ASSUME NEW n \in 1..Len(coming), DoneAt(coming, n)
        PROVE  DeltaTexts(mine) \o TextsBefore(coming, n - 1) = reply.texts
    <3>1. TextsBefore(coming, n - 1) = reply.texts
      BY <2>5, <2>6 DEF Truthful, Truth
    <3>2. PICK k \in Nat : k = n - 1
      BY <2>5, LenProperties
    <3>3. TextsBefore(coming, k) \in Seq(Nat)
      <4>1. \A m \in 1..k : m \in 1..Len(coming)
        BY <2>5, <3>2, LenProperties
      <4>2. \A m \in 1..Len(coming) : coming[m].text \in Nat
        BY <2>5, YieldTexts
      <4> QED BY <4>1, <4>2, TextsTyped DEF TextsBefore
    <3> QED BY <2>4, <3>1, <3>2, <3>3, ConcatEmptySeq
  <2>7. ToCome(mine, coming, reply.texts)
    BY <2>6 DEF ToCome
  <2>8. WholeSoFar(output, taken', mine, coming, reply.texts, "stream")
    BY <1>2, <2>7 DEF WholeSoFar
  <2> QED BY <1>4, <2>1, <2>5, <2>8 DEF WholeInv
<1> QED BY <1>3, <1>4 DEF BeginTurn


\* What a turn collects adds its texts.
LEMMA CollectAdds ==
  ASSUME WireInv, pc = "stream", NEW kinds \in Seq(TurnKind), NEW text \in Nat,
         Collect(kinds, text)
  PROVE  /\ (\A i \in 1..Len(kinds) : kinds[i] # "delta") =>
              DeltaTexts(events') = DeltaTexts(events)
         /\ kinds = <<"delta">> => DeltaTexts(events') = DeltaTexts(events) \o <<text>>
         /\ (\E i \in 1..Len(kinds) : kinds[i] \in {"provider_error", "aborted"}) =>
              Broken(events')
<1>1. PICK new \in Seq(Events) :
        /\ events' = events \o new /\ Len(new) = Len(kinds)
        /\ \A i \in 1..Len(kinds) : new[i].kind = kinds[i] /\ new[i].text = text
  BY CollectKeeps
<1>2. events \in Seq(Events) /\ Len(events) \in Nat /\ Len(new) \in Nat
  BY LenProperties DEF WireInv, Types
<1>3. DeltaTexts(events') = DeltaTexts(events) \o DeltaTexts(new) /\ DeltaTexts(events) \in Seq(Nat)
  BY <1>1, <1>2, DeltasJoin
<1>4. ASSUME \A i \in 1..Len(kinds) : kinds[i] # "delta"
      PROVE  DeltaTexts(events') = DeltaTexts(events)
  <2>1. DeltaTexts(new) = <<>>
    BY <1>1, <1>2, <1>4, NoDeltas
  <2> QED BY <1>3, <2>1, ConcatEmptySeq
<1>5. ASSUME kinds = <<"delta">>
      PROVE  DeltaTexts(events') = DeltaTexts(events) \o <<text>>
  <2>1. Len(kinds) = 1 /\ kinds[1] = "delta"
    BY <1>5
  <2>2. Len(new) = 1 /\ new[1].kind = "delta" /\ new[1].text = text /\ 1 \in 1..1
    BY <1>1, <2>1
  <2>3. 1 \in Deltas(new)
    BY <2>2 DEF Deltas
  <2>4. DeltaTexts(new) = <<text>>
    BY <2>2, <2>3, TextsOne DEF DeltaTexts
  <2> QED BY <1>3, <2>4
<1>6. ASSUME NEW i \in 1..Len(kinds), kinds[i] \in {"provider_error", "aborted"}
      PROVE  Broken(events')
  <2>1. PICK n \in Nat : n = Len(events) + i
    BY <1>2
  <2>2. n \in 1..Len(events') /\ events'[n] = new[i]
    <3>1. PICK both : both = events \o new
      OBVIOUS
    <3>2. /\ Len(both) = Len(events) + Len(new)
          /\ \A j \in 1..Len(events) + Len(new) :
               both[j] = IF j <= Len(events) THEN events[j] ELSE new[j - Len(events)]
      BY <1>2, <3>1, ConcatProperties
    <3>3. n \in 1..Len(events) + Len(new) /\ ~(n <= Len(events)) /\ n - Len(events) = i
      BY <1>1, <1>2, <2>1
    <3> QED BY <1>1, <3>1, <3>2, <3>3
  <2>3. Bad(events'[n])
    BY <1>1, <1>6, <2>2 DEF Bad
  <2> QED BY <2>2, <2>3 DEF Broken
<1> QED BY <1>4, <1>5, <1>6

\* What is taken moves from what is to come to what is collected; or the turn is broken.
LEMMA StreamWhole ==
  ASSUME WireInv, WholeInv, TakeText \/ TakeCall \/ TakeDone \/ TakeError
  PROVE  WholeInv'
<1>1. /\ pc = "stream" /\ stream # <<>> /\ stream' = Tail(stream)
      /\ UNCHANGED <<sent, taken, wanted, output>>
  BY DEF TakeText, TakeCall, TakeDone, TakeError, InStream, client
<1>2. /\ stream \in Seq([event : STRING, text : Nat])
      /\ Tail(stream) \in Seq([event : STRING, text : Nat])
      /\ Len(Tail(stream)) \in Nat /\ Head(stream).text \in Nat
      /\ events \in Seq(Events) /\ events' \in Seq(Events)
  <2>1. stream \in Seq([event : STRING, text : Nat]) /\ events \in Seq(Events)
    BY DEF WireInv, Types
  <2>2. /\ Tail(stream) \in Seq([event : STRING, text : Nat])
        /\ Head(stream) = stream[1] /\ 1 \in 1..Len(stream)
    <3>1. Len(stream) \in Nat /\ Len(stream) # 0
      BY <1>1, <2>1, LenProperties
    <3> QED BY <1>1, <2>1, <3>1, HeadTailProperties
  <2>3. Head(stream).text \in Nat
    BY <2>1, <2>2, YieldTexts
  <2>4. events' \in Seq(Events)
    BY StreamSteps DEF WireInv, Types
  <2> QED BY <2>1, <2>2, <2>3, <2>4, LenProperties
<1>3. Whole(output) /\ Below(output, taken) /\ ToCome(events, stream, wanted)
  BY <1>1 DEF WholeInv, WholeSoFar
<1>4. ASSUME \/ pc' = "stream" /\ ToCome(events', Tail(stream), wanted)
             \/ pc' = "close" /\ (Broken(events') \/ DeltaTexts(events') = wanted)
      PROVE  WholeInv'
  BY <1>1, <1>3, <1>4 DEF WholeInv, WholeSoFar
<1>5. ASSUME NEW kinds \in Seq(TurnKind), NEW text \in Nat, GoOn(kinds, text),
             Collect(kinds, text) => ToCome(events', Tail(stream), wanted)
      PROVE  WholeInv'
  <2>1. CASE aborts > 0
    <3>1. pc' = "close" /\ Collect(Append(kinds, "aborted"), text)
      BY <1>5, <2>1 DEF GoOn
    <3>2. "aborted" \in TurnKind /\ Len(kinds) \in Nat
      BY LenProperties DEF TurnKind
    <3>3. Append(kinds, "aborted") \in Seq(TurnKind)
      BY <3>2
    <3>4. PICK all \in Seq(TurnKind) : all = Append(kinds, "aborted")
      BY <3>3
    <3>5. Len(kinds) + 1 \in 1..Len(all) /\ all[Len(kinds) + 1] = "aborted"
      BY <3>2, <3>4, AppendProperties
    <3>6. Broken(events')
      BY <1>1, <1>5, <3>1, <3>4, <3>5, CollectAdds
    <3> QED BY <1>4, <3>1, <3>6
  <2>2. CASE ~(aborts > 0)
    BY <1>4, <1>5, <2>2 DEF GoOn
  <2> QED BY <2>1, <2>2
<1>6. ASSUME NEW n \in 1..Len(Tail(stream)), DoneAt(Tail(stream), n),
             Head(stream).event \in {"text", "call"}
      PROVE  /\ DeltaTexts(events) \o
                  ((IF Head(stream).event = "text" THEN <<Head(stream).text>> ELSE <<>>)
                     \o TextsBefore(Tail(stream), n - 1)) = wanted
             /\ TextsBefore(Tail(stream), n - 1) \in Seq(Nat)
             /\ DeltaTexts(events) \in Seq(Nat)
  <2>1. /\ n + 1 \in 1..Len(stream) /\ DoneAt(stream, n + 1)
        /\ TextsBefore(stream, n) =
             (IF Head(stream).event = "text" THEN <<Head(stream).text>> ELSE <<>>)
               \o TextsBefore(Tail(stream), n - 1)
    BY <1>1, <1>2, <1>6, TakeOne
  <2>2. PICK next \in Nat : next = n + 1 /\ next - 1 = n
    BY <1>2
  <2>3. DeltaTexts(events) \o TextsBefore(stream, next - 1) = wanted
    BY <1>3, <2>1, <2>2 DEF ToCome
  <2>4. DeltaTexts(events) \o TextsBefore(stream, n) = wanted
    BY <2>2, <2>3
  <2>5. PICK k \in Nat : k = n - 1
    BY <1>2
  <2>6. PICK rest \in Seq([event : STRING, text : Nat]) : rest = Tail(stream)
    BY <1>2
  <2>7. TextsBefore(rest, k) \in Seq(Nat)
    <3>1. \A m \in 1..k : m \in 1..Len(rest)
      BY <1>2, <2>5, <2>6
    <3>2. \A m \in 1..Len(rest) : rest[m].text \in Nat
      BY YieldTexts
    <3> QED BY <3>1, <3>2, TextsTyped DEF TextsBefore
  <2>8. DeltaTexts(events) \in Seq(Nat)
    BY <1>2, DeltasJoin
  <2> QED BY <2>1, <2>4, <2>5, <2>6, <2>7, <2>8
<1>7. CASE TakeText
  <2>1. Head(stream).event = "text" /\ GoOn(<<"delta">>, Head(stream).text)
    BY <1>7 DEF TakeText, InStream
  <2>2. PICK text \in Nat : text = Head(stream).text
    BY <1>2
  <2>3. PICK kinds : kinds = <<"delta">>
    OBVIOUS
  <2>4. kinds \in Seq(TurnKind)
    BY <2>3 DEF TurnKind
  <2>5. ASSUME Collect(kinds, text)
        PROVE  ToCome(events', Tail(stream), wanted)
    <3>1. DeltaTexts(events') = DeltaTexts(events) \o <<text>>
      BY <1>1, <2>3, <2>4, <2>5, CollectAdds
    <3>2. ASSUME NEW n \in 1..Len(Tail(stream)), DoneAt(Tail(stream), n)
          PROVE  DeltaTexts(events') \o TextsBefore(Tail(stream), n - 1) = wanted
      <4>1. PICK rest \in Seq(Nat) : rest = TextsBefore(Tail(stream), n - 1)
        BY <1>6, <2>1, <3>2
      <4>2. PICK mine \in Seq(Nat) : mine = DeltaTexts(events)
        BY <1>2, DeltasJoin
      <4>3. mine \o (<<text>> \o rest) = wanted
        BY <1>6, <2>1, <2>2, <3>2, <4>1, <4>2
      <4>4. <<text>> \in Seq(Nat)
        OBVIOUS
      <4>5. (mine \o <<text>>) \o rest = mine \o (<<text>> \o rest)
        BY <4>4, ConcatAssociative
      <4> QED BY <3>1, <4>1, <4>2, <4>3, <4>5
    <3> QED BY <3>2 DEF ToCome
  <2> QED BY <1>5, <2>1, <2>2, <2>3, <2>4, <2>5
<1>8. CASE TakeCall
  <2>1. Head(stream).event = "call"
    BY <1>8 DEF TakeCall, InStream
  <2>2. PICK outcome \in {"tool_result", "tool_error"} : GoOn(<<"tool_started", outcome>>, 0)
    BY <1>8 DEF TakeCall
  <2>3. PICK kinds : kinds = <<"tool_started", outcome>>
    OBVIOUS
  <2>4. kinds \in Seq(TurnKind)
    BY <2>3 DEF TurnKind
  <2>5. \A i \in 1..Len(kinds) : kinds[i] # "delta"
    BY <2>3
  <2>6. ASSUME Collect(kinds, 0)
        PROVE  ToCome(events', Tail(stream), wanted)
    <3>1. DeltaTexts(events') = DeltaTexts(events)
      BY <1>1, <2>4, <2>5, <2>6, CollectAdds
    <3>2. ASSUME NEW n \in 1..Len(Tail(stream)), DoneAt(Tail(stream), n)
          PROVE  DeltaTexts(events') \o TextsBefore(Tail(stream), n - 1) = wanted
      <4>1. PICK rest \in Seq(Nat) : rest = TextsBefore(Tail(stream), n - 1)
        BY <1>6, <2>1, <3>2
      <4>2. DeltaTexts(events) \o (<<>> \o rest) = wanted
        BY <1>6, <2>1, <3>2, <4>1
      <4> QED BY <3>1, <4>1, <4>2, ConcatEmptySeq
    <3> QED BY <3>2 DEF ToCome
  <2> QED BY <1>5, <2>2, <2>3, <2>4, <2>6
<1>9. CASE TakeDone
  <2>1. Head(stream).event = "done" /\ pc' = "close" /\ events' = events
    BY <1>9 DEF TakeDone, InStream
  <2>2. DeltaTexts(events) = wanted
    BY <1>1, <1>2, <1>3, <2>1, DoneFirst
  <2> QED BY <1>4, <2>1, <2>2
<1>10. CASE TakeError
  <2>1. Collect(<<"provider_error">>, 0) /\ pc' = "close"
    BY <1>10 DEF TakeError
  <2>2. PICK kinds : kinds = <<"provider_error">>
    OBVIOUS
  <2>3. kinds \in Seq(TurnKind) /\ 1 \in 1..Len(kinds) /\ kinds[1] = "provider_error"
    BY <2>2 DEF TurnKind
  <2>4. Broken(events')
    BY <1>1, <2>1, <2>2, <2>3, CollectAdds
  <2> QED BY <1>4, <2>1, <2>4
<1> QED BY <1>7, <1>8, <1>9, <1>10

\* The end of a turn is written behind all of its texts, or not at all.
LEMMA CloseWhole ==
  ASSUME WireInv, WholeInv, CloseTurn
  PROVE  WholeInv'
<1>1. pc = "close" /\ sent' = sent /\ taken' = taken
  BY DEF CloseTurn, client
<1>2. /\ events \in Seq(Events) /\ Len(events) \in Nat /\ output \in Seq(Events)
      /\ taken \in Nat /\ wanted \in TextLists /\ AreOf(sent, taken, events)
  BY <1>1, LenProperties, ReadBefore DEF WireInv, Types, Wired
<1>3. Whole(output) /\ Below(output, taken) /\ (Broken(events) \/ DeltaTexts(events) = wanted)
  BY <1>1 DEF WholeInv, WholeSoFar
<1>4. CASE TurnFails
  <2>1. Write(<<Single("error", NoId)>>) /\ pc' = "read" /\ NoId \in Id
    BY <1>4 DEF TurnFails, Answer, Id
  <2>2. Whole(output')
    BY <1>1, <1>2, <1>3, <2>1, SingleWhole
  <2> QED BY <2>1, <2>2 DEF WholeInv, WholeSoFar
<1>5. ASSUME Answer(events \o <<Event("last_delta", IdOf(Current), 0),
                                Event("turn_end", IdOf(Current), 0)>>)
      PROVE  WholeInv'
  <2>1. PICK id : id = IdOf(Current)
    OBVIOUS
  <2>2. id \in Id
    <3>1. taken \in 1..Len(sent) /\ sent \in Seq(Line)
      BY <1>1 DEF WireInv, Wired, Serving, Types
    <3>2. sent[taken] \in Line
      BY <3>1
    <3> QED BY <2>1, <3>2 DEF Id, Current
  <2>3. PICK e : e = Event("last_delta", id, 0)
    OBVIOUS
  <2>4. PICK f : f = Event("turn_end", id, 0)
    OBVIOUS
  <2>5. /\ e = [kind |-> "last_delta", id |-> id, text |-> 0, line |-> taken, wanted |-> wanted]
        /\ f = [kind |-> "turn_end", id |-> id, text |-> 0, line |-> taken, wanted |-> wanted]
    BY <2>3, <2>4 DEF Event
  <2>6. "last_delta" \in Kind /\ "turn_end" \in Kind
    BY DEF Kind
  <2>7. e \in Events /\ f \in Events
    BY <1>2, <2>2, <2>5, <2>6 DEF Events
  <2>8. PICK last : last = <<e, f>>
    OBVIOUS
  <2>9. last \in Seq(Events) /\ Len(last) = 2 /\ last[1] = e /\ last[2] = f
    BY <2>7, <2>8
  <2>10. PICK new : new = events \o last
    OBVIOUS
  <2>11. /\ new \in Seq(Events) /\ Len(new) = Len(events) + 2
         /\ \A i \in 1..Len(events) + 2 :
              new[i] = IF i <= Len(events) THEN events[i] ELSE last[i - Len(events)]
    <3>1. /\ new \in Seq(Events) /\ Len(new) = Len(events) + Len(last)
          /\ \A i \in 1..Len(events) + Len(last) :
               new[i] = IF i <= Len(events) THEN events[i] ELSE last[i - Len(events)]
      <4>1. events \in Seq(Events) /\ last \in Seq(Events)
        BY <1>2, <2>9
      <4> QED BY <2>10, <4>1, ConcatProperties
    <3> QED BY <2>9, <3>1
  <2>12. ASSUME NEW i \in 1..Len(new)
         PROVE  /\ new[i].line = taken
                /\ new[i].kind = "turn_end" => i = Len(new) /\ new[i].wanted = wanted
    <3>1. CASE i <= Len(events)
      <4>1. i \in 1..Len(events) /\ new[i] = events[i]
        BY <1>2, <2>11, <3>1
      <4>2. IsOf(sent, taken, events[i]) /\ ~Final(events[i])
        BY <1>2, <4>1 DEF AreOf
      <4> QED BY <4>1, <4>2 DEF IsOf, Final
    <3>2. CASE i = Len(events) + 1
      <4>1. new[i] = last[1]
        BY <1>2, <2>11, <3>2
      <4> QED BY <2>5, <2>9, <4>1
    <3>3. CASE i = Len(events) + 2
      <4>1. new[i] = last[2] /\ i = Len(new)
        BY <1>2, <2>11, <3>3
      <4> QED BY <2>5, <2>9, <4>1
    <3> QED BY <1>2, <2>11, <3>1, <3>2, <3>3
  <2>13. DeltaTexts(new) = DeltaTexts(events)
    <3>1. \A i \in 1..2 : i = 1 \/ i = 2
      OBVIOUS
    <3>2. \A i \in 1..Len(last) : last[i].kind # "delta"
      BY <2>5, <2>9, <3>1
    <3>3. DeltaTexts(last) = <<>>
      BY <2>9, <3>2, NoDeltas
    <3>4. /\ DeltaTexts(new) = DeltaTexts(events) \o DeltaTexts(last)
          /\ DeltaTexts(events) \in Seq(Nat)
      <4>1. events \in Seq(Events) /\ last \in Seq(Events)
        BY <1>2, <2>9
      <4> QED BY <2>10, <4>1, DeltasJoin
    <3> QED BY <3>3, <3>4, ConcatEmptySeq
  <2>14. Broken(events) => Broken(new)
    <3>1. \A i \in 1..Len(events) : i \in 1..Len(new) /\ new[i] = events[i]
      BY <1>2, <2>11
    <3> QED BY <3>1 DEF Broken
  <2>15. Write(new) /\ pc' = "read"
    BY <1>5, <2>1, <2>3, <2>4, <2>8, <2>10 DEF Answer
  <2>16. Whole(output')
    <3>1. \A i \in 1..Len(new) : new[i].line = taken
      BY <2>12
    <3>2. \A i \in 1..Len(new) : new[i].kind = "turn_end" =>
            i = Len(new) /\ (Broken(new) \/ DeltaTexts(new) = new[i].wanted)
      BY <1>3, <2>12, <2>13, <2>14
    <3> QED BY <1>2, <1>3, <2>11, <2>15, <3>1, <3>2, WriteWhole
  <2> QED BY <2>15, <2>16 DEF WholeInv, WholeSoFar
<1> QED BY <1>4, <1>5 DEF CloseTurn

\* Of a provider whose replies are truthful, a turn shows every text or says why not,
\* however the steps of the client, the loop and the turn mix (handle_turn, lines
\* 400-549 of agent.rs).
THEOREM TextsWhole ==
  ASSUME \A reply \in Replies : Truthful(reply)
  PROVE  Spec => []TextsAreWhole
<1>1. Init => WholeInv
  BY DEF Init, WholeInv, WholeSoFar, Whole
<1>2. WireInv /\ WholeInv /\ [Next]_vars => WholeInv'
  <2> SUFFICES ASSUME WireInv, WholeInv, [Next]_vars PROVE WholeInv'
    OBVIOUS
  <2>1. CASE \/ \E line \in Line : WriteLine(line)
             \/ CloseInput \/ EndOfInput \/ UNCHANGED vars
    <3>1. UNCHANGED <<taken, stream, events, wanted, output>> /\ pc' \in {pc, "ended"}
      BY <2>1 DEF WriteLine, CloseInput, EndOfInput, vars, turn
    <3> QED BY <3>1 DEF WholeInv, WholeSoFar
  <2>2. ASSUME NEW line \in Line,
               ReadFails(line) \/ Skip(line) \/ RefuseLine(line) \/ AnswerState(line)
        PROVE  WholeInv'
    <3>1. Read(line)
      BY <2>2 DEF ReadFails, Skip, RefuseLine, AnswerState, Request
    <3> QED BY <2>2, <3>1, LineWhole
  <2>3. ASSUME NEW line \in Line, BeginTurn(line)
        PROVE  WholeInv'
    BY <2>3, BeginWhole
  <2> QED BY <2>1, <2>2, <2>3, StreamWhole, CloseWhole DEF Next
<1>3. WholeInv => TextsAreWhole
  BY DEF WholeInv, WholeSoFar, Whole, WholeAt, Mine, MyDeltas, Bad, TextsAreWhole
<1> QED BY WireInvariance, <1>1, <1>2, <1>3, PTL DEF Spec


----------------------------------------------------------------------------
(* The providers *)

\* What a provider makes.
Made == [event : {"text", "call", "done", "error"}, text : Nat]

\* The texts of such events are numbers.
LEMMA MadeTexts ==
  ASSUME NEW s \in Seq(Made)
  PROVE  \A m \in 1..Len(s) : s[m].text \in Nat
<1> SUFFICES ASSUME NEW m \in 1..Len(s) PROVE s[m].text \in Nat
  OBVIOUS
<1>1. s[m] \in Made
  OBVIOUS
<1> QED BY <1>1 DEF Made

\* Events that a provider makes behind others add their texts.
LEMMA MadeJoin ==
  ASSUME NEW s \in Seq(Made), NEW t \in Seq(Made)
  PROVE  /\ \A n \in 0..Len(s) : TextsBefore(s \o t, n) = TextsBefore(s, n)
         /\ TextsBefore(s \o t, Len(s \o t)) = TextsBefore(s, Len(s)) \o TextsBefore(t, Len(t))
<1>1. Len(s) \in Nat /\ Len(t) \in Nat
  BY LenProperties
<1>2. PICK both : both = s \o t
  OBVIOUS
<1>3. /\ Len(both) = Len(s) + Len(t)
      /\ \A i \in 1..Len(s) + Len(t) : both[i] = IF i <= Len(s) THEN s[i] ELSE t[i - Len(s)]
  BY <1>2, ConcatProperties
<1>4. PICK p : p = {j \in 1..Len(both) : both[j].event = "text"}
  OBVIOUS
<1>5. PICK q : q = {j \in 1..Len(s) : s[j].event = "text"}
  OBVIOUS
<1>6. PICK r : r = {j \in 1..Len(t) : t[j].event = "text"}
  OBVIOUS
<1>7. \A m \in 1..Len(s) : both[m] = s[m] /\ (m \in p <=> m \in q)
  <2>1. ASSUME NEW m \in 1..Len(s)
        PROVE  both[m] = s[m] /\ m \in 1..Len(both)
    BY <1>1, <1>3
  <2> QED BY <1>4, <1>5, <2>1
<1>8. \A m \in 1..Len(t) : both[Len(s) + m] = t[m] /\ (Len(s) + m \in p <=> m \in r)
  <2>1. ASSUME NEW m \in 1..Len(t)
        PROVE  both[Len(s) + m] = t[m] /\ Len(s) + m \in 1..Len(both)
    <3>1. Len(s) + m \in 1..Len(s) + Len(t) /\ ~(Len(s) + m <= Len(s)) /\ Len(s) + m - Len(s) = m
      BY <1>1
    <3> QED BY <1>3, <3>1
  <2> QED BY <1>4, <1>6, <2>1
<1>9. /\ \A m \in 1..Len(s) : s[m].text \in Nat
      /\ \A m \in 1..Len(t) : t[m].text \in Nat
  BY MadeTexts
<1>10. ASSUME NEW n \in 0..Len(s)
       PROVE  Texts(both, p, n) = Texts(s, q, n)
  <2>1. \A m \in 1..n : m \in 1..Len(s) /\ n \in Nat
    BY <1>1
  <2>2. \A m \in 1..n : (m \in p <=> m \in q) /\ (m \in p => both[m].text = s[m].text)
    BY <1>7, <2>1
  <2> QED BY <1>1, <2>2, TextsSame
<1>11. Texts(both, p, Len(s) + Len(t)) = Texts(both, p, Len(s)) \o Texts(t, r, Len(t))
  <2>1. \A m \in 1..Len(s) : both[m].text \in Nat
    BY <1>7, <1>9
  <2>2. Joins(both, p, Len(s), t, r, Len(t))
    BY <1>8, <1>9, <2>1 DEF Joins
  <2> QED BY <1>1, <2>2, TextsJoin
<1>12. Texts(both, p, Len(s)) = Texts(s, q, Len(s))
  BY <1>1, <1>10
<1> QED BY <1>2, <1>3, <1>4, <1>5, <1>6, <1>10, <1>11, <1>12 DEF TextsBefore

\* The events of the first m lines, if f has those of fewer.
StreamAt(f, c, m) == IF m = 0 THEN <<>> ELSE f[m - 1] \o ChunkEvents(c[m], m)

\* The events up to each line are defined by those up to the one before.
LEMMA StreamsExist ==
  ASSUME NEW c, NEW n \in Nat
  PROVE  \E f : f = [m \in 0..n |-> StreamAt(f, c, m)]
<1> DEFINE Defined == {k \in 0..n : \E f : f = [m \in 0..k |-> StreamAt(f, c, m)]}
<1>1. 0 \in Defined
  <2> DEFINE g == [m \in 0..0 |-> <<>>]
  <2>1. g = [m \in 0..0 |-> StreamAt(g, c, m)]
    BY DEF StreamAt
  <2> QED BY <2>1
<1>2. ASSUME NEW k \in 0..n, k < n, k \in Defined
      PROVE  k + 1 \in Defined
  <2>1. PICK f : f = [m \in 0..k |-> StreamAt(f, c, m)]
    BY <1>2
  <2> DEFINE g == [m \in 0..k + 1 |-> IF m = k + 1 THEN StreamAt(f, c, k + 1) ELSE f[m]]
  <2>2. ASSUME NEW m \in 0..k + 1
        PROVE  StreamAt(g, c, m) = StreamAt(f, c, m)
    <3>1. CASE m = 0
      BY <3>1 DEF StreamAt
    <3>2. CASE m # 0
      <4>1. g[m - 1] = f[m - 1]
        BY <3>2
      <4> HIDE DEF g
      <4> QED BY <3>2, <4>1 DEF StreamAt
    <3> QED BY <3>1, <3>2
  <2>3. \A m \in 0..k + 1 : g[m] = StreamAt(f, c, m)
    BY <2>1
  <2>4. g = [m \in 0..k + 1 |-> StreamAt(g, c, m)]
    BY <2>2, <2>3
  <2>5. k + 1 \in 0..n
    BY <1>2
  <2> QED BY <2>4, <2>5
<1>3. n \in Defined
  <2> HIDE DEF Defined
  <2> QED BY <1>1, <1>2, UpTo
<1> QED BY <1>3

\* StreamEvents line by line.
LEMMA StreamsAre ==
  ASSUME NEW c, Len(c) \in Nat
  PROVE  \E f : /\ StreamEvents(c) = f[Len(c)]
                /\ f[0] = <<>>
                /\ \A m \in 0..Len(c) : m < Len(c) =>
                     f[m + 1] = f[m] \o ChunkEvents(c[m + 1], m + 1)
<1> DEFINE f == CHOOSE g : g = [m \in 0..Len(c) |-> StreamAt(g, c, m)]
<1>1. StreamEvents(c) = f[Len(c)]
  BY DEF StreamEvents, StreamAt
<1>2. f = [m \in 0..Len(c) |-> StreamAt(f, c, m)]
  BY StreamsExist
<1> HIDE DEF f
<1>3. \A m \in 0..Len(c) : f[m] = StreamAt(f, c, m)
  BY <1>2
<1>4. f[0] = <<>>
  <2>1. 0 \in 0..Len(c)
    OBVIOUS
  <2>2. f[0] = StreamAt(f, c, 0)
    BY <1>3, <2>1
  <2> QED BY <2>2 DEF StreamAt
<1>5. ASSUME NEW m \in 0..Len(c), m < Len(c)
      PROVE  f[m + 1] = f[m] \o ChunkEvents(c[m + 1], m + 1)
  <2>1. PICK k \in Nat : k = m + 1
    OBVIOUS
  <2>2. k \in 0..Len(c) /\ k # 0 /\ k - 1 = m
    BY <1>5, <2>1
  <2>3. f[k] = f[k - 1] \o ChunkEvents(c[k], k)
    BY <1>3, <2>2 DEF StreamAt
  <2> QED BY <2>1, <2>2, <2>3
<1> QED BY <1>1, <1>4, <1>5

\* The lines with a text that a response means to be shown.
Numbers(c) == [n \in 1..Len(c) |-> TextDelta(n)]
Shown(c) == {n \in 1..Len(c) : /\ c[n] \in {"text", "text_call"}
                               /\ \A m \in 1..n : c[m] # "done"}

\* No event says that it is done, or the p-th is the first.
NotDone(s) == \A i \in 1..Len(s) : s[i].event # "done"
FirstDone(s, p) == /\ p \in 1..Len(s) /\ s[p].event = "done"
                   /\ \A i \in 1..p - 1 : s[i].event # "done"

\* s is what the first m lines of c yield.
Yields(c, m, s) ==
  /\ s \in Seq(Made)
  /\ \/ /\ \A i \in 1..m : c[i] # "done"
        /\ NotDone(s) /\ TextsBefore(s, Len(s)) = Texts(Numbers(c), Shown(c), m)
     \/ /\ \E i \in 1..m : c[i] = "done"
        /\ \E p \in 1..Len(s) : /\ FirstDone(s, p)
                                /\ TextsBefore(s, p - 1) = Texts(Numbers(c), Shown(c), m)

\* The events of a line.
LEMMA ChunkMade ==
  ASSUME NEW chunk \in Chunk, NEW n \in Nat
  PROVE  /\ ChunkEvents(chunk, n) \in Seq(Made)
         /\ chunk = "done" => ChunkEvents(chunk, n) = <<Done>>
         /\ chunk # "done" => /\ NotDone(ChunkEvents(chunk, n))
                              /\ TextsBefore(ChunkEvents(chunk, n), Len(ChunkEvents(chunk, n))) =
                                   IF chunk \in {"text", "text_call"} THEN <<n>> ELSE <<>>
<1>1. /\ TextDelta(n) \in Made /\ ToolCall \in Made /\ Failed \in Made /\ Done \in Made
      /\ TextDelta(n).event = "text" /\ TextDelta(n).text = n
      /\ ToolCall.event = "call" /\ Failed.event = "error" /\ Done.event = "done"
  BY DEF TextDelta, ToolCall, Failed, Done, Made
<1>2. /\ chunk = "text" => ChunkEvents(chunk, n) = <<TextDelta(n)>>
      /\ chunk = "call" => ChunkEvents(chunk, n) = <<ToolCall>>
      /\ chunk = "text_call" => ChunkEvents(chunk, n) = <<TextDelta(n), ToolCall>>
      /\ chunk = "done" => ChunkEvents(chunk, n) = <<Done>>
      /\ chunk \in {"garbled", "call_no_args"} => ChunkEvents(chunk, n) = <<Failed>>
      /\ chunk \in {"empty", "comment"} => ChunkEvents(chunk, n) = <<>>
  BY DEF ChunkEvents
<1>3. chunk \in {"text", "call", "text_call", "done", "garbled", "call_no_args", "empty", "comment"}
  BY DEF Chunk
<1>4. ASSUME NEW e \in Made, e.event # "done"
      PROVE  /\ <<e>> \in Seq(Made) /\ NotDone(<<e>>)
             /\ TextsBefore(<<e>>, Len(<<e>>)) = IF e.event = "text" THEN <<e.text>> ELSE <<>>
  <2>1. PICK s : s = <<e>>
    OBVIOUS
  <2>2. s \in Seq(Made) /\ Len(s) = 1 /\ s[1] = e /\ 1 \in 1..1
    BY <2>1
  <2>3. s[1].text \in Nat
    BY <2>2, MadeTexts
  <2>4. PICK p : p = {j \in 1..Len(s) : s[j].event = "text"}
    OBVIOUS
  <2>5. 1 \in p <=> e.event = "text"
    BY <2>2, <2>4
  <2>6. Texts(s, p, 1) = IF 1 \in p THEN <<s[1].text>> ELSE <<>>
    BY <2>3, TextsOne
  <2>7. NotDone(s)
    BY <1>4, <2>2 DEF NotDone
  <2> QED BY <2>1, <2>2, <2>4, <2>5, <2>6, <2>7 DEF TextsBefore
<1>5. /\ <<>> \in Seq(Made) /\ NotDone(<<>>) /\ TextsBefore(<<>>, Len(<<>>)) = <<>>
  <2>1. Len(<<>>) = 0
    OBVIOUS
  <2>2. TextsBefore(<<>>, 0) = <<>>
    BY TextsStep DEF TextsBefore
  <2> QED BY <2>1, <2>2 DEF NotDone
<1>6. CASE chunk = "text"
  BY <1>1, <1>2, <1>4, <1>6
<1>7. CASE chunk = "call"
  BY <1>1, <1>2, <1>4, <1>7
<1>8. CASE chunk = "text_call"
  <2>1. PICK s : s = <<TextDelta(n)>>
    OBVIOUS
  <2>2. PICK t : t = <<ToolCall>>
    OBVIOUS
  <2>3. /\ s \in Seq(Made) /\ NotDone(s) /\ TextsBefore(s, Len(s)) = <<n>>
        /\ t \in Seq(Made) /\ NotDone(t) /\ TextsBefore(t, Len(t)) = <<>>
    BY <1>1, <1>4, <2>1, <2>2
  <2>4. PICK both : both = s \o t
    OBVIOUS
  <2>5. both = <<TextDelta(n), ToolCall>>
    <3>1. PICK a \in Made : a = TextDelta(n)
      BY <1>1
    <3>2. PICK b \in Made : b = ToolCall
      BY <1>1
    <3>3. <<a>> \in Seq(Made)
      OBVIOUS
    <3>4. Append(<<a>>, b) = <<a>> \o <<b>>
      BY <3>3, AppendIsConcat
    <3>5. Append(<<a>>, b) = <<a, b>>
      <4>1. PICK x : x = Append(<<a>>, b)
        OBVIOUS
      <4>2. PICK y : y = <<a, b>>
        OBVIOUS
      <4>3. x \in Seq(Made) /\ Len(x) = 2 /\ x[1] = a /\ x[2] = b
        BY <3>3, <4>1, AppendProperties
      <4>4. y \in Seq(Made) /\ Len(y) = 2 /\ y[1] = a /\ y[2] = b
        BY <4>2
      <4>5. \A i \in 1..2 : i = 1 \/ i = 2
        OBVIOUS
      <4>6. x = y
        BY <4>3, <4>4, <4>5, SeqEqual
      <4> QED BY <4>1, <4>2, <4>6
    <3> QED BY <2>1, <2>2, <2>4, <3>1, <3>2, <3>4, <3>5
  <2>6. TextsBefore(both, Len(both)) = <<n>> \o <<>>
    BY <2>3, <2>4, MadeJoin
  <2>7. <<n>> \o <<>> = <<n>>
    <3>1. <<n>> \in Seq(Nat)
      OBVIOUS
    <3> QED BY <3>1, ConcatEmptySeq
  <2>8. both \in Seq(Made)
    BY <1>1, <2>5
  <2>9. NotDone(both)
    <3>1. Len(both) = 2 /\ both[1].event # "done" /\ both[2].event # "done"
      BY <1>1, <2>5
    <3>2. \A i \in 1..2 : i = 1 \/ i = 2
      OBVIOUS
    <3> QED BY <3>1, <3>2 DEF NotDone
  <2> QED BY <1>2, <1>8, <2>5, <2>6, <2>7, <2>8, <2>9
<1>9. CASE chunk = "done"
  <2>1. <<Done>> \in Seq(Made)
    BY <1>1
  <2> QED BY <1>2, <1>9, <2>1
<1>10. CASE chunk \in {"garbled", "call_no_args"}
  BY <1>1, <1>2, <1>4, <1>10
<1>11. CASE chunk \in {"empty", "comment"}
  BY <1>2, <1>5, <1>11
<1> QED BY <1>3, <1>6, <1>7, <1>8, <1>9, <1>10, <1>11


\* One line more.
LEMMA YieldsMore ==
  ASSUME NEW c \in Seq(Chunk), NEW m \in Nat, m + 1 \in 1..Len(c), NEW s, Yields(c, m, s)
  PROVE  Yields(c, m + 1, s \o ChunkEvents(c[m + 1], m + 1))
<1>1. PICK n \in Nat : n = m + 1 /\ n \in 1..Len(c) /\ n - 1 = m
  OBVIOUS
<1>2. c[n] \in Chunk
  BY <1>1
<1>3. PICK new : new = ChunkEvents(c[n], n)
  OBVIOUS
<1>4. PICK both : both = s \o new
  OBVIOUS
<1>5. /\ new \in Seq(Made)
      /\ c[n] = "done" => new = <<Done>>
      /\ c[n] # "done" => /\ NotDone(new)
                          /\ TextsBefore(new, Len(new)) =
                               IF c[n] \in {"text", "text_call"} THEN <<n>> ELSE <<>>
  BY <1>1, <1>2, <1>3, ChunkMade
<1>6. s \in Seq(Made) /\ Len(s) \in Nat /\ Len(new) \in Nat
  BY <1>5, LenProperties DEF Yields
<1>7. /\ both \in Seq(Made) /\ Len(both) = Len(s) + Len(new)
      /\ \A i \in 1..Len(s) + Len(new) : both[i] = IF i <= Len(s) THEN s[i] ELSE new[i - Len(s)]
  BY <1>4, <1>5, <1>6, ConcatProperties
<1>8. /\ \A k \in 0..Len(s) : TextsBefore(both, k) = TextsBefore(s, k)
      /\ TextsBefore(both, Len(both)) = TextsBefore(s, Len(s)) \o TextsBefore(new, Len(new))
  BY <1>4, <1>5, <1>6, MadeJoin
<1>9. \A i \in 1..Len(s) : both[i] = s[i] /\ i \in 1..Len(both)
  BY <1>6, <1>7
<1>10. Texts(Numbers(c), Shown(c), n) =
         IF n \in Shown(c) THEN Append(Texts(Numbers(c), Shown(c), m), n)
                           ELSE Texts(Numbers(c), Shown(c), m)
  <2>1. Numbers(c)[n].text = n
    BY <1>1 DEF Numbers, TextDelta
  <2> QED BY <1>1, <2>1, TextsStep
<1>11. n \in Shown(c) <=> c[n] \in {"text", "text_call"} /\ \A i \in 1..n : c[i] # "done"
  BY <1>1 DEF Shown
<1>12. \A i \in 1..n : i \in 1..m \/ i = n
  BY <1>1
<1>13. Texts(Numbers(c), Shown(c), m) \in Seq(Nat)
  <2>1. \A i \in 1..m : i \in Shown(c) => Numbers(c)[i].text \in Nat
    BY DEF Shown, Numbers, TextDelta
  <2> QED BY <2>1, TextsTyped
<1>14. CASE /\ \A i \in 1..m : c[i] # "done"
            /\ NotDone(s) /\ TextsBefore(s, Len(s)) = Texts(Numbers(c), Shown(c), m)
  <2>1. CASE c[n] = "done"
    <3>1. new = <<Done>> /\ n \notin Shown(c)
      BY <1>1, <1>5, <1>11, <2>1
    <3>2. Len(new) = 1 /\ new[1].event = "done"
      BY <3>1 DEF Done
    <3>3. PICK p \in Nat : p = Len(s) + 1
      BY <1>6
    <3>4. /\ p \in 1..Len(both) /\ both[p] = new[1] /\ p - 1 = Len(s)
          /\ p \in 1..Len(s) + Len(new) /\ ~(p <= Len(s)) /\ p - Len(s) = 1
      BY <1>6, <1>7, <3>2, <3>3
    <3>5. FirstDone(both, p)
      BY <1>9, <1>14, <3>2, <3>4 DEF FirstDone, NotDone
    <3>6. TextsBefore(both, p - 1) = Texts(Numbers(c), Shown(c), n)
      <4>1. TextsBefore(both, Len(s)) = TextsBefore(s, Len(s))
        BY <1>6, <1>8
      <4> QED BY <1>10, <1>14, <3>1, <3>4, <4>1
    <3>7. n \in 1..n
      BY <1>1
    <3> QED BY <1>1, <1>3, <1>4, <1>7, <2>1, <3>4, <3>5, <3>6, <3>7 DEF Yields
  <2>2. CASE c[n] # "done"
    <3>1. \A i \in 1..n : c[i] # "done"
      BY <1>12, <1>14, <2>2
    <3>2. NotDone(both)
      <4>1. ASSUME NEW i \in 1..Len(both)
            PROVE  both[i].event # "done"
        <5>1. CASE i <= Len(s)
          BY <1>6, <1>9, <1>14, <5>1 DEF NotDone
        <5>2. CASE i > Len(s)
          <6>1. i \in 1..Len(s) + Len(new) /\ i - Len(s) \in 1..Len(new)
            BY <1>6, <1>7, <5>2
          <6>2. both[i] = new[i - Len(s)]
            BY <1>6, <1>7, <5>2, <6>1
          <6> QED BY <1>5, <2>2, <6>1, <6>2 DEF NotDone
        <5> QED BY <1>6, <1>7, <5>1, <5>2
      <4> QED BY <4>1 DEF NotDone
    <3>3. TextsBefore(both, Len(both)) = Texts(Numbers(c), Shown(c), n)
      <4>1. PICK w \in Seq(Nat) : w = Texts(Numbers(c), Shown(c), m)
        BY <1>13
      <4>2. Append(w, n) = w \o <<n>> /\ w \o <<>> = w
        BY AppendIsConcat, ConcatEmptySeq
      <4>3. CASE c[n] \in {"text", "text_call"}
        BY <1>5, <1>8, <1>10, <1>11, <1>14, <2>2, <3>1, <4>1, <4>2, <4>3
      <4>4. CASE c[n] \notin {"text", "text_call"}
        BY <1>5, <1>8, <1>10, <1>11, <1>14, <2>2, <3>1, <4>1, <4>2, <4>4
      <4> QED BY <4>3, <4>4
    <3> QED BY <1>1, <1>3, <1>4, <1>7, <3>1, <3>2, <3>3 DEF Yields
  <2> QED BY <2>1, <2>2
<1>15. ASSUME \E i \in 1..m : c[i] = "done",
              NEW p \in 1..Len(s), FirstDone(s, p),
              TextsBefore(s, p - 1) = Texts(Numbers(c), Shown(c), m)
       PROVE  Yields(c, n, both)
  <2>1. \E i \in 1..n : c[i] = "done"
    BY <1>1, <1>15
  <2>2. n \notin Shown(c)
    BY <1>11, <2>1
  <2>3. FirstDone(both, p) /\ p \in 1..Len(both)
    <3>1. \A i \in 1..p - 1 : i \in 1..Len(s)
      BY <1>6
    <3> QED BY <1>9, <1>15, <3>1 DEF FirstDone
  <2>4. p - 1 \in 0..Len(s)
    BY <1>6
  <2>5. TextsBefore(both, p - 1) = Texts(Numbers(c), Shown(c), n)
    BY <1>8, <1>10, <1>15, <2>2, <2>4
  <2> QED BY <1>7, <2>1, <2>3, <2>5 DEF Yields
<1> QED BY <1>1, <1>3, <1>4, <1>14, <1>15 DEF Yields

\* A stream of lines.
LEMMA StreamYields ==
  ASSUME NEW c \in Seq(Chunk)
  PROVE  Yields(c, Len(c), StreamEvents(c))
<1>1. Len(c) \in Nat
  BY LenProperties
<1>2. PICK f : /\ StreamEvents(c) = f[Len(c)]
               /\ f[0] = <<>>
               /\ \A m \in 0..Len(c) : m < Len(c) => f[m + 1] = f[m] \o ChunkEvents(c[m + 1], m + 1)
  BY <1>1, StreamsAre
<1> DEFINE Sound == {m \in 0..Len(c) : Yields(c, m, f[m])}
<1>3. 0 \in Sound
  <2>1. <<>> \in Seq(Made) /\ Len(<<>>) = 0 /\ 0 \in 0..Len(c)
    BY <1>1
  <2>2. TextsBefore(<<>>, 0) = <<>> /\ Texts(Numbers(c), Shown(c), 0) = <<>>
    BY TextsStep DEF TextsBefore
  <2>3. NotDone(<<>>)
    BY DEF NotDone
  <2>4. Yields(c, 0, <<>>)
    BY <2>1, <2>2, <2>3 DEF Yields
  <2> QED BY <1>2, <2>1, <2>4
<1>4. ASSUME NEW m \in 0..Len(c), m < Len(c), m \in Sound
      PROVE  m + 1 \in Sound
  <2>1. m \in Nat /\ m + 1 \in 1..Len(c) /\ m + 1 \in 0..Len(c)
    BY <1>1, <1>4
  <2>2. Yields(c, m, f[m])
    BY <1>4
  <2>3. Yields(c, m + 1, f[m] \o ChunkEvents(c[m + 1], m + 1))
    BY <2>1, <2>2, YieldsMore
  <2> QED BY <1>2, <1>4, <2>1, <2>3
<1>5. Len(c) \in Sound
  <2>1. Len(c) \in 0..Len(c)
    BY <1>1
  <2> HIDE DEF Sound
  <2> QED BY <1>1, <1>3, <1>4, <2>1, UpTo
<1> QED BY <1>2, <1>5

\* A response however long.
Response == [via : {"refused", "status", "interrupted", "single", "stream"},
             content : {"text", "none", "garbled"}, chunks : Seq(Chunk)]

\* Events with a first one that says it is done.
LEMMA TruthAt ==
  ASSUME NEW s, Len(s) \in Nat, NEW p \in 1..Len(s), FirstDone(s, p)
  PROVE  Truth(s, TextsBefore(s, p - 1))
<1> SUFFICES ASSUME NEW n \in 1..Len(s), DoneAt(s, n) PROVE n = p
  BY DEF Truth
<1>1. ~(n < p)
  <2>1. n < p => n \in 1..p - 1
    OBVIOUS
  <2> QED BY <2>1 DEF FirstDone, DoneAt
<1>2. ~(p < n)
  <2>1. p < n => p \in 1..n - 1
    OBVIOUS
  <2> QED BY <2>1 DEF FirstDone, DoneAt
<1> QED BY <1>1, <1>2

\* A Done that is added.
LEMMA TruthAdded ==
  ASSUME NEW s \in Seq(Made), NotDone(s)
  PROVE  Truth(Append(s, Done), TextsBefore(s, Len(s)))
<1>1. PICK t : t = <<Done>>
  OBVIOUS
<1>2. Done \in Made /\ Done.event = "done" /\ Len(s) \in Nat
  BY LenProperties DEF Done, Made
<1>3. t \in Seq(Made) /\ Len(t) = 1 /\ t[1] = Done
  BY <1>1, <1>2
<1>4. PICK both : both = Append(s, Done)
  OBVIOUS
<1>5. both = s \o t
  BY <1>1, <1>2, <1>4, AppendIsConcat
<1>6. /\ Len(both) = Len(s) + 1 /\ both[Len(s) + 1] = Done
      /\ \A i \in 1..Len(s) : both[i] = s[i]
  BY <1>2, <1>4, AppendProperties
<1>7. TextsBefore(both, Len(s)) = TextsBefore(s, Len(s))
  BY <1>2, <1>3, <1>5, MadeJoin
<1>8. PICK p \in Nat : p = Len(s) + 1 /\ p - 1 = Len(s)
  BY <1>2
<1>9. p \in 1..Len(both) /\ Len(both) \in Nat
  BY <1>2, <1>6, <1>8
<1>10. FirstDone(both, p)
  BY <1>2, <1>6, <1>8, <1>9 DEF FirstDone, NotDone
<1> QED BY <1>4, <1>7, <1>8, <1>9, <1>10, TruthAt


\* A Done is added to events that have none.
LEMMA TruthEither ==
  ASSUME NEW s \in Seq(Made), NEW texts,
         \/ NotDone(s) /\ TextsBefore(s, Len(s)) = texts
         \/ \E p \in 1..Len(s) : FirstDone(s, p) /\ TextsBefore(s, p - 1) = texts
  PROVE  Truth(IF Has(s, "done") THEN s ELSE Append(s, Done), texts)
<1>1. Len(s) \in Nat
  BY LenProperties
<1>2. CASE NotDone(s) /\ TextsBefore(s, Len(s)) = texts
  <2>1. ~Has(s, "done")
    BY <1>2 DEF NotDone, Has
  <2> QED BY <1>2, <2>1, TruthAdded
<1>3. ASSUME NEW p \in 1..Len(s), FirstDone(s, p), TextsBefore(s, p - 1) = texts
      PROVE  Truth(IF Has(s, "done") THEN s ELSE Append(s, Done), texts)
  <2>1. Has(s, "done")
    BY <1>3 DEF FirstDone, Has
  <2> QED BY <1>1, <1>3, <2>1, TruthAt
<1> QED BY <1>2, <1>3

\* The only event of a response that is not a stream.
LEMMA TruthOne ==
  ASSUME NEW e \in Made, e.event \in {"text", "error"}
  PROVE  /\ e.event = "text" => Truth(Append(<<e>>, Done), <<e.text>>)
         /\ NotDone(<<e>>) /\ <<e>> \in Seq(Made)
         /\ \A texts : e.event = "error" => Truth(Append(<<e>>, Done), texts) /\ Truth(<<e>>, texts)
<1>1. PICK s : s = <<e>>
  OBVIOUS
<1>2. s \in Seq(Made) /\ Len(s) = 1 /\ s[1] = e /\ 1 \in 1..1
  BY <1>1
<1>3. NotDone(s)
  BY <1>2 DEF NotDone
<1>4. e.event = "text" => TextsBefore(s, Len(s)) = <<e.text>>
  <2>1. PICK p : p = {j \in 1..Len(s) : s[j].event = "text"}
    OBVIOUS
  <2>2. 1 \in p <=> e.event = "text"
    BY <1>2, <2>1
  <2>3. s[1].text \in Nat
    BY <1>2, MadeTexts
  <2>4. Texts(s, p, 1) = IF 1 \in p THEN <<s[1].text>> ELSE <<>>
    BY <2>3, TextsOne
  <2> QED BY <1>2, <2>1, <2>2, <2>4 DEF TextsBefore
<1>5. e.event = "text" => Truth(Append(s, Done), <<e.text>>)
  BY <1>2, <1>3, <1>4, TruthAdded
<1>6. ASSUME e.event = "error", NEW texts
      PROVE  Truth(Append(s, Done), texts) /\ Truth(s, texts)
  <2>1. PICK both : both = Append(s, Done)
    OBVIOUS
  <2>2. Done \in Made
    BY DEF Done, Made
  <2>3. Len(both) = 2 /\ both[1] = e
    <3>1. /\ Len(both) = Len(s) + 1
          /\ \A i \in 1..Len(s) : both[i] = s[i]
      <4>1. s \in Seq(Made) /\ Len(s) \in Nat
        BY <1>2
      <4> QED BY <2>1, <2>2, <4>1, AppendProperties
    <3> QED BY <1>2, <3>1
  <2>4. ASSUME NEW n \in 1..2
        PROVE  ~DoneAt(both, n) /\ (n = 1 => ~DoneAt(s, n))
    <3>1. CASE n = 1
      BY <1>2, <1>6, <2>3, <3>1 DEF DoneAt
    <3>2. CASE n = 2
      <4>1. 1 \in 1..n - 1
        BY <3>2
      <4> QED BY <1>6, <2>3, <3>2, <4>1 DEF DoneAt
    <3> QED BY <3>1, <3>2
  <2>5. Truth(both, texts)
    BY <2>3, <2>4 DEF Truth
  <2>6. \A n \in 1..1 : n = 1 /\ n \in 1..2
    OBVIOUS
  <2>7. Truth(s, texts)
    BY <1>2, <2>4, <2>6 DEF Truth
  <2> QED BY <2>1, <2>5, <2>7
<1> QED BY <1>1, <1>2, <1>3, <1>5, <1>6

\* No event but a Done that is added.
LEMMA TruthNone == Truth(Append(<<>>, Done), <<>>) /\ <<>> \in Seq(Made) /\ NotDone(<<>>)
<1>1. <<>> \in Seq(Made) /\ Len(<<>>) = 0
  OBVIOUS
<1>2. TextsBefore(<<>>, 0) = <<>>
  BY TextsStep DEF TextsBefore
<1>3. NotDone(<<>>)
  BY <1>1 DEF NotDone
<1> QED BY <1>1, <1>2, <1>3, TruthAdded

\* OpenAIProvider.
LEMMA OpenAITruthful ==
  ASSUME NEW reply \in Response
  PROVE  Truth(OpenAIStream(reply), TextsOf(reply))
<1>1. /\ reply.via \in {"refused", "status", "interrupted", "single", "stream"}
      /\ reply.content \in {"text", "none", "garbled"} /\ reply.chunks \in Seq(Chunk)
  BY DEF Response
<1>2. PICK s : s = BodyEvents(reply)
  OBVIOUS
<1>3. reply.via # "status" =>
        OpenAIStream(reply) = IF Has(s, "done") THEN s ELSE Append(s, Done)
  BY <1>2 DEF OpenAIStream
<1>4. /\ Failed \in Made /\ Failed.event = "error"
      /\ TextDelta(1) \in Made /\ TextDelta(1).event = "text" /\ TextDelta(1).text = 1
  BY DEF Failed, TextDelta, Made
<1>5. ASSUME NotDone(s) PROVE ~Has(s, "done")
  BY <1>5 DEF NotDone, Has
<1>6. CASE reply.via = "status"
  <2>1. OpenAIStream(reply) = <<Failed>>
    BY <1>6 DEF OpenAIStream
  <2> QED BY <1>4, <2>1, TruthOne
<1>7. CASE reply.via = "refused"
  <2>1. s = <<Failed>>
    BY <1>2, <1>7 DEF BodyEvents
  <2> QED BY <1>3, <1>4, <1>5, <1>7, <2>1, TruthOne
<1>8. CASE reply.via = "interrupted"
  <2>1. s = <<>> /\ TextsOf(reply) = <<>>
    BY <1>2, <1>8 DEF BodyEvents, TextsOf
  <2> QED BY <1>3, <1>5, <1>8, <2>1, TruthNone
<1>9. CASE reply.via = "single"
  <2>1. CASE reply.content = "text"
    <3>1. s = <<TextDelta(1)>> /\ TextsOf(reply) = <<1>>
      BY <1>2, <1>9, <2>1 DEF BodyEvents, TextsOf
    <3> QED BY <1>3, <1>4, <1>5, <1>9, <3>1, TruthOne
  <2>2. CASE reply.content = "garbled"
    <3>1. s = <<Failed>>
      BY <1>2, <1>9, <2>2 DEF BodyEvents
    <3> QED BY <1>3, <1>4, <1>5, <1>9, <3>1, TruthOne
  <2>3. CASE reply.content = "none"
    <3>1. s = <<>> /\ TextsOf(reply) = <<>>
      BY <1>2, <1>9, <2>3 DEF BodyEvents, TextsOf
    <3> QED BY <1>3, <1>5, <1>9, <3>1, TruthNone
  <2> QED BY <1>1, <2>1, <2>2, <2>3
<1>10. CASE reply.via = "stream"
  <2>1. PICK c \in Seq(Chunk) : c = reply.chunks
    BY <1>1
  <2>2. s = StreamEvents(c)
    BY <1>2, <1>10, <2>1 DEF BodyEvents
  <2>3. Yields(c, Len(c), s)
    BY <2>2, StreamYields
  <2>4. TextsOf(reply) = Texts(Numbers(c), Shown(c), Len(c))
    BY <1>10, <2>1 DEF TextsOf, Numbers, Shown
  <2> QED BY <1>3, <1>10, <2>3, <2>4, TruthEither DEF Yields
<1> QED BY <1>1, <1>6, <1>7, <1>8, <1>9, <1>10

\* MockProvider, and the texts of its replies.
MockTexts(kind) == IF kind = "silent" THEN <<>> ELSE <<1>>

\* It says what it is done with.
LEMMA MockTruthful ==
  ASSUME NEW kind \in {"search", "silent", "other"}
  PROVE  Truth(MockStream(kind), MockTexts(kind))
<1>1. PICK a \in Made : a = TextDelta(1)
  BY DEF TextDelta, Made
<1>2. PICK b \in Made : b = ToolCall
  BY DEF ToolCall, Made
<1>3. PICK d \in Made : d = Done
  BY DEF Done, Made
<1>4. a.event = "text" /\ a.text = 1 /\ b.event = "call" /\ d.event = "done"
  BY <1>1, <1>2, <1>3 DEF TextDelta, ToolCall, Done
<1>5. ASSUME NEW s \in Seq(Made), NEW p \in 1..Len(s), FirstDone(s, p), p > 1, s[1] = a,
             \A i \in 1..p - 1 : i > 1 => s[i].event # "text"
      PROVE  Truth(s, <<1>>)
  <2>1. Len(s) \in Nat /\ p \in Nat
    BY LenProperties
  <2>2. PICK q : q = {j \in 1..Len(s) : s[j].event = "text"}
    OBVIOUS
  <2>3. 1 \in q
    BY <1>4, <1>5, <2>1, <2>2
  <2>4. PICK k \in Nat : p - 1 = 1 + k
    <3>1. p - 2 \in Nat /\ p - 1 = 1 + (p - 2)
      BY <1>5, <2>1
    <3> QED BY <3>1
  <2>5. Joins(s, q, 1, s, {}, k)
    <3>1. \A i \in 1..k : 1 + i \in 1..p - 1 /\ 1 + i > 1
      BY <2>4
    <3>2. \A i \in 1..k : 1 + i \notin q
      BY <1>5, <2>2, <3>1
    <3>3. \A i \in 1..1 : s[i].text \in Nat
      BY <1>5, <1>4
    <3> QED BY <3>2, <3>3 DEF Joins
  <2>6. Texts(s, q, 1 + k) = Texts(s, q, 1) \o Texts(s, {}, k)
    BY <2>5, TextsJoin
  <2>7. Texts(s, {}, k) = <<>>
    BY TextsNone
  <2>8. Texts(s, q, 1) = <<1>>
    BY <1>4, <1>5, <2>3, TextsOne
  <2>9. <<1>> \o <<>> = <<1>>
    <3>1. <<1>> \in Seq(Nat)
      OBVIOUS
    <3> QED BY <3>1, ConcatEmptySeq
  <2>10. TextsBefore(s, p - 1) = <<1>>
    BY <2>2, <2>4, <2>6, <2>7, <2>8, <2>9 DEF TextsBefore
  <2> QED BY <1>5, <2>1, <2>10, TruthAt
<1>6. CASE kind = "search"
  <2>1. PICK s : s = <<a, b, d>>
    OBVIOUS
  <2>2. s \in Seq(Made) /\ Len(s) = 3 /\ s[1] = a /\ s[2] = b /\ s[3] = d
    BY <2>1
  <2>3. \A i \in 1..3 - 1 : i = 1 \/ i = 2
    OBVIOUS
  <2>4. PICK p \in Nat : p = 3
    OBVIOUS
  <2>5. p \in 1..Len(s) /\ FirstDone(s, p) /\ p > 1
    BY <1>4, <2>2, <2>3, <2>4 DEF FirstDone
  <2>6. \A i \in 1..p - 1 : i > 1 => s[i].event # "text"
    BY <1>4, <2>2, <2>3, <2>4
  <2>7. Truth(s, <<1>>)
    BY <1>5, <2>2, <2>6, <2>5
  <2>8. MockStream(kind) = s /\ MockTexts(kind) = <<1>>
    BY <1>1, <1>2, <1>3, <1>6, <2>1 DEF MockStream, MockTexts
  <2> QED BY <2>7, <2>8
<1>7. CASE kind = "other"
  <2>1. PICK s : s = <<a, d>>
    OBVIOUS
  <2>2. s \in Seq(Made) /\ Len(s) = 2 /\ s[1] = a /\ s[2] = d
    BY <2>1
  <2>3. \A i \in 1..2 - 1 : i = 1
    OBVIOUS
  <2>4. PICK p \in Nat : p = 2
    OBVIOUS
  <2>5. p \in 1..Len(s) /\ FirstDone(s, p) /\ p > 1
    BY <1>4, <2>2, <2>3, <2>4 DEF FirstDone
  <2>6. \A i \in 1..p - 1 : i > 1 => s[i].event # "text"
    BY <2>3, <2>4
  <2>7. Truth(s, <<1>>)
    BY <1>5, <2>2, <2>6, <2>5
  <2>8. MockStream(kind) = s /\ MockTexts(kind) = <<1>>
    BY <1>1, <1>3, <1>7, <2>1 DEF MockStream, MockTexts
  <2> QED BY <2>7, <2>8
<1>8. CASE kind = "silent"
  <2>1. MockStream(kind) = <<Done>> /\ MockTexts(kind) = <<>>
    BY <1>8 DEF MockStream, MockTexts
  <2>2. Append(<<>>, d) = <<d>>
    OBVIOUS
  <2> QED BY <1>3, <2>1, <2>2, TruthNone
<1> QED BY <1>6, <1>7, <1>8

\* Replies of OpenAIProvider to any response, however long, and of MockProvider.
RealReplies ==
       {[stream |-> OpenAIStream(reply), texts |-> TextsOf(reply)] : reply \in Response}
  \cup {[stream |-> MockStream(kind), texts |-> MockTexts(kind)] :
          kind \in {"search", "silent", "other"}}

\* Both providers of pi-llm are truthful, so their turns show every text or say why not
\* (stream, lines 106-149 and 219-359 of lib.rs).
THEOREM ProvidersTruthful ==
  ASSUME Replies \subseteq RealReplies
  PROVE  Spec => []TextsAreWhole
<1>1. ASSUME NEW reply \in Replies
      PROVE  Truthful(reply)
  <2>1. reply \in RealReplies
    OBVIOUS
  <2>2. Truth(reply.stream, reply.texts)
    BY <2>1, OpenAITruthful, MockTruthful DEF RealReplies
  <2> QED BY <2>2 DEF Truthful
<1> QED BY <1>1, TextsWhole
=============================================================================
