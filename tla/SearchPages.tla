------------------------------ MODULE SearchPages ------------------------------
(***************************************************************************)
(* Queries of crates/pi-search/src/lib.rs over the index that SearchIndex  *)
(* keeps: find_files ranks the files whose path matches, grep_query reads  *)
(* the indexed files and takes their matching lines, and both cut a page   *)
(* out of the result, whose token is the offset of the next page.          *)
(*                                                                         *)
(* A token is eight bytes in base64, and every offset has one: encode_token*)
(* and decode_token are left out.  Of the scores, only the part that git   *)
(* and the frecency give is kept: the paths match the query equally well.  *)
(***************************************************************************)
EXTENDS SearchIndex, Integers, Sequences

CONSTANTS PathOrder,     \* the files in the order of their paths
          GrepLineLimit  \* grep_line_limit (300 in the code)

ASSUME PathOrderComplete ==
  /\ PathOrder \in Seq(File)
  /\ \A f \in File : \E i \in 1..Len(PathOrder) : PathOrder[i] = f
  /\ \A i, j \in 1..Len(PathOrder) : PathOrder[i] = PathOrder[j] => i = j
ASSUME GrepLineLimitPositive == GrepLineLimit \in Nat \ {0}

NoToken == -1   \* the last page has none
Lesser(m, n) == IF m <= n THEN m ELSE n

----------------------------------------------------------------------------
(* Pages *)

\* matched.get(start..max): none if start is beyond the end.
Slice(s, start, end) == IF start <= end THEN SubSeq(s, start + 1, end) ELSE <<>>

FindPage(matched, start, limit) ==
  LET end == Lesser(start + limit, Len(matched))
  IN [items |-> Slice(matched, start, end),
      token |-> IF end < Len(matched) THEN end ELSE NoToken]

\* The limit a grep applies: at least one line, and no more than configured.
GrepLimit(limit) == Lesser(IF limit = 0 THEN 1 ELSE limit, GrepLineLimit)

\* Mutation: reading stops with the last line of the page.
GrepPage_StopsShort(hits, start, limit) ==
  LET required == start + GrepLimit(limit)
      matches == SubSeq(hits, 1, Lesser(required, Len(hits)))
      end == Lesser(start + GrepLimit(limit), Len(matches))
      truncated == end < Len(matches)
  IN [items |-> Slice(matches, start, end),
      token |-> IF truncated THEN end ELSE NoToken]

\* Reading stops one line after the page: files are read in the order the lines
\* are sorted in, so that no line that is not read belongs before those that are.
GrepPage(hits, start, limit) ==
  LET required == start + GrepLimit(limit) + 1
      matches == SubSeq(hits, 1, Lesser(required, Len(hits)))
      end == Lesser(start + GrepLimit(limit), Len(matches))
      truncated == end < Len(matches) \/ Len(matches) >= required
  IN [items |-> Slice(matches, start, end),
      token |-> IF truncated THEN end ELSE NoToken]

----------------------------------------------------------------------------
(* Results *)

\* score_git_bonus and frecency_score: a status in the git map counts more than the
\* frecency that the walk stored.
Score(f) == CASE f \in git -> 2
              [] f \notin git /\ index[f].boost -> 1
              [] OTHER -> 0

\* The files in the order of their paths, and in that of the results of find_files: the
\* best score first, and in the order of the paths where it is the same.
Place(f) == CHOOSE i \in 1..Len(PathOrder) : PathOrder[i] = f
Before(f, g) == \/ Score(f) > Score(g)
                \/ Score(f) = Score(g) /\ Place(f) < Place(g)

\* find_files for a query that the paths of some files match: n files come before the
\* one at n + 1.
Matched(matching) ==
  LET some == {f \in matching : index[f].stamp # Absent}
  IN [n \in 1..Cardinality(some) |->
        CHOOSE f \in some : Cardinality({g \in some : Before(g, f)}) = n - 1]

\* The lines of a file that match a pattern, as told by its stamp.
HitsIn(f) == [n \in 1..disk[f] % 3 |-> <<f, n>>]

\* The walk of grep_query over the index, whose files are read as they are now; one
\* that is gone is passed over.
GrepHits ==
  LET hits[i \in 0..Len(PathOrder)] ==
        IF i = 0 THEN <<>>
        ELSE hits[i - 1] \o (IF index[PathOrder[i]].stamp # Absent THEN HitsIn(PathOrder[i])
                             ELSE <<>>)
  IN hits[Len(PathOrder)]

----------------------------------------------------------------------------
(* Properties *)

\* Following the tokens from the first page, with at most n more; the pages are those
\* of each offset.
Following(pages, n) ==
  LET trail[k \in 0..n] ==
        IF k = 0 THEN pages[0]
        ELSE LET before == trail[k - 1]
                 page == pages[before.token]
             IN IF before.token = NoToken THEN before
                ELSE [items |-> before.items \o page.items, token |-> page.token]
  IN trail[n]

FindPages(matched, limit) == [start \in 0..Len(matched) |-> FindPage(matched, start, limit)]
GrepPages(hits, limit) == [start \in 0..Len(hits) |-> GrepPage(hits, start, limit)]

\* Whatever the state of the index, and the limit: whoever follows the tokens over
\* one snapshot gets every result once, in order, and comes to an end (lines 482-495,
\* 619-620 and 700-713).  A higher limit gives the page of the highest one here.
PagesPartition ==
  /\ \A matching \in SUBSET File, limit \in 1..Len(PathOrder) :
       LET matched == Matched(matching)
       IN Following(FindPages(matched, limit), Len(matched)) =
            [items |-> matched, token |-> NoToken]
  /\ \A limit \in 0..GrepLineLimit + 1 :
       LET hits == GrepHits
       IN Following(GrepPages(hits, limit), Len(hits)) =
            [items |-> hits, token |-> NoToken]
=============================================================================
