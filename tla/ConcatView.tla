----------------------------- MODULE ConcatView -----------------------------
(***************************************************************************)
(* The iterator of concat_view (ranges/concat.hpp) over random access      *)
(* views: a variant of iterators is the number of its alternative, from 1, *)
(* and an offset in that view.  Of a view only the size matters.           *)
(*                                                                         *)
(* Two iterators into one view are moved about.  A move stays within the   *)
(* concatenated range, as the iterator requirements ask of the caller.     *)
(***************************************************************************)
EXTENDS Integers, Sequences

CONSTANTS MaxViews, MaxSize

ASSUME ViewBounds == MaxViews \in Nat \ {0} /\ MaxSize \in Nat

VARIABLES sizes,    \* sizes[i]: the size of the i-th view
          it,       \* it["x"], it["y"]: [index, offset]
          asked     \* the last move: whose, and by how much

conVars == <<sizes, it, asked>>

Count == Len(sizes)                          \* sizeof...(Views)

\* The sizes of the first n views, and of the views from a to b, together.
Sums(s) == LET sum[n \in 0..Len(s)] == IF n = 0 THEN 0 ELSE sum[n - 1] + s[n] IN sum
SizeSum(a, b) == Sums(sizes)[b] - Sums(sizes)[a - 1]

It(i, o) == [index |-> i, offset |-> o]
AtEndOf(i, p) == p.offset = sizes[i]         \* iter == ranges::end(views_[i])

\* satisfy: moves on from the end of any view but the last.  (The index of
\* this function and of the next three is the template parameter N.)
Satisfied[i \in 1..Count] == [o \in Int |->
  IF i < Count /\ o = sizes[i] THEN Satisfied[i + 1][0] ELSE It(i, o)]

Satisfy(p) == Satisfied[p.index][p.offset]

\* prev: from the beginning of a view goes to the end of the one before.
Before[i \in 1..Count] == [o \in Int |->
  IF i > 1 /\ o = 0 THEN Before[i - 1][sizes[i - 1]] ELSE It(i, o - 1)]

Prev(p) == Before[p.index][p.offset]

\* advance_fwd and advance_bwd: offset is p's distance from its view's
\* beginning, handed along instead of measured.  A view on the way is entered
\* at its beginning or its end, so n is where the move would end if that view
\* went on, offset + steps or offset - steps.
Forward[i \in 1..Count] == [n \in Int |->
  IF i = Count \/ n < sizes[i] THEN It(i, n) ELSE Forward[i + 1][n - sizes[i]]]

Backward[i \in 1..Count] == [n \in Int |->
  IF i = 1 \/ n >= 0 THEN It(i, n) ELSE Backward[i - 1][sizes[i - 1] + n]]

\* Mutant of AdvanceFwd: stops at the end of a view.
AdvanceFwd_ToEnd(p, offset, steps) ==
  IF p.index = Count \/ offset + steps <= sizes[p.index] THEN It(p.index, p.offset + steps)
  ELSE Forward[p.index + 1][offset + steps - sizes[p.index]]

\* Mutant of AdvanceFwd: the steps already made in the first view are lost.
AdvanceFwd_Restart(p, offset, steps) ==
  IF p.index = Count \/ offset + steps < sizes[p.index] THEN It(p.index, p.offset + steps)
  ELSE Forward[p.index + 1][steps - sizes[p.index]]

AdvanceFwd(p, offset, steps) == Forward[p.index][offset + steps]
AdvanceBwd(p, offset, steps) == Backward[p.index][offset - steps]

ConBegin == Satisfy(It(1, 0))
ConEnd == It(Count, sizes[Count])
Size  == SizeSum(1, Count)

AtSentinel(p) == p.index = Count /\ AtEndOf(Count, p)

-----------------------------------------------------------------------------
(* Comparisons and distances *)

\* The order of two variants: by alternative, then by value.
Less(p, q) == p.index < q.index \/ (p.index = q.index /\ p.offset < q.offset)

\* concat_view_iterator_difference_helper: for a later p, the rest of q's
\* view, the views between, and the beginning of p's.
Ahead(p, q) == (sizes[q.index] - q.offset) + SizeSum(q.index + 1, p.index - 1) + p.offset
Difference(p, q) ==
  IF p.index > q.index THEN Ahead(p, q)
  ELSE IF p.index < q.index THEN -Ahead(q, p)
  ELSE p.offset - q.offset

\* The difference of an iterator and the default sentinel.
SentinelDifference(p) == -((sizes[p.index] - p.offset) + SizeSum(p.index + 1, Count))

-----------------------------------------------------------------------------
\* What an iterator stands for: a place in the concatenated range.
Position(p) == SizeSum(1, p.index - 1) + p.offset

Iterators == {"x", "y"}

ConInit ==
  /\ sizes \in UNION { [1..n -> 0..MaxSize] : n \in 1..MaxViews }
  /\ it = [x |-> ConBegin, y |-> ConEnd]
  /\ asked = <<"x", 0>>

Moved(w, p, n) ==
  /\ it' = [it EXCEPT ![w] = p]
  /\ asked' = <<w, n>>
  /\ UNCHANGED sizes

Increment(w) ==
  /\ ~AtSentinel(it[w])
  /\ Moved(w, Satisfy([it[w] EXCEPT !.offset = @ + 1]), 1)

Decrement(w) ==
  /\ Position(it[w]) > 0
  /\ Moved(w, Prev(it[w]), -1)

\* operator+= ; operator-= negates its argument.
PlusAssign(w, n) ==
  /\ Position(it[w]) + n \in 0..Size
  /\ Moved(w, IF n > 0 THEN AdvanceFwd(it[w], it[w].offset, n)
              ELSE IF n < 0 THEN AdvanceBwd(it[w], it[w].offset, -n) ELSE it[w], n)

\* x = y, begin() or end(): the move is whatever the positions say.
Assign(w, p) == Moved(w, p, Position(p) - Position(it[w]))

ConNext ==
  \E w \in Iterators :
    \/ Increment(w)
    \/ Decrement(w)
    \/ \E n \in -(MaxViews * MaxSize)..(MaxViews * MaxSize) : PlusAssign(w, n)
    \/ \E p \in {ConBegin, ConEnd, it["x"], it["y"]} : Assign(w, p)

ConSpec == ConInit /\ [][ConNext]_conVars

-----------------------------------------------------------------------------
\* satisfy() and advance leave no iterator at the end of a view that has
\* another one after it, however many empty views there are: each place of the
\* concatenated range has one representation, so the equality and the order of
\* the variants are those of the places.  Differences, of two iterators and of
\* an iterator and the sentinel, are the distances of the places, and size()
\* is the distance of the ends.
OneFormPerPlace ==
  /\ \A p, q \in {it["x"], it["y"], ConBegin, ConEnd} :
       /\ p.index < Count => ~AtEndOf(p.index, p)
       /\ (p = q) <=> (Position(p) = Position(q))
       /\ Less(p, q) <=> (Position(p) < Position(q))
       /\ Difference(p, q) = Position(p) - Position(q)
       /\ AtSentinel(p) <=> (Position(p) = Size)
       /\ SentinelDifference(p) = Position(p) - Size
  /\ Size = Difference(ConEnd, ConBegin)

\* ++, --, += and -= move by as many places as they say, across any number of
\* boundaries and empty views.
MovesExactly ==
  [][\A w \in Iterators : w = asked'[1] => Position(it[w])' = Position(it[w]) + asked'[2]]_conVars
=============================================================================
