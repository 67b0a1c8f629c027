---------------------------- MODULE RankingProofs ----------------------------
(* What the operators of Ranking compute, for boards and pages of any length:  *)
(* a slice of the index and one count, spread over the page by rank_page, are  *)
(* the page of standings the contract defines.                                 *)
EXTENDS Ranking, FiniteSetTheorems, FunctionTheorems, SequenceTheorems, TLAPS

------------------------------------------------------------------------------
(* Induction over numbers                                                      *)

(* Every nonempty set of naturals has a least element: the intervals up to its *)
(* members are finite sets, which strict inclusion orders well.                *)
LEMMA LeastElement ==
    ASSUME NEW T \in SUBSET Nat, T # {}
    PROVE  \E m \in T : \A n \in T : m <= n
<1> DEFINE upTo == {1 .. n : n \in T}
           order == StrictSubsetOrdering(Nat)
<1>1. upTo \subseteq FiniteSubsetsOf(Nat)
  <2>1. ASSUME NEW n \in T PROVE IsFiniteSet(1 .. n) /\ 1 .. n \in SUBSET Nat
    BY FS_Interval
  <2> QED
    BY <2>1 DEF FiniteSubsetsOf
<1>2. upTo # {}
  OBVIOUS
<1>3. IsWellFoundedOn(order, FiniteSubsetsOf(Nat))
  BY FS_StrictSubsetOrderingWellFounded
<1> HIDE DEF upTo, order
<1>4. PICK shortest \in upTo : \A s \in upTo : ~ (<<s, shortest>> \in order)
  BY <1>1, <1>2, <1>3, WFMin
<1>5. PICK m \in T : shortest = 1 .. m
  BY <1>4 DEF upTo
<1>6. ASSUME NEW n \in T, n < m PROVE FALSE
  <2>1. 1 .. n \in upTo
    BY DEF upTo
  <2>2. 1 .. n \subseteq 1 .. m /\ m \in 1 .. m /\ m \notin 1 .. n
    BY <1>6
  <2>3. <<1 .. n, 1 .. m>> \in order
    BY <2>2 DEF order, StrictSubsetOrdering
  <2> QED
    BY <1>4, <1>5, <2>1, <2>3
<1> QED
  BY <1>6

------------------------------------------------------------------------------
(* Places                                                                      *)

(* The rows of an index: finitely many, and one for each user.                 *)
IsIndex(rows) ==
    /\ IsFiniteSet(rows)
    /\ rows \subseteq Int \X Int
    /\ \A r, q \in rows : r[1] = q[1] => r = q

Preceding(rows, r) == {q \in rows : Before(q, r)}

(* The rows of an index are in a total order.                                  *)
LEMMA RowsAreOrdered ==
    ASSUME NEW rows, IsIndex(rows)
    PROVE  /\ \A r, q \in rows : r # q => Before(r, q) \/ Before(q, r)
           /\ \A r, q \in rows : ~ (Before(r, q) /\ Before(q, r))
           /\ \A r, q, s \in rows : Before(r, q) /\ Before(q, s) => Before(r, s)
<1>1. \A r \in rows : r[1] \in Int /\ r[2] \in Int /\ r = <<r[1], r[2]>>
  BY DEF IsIndex
<1> QED
  BY <1>1 DEF Before, IsIndex

LEMMA PrecedingIsFinite ==
    ASSUME NEW rows, IsIndex(rows), NEW r
    PROVE  /\ IsFiniteSet(rows) /\ Cardinality(rows) \in Nat
           /\ IsFiniteSet(Preceding(rows, r)) /\ Cardinality(Preceding(rows, r)) \in Nat
           /\ PlaceOf(rows, r) = Cardinality(Preceding(rows, r))
<1>1. IsFiniteSet(rows) /\ Preceding(rows, r) \in SUBSET rows
  BY DEF IsIndex, Preceding
<1>2. IsFiniteSet(Preceding(rows, r))
  BY <1>1, FS_Subset
<1> QED
  BY <1>1, <1>2, FS_CardinalityType DEF PlaceOf, Preceding

(* A row comes after more rows than any row before it.                         *)
LEMMA PlaceGrows ==
    ASSUME NEW rows, IsIndex(rows), NEW q \in rows, NEW r \in rows, Before(q, r)
    PROVE  PlaceOf(rows, q) < PlaceOf(rows, r)
<1>1. Preceding(rows, q) \in SUBSET Preceding(rows, r)
  BY RowsAreOrdered DEF Preceding
<1>2. q \in Preceding(rows, r) /\ q \notin Preceding(rows, q)
  BY RowsAreOrdered DEF Preceding
<1>3. Cardinality(Preceding(rows, q)) <= Cardinality(Preceding(rows, r))
  BY <1>1, PrecedingIsFinite, FS_Subset
<1>4. Cardinality(Preceding(rows, q)) # Cardinality(Preceding(rows, r))
  BY <1>1, <1>2, PrecedingIsFinite, FS_Subset
<1> QED
  BY <1>3, <1>4, PrecedingIsFinite

LEMMA PlaceIsInRange ==
    ASSUME NEW rows, IsIndex(rows), NEW r \in rows
    PROVE  PlaceOf(rows, r) \in 0 .. Cardinality(rows) - 1
<1>1. Preceding(rows, r) \in SUBSET rows /\ r \notin Preceding(rows, r)
  BY RowsAreOrdered DEF Preceding
<1>2. /\ Cardinality(Preceding(rows, r)) <= Cardinality(rows)
      /\ Cardinality(Preceding(rows, r)) # Cardinality(rows)
  BY <1>1, PrecedingIsFinite, FS_Subset
<1> QED
  BY <1>2, PrecedingIsFinite

LEMMA PlaceTellsRow ==
    ASSUME NEW rows, IsIndex(rows), NEW q \in rows, NEW r \in rows
    PROVE  /\ PlaceOf(rows, q) = PlaceOf(rows, r) => q = r
           /\ PlaceOf(rows, q) < PlaceOf(rows, r) => Before(q, r)
<1>1. PlaceOf(rows, q) \in Nat /\ PlaceOf(rows, r) \in Nat
  BY PlaceIsInRange, PrecedingIsFinite
<1>2. q = r \/ Before(q, r) \/ Before(r, q)
  BY RowsAreOrdered
<1>3. /\ Before(q, r) => PlaceOf(rows, q) < PlaceOf(rows, r)
      /\ Before(r, q) => PlaceOf(rows, r) < PlaceOf(rows, q)
  BY PlaceGrows
<1> QED
  BY <1>1, <1>2, <1>3

(* The row at place k.                                                         *)
RowAt(rows, k) == CHOOSE r \in rows : PlaceOf(rows, r) = k

(* Every place is taken, by one row.                                           *)
LEMMA EveryPlaceIsTaken ==
    ASSUME NEW rows, IsIndex(rows), NEW k \in 0 .. Cardinality(rows) - 1
    PROVE  /\ RowAt(rows, k) \in rows
           /\ PlaceOf(rows, RowAt(rows, k)) = k
           /\ \A r \in rows : PlaceOf(rows, r) = k => r = RowAt(rows, k)
<1> DEFINE places == 0 .. Cardinality(rows) - 1
           place == [r \in rows |-> PlaceOf(rows, r)]
<1>0. Cardinality(rows) \in Nat /\ IsFiniteSet(rows)
  BY PrecedingIsFinite
<1>1. place \in [rows -> places]
  BY PlaceIsInRange
<1>2. \A q, r \in rows : place[q] = place[r] => q = r
  BY PlaceTellsRow
<1>3. IsFiniteSet(places) /\ Cardinality(places) = Cardinality(rows)
  BY <1>0, FS_Interval
<1> HIDE DEF place, places
<1>4. place \in Injection(rows, places)
  BY <1>1, <1>2, Fun_IsInj
<1>5. place \in Surjection(rows, places)
  BY <1>3, <1>4, FS_Injection
<1>6. \E r \in rows : place[r] = k
  <2>1. \A t \in places : \E r \in rows : place[r] = t
    BY <1>5, Fun_SurjectionProperties
  <2> QED
    BY <2>1 DEF places
<1>7. \E r \in rows : PlaceOf(rows, r) = k
  BY <1>6 DEF place
<1>8. RowAt(rows, k) \in rows /\ PlaceOf(rows, RowAt(rows, k)) = k
  BY <1>7 DEF RowAt
<1> QED
  BY <1>8, PlaceTellsRow

------------------------------------------------------------------------------
(* Pages                                                                       *)

(* A page of the rows, whose first row is at place start.                      *)
IsPage(rows, page, start) ==
    /\ Len(page) \in Nat
    /\ page \in [1 .. Len(page) -> rows]
    /\ \A i \in 1 .. Len(page) : PlaceOf(rows, page[i]) = start + i - 1

(* A slice holds the rows at its places, in order, as far as there are any.    *)
LEMMA SliceIsPage ==
    ASSUME NEW rows, IsIndex(rows), NEW start \in Nat, NEW stop \in Int
    PROVE  LET page == Slice(rows, start, stop)
               n == Least(stop, Cardinality(rows)) - start
           IN  /\ IsPage(rows, page, start)
               /\ Len(page) = IF n < 0 THEN 0 ELSE n
               /\ \A i \in 1 .. Len(page) : page[i] = RowAt(rows, start + i - 1)
<1> DEFINE page == Slice(rows, start, stop)
           n == Least(stop, Cardinality(rows)) - start
           len == IF n < 0 THEN 0 ELSE n
<1>0. Cardinality(rows) \in Nat
  BY PrecedingIsFinite
<1>1. start + len - 1 < Cardinality(rows) \/ len = 0
  BY <1>0 DEF Least
<1>2. n \in Int /\ len \in Nat /\ 1 .. n = 1 .. len
  BY <1>0 DEF Least
<1>3. page = [i \in 1 .. len |-> RowAt(rows, start + i - 1)]
  BY <1>2 DEF Slice, RowAt
<1>4. Len(page) = len
  BY <1>2, <1>3
<1>5. ASSUME NEW i \in 1 .. len
      PROVE  RowAt(rows, start + i - 1) \in rows /\ PlaceOf(rows, RowAt(rows, start + i - 1)) = start + i - 1
  <2>1. start + i - 1 \in 0 .. Cardinality(rows) - 1
    BY <1>0, <1>1, <1>2, <1>5 DEF Least
  <2> QED
    BY <2>1, EveryPlaceIsTaken
<1> HIDE DEF page, n, len
<1>6. IsPage(rows, page, start)
  BY <1>2, <1>3, <1>4, <1>5 DEF IsPage
<1>7. Len(page) = len /\ \A i \in 1 .. Len(page) : page[i] = RowAt(rows, start + i - 1)
  BY <1>3, <1>4
<1> QED
  BY <1>6, <1>7 DEF page, len, n

(* Rows come down a page with scores that never rise.                          *)
LEMMA PageDescends ==
    ASSUME NEW rows, IsIndex(rows), NEW start \in Nat, NEW page, IsPage(rows, page, start)
    PROVE  /\ \A i \in 1 .. Len(page) : page[i] \in rows /\ page[i][1] \in Int /\ page[i][2] \in Int
           /\ \A i, j \in 1 .. Len(page) : i < j => Before(page[i], page[j])
           /\ \A i, j \in 1 .. Len(page) : i <= j => page[j][2] <= page[i][2]
<1>1. \A i \in 1 .. Len(page) : page[i] \in rows /\ page[i][1] \in Int /\ page[i][2] \in Int
  BY DEF IsPage, IsIndex
<1>2. ASSUME NEW i \in 1 .. Len(page), NEW j \in 1 .. Len(page), i < j
      PROVE  Before(page[i], page[j])
  <2>1. PlaceOf(rows, page[i]) < PlaceOf(rows, page[j])
    BY <1>2 DEF IsPage
  <2> QED
    BY <1>1, <2>1, PlaceTellsRow
<1>3. ASSUME NEW i \in 1 .. Len(page), NEW j \in 1 .. Len(page), i <= j
      PROVE  page[j][2] <= page[i][2]
  <2>1. CASE i = j
    BY <1>1, <2>1
  <2>2. CASE i < j
    BY <1>1, <1>2, <2>2 DEF Before
  <2> QED
    BY <1>3, <2>1, <2>2
<1> QED
  BY <1>1, <1>2, <1>3

(* The first row of a page with that score.                                    *)
FirstWith(page, score) ==
    CHOOSE j \in 1 .. Len(page) :
        page[j][2] = score /\ \A k \in 1 .. Len(page) : page[k][2] = score => j <= k

LEMMA FirstWithIsFirst ==
    ASSUME NEW page, Len(page) \in Nat, NEW i \in 1 .. Len(page), NEW score, page[i][2] = score
    PROVE  /\ FirstWith(page, score) \in 1 .. i
           /\ page[FirstWith(page, score)][2] = score
           /\ \A k \in 1 .. Len(page) : page[k][2] = score => FirstWith(page, score) <= k
<1> DEFINE T == {k \in 1 .. Len(page) : page[k][2] = score}
<1>1. T \in SUBSET Nat /\ i \in T
  OBVIOUS
<1>2. \E m \in T : \A k \in T : m <= k
  BY <1>1, LeastElement
<1>3. /\ FirstWith(page, score) \in 1 .. Len(page)
      /\ page[FirstWith(page, score)][2] = score
      /\ \A k \in 1 .. Len(page) : page[k][2] = score => FirstWith(page, score) <= k
  BY <1>2 DEF FirstWith
<1> QED
  BY <1>3

(* The rank rank_page gives row i: that of the first row it is tied with.      *)
RankIn(page, start, first, i) ==
    IF page[i][2] = page[1][2] THEN first ELSE start + FirstWith(page, page[i][2])

(* rank_page walks down the page; what it has computed at each row is a        *)
(* property of that row alone.                                                 *)
LEMMA RankPageRanks ==
    ASSUME NEW page, Len(page) \in Nat, NEW start \in Int, NEW first,
           \A i \in 1 .. Len(page) : page[i][2] \in Int,
           \A i, j \in 1 .. Len(page) : i <= j => page[j][2] <= page[i][2]
    PROVE  RankPage(page, start, first)
             = [i \in 1 .. Len(page) |-> [user |-> page[i][1], score |-> page[i][2],
                                          rank |-> RankIn(page, start, first, i)]]
<1> DEFINE step(f) == [i \in 1 .. Len(page) |->
                         IF i = 1 THEN first
                         ELSE IF page[i][2] = page[i - 1][2] THEN f[i - 1]
                         ELSE start + i]
           rank == CHOOSE f : f = step(f)
           wanted == [i \in 1 .. Len(page) |-> RankIn(page, start, first, i)]
<1>1. RankPage(page, start, first) = [i \in 1 .. Len(page) |->
            [user |-> page[i][1], score |-> page[i][2], rank |-> rank[i]]]
  BY DEF RankPage
<1>2. ASSUME NEW i \in 1 .. Len(page)
      PROVE  wanted[i] = step(wanted)[i]
  <2>1. CASE i = 1
    BY <2>1 DEF RankIn
  <2>2. CASE i # 1 /\ page[i][2] = page[i - 1][2]
    <3>1. i - 1 \in 1 .. Len(page)
      BY <2>2
    <3> QED
      BY <2>2, <3>1 DEF RankIn
  <2>3. CASE i # 1 /\ page[i][2] # page[i - 1][2]
    <3>1. i - 1 \in 1 .. Len(page) /\ 1 \in 1 .. Len(page)
      BY <2>3
    <3>2. page[i][2] < page[i - 1][2]
      BY <2>3, <3>1
    <3>3. \A k \in 1 .. i - 1 : page[i][2] < page[k][2]
      BY <3>1, <3>2
    <3>4. page[i][2] # page[1][2]
      BY <2>3, <3>1, <3>3
    <3>5. FirstWith(page, page[i][2]) = i
      <4>1. /\ FirstWith(page, page[i][2]) \in 1 .. i
            /\ page[FirstWith(page, page[i][2])][2] = page[i][2]
        BY FirstWithIsFirst
      <4> QED
        BY <3>3, <4>1
    <3> QED
      BY <2>3, <3>4, <3>5 DEF RankIn
  <2> QED
    BY <2>1, <2>2, <2>3
<1>3. wanted = step(wanted)
  BY <1>2
<1>4. rank = step(rank)
  BY <1>3
<1>5. ASSUME NEW i \in 1 .. Len(page)
      PROVE  rank[i] = wanted[i]
  <2> DEFINE T == {j \in 1 .. Len(page) : rank[j] # wanted[j]}
  <2>1. SUFFICES ASSUME T # {} PROVE FALSE
    OBVIOUS
  <2>2. T \in SUBSET Nat
    OBVIOUS
  <2> HIDE DEF T
  <2>3. PICK m \in T : \A j \in T : m <= j
    BY <2>1, <2>2, LeastElement
  <2>4. m \in 1 .. Len(page) /\ rank[m] # wanted[m]
    BY DEF T
  <2>5. rank[m] = step(rank)[m] /\ wanted[m] = step(wanted)[m]
    BY <1>3, <1>4
  <2>6. CASE m = 1
    BY <2>4, <2>5, <2>6
  <2>7. CASE m # 1
    <3>1. m - 1 \in 1 .. Len(page)
      BY <2>4, <2>7
    <3>2. m - 1 \notin T
      BY <2>3, <2>4, <2>7, <3>1
    <3>3. rank[m - 1] = wanted[m - 1]
      BY <3>1, <3>2 DEF T
    <3> HIDE DEF rank, wanted
    <3> QED
      BY <2>4, <2>5, <2>7, <3>3
  <2> QED
    BY <2>6, <2>7
<1> HIDE DEF rank
<1> QED
  BY <1>1, <1>5

(* A row on a page that opens a tie comes after just the better scores.        *)
LEMMA TieOpener ==
    ASSUME NEW rows, IsIndex(rows), NEW start \in Nat, NEW page, IsPage(rows, page, start),
           NEW j \in 2 .. Len(page), page[j - 1][2] # page[j][2]
    PROVE  PlaceOf(rows, page[j]) = CountAbove(rows, page[j][2])
<1>1. j \in 1 .. Len(page) /\ j - 1 \in 1 .. Len(page) /\ Len(page) \in Nat
  BY DEF IsPage
<1>2. page[j] \in rows /\ page[j - 1] \in rows /\ page[j][2] < page[j - 1][2]
  <2>1. page[j] \in rows /\ page[j - 1] \in rows /\ page[j][2] \in Int /\ page[j - 1][2] \in Int
    BY <1>1, PageDescends
  <2>2. page[j][2] <= page[j - 1][2]
    BY <1>1, PageDescends
  <2> QED
    BY <2>1, <2>2
<1>3. \A r \in rows : r[1] \in Int /\ r[2] \in Int
  BY DEF IsIndex
<1>4. ASSUME NEW q \in rows, Before(q, page[j]), q[2] = page[j][2]
      PROVE  FALSE
  <2>1. Before(page[j - 1], q)
    BY <1>2, <1>4 DEF Before
  <2>2. PlaceOf(rows, page[j - 1]) < PlaceOf(rows, q) /\ PlaceOf(rows, q) < PlaceOf(rows, page[j])
    BY <1>2, <1>4, <2>1, PlaceGrows
  <2>3. PlaceOf(rows, page[j]) = start + j - 1 /\ PlaceOf(rows, page[j - 1]) = start + j - 2
    BY <1>1 DEF IsPage
  <2>4. PlaceOf(rows, q) \in Nat
    BY PlaceIsInRange, PrecedingIsFinite
  <2> QED
    BY <2>2, <2>3, <2>4
<1>5. {q \in rows : Before(q, page[j])} = {q \in rows : q[2] > page[j][2]}
  BY <1>2, <1>3, <1>4 DEF Before
<1> QED
  BY <1>5 DEF PlaceOf, CountAbove

(* rank_page over a page of the index: the first row, and those tied with it,  *)
(* have the rank that was counted, every other row its competition rank.       *)
LEMMA PageRanks ==
    ASSUME NEW rows, IsIndex(rows), NEW start \in Nat, NEW page, IsPage(rows, page, start),
           NEW first
    PROVE  RankPage(page, start, first)
             = [i \in 1 .. Len(page) |->
                   [user |-> page[i][1], score |-> page[i][2],
                    rank |-> IF page[i][2] = page[1][2] THEN first
                             ELSE CountAbove(rows, page[i][2]) + 1]]
<1>1. RankPage(page, start, first)
        = [i \in 1 .. Len(page) |-> [user |-> page[i][1], score |-> page[i][2],
                                     rank |-> RankIn(page, start, first, i)]]
  <2>1. Len(page) \in Nat /\ start \in Int
    BY DEF IsPage
  <2>2. /\ \A i \in 1 .. Len(page) : page[i][2] \in Int
        /\ \A i, j \in 1 .. Len(page) : i <= j => page[j][2] <= page[i][2]
    BY PageDescends
  <2> QED
    BY <2>1, <2>2, RankPageRanks
<1>2. ASSUME NEW i \in 1 .. Len(page)
      PROVE  RankIn(page, start, first, i)
               = IF page[i][2] = page[1][2] THEN first ELSE CountAbove(rows, page[i][2]) + 1
  <2> DEFINE j == FirstWith(page, page[i][2])
  <2>1. SUFFICES ASSUME page[i][2] # page[1][2]
                 PROVE  start + j = CountAbove(rows, page[i][2]) + 1
    BY DEF RankIn
  <2>2. Len(page) \in Nat
    BY DEF IsPage
  <2>3. /\ j \in 1 .. i /\ page[j][2] = page[i][2]
        /\ \A k \in 1 .. Len(page) : page[k][2] = page[i][2] => j <= k
    BY <2>2, FirstWithIsFirst
  <2> HIDE DEF j
  <2>4. j \in 2 .. Len(page) /\ j - 1 \in 1 .. Len(page) /\ page[j - 1][2] # page[j][2]
    BY <2>1, <2>2, <2>3
  <2>5. PlaceOf(rows, page[j]) = CountAbove(rows, page[i][2])
    BY <2>3, <2>4, TieOpener
  <2>6. PlaceOf(rows, page[j]) = start + j - 1
    BY <2>4 DEF IsPage
  <2> QED
    BY <2>4, <2>5, <2>6 DEF j
<1> QED
  BY <1>1, <1>2
------------------------------------------------------------------------------
(* Cuts                                                                        *)

LEMMA CutOf ==
    ASSUME NEW s, NEW from \in Int, NEW to \in Int
    PROVE  SubSeq(s, from, to) = [i \in 1 .. (to - from + 1) |-> s[from + i - 1]]
<1> DEFINE S == {s[i] : i \in from .. to}
           cut == SubSeq(s, from, to)
<1>1. \A i \in from .. to : s[i] \in S
  OBVIOUS
<1> HIDE DEF S
<1>2. /\ cut \in Seq(S)
      /\ Len(cut) = IF from <= to THEN to - from + 1 ELSE 0
      /\ \A i \in 1 .. (to - from + 1) : cut[i] = s[from + i - 1]
  BY <1>1, SubSeqProperties
<1> HIDE DEF cut
<1>3. cut \in [1 .. Len(cut) -> S]
  BY <1>2, LenProperties
<1>4. 1 .. Len(cut) = 1 .. (to - from + 1)
  BY <1>2
<1>5. cut = [i \in 1 .. (to - from + 1) |-> s[from + i - 1]]
  BY <1>2, <1>3, <1>4
<1> QED
  BY <1>5 DEF cut

(* A cut of a cut is a cut.                                                    *)
LEMMA CutOfCut ==
    ASSUME NEW s, NEW from \in Int, NEW n \in Nat, NEW a \in Int, NEW b \in Int,
           1 <= a, b <= n,
           NEW t, t = [i \in 1 .. n |-> s[from + i - 1]]
    PROVE  SubSeq(t, a, b) = SubSeq(s, from + a - 1, from + b - 1)
<1>1. SubSeq(t, a, b) = [i \in 1 .. (b - a + 1) |-> t[a + i - 1]]
  BY CutOf
<1>2. SubSeq(s, from + a - 1, from + b - 1)
        = [i \in 1 .. ((from + b - 1) - (from + a - 1) + 1) |-> s[(from + a - 1) + i - 1]]
  BY CutOf
<1>3. (from + b - 1) - (from + a - 1) + 1 = b - a + 1
  OBVIOUS
<1>4. ASSUME NEW i \in 1 .. (b - a + 1)
      PROVE  t[a + i - 1] = s[(from + a - 1) + i - 1]
  <2>1. a + i - 1 \in 1 .. n
    OBVIOUS
  <2>2. from + (a + i - 1) - 1 = (from + a - 1) + i - 1
    OBVIOUS
  <2> QED
    BY <2>1, <2>2
<1> QED
  BY <1>1, <1>2, <1>3, <1>4

------------------------------------------------------------------------------
(* Boards                                                                      *)

IsBoard(board) ==
    /\ IsFiniteSet(DOMAIN board)
    /\ DOMAIN board \subseteq Int
    /\ \A u \in Members(board) : board[u] \in Int

Row(board, u) == <<u, board[u]>>

(* Some players have as many rows as they are.                                 *)
LEMMA RowsCountPlayers ==
    ASSUME NEW board, IsBoard(board), NEW some \in SUBSET Members(board)
    PROVE  LET theirs == {Row(board, u) : u \in some}
           IN  /\ IsFiniteSet(some) /\ IsFiniteSet(theirs)
               /\ Cardinality(theirs) = Cardinality(some) /\ Cardinality(some) \in Nat
<1> DEFINE theirs == {Row(board, u) : u \in some}
           f == [u \in some |-> Row(board, u)]
<1>1. IsFiniteSet(some)
  BY FS_Subset DEF IsBoard, Members
<1>2. f \in Bijection(some, theirs)
  <2>1. f \in [some -> theirs] /\ \A u, v \in some : f[u] = f[v] => u = v
    BY DEF Row
  <2>2. \A r \in theirs : \E u \in some : f[u] = r
    OBVIOUS
  <2> HIDE DEF f, theirs
  <2>3. f \in Injection(some, theirs)
    BY <2>1, Fun_IsInj
  <2>4. f \in Surjection(some, theirs)
    BY <2>1, <2>2, Fun_IsSurj
  <2> QED
    BY <2>3, <2>4 DEF Bijection
<1> HIDE DEF f, theirs
<1>3. ExistsBijection(some, theirs)
  BY <1>2 DEF ExistsBijection
<1>4. IsFiniteSet(theirs) /\ Cardinality(theirs) = Cardinality(some)
  BY <1>1, <1>3, FS_Bijection
<1> QED
  BY <1>1, <1>4, FS_CardinalityType DEF theirs

(* The index of a board, and what is counted in it.                            *)
LEMMA IndexOfBoard ==
    ASSUME NEW board, IsBoard(board)
    PROVE  /\ IsIndex(RowsOf(board))
           /\ Cardinality(RowsOf(board)) = Cardinality(Members(board))
           /\ Cardinality(Members(board)) \in Nat
           /\ \A r \in RowsOf(board) : r[1] \in Members(board) /\ r = Row(board, r[1])
           /\ \A score : CountAbove(RowsOf(board), score) + 1 = RankOf(board, score)
           /\ \A u \in Members(board) :
                 /\ Row(board, u) \in RowsOf(board)
                 /\ PlaceOf(RowsOf(board), Row(board, u)) = Cardinality(Ahead(board, u))
<1>1. RowsOf(board) = {Row(board, u) : u \in Members(board)}
  BY DEF RowsOf, Row
<1>2. /\ IsFiniteSet(RowsOf(board))
      /\ Cardinality(RowsOf(board)) = Cardinality(Members(board))
      /\ Cardinality(Members(board)) \in Nat
  BY <1>1, RowsCountPlayers
<1>3. Members(board) \subseteq Int /\ \A u \in Members(board) : board[u] \in Int
  BY DEF IsBoard, Members
<1>4. \A r \in RowsOf(board) : r[1] \in Members(board) /\ r = Row(board, r[1])
  BY <1>1 DEF Row
<1>5. IsIndex(RowsOf(board))
  BY <1>1, <1>2, <1>3 DEF IsIndex, Row
<1>6. ASSUME NEW score
      PROVE  CountAbove(RowsOf(board), score) + 1 = RankOf(board, score)
  <2> DEFINE better == {u \in Members(board) : board[u] > score}
  <2>1. {q \in RowsOf(board) : q[2] > score} = {Row(board, u) : u \in better}
    BY <1>1 DEF Row
  <2>2. better \in SUBSET Members(board)
    OBVIOUS
  <2> HIDE DEF better
  <2>3. Cardinality({Row(board, u) : u \in better}) = Cardinality(better) /\ Cardinality(better) \in Nat
    BY <2>2, RowsCountPlayers
  <2>4. CountAbove(RowsOf(board), score) = Cardinality(better)
    BY <2>1, <2>3 DEF CountAbove
  <2> QED
    BY <2>3, <2>4 DEF RankOf, better
<1>7. ASSUME NEW u \in Members(board)
      PROVE  PlaceOf(RowsOf(board), Row(board, u)) = Cardinality(Ahead(board, u))
  <2>1. {q \in RowsOf(board) : Before(q, Row(board, u))} = {Row(board, v) : v \in Ahead(board, u)}
    BY <1>1, <1>3 DEF Before, Row, Ahead
  <2>2. Ahead(board, u) \in SUBSET Members(board)
    BY DEF Ahead
  <2> QED
    BY <2>1, <2>2, RowsCountPlayers DEF PlaceOf
<1> QED
  BY <1>1, <1>2, <1>4, <1>5, <1>6, <1>7

LEMMA ListingAt ==
    ASSUME NEW board, IsBoard(board), NEW named, NEW i \in 1 .. Cardinality(Members(board))
    PROVE  /\ RowAt(RowsOf(board), i - 1)[1] \in Members(board)
           /\ Listing(board, named)[i] = Standing(board, named, RowAt(RowsOf(board), i - 1)[1])
<1> DEFINE r == RowAt(RowsOf(board), i - 1)
           at(u) == Cardinality(Ahead(board, u)) = i - 1
<1>1. i - 1 \in 0 .. Cardinality(RowsOf(board)) - 1 /\ IsIndex(RowsOf(board))
  BY IndexOfBoard
<1>2. /\ r \in RowsOf(board) /\ PlaceOf(RowsOf(board), r) = i - 1
      /\ \A q \in RowsOf(board) : PlaceOf(RowsOf(board), q) = i - 1 => q = r
  BY <1>1, EveryPlaceIsTaken
<1> HIDE DEF r
<1>3. r[1] \in Members(board) /\ r = Row(board, r[1])
  BY <1>2, IndexOfBoard
<1>4. at(r[1])
  BY <1>2, <1>3, IndexOfBoard
<1>5. ASSUME NEW u \in Members(board), at(u)
      PROVE  u = r[1]
  <2>1. Row(board, u) \in RowsOf(board) /\ PlaceOf(RowsOf(board), Row(board, u)) = i - 1
    BY <1>5, IndexOfBoard
  <2>2. Row(board, u) = r
    BY <1>2, <2>1
  <2> QED
    BY <2>2 DEF Row
<1>6. (CHOOSE u \in Members(board) : at(u)) = r[1]
  BY <1>3, <1>4, <1>5
<1>7. Listing(board, named)[i] = Standing(board, named, CHOOSE u \in Members(board) : at(u))
  BY DEF Listing
<1> QED
  BY <1>3, <1>6, <1>7 DEF r
LEMMA CountsOfBoard ==
    ASSUME NEW board, IsBoard(board)
    PROVE  /\ \A score : CountAbove(RowsOf(board), score) \in 0 .. Cardinality(Members(board))
           /\ \A u \in Members(board) :
                 Cardinality(Ahead(board, u)) \in 0 .. Cardinality(Members(board)) - 1
<1>1. /\ IsIndex(RowsOf(board)) /\ IsFiniteSet(RowsOf(board))
      /\ Cardinality(RowsOf(board)) = Cardinality(Members(board))
  BY IndexOfBoard DEF IsIndex
<1>2. ASSUME NEW score
      PROVE  CountAbove(RowsOf(board), score) \in 0 .. Cardinality(Members(board))
  <2> DEFINE better == {q \in RowsOf(board) : q[2] > score}
  <2>1. better \in SUBSET RowsOf(board)
    OBVIOUS
  <2> HIDE DEF better
  <2>2. IsFiniteSet(better) /\ Cardinality(better) <= Cardinality(RowsOf(board))
    BY <1>1, <2>1, FS_Subset
  <2>3. Cardinality(better) \in Nat /\ Cardinality(RowsOf(board)) \in Nat
    BY <1>1, <2>2, FS_CardinalityType
  <2>4. CountAbove(RowsOf(board), score) = Cardinality(better)
    BY DEF CountAbove, better
  <2> QED
    BY <1>1, <2>2, <2>3, <2>4
<1>3. ASSUME NEW u \in Members(board)
      PROVE  Cardinality(Ahead(board, u)) \in 0 .. Cardinality(Members(board)) - 1
  BY <1>1, IndexOfBoard, PlaceIsInRange
<1> QED
  BY <1>2, <1>3

(* How many rows there are from place start up to place stop.                  *)
PageLen(start, stop, total) ==
    IF Least(stop, total) - start < 0 THEN 0 ELSE Least(stop, total) - start

(* A slice of a board shows the players at its places, at their places.        *)
LEMMA PageOfBoard ==
    ASSUME NEW board, IsBoard(board), NEW start \in Nat, NEW stop \in Int
    PROVE  LET page == Slice(RowsOf(board), start, stop)
               size == Cardinality(Members(board))
           IN  /\ Len(page) = PageLen(start, stop, size)
               /\ Len(page) \in 0 .. size
               /\ page \in [1 .. Len(page) -> RowsOf(board)]
               /\ \A i \in 1 .. Len(page) : page[i][1] \in Members(board) /\ page[i] = Row(board, page[i][1])
               /\ \A u \in Members(board), place \in Nat :
                     /\ place = Cardinality(Ahead(board, u))
                     /\ start <= place /\ place < stop
                     => place - start + 1 \in 1 .. Len(page) /\ page[place - start + 1] = Row(board, u)
<1> DEFINE page == Slice(RowsOf(board), start, stop)
           size == Cardinality(Members(board))
<1>1. /\ IsIndex(RowsOf(board)) /\ Cardinality(RowsOf(board)) = size /\ size \in Nat
      /\ \A r \in RowsOf(board) : r[1] \in Members(board) /\ r = Row(board, r[1])
      /\ \A u \in Members(board) : /\ Row(board, u) \in RowsOf(board)
                                   /\ PlaceOf(RowsOf(board), Row(board, u)) = Cardinality(Ahead(board, u))
  BY IndexOfBoard
<1>2. /\ IsPage(RowsOf(board), page, start) /\ Len(page) = PageLen(start, stop, size)
      /\ \A i \in 1 .. Len(page) : page[i] = RowAt(RowsOf(board), start + i - 1)
  BY <1>1, SliceIsPage DEF PageLen
<1> HIDE DEF page, size
<1>3. Len(page) \in 0 .. size
  BY <1>1, <1>2 DEF PageLen, Least
<1>4. page \in [1 .. Len(page) -> RowsOf(board)]
  BY <1>2 DEF IsPage
<1>5. \A i \in 1 .. Len(page) : page[i][1] \in Members(board) /\ page[i] = Row(board, page[i][1])
  BY <1>1, <1>4
<1>6. ASSUME NEW u \in Members(board), NEW place \in Nat, place = Cardinality(Ahead(board, u)),
             start <= place, place < stop
      PROVE  place - start + 1 \in 1 .. Len(page) /\ page[place - start + 1] = Row(board, u)
  <2>1. PlaceOf(RowsOf(board), Row(board, u)) = place /\ Row(board, u) \in RowsOf(board)
    BY <1>1, <1>6
  <2>2. place \in 0 .. size - 1
    BY <1>1, <2>1, PlaceIsInRange
  <2>3. place - start + 1 \in 1 .. Len(page) /\ start + (place - start + 1) - 1 = place
    BY <1>1, <1>2, <1>6, <2>2 DEF PageLen, Least
  <2>4. Row(board, u) = RowAt(RowsOf(board), place)
    BY <1>1, <2>1, <2>2, EveryPlaceIsTaken
  <2> QED
    BY <1>2, <2>3, <2>4
<1> QED
  BY <1>2, <1>3, <1>4, <1>5, <1>6 DEF page, size

------------------------------------------------------------------------------
(* What the code puts together is what the contract defines                    *)

(* The entries made of a slice of a board and of the rank of its first row.    *)
Answered(board, named, start, stop, first) ==
    Decorate(RankPage(Slice(RowsOf(board), start, stop), start, first), named)

LEMMA AnsweredEntries ==
    ASSUME NEW board, IsBoard(board), NEW named, NEW start \in Nat, NEW stop \in Int, NEW first,
           NEW page, page = Slice(RowsOf(board), start, stop)
    PROVE  /\ IsPage(RowsOf(board), page, start)
           /\ Answered(board, named, start, stop, first)
                = [i \in 1 .. Len(page) |->
                      [user |-> page[i][1], score |-> page[i][2],
                       rank |-> IF page[i][2] = page[1][2] THEN first
                                ELSE RankOf(board, page[i][2]),
                       named |-> page[i][1] \in named]]
<1> DEFINE ranked == RankPage(page, start, first)
<1>1. IsIndex(RowsOf(board)) /\ \A score : CountAbove(RowsOf(board), score) + 1 = RankOf(board, score)
  BY IndexOfBoard
<1>2. IsPage(RowsOf(board), page, start)
  BY <1>1, SliceIsPage
<1>3. ranked = [i \in 1 .. Len(page) |->
                  [user |-> page[i][1], score |-> page[i][2],
                   rank |-> IF page[i][2] = page[1][2] THEN first ELSE RankOf(board, page[i][2])]]
  BY <1>1, <1>2, PageRanks
<1>4. Len(ranked) = Len(page)
  BY <1>2, <1>3 DEF IsPage
<1> HIDE DEF ranked
<1>5. Decorate(ranked, named)
        = [i \in 1 .. Len(page) |->
              [user |-> page[i][1], score |-> page[i][2],
               rank |-> IF page[i][2] = page[1][2] THEN first ELSE RankOf(board, page[i][2]),
               named |-> page[i][1] \in named]]
  BY <1>3, <1>4 DEF Decorate
<1> QED
  BY <1>2, <1>5 DEF Answered, ranked

(* The rank a read gives to the first row of its page, when there is one.      *)
IsFirstRank(board, page, first) ==
    Len(page) > 0 => first = CountAbove(RowsOf(board), page[1][2]) + 1

ListedFrom(board, named, start, n) == [i \in 1 .. n |-> Listing(board, named)[start + i]]

Listed(board, named, start, stop) ==
    SubSeq(Listing(board, named), start + 1, Least(stop, Cardinality(Members(board))))

(* A page put together from one slice of the index, one count of the better    *)
(* scores and rank_page is that cut of the listing the contract defines, for   *)
(* boards and pages of any length, ties across the ends of the page included   *)
(* (top of both stores).                                                       *)
THEOREM AnsweredIsListed ==
    ASSUME NEW board, IsBoard(board), NEW named, NEW start \in Nat, NEW stop \in Int,
           NEW first, IsFirstRank(board, Slice(RowsOf(board), start, stop), first)
    PROVE  LET n == PageLen(start, stop, Cardinality(Members(board)))
           IN  /\ n \in Nat /\ Len(Slice(RowsOf(board), start, stop)) = n
               /\ Answered(board, named, start, stop, first) = ListedFrom(board, named, start, n)
               /\ Answered(board, named, start, stop, first) = Listed(board, named, start, stop)
<1> DEFINE rows == RowsOf(board)
           page == Slice(rows, start, stop)
           total == Cardinality(Members(board))
           n == PageLen(start, stop, total)
           to == Least(stop, total)
           listing == Listing(board, named)
           entries == Answered(board, named, start, stop, first)
<1>1. /\ IsIndex(rows) /\ Cardinality(rows) = total /\ total \in Nat
      /\ \A score : CountAbove(rows, score) + 1 = RankOf(board, score)
      /\ \A r \in rows : r[1] \in Members(board) /\ r = Row(board, r[1])
  BY IndexOfBoard
<1>2. /\ to \in Int /\ n \in Nat /\ start + 1 \in Int
      /\ 1 .. (to - (start + 1) + 1) = 1 .. n
      /\ \A i \in 1 .. n : start + i \in 1 .. total /\ i \in Int
      /\ \A i \in Int : start + i - 1 = (start + i) - 1 /\ (start + 1) + i - 1 = start + i
  <2> HIDE DEF total
  <2> QED
    BY <1>1 DEF Least, PageLen
<1>3. /\ IsPage(rows, page, start) /\ Len(page) = n
      /\ \A i \in 1 .. n : page[i] = RowAt(rows, start + i - 1)
  BY <1>1, SliceIsPage DEF PageLen
<1>4. entries = [i \in 1 .. n |->
                    [user |-> page[i][1], score |-> page[i][2],
                     rank |-> IF page[i][2] = page[1][2] THEN first ELSE RankOf(board, page[i][2]),
                     named |-> page[i][1] \in named]]
  BY <1>3, AnsweredEntries
<1>5. n > 0 => first = RankOf(board, page[1][2])
  BY <1>1, <1>3 DEF IsFirstRank
<1> HIDE DEF entries, listing, page, n, total
<1>6. ASSUME NEW i \in 1 .. n
      PROVE  entries[i] = listing[start + i]
  <2>1. start + i \in 1 .. total /\ start + i - 1 = (start + i) - 1
    BY <1>2
  <2>2. page[i] \in rows /\ page[i] = RowAt(rows, (start + i) - 1)
    BY <1>2, <1>3, <1>6, <2>1 DEF IsPage
  <2>3. listing[start + i] = Standing(board, named, page[i][1])
    BY <2>1, <2>2, ListingAt DEF listing, total
  <2>4. page[i][2] = board[page[i][1]]
    BY <1>1, <2>2 DEF Row
  <2>5. entries[i] = [user |-> page[i][1], score |-> page[i][2],
                      rank |-> RankOf(board, page[i][2]), named |-> page[i][1] \in named]
    <3>1. n > 0
      <4> n \in Nat
        BY <1>2
      <4> QED
        BY <1>6
    <3>2. (IF page[i][2] = page[1][2] THEN first ELSE RankOf(board, page[i][2]))
             = RankOf(board, page[i][2])
      BY <1>5, <3>1, Zenon
    <3>3. entries[i] = [user |-> page[i][1], score |-> page[i][2],
                        rank |-> IF page[i][2] = page[1][2] THEN first
                                 ELSE RankOf(board, page[i][2]),
                        named |-> page[i][1] \in named]
      BY <1>4, <1>6, Zenon
    <3> QED
      BY <3>2, <3>3, Zenon
  <2> QED
    BY <2>3, <2>4, <2>5 DEF Standing
<1>7. entries = [i \in 1 .. n |-> listing[start + i]]
  BY <1>4, <1>6
<1> HIDE DEF to
<1>8. SubSeq(listing, start + 1, to) = [i \in 1 .. (to - (start + 1) + 1) |-> listing[(start + 1) + i - 1]]
  BY <1>2, CutOf
<1>9. entries = SubSeq(listing, start + 1, to)
  BY <1>2, <1>7, <1>8
<1> QED
  BY <1>2, <1>3, <1>7, <1>9 DEF entries, listing, to, page, n, total, ListedFrom, Listed

(* A player's entries cut out of a strip, in terms of what the strip is cut of. *)
LEMMA StripCuts ==
    ASSUME NEW s, NEW start \in Nat, NEW n \in Nat, NEW pivot \in 1 .. n
    PROVE  LET t == [i \in 1 .. n |-> s[start + i]]
           IN  /\ Len(t) = n
               /\ SubSeq(t, 1, pivot - 1) = SubSeq(s, start + 1, start + pivot - 1)
               /\ t[pivot] = s[start + pivot]
               /\ SubSeq(t, pivot + 1, n) = SubSeq(s, start + pivot + 1, start + n)
<1> DEFINE t == [i \in 1 .. n |-> s[start + i]]
<1>1. \A i \in 1 .. n : s[start + i] = s[(start + 1) + i - 1]
  <2>1. \A i \in 1 .. n : start + i = (start + 1) + i - 1
    OBVIOUS
  <2> QED
    BY <2>1
<1>2. t = [i \in 1 .. n |-> s[(start + 1) + i - 1]]
  BY <1>1
<1>3. /\ start + 1 \in Int /\ pivot - 1 \in Int /\ pivot - 1 <= n
      /\ pivot + 1 \in Int /\ 1 <= pivot + 1
  OBVIOUS
<1>4. /\ SubSeq(t, 1, pivot - 1) = SubSeq(s, (start + 1) + 1 - 1, (start + 1) + (pivot - 1) - 1)
      /\ SubSeq(t, pivot + 1, n) = SubSeq(s, (start + 1) + (pivot + 1) - 1, (start + 1) + n - 1)
  <2> HIDE DEF t
  <2>1. n \in Int /\ n <= n /\ 1 \in Int /\ 1 <= 1
    OBVIOUS
  <2>2. SubSeq(t, 1, pivot - 1) = SubSeq(s, (start + 1) + 1 - 1, (start + 1) + (pivot - 1) - 1)
    BY <1>2, <1>3, <2>1, CutOfCut
  <2>3. SubSeq(t, pivot + 1, n) = SubSeq(s, (start + 1) + (pivot + 1) - 1, (start + 1) + n - 1)
    BY <1>2, <1>3, <2>1, CutOfCut
  <2> QED
    BY <2>2, <2>3
<1>5. /\ (start + 1) + 1 - 1 = start + 1 /\ (start + 1) + (pivot - 1) - 1 = start + pivot - 1
      /\ (start + 1) + (pivot + 1) - 1 = start + pivot + 1 /\ (start + 1) + n - 1 = start + n
  OBVIOUS
<1> QED
  BY <1>4, <1>5

(* The places of a strip of radius players on either side of place index.      *)
StripFrom(index, radius) == Greatest(0, index - radius)

StripTo(index, radius) == index + radius + 1

Pivot(index, radius) == index - StripFrom(index, radius) + 1

LEMMA StripPlaces ==
    ASSUME NEW total \in Nat, NEW radius \in Nat, NEW index \in 0 .. total - 1
    PROVE  LET start == StripFrom(index, radius)
               n == PageLen(start, StripTo(index, radius), total)
               pivot == Pivot(index, radius)
               at == index + 1
           IN  /\ start \in Nat /\ StripTo(index, radius) \in Int
               /\ n \in Nat /\ pivot \in 1 .. n
               /\ start + 1 = Greatest(1, at - radius)
               /\ start + pivot = at /\ start + pivot - 1 = at - 1 /\ start + pivot + 1 = at + 1
               /\ start + n = Least(at + radius, total)
BY DEF Greatest, Least, PageLen, StripFrom, StripTo, Pivot

(* A strip split at the player's own entry.                                    *)
SplitAt(total, entries, pivot) ==
    [op |-> "context", total |-> total, above |-> SubSeq(entries, 1, pivot - 1),
     user |-> entries[pivot], below |-> SubSeq(entries, pivot + 1, Len(entries))]

(* The strip around a player, split at the player's place in it, is the        *)
(* context of the contract, for boards of any size and any radius, at both     *)
(* ends of the board too (context of both stores).                             *)
THEOREM StripIsContext ==
    ASSUME NEW board, IsBoard(board), NEW named, NEW u \in Members(board), NEW radius \in Nat,
           NEW index, index = PlaceOf(RowsOf(board), Row(board, u)),
           NEW first,
           IsFirstRank(board, Slice(RowsOf(board), StripFrom(index, radius), StripTo(index, radius)), first)
    PROVE  LET entries == Answered(board, named, StripFrom(index, radius), StripTo(index, radius), first)
           IN  /\ Pivot(index, radius) \in 1 .. Len(entries)
               /\ ContextOf(board, named, u, radius)
                    = SplitAt(Cardinality(RowsOf(board)), entries, Pivot(index, radius))
<1> DEFINE start == StripFrom(index, radius)
           stop == StripTo(index, radius)
           page == Slice(RowsOf(board), start, stop)
           entries == Answered(board, named, start, stop, first)
           pivot == Pivot(index, radius)
           total == Cardinality(Members(board))
           listing == Listing(board, named)
           n == PageLen(start, stop, total)
           at == index + 1
<1>1. /\ IsIndex(RowsOf(board)) /\ Cardinality(RowsOf(board)) = total /\ total \in Nat
      /\ Row(board, u) \in RowsOf(board) /\ Cardinality(Ahead(board, u)) + 1 = at
  BY IndexOfBoard
<1>2. index \in 0 .. total - 1
  BY <1>1, PlaceIsInRange
<1>3. Len(listing) = total
  BY <1>1 DEF Listing
<1>4. ContextOf(board, named, u, radius)
         = [op |-> "context", total |-> Len(listing), user |-> listing[at],
            above |-> SubSeq(listing, Greatest(1, at - radius), at - 1),
            below |-> SubSeq(listing, at + 1, Least(at + radius, Len(listing)))]
  BY <1>1 DEF ContextOf
<1>5. /\ start \in Nat /\ stop \in Int /\ n \in Nat /\ pivot \in 1 .. n
      /\ start + 1 = Greatest(1, at - radius)
      /\ start + pivot = at /\ start + pivot - 1 = at - 1 /\ start + pivot + 1 = at + 1
      /\ start + n = Least(at + radius, total)
  <2> HIDE DEF total
  <2> QED
    BY <1>1, <1>2, StripPlaces, Zenon
<1>6. IsFirstRank(board, page, first)
  OBVIOUS
<1> HIDE DEF total, listing, start, stop, pivot
<1>7. entries = ListedFrom(board, named, start, n)
  BY <1>5, <1>6, AnsweredIsListed DEF total
<1>8. ListedFrom(board, named, start, n) = [i \in 1 .. n |-> listing[start + i]]
  BY DEF ListedFrom, listing
<1> DEFINE strip == [i \in 1 .. n |-> listing[start + i]]
<1> HIDE DEF n, at, page, entries
<1>9. /\ Len(strip) = n
      /\ SubSeq(strip, 1, pivot - 1) = SubSeq(listing, start + 1, start + pivot - 1)
      /\ strip[pivot] = listing[start + pivot]
      /\ SubSeq(strip, pivot + 1, n) = SubSeq(listing, start + pivot + 1, start + n)
  BY <1>5, StripCuts
<1> HIDE DEF strip
<1>10. entries = strip
  BY <1>7, <1>8 DEF strip
<1>11. /\ pivot \in 1 .. Len(entries)
       /\ ContextOf(board, named, u, radius) = SplitAt(Cardinality(RowsOf(board)), entries, pivot)
  BY <1>1, <1>3, <1>4, <1>5, <1>9, <1>10 DEF SplitAt
<1> QED
  BY <1>11 DEF start, stop, entries, pivot
==============================================================================
