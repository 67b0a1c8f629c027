------------------------------- MODULE Ranking -------------------------------
(* How a board is ordered and ranked.  The contract of app/store/base.py comes *)
(* first, as a definition of every listing in one go; then what the code does  *)
(* instead: cut a slice out of the index, take the rank of its first row from  *)
(* one count, and rank_page the rest.                                          *)
(*                                                                             *)
(* A board is a function from users to scores or NoScore.  Only the order of   *)
(* user ids is ever looked at, so a user id is its number in that order.       *)
EXTENDS Integers, FiniteSets, Sequences

CONSTANT NoScore

Members(board) == {u \in DOMAIN board : board[u] # NoScore}

(* 1-based competition ranking: tied players share the better rank and the     *)
(* next score skips ahead.                                                     *)
RankOf(board, score) == 1 + Cardinality({u \in Members(board) : board[u] > score})

Standing(board, named, u) ==
    [user |-> u, score |-> board[u], rank |-> RankOf(board, board[u]), named |-> u \in named]

(* Best score first, and descending user id within a tie.                      *)
Ahead(board, u) ==
    {v \in Members(board) : board[v] > board[u] \/ (board[v] = board[u] /\ v > u)}

Listing(board, named) ==
    [i \in 1 .. Cardinality(Members(board)) |->
        Standing(board, named, CHOOSE u \in Members(board) : Cardinality(Ahead(board, u)) = i - 1)]

Least(a, b) == IF a < b THEN a ELSE b

Greatest(a, b) == IF a < b THEN b ELSE a

(* What the contract answers: a page, one standing, and a player between the   *)
(* radius players listed just above and just below.                            *)
TopOf(board, named, limit, offset) ==
    [op |-> "top", total |-> Cardinality(Members(board)),
     entries |-> SubSeq(Listing(board, named), offset + 1,
                        Least(offset + limit, Cardinality(Members(board))))]

EntryOf(board, named, u) ==
    IF u \in Members(board)
      THEN [op |-> "entry", entry |-> Standing(board, named, u)]
      ELSE [op |-> "absent"]

ContextOf(board, named, u, radius) ==
    IF u \in Members(board)
      THEN LET strip == Listing(board, named)
               at == Cardinality(Ahead(board, u)) + 1
           IN  [op |-> "context", total |-> Len(strip), user |-> strip[at],
                above |-> SubSeq(strip, Greatest(1, at - radius), at - 1),
                below |-> SubSeq(strip, at + 1, Least(at + radius, Len(strip)))]
      ELSE [op |-> "absent"]

------------------------------------------------------------------------------
(* The index: a set of rows <<user, score>>, of which a sorted list or a Redis *)
(* sorted set keeps each at its place.                                         *)

RowsOf(board) == {<<u, board[u]>> : u \in Members(board)}

(* Mutated form of Before: ties in ascending order of user id.                 *)
AscendingTies(r, q) == q[2] < r[2] \/ (q[2] = r[2] /\ r[1] < q[1])

(* The key (-score, _DescStr(user_id)) of row r is less than that of row q.    *)
Before(r, q) == q[2] < r[2] \/ (q[2] = r[2] /\ q[1] < r[1])

(* index_of, ZREVRANK: the rows listed before r.                               *)
PlaceOf(rows, r) == Cardinality({q \in rows : Before(q, r)})

(* Mutated form of CountAbove: ties are counted, as with an inclusive bound.   *)
CountAtLeast(rows, score) == Cardinality({q \in rows : q[2] >= score})

(* count_above, ZCOUNT (score +inf: the rows with a strictly higher score.     *)
CountAbove(rows, score) == Cardinality({q \in rows : q[2] > score})

(* Mutated form of Slice: a page without its last row.                         *)
ShortSlice(rows, start, stop) ==
    [i \in 1 .. Least(stop - 1, Cardinality(rows)) - start |->
        CHOOSE r \in rows : PlaceOf(rows, r) = start + i - 1]

(* slice, ZREVRANGE: the rows from place start up to, not including, stop.     *)
Slice(rows, start, stop) ==
    [i \in 1 .. Least(stop, Cardinality(rows)) - start |->
        CHOOSE r \in rows : PlaceOf(rows, r) = start + i - 1]

(* Mutated form of RankPage: a tied row takes its absolute position.           *)
PositionPage(page, startIndex, rankOfFirst) ==
    [i \in 1 .. Len(page) |->
        [user |-> page[i][1], score |-> page[i][2],
         rank |-> IF i = 1 THEN rankOfFirst ELSE startIndex + i]]

(* rank_page                                                                   *)
RankPage(page, startIndex, rankOfFirst) ==
    LET rank[i \in 1 .. Len(page)] ==
            IF i = 1 THEN rankOfFirst
            ELSE IF page[i][2] = page[i - 1][2] THEN rank[i - 1]
            ELSE startIndex + i
    IN  [i \in 1 .. Len(page) |->
            [user |-> page[i][1], score |-> page[i][2], rank |-> rank[i]]]

(* _decorate: whether the entry comes with a display name.                     *)
Decorate(entries, named) ==
    [i \in 1 .. Len(entries) |->
        [user |-> entries[i].user, score |-> entries[i].score,
         rank |-> entries[i].rank, named |-> entries[i].user \in named]]
==============================================================================
