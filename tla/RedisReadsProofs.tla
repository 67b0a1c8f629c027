--------------------------- MODULE RedisReadsProofs ---------------------------
(* Proofs about RedisReads, for every finite set of users, every request and   *)
(* every calendar: whatever is written between its commands.                   *)
EXTENDS RedisReads, FiniteSetTheorems, SequenceTheorems, TLAPS

R == INSTANCE RankingProofs

(* The operators of RedisReads and those the lemmas are about are the same.    *)
LEMMA SameRanking ==
    /\ \A S : R!Cardinality(S) = Cardinality(S) /\ R!IsFiniteSet(S) = IsFiniteSet(S)
    /\ \A board : R!Members(board) = Members(board) /\ R!RowsOf(board) = RowsOf(board)
    /\ \A board, score : R!RankOf(board, score) = RankOf(board, score)
    /\ \A board, u : R!Ahead(board, u) = Ahead(board, u)
    /\ \A board, named, u : R!Standing(board, named, u) = Standing(board, named, u)
    /\ \A board, named : R!Listing(board, named) = Listing(board, named)
    /\ \A board, named, u, radius : R!ContextOf(board, named, u, radius) = ContextOf(board, named, u, radius)
    /\ \A x, y : R!Least(x, y) = Least(x, y) /\ R!Greatest(x, y) = Greatest(x, y)
    /\ \A list, score : R!CountAbove(list, score) = CountAbove(list, score)
    /\ \A list, r : R!PlaceOf(list, r) = PlaceOf(list, r)
    /\ \A list, start, stop : R!Slice(list, start, stop) = Slice(list, start, stop)
    /\ \A page, start, first : R!RankPage(page, start, first) = RankPage(page, start, first)
    /\ \A entries, named : R!Decorate(entries, named) = Decorate(entries, named)
<1>1. \A S : R!Cardinality(S) = Cardinality(S)
  BY DEF R!Cardinality, Cardinality
<1>2. \A S : R!IsFiniteSet(S) = IsFiniteSet(S)
  BY DEF R!IsFiniteSet, IsFiniteSet
<1>3. \A board : R!Members(board) = Members(board) /\ R!RowsOf(board) = RowsOf(board)
  BY DEF R!Members, Members, R!RowsOf, RowsOf
<1>4. \A board, score : R!RankOf(board, score) = RankOf(board, score)
  BY <1>1, <1>3 DEF R!RankOf, RankOf
<1>5. \A board, u : R!Ahead(board, u) = Ahead(board, u)
  BY <1>3 DEF R!Ahead, Ahead
<1>6. \A board, named, u : R!Standing(board, named, u) = Standing(board, named, u)
  BY <1>4 DEF R!Standing, Standing
<1>7. \A board, named : R!Listing(board, named) = Listing(board, named)
  BY DEF R!Listing, Listing, R!Members, Members,
     R!Ahead, Ahead, R!Standing, Standing, R!RankOf, RankOf, R!Cardinality, Cardinality
<1>8. \A x, y : R!Least(x, y) = Least(x, y) /\ R!Greatest(x, y) = Greatest(x, y)
  BY DEF R!Least, Least, R!Greatest, Greatest
<1>9. \A board, named, u, radius : R!ContextOf(board, named, u, radius) = ContextOf(board, named, u, radius)
  BY DEF R!ContextOf, ContextOf, R!Least, Least, R!Greatest, Greatest, R!Listing, Listing, R!Members, Members,
     R!Ahead, Ahead, R!Standing, Standing, R!RankOf, RankOf, R!Cardinality, Cardinality
<1>10. \A list, score : R!CountAbove(list, score) = CountAbove(list, score)
  BY <1>1 DEF R!CountAbove, CountAbove
<1>11. \A list, r : R!PlaceOf(list, r) = PlaceOf(list, r)
  BY <1>1 DEF R!PlaceOf, PlaceOf, R!Before, Before
<1>12. \A list, start, stop : R!Slice(list, start, stop) = Slice(list, start, stop)
  BY <1>1, <1>8, <1>11 DEF R!Slice, Slice
<1>13. \A page, start, first : R!RankPage(page, start, first) = RankPage(page, start, first)
  BY DEF R!RankPage, RankPage
<1>14. \A entries, named : R!Decorate(entries, named) = Decorate(entries, named)
  BY DEF R!Decorate, Decorate
<1> QED
  BY <1>1, <1>2, <1>3, <1>4, <1>5, <1>6, <1>7, <1>8, <1>9, <1>10, <1>11, <1>12, <1>13, <1>14

Boards == [User -> Score \cup {NoScore}]

LEMMA BoardsAreBoards ==
    ASSUME NEW board \in Boards
    PROVE  R!IsBoard(board) /\ Members(board) \in SUBSET User
<1>1. DOMAIN board = User /\ \A u \in User : board[u] # NoScore => board[u] \in Int
  BY ScoreAssumption DEF Boards, Score
<1> QED
  BY <1>1, ReadAssumption, SameRanking DEF R!IsBoard, Members

(* Nothing that is counted on a board exceeds the number of users.             *)
LEMMA Counts ==
    ASSUME NEW board \in Boards
    PROVE  /\ Cardinality(User) \in Nat
           /\ Cardinality(Members(board)) \in 0 .. Cardinality(User)
           /\ Cardinality(RowsOf(board)) = Cardinality(Members(board))
           /\ \A score : /\ CountAbove(RowsOf(board), score) \in 0 .. Cardinality(User)
                         /\ CountAbove(RowsOf(board), score) + 1 = RankOf(board, score)
           /\ \A u \in Members(board) :
                 /\ Cardinality(Ahead(board, u)) \in 0 .. Cardinality(Members(board)) - 1
                 /\ PlaceOf(RowsOf(board), <<u, board[u]>>) = Cardinality(Ahead(board, u))
<1>1. R!IsBoard(board) /\ Members(board) \in SUBSET User
  BY BoardsAreBoards
<1>2. /\ Cardinality(RowsOf(board)) = Cardinality(Members(board))
      /\ \A score : CountAbove(RowsOf(board), score) + 1 = RankOf(board, score)
      /\ \A u \in Members(board) : PlaceOf(RowsOf(board), <<u, board[u]>>) = Cardinality(Ahead(board, u))
  BY <1>1, R!IndexOfBoard, SameRanking DEF R!Row
<1>3. /\ \A score : CountAbove(RowsOf(board), score) \in 0 .. Cardinality(Members(board))
      /\ \A u \in Members(board) : Cardinality(Ahead(board, u)) \in 0 .. Cardinality(Members(board)) - 1
  BY <1>1, R!CountsOfBoard, SameRanking
<1>4. /\ Cardinality(User) \in Nat /\ Cardinality(Members(board)) \in Nat
      /\ Cardinality(Members(board)) <= Cardinality(User)
  BY <1>1, ReadAssumption, FS_Subset, FS_CardinalityType
<1>5. ASSUME NEW score PROVE CountAbove(RowsOf(board), score) \in 0 .. Cardinality(User)
  BY <1>3, <1>4
<1> QED
  BY <1>2, <1>3, <1>4, <1>5

(* A slice of a board shows the players at its places, at their places.        *)
LEMMA Pages ==
    ASSUME NEW board \in Boards, NEW start \in Nat, NEW stop \in Int
    PROVE  LET page == Slice(RowsOf(board), start, stop)
               size == Cardinality(Members(board))
           IN  /\ Len(page) = R!PageLen(start, stop, size)
               /\ Len(page) \in Nat /\ Len(page) <= Cardinality(User)
               /\ DOMAIN page = 1 .. Len(page)
               /\ page # <<>> => Len(page) > 0
               /\ \A i \in 1 .. Len(page) : /\ page[i] \in User \X Score
                                            /\ page[i][1] \in Members(board)
                                            /\ page[i][2] = board[page[i][1]]
               /\ \A u \in Members(board), place \in Nat :
                     /\ place = Cardinality(Ahead(board, u))
                     /\ start <= place /\ place < stop
                     => place - start + 1 \in 1 .. Len(page) /\ page[place - start + 1] = <<u, board[u]>>
<1> DEFINE page == Slice(RowsOf(board), start, stop)
           size == Cardinality(Members(board))
<1>1. R!IsBoard(board) /\ Members(board) \in SUBSET User
  BY BoardsAreBoards
<1>2. /\ Len(page) = R!PageLen(start, stop, size)
      /\ Len(page) \in 0 .. size
      /\ page \in [1 .. Len(page) -> RowsOf(board)]
      /\ \A i \in 1 .. Len(page) : page[i][1] \in Members(board) /\ page[i] = <<page[i][1], board[page[i][1]]>>
      /\ \A u \in Members(board), place \in Nat :
            /\ place = Cardinality(Ahead(board, u))
            /\ start <= place /\ place < stop
            => place - start + 1 \in 1 .. Len(page) /\ page[place - start + 1] = <<u, board[u]>>
  BY <1>1, R!PageOfBoard, SameRanking DEF R!Row
<1> HIDE DEF page, size
<1>3. Len(page) \in Nat /\ Len(page) <= Cardinality(User)
  BY <1>2, Counts DEF size
<1>4. \A u \in Members(board) : u \in User /\ board[u] \in Score
  BY <1>1 DEF Members, Boards
<1>5. ASSUME NEW i \in 1 .. Len(page)
      PROVE  page[i] \in User \X Score /\ page[i][2] = board[page[i][1]]
  <2>1. PICK u \in Members(board) : page[i] = <<u, board[u]>>
    BY <1>2
  <2> QED
    BY <1>4, <2>1
<1>6. page # <<>> => Len(page) > 0
  <2>1. Len(page) = 0 => page \in [1 .. 0 -> RowsOf(board)]
    BY <1>2
  <2>2. \A f \in [1 .. 0 -> RowsOf(board)] : f = <<>>
    OBVIOUS
  <2> QED
    BY <1>3, <2>1, <2>2
<1> QED
  BY <1>2, <1>3, <1>5, <1>6 DEF page, size

(* What is put together from a slice and the rank of its first row: the row    *)
(* and those tied with it have that rank, the others their competition rank.   *)
LEMMA EntriesOfPage ==
    ASSUME NEW board \in Boards, NEW named, NEW start \in Nat, NEW stop \in Int, NEW first
    PROVE  LET page == Slice(RowsOf(board), start, stop)
           IN  Decorate(RankPage(page, start, first), named)
                 = [i \in 1 .. Len(page) |->
                       [user |-> page[i][1], score |-> page[i][2],
                        rank |-> IF page[i][2] = page[1][2] THEN first ELSE RankOf(board, page[i][2]),
                        named |-> page[i][1] \in named]]
<1> DEFINE page == Slice(RowsOf(board), start, stop)
<1>1. R!IsBoard(board)
  BY BoardsAreBoards
<1>2. page = R!Slice(R!RowsOf(board), start, stop)
      /\ \A score : R!RankOf(board, score) = RankOf(board, score)
  BY SameRanking
<1>3. R!Answered(board, named, start, stop, first) = Decorate(RankPage(page, start, first), named)
  BY <1>2, SameRanking DEF R!Answered
<1> HIDE DEF page
<1>4. R!Answered(board, named, start, stop, first)
        = [i \in 1 .. Len(page) |->
              [user |-> page[i][1], score |-> page[i][2],
               rank |-> IF page[i][2] = page[1][2] THEN first ELSE R!RankOf(board, page[i][2]),
               named |-> page[i][1] \in named]]
  BY <1>1, <1>2, R!AnsweredEntries
<1>5. R!Answered(board, named, start, stop, first)
        = [i \in 1 .. Len(page) |->
              [user |-> page[i][1], score |-> page[i][2],
               rank |-> IF page[i][2] = page[1][2] THEN first ELSE RankOf(board, page[i][2]),
               named |-> page[i][1] \in named]]
  BY <1>2, <1>4
<1> QED
  BY <1>3, <1>5 DEF page

(* The one row of a player, and its rank.                                      *)
LEMMA EntryOfRow ==
    ASSUME NEW u \in User, NEW score \in Score, NEW first, NEW named
    PROVE  Decorate(RankPage(<<<<u, score>>>>, 0, first), named)
             = <<[user |-> u, score |-> score, rank |-> first, named |-> u \in named]>>
<1> DEFINE page == <<<<u, score>>>>
           ranked == RankPage(page, 0, first)
<1>1. Len(page) = 1 /\ page[1] = <<u, score>> /\ score \in Int
  BY ScoreAssumption DEF Score
<1>2. \A i \in 1 .. 1 : i = 1
  OBVIOUS
<1> HIDE DEF page
<1>3. R!RankPage(page, 0, first)
        = [i \in 1 .. Len(page) |-> [user |-> page[i][1], score |-> page[i][2],
                                     rank |-> R!RankIn(page, 0, first, i)]]
  <2>1. \A i \in 1 .. Len(page) : page[i][2] \in Int
    BY <1>1, <1>2
  <2>2. \A i, j \in 1 .. Len(page) : i <= j => page[j][2] <= page[i][2]
    BY <1>1, <1>2
  <2>3. Len(page) \in Nat /\ 0 \in Int
    BY <1>1
  <2> QED
    BY <2>1, <2>2, <2>3, R!RankPageRanks
<1>4. ranked = [i \in 1 .. 1 |-> [user |-> u, score |-> score, rank |-> first]]
  BY <1>1, <1>2, <1>3, SameRanking DEF R!RankIn
<1> HIDE DEF ranked
<1>5. Decorate(ranked, named)
        = [i \in 1 .. 1 |-> [user |-> u, score |-> score, rank |-> first, named |-> u \in named]]
  BY <1>4 DEF Decorate
<1> QED
  BY <1>5 DEF page, ranked

(* The rank a read gives to the first row of its page, when nobody writes.     *)
IsFirstRank(board, page, first) ==
    Len(page) > 0 => first = CountAbove(RowsOf(board), page[1][2]) + 1

(* A page with that rank of its first row is the page of the contract.         *)
LEMMA TopIsExact ==
    ASSUME NEW board \in Boards, NEW named, NEW start \in Nat, NEW limit \in Nat,
           NEW page, page = Slice(RowsOf(board), start, start + limit),
           NEW first, IsFirstRank(board, page, first)
    PROVE  [op |-> "top", total |-> Cardinality(RowsOf(board)),
            entries |-> Decorate(RankPage(page, start, first), named)]
             = TopOf(board, named, limit, start)
<1> DEFINE stop == start + limit
<1>1. stop \in Int /\ R!IsBoard(board)
  BY BoardsAreBoards
<1>2. R!IsFirstRank(board, R!Slice(R!RowsOf(board), start, stop), first)
  BY SameRanking DEF R!IsFirstRank, IsFirstRank
<1>3. TopOf(board, named, limit, start)
        = [op |-> "top", total |-> Cardinality(Members(board)), entries |-> R!Listed(board, named, start, stop)]
  BY SameRanking DEF TopOf, R!Listed
<1> HIDE DEF stop
<1>4. R!Answered(board, named, start, stop, first) = R!Listed(board, named, start, stop)
  BY <1>1, <1>2, R!AnsweredIsListed
<1>5. R!Answered(board, named, start, stop, first) = Decorate(RankPage(page, start, first), named)
  BY SameRanking DEF R!Answered, stop
<1> QED
  BY <1>3, <1>4, <1>5, Counts

(* A strip, split at the player's place, is the context of the contract.       *)
StripFrom(place, radius) == Greatest(0, place - radius)

Pivot(place, radius) == place - StripFrom(place, radius) + 1

SplitAt(size, entries, pivot) ==
    [op |-> "context", total |-> size, above |-> SubSeq(entries, 1, pivot - 1),
     user |-> entries[pivot], below |-> SubSeq(entries, pivot + 1, Len(entries))]

LEMMA ContextIsExact ==
    ASSUME NEW board \in Boards, NEW named, NEW u \in Members(board), NEW radius \in Nat,
           NEW place, place = PlaceOf(RowsOf(board), <<u, board[u]>>),
           NEW page, page = Slice(RowsOf(board), StripFrom(place, radius), place + radius + 1),
           NEW first, IsFirstRank(board, page, first)
    PROVE  LET entries == Decorate(RankPage(page, StripFrom(place, radius), first), named)
           IN  /\ Pivot(place, radius) \in 1 .. Len(entries)
               /\ ContextOf(board, named, u, radius)
                    = SplitAt(Cardinality(RowsOf(board)), entries, Pivot(place, radius))
<1> DEFINE start == StripFrom(place, radius)
           stop == place + radius + 1
           entries == Decorate(RankPage(page, start, first), named)
<1>1. R!IsBoard(board) /\ u \in R!Members(board)
  BY BoardsAreBoards, SameRanking
<1>2. R!StripFrom(place, radius) = start /\ R!StripTo(place, radius) = stop
  BY SameRanking DEF R!StripFrom, R!StripTo, StripFrom
<1>3. R!Pivot(place, radius) = Pivot(place, radius)
  BY <1>2 DEF R!Pivot, Pivot
<1>4. place = R!PlaceOf(R!RowsOf(board), R!Row(board, u))
  BY SameRanking DEF R!Row
<1>5. R!IsFirstRank(board, R!Slice(R!RowsOf(board), R!StripFrom(place, radius), R!StripTo(place, radius)), first)
  BY <1>2, SameRanking DEF R!IsFirstRank, IsFirstRank
<1>6. R!Answered(board, named, R!StripFrom(place, radius), R!StripTo(place, radius), first) = entries
  BY <1>2, SameRanking DEF R!Answered
<1>7. R!SplitAt(R!Cardinality(R!RowsOf(board)), entries, Pivot(place, radius))
        = SplitAt(Cardinality(RowsOf(board)), entries, Pivot(place, radius))
  BY SameRanking DEF R!SplitAt, SplitAt
<1> HIDE DEF start, stop, entries
<1>8. /\ R!Pivot(place, radius) \in 1 .. Len(entries)
      /\ R!ContextOf(board, named, u, radius)
           = R!SplitAt(R!Cardinality(R!RowsOf(board)), entries, R!Pivot(place, radius))
  BY <1>1, <1>4, <1>5, <1>6, R!StripIsContext
<1> QED
  BY <1>3, <1>7, <1>8, SameRanking DEF entries, start

------------------------------------------------------------------------------
(* The course of a read, and the types                                         *)

(* Which command belongs to which request, and that a read has no answer       *)
(* before its last command: whatever got past the service is a valid request.  *)
Control ==
    /\ ask \in Ask
    /\ pc \in Steps
    /\ pc \notin {"idle", "done"} => ValidAsk
    /\ pc # "done" => reply = Outcome("none")
    /\ pc = "page" => ask.op = "top"
    /\ pc = "card" => ask.op = "top"
    /\ pc = "score" => ask.op = "entry"
    /\ pc \in {"place", "size", "strip"} => ask.op = "context"
    /\ pc \in {"count", "names"} => ask.op \in {"top", "entry", "context"}
    /\ pc = "scan" => ask.op = "scan" /\ index \in Nat
    /\ pc = "idle" => index = 0
    /\ pc \in {"strip", "count", "names"} /\ ask.op = "context" => index # NoPlace

LEMMA InitControl == Init => Control
  BY DEF Init, Control, Steps, Outcome

LEMMA FirstCommands ==
    ASSUME Control
    PROVE  FirstCommand \in {"page", "place", "score", "scan"}
<1>1. ask.op \in {"top", "entry", "context", "scan"}
  BY AskAssumption DEF Control, TopAsk, EntryAsk, ContextAsk, ScanAsk
<1> QED
  BY <1>1 DEF FirstCommand

LEMMA AskedTyping ==
    ASSUME Control, TypeOK
    PROVE  /\ ask.window \in Window
           /\ \A at \in Moment : WindowSuffix(ask.window, at) \in Bucket
           /\ now \in Moment
           /\ BucketNow \in Bucket
           /\ Board \in Boards
           /\ NamedNow \in Boards
           /\ ask.op \in {"entry", "context"} => ask.user \in User
           /\ ask.op = "scan" => ask.limit \in Nat \ {0}
           /\ ask.op = "top" /\ ValidAsk => ask.offset \in Nat /\ ask.limit \in Nat \ {0}
           /\ ask.op = "context" /\ ValidAsk => ask.radius \in Nat \ {0}
           /\ ask.op = "context" /\ ValidAsk /\ index \in Nat =>
                 StripStart \in Nat /\ index + ask.radius + 1 \in Nat
<1>1. ask \in TopAsk \cup EntryAsk \cup ContextAsk \cup ScanAsk
  BY AskAssumption DEF Control
<1>2. ask.window \in Window
  BY <1>1 DEF TopAsk, EntryAsk, ContextAsk, ScanAsk, Window
<1>3. \A at \in Moment : WindowSuffix(ask.window, at) \in Bucket
  BY <1>2 DEF Bucket
<1>4. now \in Moment
  BY CalendarAssumption DEF TypeOK, KeysTypeOK, Time, Moment
<1>5. BucketNow \in Bucket
  BY <1>3, <1>4 DEF BucketNow
<1>6. Board \in Boards /\ NamedNow \in Boards
  BY <1>5 DEF TypeOK, KeysTypeOK, Board, NamedNow, Boards
<1>7. ask.op \in {"entry", "context"} => ask.user \in User
  BY <1>1 DEF TopAsk, EntryAsk, ContextAsk, ScanAsk
<1>8. ask.op = "scan" => ask.limit \in Nat \ {0}
  BY <1>1 DEF TopAsk, EntryAsk, ContextAsk, ScanAsk
<1>9. ask.op = "top" /\ ValidAsk => ask.offset \in Nat /\ ask.limit \in Nat \ {0}
  <2>1. ask.op = "top" => ask.offset \in Int /\ ask.limit \in Int
    BY <1>1 DEF TopAsk, EntryAsk, ContextAsk, ScanAsk
  <2> QED
    BY <2>1 DEF ValidAsk
<1>10. ask.op = "context" /\ ValidAsk => ask.radius \in Nat \ {0}
  <2>1. ask.op = "context" => ask.radius \in Int
    BY <1>1 DEF TopAsk, EntryAsk, ContextAsk, ScanAsk
  <2> QED
    BY <2>1 DEF ValidAsk
<1>11. ask.op = "context" /\ ValidAsk /\ index \in Nat =>
          StripStart \in Nat /\ index + ask.radius + 1 \in Nat
  BY <1>10 DEF StripStart, Greatest
<1> QED
  BY <1>2, <1>3, <1>4, <1>5, <1>6, <1>7, <1>8, <1>9, <1>10, <1>11

LEMMA NextControl == Control /\ TypeOK /\ [Next]_vars => Control'
<1> SUFFICES ASSUME Control, TypeOK, [Next]_vars PROVE Control'
  OBVIOUS
<1> USE DEF Control, Steps, Outcome, ValidAsk, Await, Finish
<1>a. index \in Nat \cup {NoPlace}
  BY DEF TypeOK
<1>1. CASE Arrive
  <2>1. ask.op \in {"top", "entry", "context", "scan"}
    BY AskAssumption DEF TopAsk, EntryAsk, ContextAsk, ScanAsk
  <2> QED
    BY <1>1, <2>1 DEF Arrive, FirstCommand
<1>2. CASE ReadPage
  BY <1>2 DEF ReadPage
<1>3. CASE ReadCard
  BY <1>3 DEF ReadCard
<1>4. CASE ReadScore
  BY <1>4 DEF ReadScore
<1>5. CASE ReadPlace
  BY <1>5 DEF ReadPlace
<1>6. CASE ReadSize
  BY <1>6 DEF ReadSize
<1>7. CASE ReadStrip
  BY <1>7 DEF ReadStrip
<1>8. CASE ReadAbove
  BY <1>8 DEF ReadAbove
<1>9. CASE ReadNames
  BY <1>9 DEF ReadNames
<1>10. CASE ReadScanned
  BY <1>10, AskedTyping DEF ReadScanned
<1>11. CASE Fail
  BY <1>11 DEF Fail
<1>12. CASE Meanwhile
  BY <1>12 DEF Meanwhile, read
<1>13. CASE UNCHANGED vars
  BY <1>13 DEF vars, read
<1> QED
  BY <1>1, <1>2, <1>3, <1>4, <1>5, <1>6, <1>7, <1>8, <1>9, <1>10, <1>11, <1>12, <1>13
  DEF Next, Command

LEMMA WatchedAreBoards ==
    ASSUME Control, TypeOK
    PROVE  Watched \subseteq Bucket
<1>1. \A at \in Moment : WindowSuffix(ask.window, at) \in Bucket
  BY AskedTyping
<1>2. \A at \in Time : at \in Moment
  BY CalendarAssumption DEF Time, Moment
<1>3. Nameable \subseteq Bucket
  BY <1>1, <1>2 DEF Nameable
<1> QED
  BY <1>3 DEF Watched, TypeOK

(* Whatever other clients do keeps the types of the keys.                      *)
LEMMA WritesKeepTypes ==
    ASSUME Control, TypeOK
    PROVE  (Write /\ UNCHANGED now) \/ Tick => KeysTypeOK'
<1> SUFFICES ASSUME (Write /\ UNCHANGED now) \/ Tick PROVE KeysTypeOK'
  OBVIOUS
<1>0. KeysTypeOK
  BY DEF TypeOK
<1>1. ASSUME UNCHANGED now,
             NEW b \in Bucket, NEW u \in User, NEW score \in Score, NEW ttl \in Int,
             SubmitScript(b, u, score, ttl)
      PROVE  KeysTypeOK'
  <2>1. zset' \in [Bucket -> Boards]
    <3>1. Best(zset[b][u], score) \in Score \cup {NoScore}
      <4>1. zset[b][u] \in Score \cup {NoScore}
        BY <1>0 DEF KeysTypeOK
      <4> QED
        BY <4>1 DEF Best
    <3> QED
      BY <1>1, <3>1 DEF SubmitScript, TypeOK, KeysTypeOK, Boards
  <2>2. deadline' \in [Bucket -> Nat]
    <3>1. ttl > 0 => now + ttl \in Nat
      BY CalendarAssumption DEF TypeOK, KeysTypeOK, Time
    <3> QED
      BY <1>1, <3>1 DEF SubmitScript, TypeOK, KeysTypeOK
  <2> QED
    BY <1>1, <2>1, <2>2 DEF SubmitScript, TypeOK, KeysTypeOK, Boards
<1>2. ASSUME UNCHANGED now, NEW b \in Bucket, NEW u \in User, RemoveMember(b, u)
      PROVE  KeysTypeOK'
  BY <1>2 DEF RemoveMember, TypeOK, KeysTypeOK
<1>3. CASE Tick
  BY <1>0, <1>3, CalendarAssumption DEF Tick, KeysTypeOK, Time, EmptyBoard
<1>4. ASSUME UNCHANGED now, NEW u \in User, SetName(u) \/ RemoveName(u)
      PROVE  KeysTypeOK'
  BY <1>4 DEF SetName, RemoveName, TypeOK, KeysTypeOK
<1>5. TtlArgument(TtlFor(ask.window)) \in Int
  <2>1. ask.window \in Window
    BY AskedTyping
  <2> QED
    BY <2>1, RetentionAssumption DEF TtlArgument, TtlFor, NoTtl, Window
<1>6. Watched \subseteq Bucket
  BY WatchedAreBoards
<1> QED
  BY <1>1, <1>2, <1>3, <1>4, <1>5, <1>6, ReadAssumption DEF Write

LEMMA InitTypeOK == Init => TypeOK
<1> SUFFICES ASSUME Init PROVE TypeOK
  OBVIOUS
<1>1. KeysTypeOK
  BY CalendarAssumption DEF Init, KeysInit, KeysTypeOK, EmptyBoard, Time
<1>2. AllTimeBucket \in Bucket
  <2>1. 0 \in Moment /\ "all_time" \in Window /\ WindowSuffix("all_time", 0) = AllTimeBucket
    BY CalendarAssumption DEF Moment, Window, WindowSuffix
  <2> QED
    BY <2>1 DEF Bucket
<1>3. Cardinality(User) \in Nat
  BY ReadAssumption, FS_CardinalityType
<1>4. Len(rows) = 0 /\ 1 .. Len(rows) = {}
  BY DEF Init
<1> QED
  BY <1>1, <1>2, <1>3, <1>4 DEF Init, TypeOK, Steps, Outcome, Outcomes, EmptyBoard

LEMMA NextTypeOK == Control /\ TypeOK /\ [Next]_vars => TypeOK'
<1> SUFFICES ASSUME Control, TypeOK, [Next]_vars PROVE TypeOK'
  OBVIOUS
<1> USE DEF keys, observed, Steps, Outcome, Outcomes, Await, Finish
<1>a. /\ ask.op = "top" /\ ValidAsk => ask.offset \in Nat /\ ask.offset + ask.limit \in Int
      /\ Board \in Boards /\ NamedNow \in Boards
      /\ BucketNow \in Bucket
  BY AskedTyping
<1>b. /\ Cardinality(User) \in Nat
      /\ Cardinality(Rows) \in 0 .. Cardinality(User)
      /\ \A score : CountAbove(Rows, score) \in 0 .. Cardinality(User)
  BY <1>a, Counts DEF Rows
<1>1. CASE Arrive
  <2>1. bucket' \in Bucket
    BY <1>1, <1>a DEF Arrive
  <2>2. still' \subseteq User
    BY <1>1, <1>a, BoardsAreBoards DEF Arrive
  <2>3. pc' \in Steps /\ reply'.op \in Outcomes
    BY <1>1, FirstCommands DEF Arrive, TypeOK
  <2> QED
    BY <1>1, <2>1, <2>2, <2>3 DEF Arrive, TypeOK, KeysTypeOK
<1>2. CASE ReadPage
  <2>1. ask.offset \in Nat /\ ask.offset + ask.limit \in Int
    BY <1>2, <1>a DEF ReadPage, Control
  <2>2. Len(rows') <= Cardinality(User) /\ \A i \in 1 .. Len(rows') : rows'[i] \in User \X Score
    BY <1>2, <1>a, <2>1, Pages DEF ReadPage, Rows
  <2> QED
    BY <1>2, <1>a, <2>1, <2>2 DEF ReadPage, TypeOK, KeysTypeOK, Boards
<1>3. CASE ReadCard
  BY <1>3, <1>b DEF ReadCard, TypeOK, KeysTypeOK
<1>4. CASE ReadScore
  <2>1. ask.user \in User
    BY <1>4, AskedTyping DEF ReadScore, Control
  <2>2. OnBoard(bucket, ask.user) => Board[ask.user] \in Score
    BY <1>a, <2>1 DEF OnBoard, Board, Boards
  <2>3. OnBoard(bucket, ask.user) =>
          Len(rows') <= Cardinality(User) /\ \A i \in 1 .. Len(rows') : rows'[i] \in User \X Score
    <3>1. Cardinality(User) >= 1
      BY <2>1, <1>b, ReadAssumption, FS_EmptySet
    <3>2. OnBoard(bucket, ask.user) => rows' = <<<<ask.user, Board[ask.user]>>>>
      BY <1>4 DEF ReadScore
    <3>3. \A row \in User \X Score : Len(<<row>>) = 1 /\ <<row>>[1] = row
      OBVIOUS
    <3>4. OnBoard(bucket, ask.user) => <<ask.user, Board[ask.user]>> \in User \X Score
      BY <2>1, <2>2
    <3>5. OnBoard(bucket, ask.user) => Len(rows') = 1 /\ rows'[1] \in User \X Score
      BY <3>2, <3>3, <3>4
    <3>6. OnBoard(bucket, ask.user) => \A i \in 1 .. Len(rows') : i = 1
      <4>1. \A i \in 1 .. 1 : i = 1
        OBVIOUS
      <4> QED
        BY <3>5, <4>1
    <3>7. OnBoard(bucket, ask.user) => Len(rows') <= Cardinality(User)
      BY <1>b, <3>1, <3>5
    <3> QED
      BY <3>5, <3>6, <3>7
  <2>4. CASE OnBoard(bucket, ask.user)
    BY <1>4, <1>a, <2>3, <2>4 DEF ReadScore, TypeOK, KeysTypeOK, Boards
  <2>5. CASE ~ OnBoard(bucket, ask.user)
    BY <1>4, <1>a, <2>5 DEF ReadScore, TypeOK, KeysTypeOK, Boards
  <2> QED
    BY <2>4, <2>5
<1>5. CASE ReadPlace
  <2>1. index' \in Nat \cup {NoPlace}
    <3>1. ask.user \in User
      BY <1>5, AskedTyping DEF ReadPlace, Control
    <3>2. OnBoard(bucket, ask.user) => ask.user \in Members(Board)
      BY <1>a, <3>1 DEF OnBoard, Board, Members, Boards
    <3>3. OnBoard(bucket, ask.user) => PlaceOf(Rows, <<ask.user, Board[ask.user]>>) \in Nat
      BY <1>a, <3>2, Counts DEF Rows
    <3> QED
      BY <1>5, <3>3 DEF ReadPlace
  <2> QED
    BY <1>5, <2>1 DEF ReadPlace, TypeOK, KeysTypeOK
<1>6. CASE ReadSize
  BY <1>6, <1>b DEF ReadSize, TypeOK, KeysTypeOK
<1>7. CASE ReadStrip
  <2>1. StripStart \in Nat /\ index + ask.radius + 1 \in Int
    BY <1>7, AskedTyping DEF ReadStrip, Control, TypeOK
  <2>2. Len(rows') <= Cardinality(User) /\ \A i \in 1 .. Len(rows') : rows'[i] \in User \X Score
    BY <1>7, <1>a, <2>1, Pages DEF ReadStrip, Rows
  <2> QED
    BY <1>7, <1>a, <2>2 DEF ReadStrip, TypeOK, KeysTypeOK, Boards
<1>8. CASE ReadAbove
  <2>1. atCount' \in [User -> Score \cup {NoScore}]
    BY <1>8, <1>a DEF ReadAbove, Boards
  <2> QED
    BY <1>8, <1>b, <2>1 DEF ReadAbove, TypeOK, KeysTypeOK
<1>9. CASE ReadNames
  <2>1. reply'.op \in Outcomes
    BY <1>9 DEF ReadNames, Split, Control
  <2> QED
    BY <1>9, <2>1 DEF ReadNames, TypeOK, KeysTypeOK
<1>10. CASE ReadScanned
  <2> DEFINE page == Slice(RowsOf(NamedNow), index, index + ask.limit)
  <2>1. /\ ask.limit \in Nat \ {0} /\ NamedNow = zset[bucket']
    BY <1>10, AskedTyping DEF ReadScanned, Control, NamedNow
  <2>2. index' \in Nat \cup {NoPlace} /\ bucket' \in Bucket
    BY <1>10, <1>a, <2>1 DEF ReadScanned, TypeOK, NoPlace
  <2>3. \A row \in Range(page) : row[1] \in User
    <3>1. index \in Nat
      BY <1>10 DEF ReadScanned, Control
    <3>a. index + ask.limit \in Int
      BY <2>1, <3>1
    <3>2. \A i \in 1 .. Len(page) : page[i] \in User \X Score
      BY <1>a, <3>1, <3>a, Pages
    <3>3. DOMAIN page = 1 .. Len(page)
      BY <1>a, <3>1, <3>a, Pages
    <3> QED
      BY <3>2, <3>3 DEF Range
  <2> QED
    BY <1>10, <2>1, <2>2, <2>3 DEF ReadScanned, TypeOK, KeysTypeOK
<1>11. CASE Fail
  BY <1>11 DEF Fail, TypeOK, KeysTypeOK
<1>12. CASE Meanwhile
  <2>1. KeysTypeOK'
    BY <1>12, WritesKeepTypes DEF Meanwhile
  <2> QED
    BY <1>12, <2>1 DEF Meanwhile, read, TypeOK
<1>13. CASE UNCHANGED vars
  BY <1>13 DEF vars, read, TypeOK, KeysTypeOK
<1> QED
  BY <1>1, <1>2, <1>3, <1>4, <1>5, <1>6, <1>7, <1>8, <1>9, <1>10, <1>11, <1>12, <1>13
  DEF Next, Command

(* When every answer is given: the read is over and nothing happens any more.  *)
LEMMA DoneIsOver == Control /\ pc = "done" /\ [Next]_vars => UNCHANGED vars
<1> SUFFICES ASSUME Control, pc = "done", Next PROVE FALSE
  OBVIOUS
<1> QED
  BY DEF Next, Command, Arrive, ReadPage, ReadCard, ReadScore, ReadPlace, ReadSize, ReadStrip,
         ReadAbove, ReadNames, ReadScanned, Fail, Meanwhile

(* What an unfinished read does to what it has read.                           *)
LEMMA OthersLeaveTheRead ==
    ASSUME Meanwhile \/ UNCHANGED vars
    PROVE  /\ UNCHANGED <<ask, pc, bucket, rows, total, index, above, reply, atRows, atCount, seen>>
           /\ pc # "idle" /\ quiet' => quiet /\ (pc # "done" => UNCHANGED <<zset, names>>)
<1>1. CASE Meanwhile
  BY <1>1 DEF Meanwhile, read
<1>2. CASE UNCHANGED vars
  BY <1>2 DEF vars, keys, read, observed
<1> QED
  BY <1>1, <1>2

------------------------------------------------------------------------------
(* The rows a read is made of                                                  *)

(* The rows at hand are those of the board as it was when they were read, and  *)
(* the count is that of the board as it was when they were counted.            *)
RowsAtHand ==
    /\ pc \in {"card", "count", "names"} /\ ask.op = "top" =>
          rows = Slice(RowsOf(atRows), ask.offset, ask.offset + ask.limit)
    /\ pc \in {"count", "names"} /\ ask.op = "entry" =>
          ask.user \in Members(atRows) /\ rows = <<<<ask.user, atRows[ask.user]>>>>
    /\ pc \in {"count", "names"} /\ ask.op = "context" =>
          rows = Slice(RowsOf(atRows), StripStart, index + ask.radius + 1)
    /\ pc \in {"count", "names"} => Len(rows) > 0
    /\ pc = "names" => above = CountAbove(RowsOf(atCount), rows[1][2])

LEMMA NextRowsAtHand == Control /\ TypeOK /\ RowsAtHand /\ [Next]_vars => RowsAtHand'
<1> SUFFICES ASSUME Control, TypeOK, RowsAtHand, [Next]_vars PROVE RowsAtHand'
  OBVIOUS
<1> USE DEF RowsAtHand, Finish, Await
<1>1. CASE Arrive
  BY <1>1, FirstCommands DEF Arrive
<1>2. CASE ReadPage
  BY <1>2 DEF ReadPage, Control, Rows
<1>3. CASE ReadCard
  <2>1. ask.op = "top" => ask.offset \in Nat /\ ask.offset + ask.limit \in Int /\ atRows \in Boards
    <3>1. ValidAsk
      BY <1>3 DEF ReadCard, Control
    <3>2. ask.op = "top" => ask.offset \in Nat /\ ask.limit \in Nat \ {0}
      BY <3>1, AskedTyping
    <3> QED
      BY <3>2 DEF TypeOK, Boards
  <2>2. ask.op = "top" /\ rows # <<>> => Len(rows) > 0
    BY <1>3, <2>1, Pages DEF ReadCard
  <2> QED
    BY <1>3, <2>2 DEF ReadCard, Control
<1>4. CASE ReadScore
  <2>1. ask.op = "entry" /\ ask.user \in User /\ Board \in Boards
    BY <1>4, AskedTyping DEF ReadScore, Control
  <2>2. OnBoard(bucket, ask.user) => ask.user \in Members(Board)
    BY <2>1 DEF OnBoard, Board, Members, Boards
  <2>3. \A row : Len(<<row>>) > 0
    OBVIOUS
  <2> QED
    BY <1>4, <2>1, <2>2, <2>3 DEF ReadScore
<1>5. CASE ReadPlace
  BY <1>5 DEF ReadPlace
<1>6. CASE ReadSize
  BY <1>6 DEF ReadSize
<1>7. CASE ReadStrip
  <2>1. /\ ask.op = "context" /\ index \in Nat /\ Board \in Boards
        /\ StripStart \in Nat /\ index + ask.radius + 1 \in Int
    BY <1>7, AskedTyping DEF ReadStrip, Control, TypeOK
  <2>2. rows' # <<>> => Len(rows') > 0
    BY <1>7, <2>1, Pages DEF ReadStrip, Rows
  <2> QED
    BY <1>7, <2>1, <2>2 DEF ReadStrip, Rows, StripStart
<1>8. CASE ReadAbove
  BY <1>8 DEF ReadAbove, StripStart, Rows
<1>9. CASE ReadNames \/ Fail
  BY <1>9 DEF ReadNames, Fail
<1>10. CASE ReadScanned
  BY <1>10 DEF ReadScanned
<1>11. CASE Meanwhile \/ UNCHANGED vars
  BY <1>11, OthersLeaveTheRead DEF StripStart
<1> QED
  BY <1>1, <1>2, <1>3, <1>4, <1>5, <1>6, <1>7, <1>8, <1>9, <1>10, <1>11 DEF Next, Command

PlaceNow == IF OnBoard(bucket, ask.user)
              THEN PlaceOf(Rows, <<ask.user, Board[ask.user]>>) ELSE NoPlace

(* While nobody writes, what the read has is what Redis holds.                 *)
UpToDate ==
    quiet =>
        /\ pc \in {"card", "count", "names"} => atRows = Board
        /\ pc \in {"size", "strip", "count", "names"} /\ ask.op = "context" => index = PlaceNow
        /\ pc \in {"strip", "count", "names"} /\ ask.op \in {"top", "context"} => total = Cardinality(Rows)
        /\ pc = "names" => above = CountAbove(Rows, rows[1][2])

LEMMA NextUpToDate == Control /\ TypeOK /\ UpToDate /\ [Next]_vars => UpToDate'
<1> SUFFICES ASSUME Control, TypeOK, UpToDate, [Next]_vars PROVE UpToDate'
  OBVIOUS
<1> USE DEF UpToDate, Finish, Await
<1>1. CASE Arrive
  BY <1>1, FirstCommands DEF Arrive
<1>2. CASE ReadPage
  BY <1>2 DEF ReadPage, Control, Board, keys, observed
<1>3. CASE ReadCard
  BY <1>3 DEF ReadCard, Control, Board, Rows, PlaceNow, OnBoard, keys, observed
<1>4. CASE ReadScore
  BY <1>4 DEF ReadScore, Control, Board, Rows, PlaceNow, OnBoard, keys, observed
<1>5. CASE ReadPlace
  BY <1>5 DEF ReadPlace, Control, Board, Rows, PlaceNow, OnBoard, keys, observed
<1>6. CASE ReadSize
  BY <1>6 DEF ReadSize, Control, Board, Rows, PlaceNow, OnBoard, keys, observed
<1>7. CASE ReadStrip
  BY <1>7 DEF ReadStrip, Control, Board, Rows, PlaceNow, OnBoard, keys, observed
<1>8. CASE ReadAbove
  BY <1>8 DEF ReadAbove, Control, Board, Rows, PlaceNow, OnBoard, keys, observed
<1>9. CASE ReadNames \/ Fail
  BY <1>9 DEF ReadNames, Fail
<1>10. CASE ReadScanned
  BY <1>10 DEF ReadScanned
<1>11. CASE Meanwhile \/ UNCHANGED vars
  <2>1. CASE pc = "idle" \/ pc = "done"
    BY <1>11, <2>1, OthersLeaveTheRead
  <2>2. CASE pc # "idle" /\ pc # "done" /\ quiet'
    BY <1>11, <2>2, OthersLeaveTheRead DEF Board, Rows, PlaceNow, OnBoard
  <2> QED
    BY <2>1, <2>2
<1> QED
  BY <1>1, <1>2, <1>3, <1>4, <1>5, <1>6, <1>7, <1>8, <1>9, <1>10, <1>11 DEF Next, Command

------------------------------------------------------------------------------
(* Ranks                                                                       *)

(* The rows the last command finds, and where they start.                      *)
PageStart == IF ask.op = "top" THEN ask.offset ELSE StripStart

LEMMA RowsAreAPage ==
    ASSUME Control, TypeOK, RowsAtHand, pc \in {"count", "names"}, ask.op \in {"top", "context"}
    PROVE  /\ PageStart \in Nat /\ atRows \in Boards
           /\ \E stop \in Int : rows = Slice(RowsOf(atRows), PageStart, stop)
           /\ ask.op = "context" => index \in Nat /\ ask.radius \in Nat \ {0}
<1>1. ValidAsk /\ (ask.op = "context" => index \in Nat)
  BY DEF Control, TypeOK
<1>2. /\ ask.op = "top" => ask.offset \in Nat /\ ask.limit \in Nat \ {0}
      /\ ask.op = "context" => /\ ask.radius \in Nat \ {0}
                               /\ StripStart \in Nat /\ index + ask.radius + 1 \in Nat
  BY <1>1, AskedTyping
<1>3. ask.op = "top" => ask.offset + ask.limit \in Int
  BY <1>2
<1>4. atRows \in Boards
  BY DEF TypeOK, Boards
<1> QED
  BY <1>1, <1>2, <1>3, <1>4 DEF RowsAtHand, PageStart

LEMMA EntriesAreListed ==
    ASSUME Control, TypeOK, RowsAtHand, pc = "names", ask.op \in {"top", "context"}
    PROVE  /\ Len(rows) \in Nat
           /\ Entries(PageStart)
                = [j \in 1 .. Len(rows) |->
                      [user |-> rows[j][1], score |-> rows[j][2],
                       rank |-> IF rows[j][2] = rows[1][2] THEN above + 1 ELSE RankOf(atRows, rows[j][2]),
                       named |-> rows[j][1] \in names]]
           /\ Len(Entries(PageStart)) = Len(rows)
           /\ DOMAIN Entries(PageStart) = 1 .. Len(rows)
<1>1. PICK stop \in Int : rows = Slice(RowsOf(atRows), PageStart, stop)
  BY RowsAreAPage
<1>2. PageStart \in Nat /\ atRows \in Boards
  BY RowsAreAPage
<1>3. Entries(PageStart)
        = [j \in 1 .. Len(rows) |->
              [user |-> rows[j][1], score |-> rows[j][2],
               rank |-> IF rows[j][2] = rows[1][2] THEN above + 1 ELSE RankOf(atRows, rows[j][2]),
               named |-> rows[j][1] \in names]]
  BY <1>1, <1>2, EntriesOfPage DEF Entries
<1>4. Len(rows) \in Nat
  BY <1>1, <1>2, Pages
<1> QED
  BY <1>3, <1>4

(* What was counted is the rank of the first row on the board at the count.    *)
LEMMA RankOfFirstRow ==
    ASSUME TypeOK, RowsAtHand, pc = "names"
    PROVE  above + 1 = RankOf(atCount, rows[1][2])
<1>1. atCount \in Boards
  BY DEF TypeOK, Boards
<1>2. above = CountAbove(RowsOf(atCount), rows[1][2])
  BY DEF RowsAtHand
<1> QED
  BY <1>1, <1>2, Counts

LEMMA RanksOfEntries ==
    ASSUME Control, TypeOK, RowsAtHand, pc = "names", ask.op \in {"top", "context"},
           NEW i \in 1 .. Len(Entries(PageStart))
    PROVE  LET e == Entries(PageStart)[i]
           IN  e.rank = RankOf(IF e.score = rows[1][2] THEN atCount ELSE atRows, e.score)
  BY EntriesAreListed, RankOfFirstRow

(* The players of a split strip are entries of the strip.                      *)
LEMMA SplitRange ==
    ASSUME NEW entries, Len(entries) \in Nat, NEW pivot \in 1 .. Len(entries)
    PROVE  /\ \A e \in Range(SubSeq(entries, 1, pivot - 1)) : \E i \in 1 .. Len(entries) : e = entries[i]
           /\ \A e \in Range(SubSeq(entries, pivot + 1, Len(entries))) :
                 \E i \in 1 .. Len(entries) : e = entries[i]
<1> DEFINE n == Len(entries)
<1> HIDE DEF n
<1>0. n \in Nat /\ pivot \in 1 .. n
  BY DEF n
<1>1. /\ SubSeq(entries, 1, pivot - 1) = [i \in 1 .. ((pivot - 1) - 1 + 1) |-> entries[1 + i - 1]]
      /\ SubSeq(entries, pivot + 1, n) = [i \in 1 .. (n - (pivot + 1) + 1) |-> entries[(pivot + 1) + i - 1]]
  <2>1. 1 \in Int /\ pivot - 1 \in Int /\ pivot + 1 \in Int /\ n \in Int
    BY <1>0
  <2> QED
    BY <2>1, R!CutOf
<1>2. /\ \A i \in 1 .. ((pivot - 1) - 1 + 1) : 1 + i - 1 \in 1 .. n
      /\ \A i \in 1 .. (n - (pivot + 1) + 1) : (pivot + 1) + i - 1 \in 1 .. n
  BY <1>0
<1> QED
  BY <1>1, <1>2 DEF Range, n

LEMMA NextRanks ==
    Control /\ TypeOK /\ RowsAtHand /\ EveryRankWasTrueOnce /\ [Next]_vars => EveryRankWasTrueOnce'
<1> SUFFICES ASSUME Control, TypeOK, RowsAtHand, EveryRankWasTrueOnce, [Next]_vars
             PROVE  EveryRankWasTrueOnce'
  OBVIOUS
<1>1. CASE pc = "done"
  BY <1>1, DoneIsOver DEF vars, read, EveryRankWasTrueOnce, AnsweredEntries
<1>2. CASE ReadNames
  <2> DEFINE entries == Entries(PageStart)
  <2>1. rows' = rows /\ atRows' = atRows /\ atCount' = atCount /\ pc = "names"
    BY <1>2 DEF ReadNames
  <2>2. ASSUME ask.op \in {"top", "context"}, NEW e, NEW i \in 1 .. Len(entries), e = entries[i]
        PROVE  e.rank = RankOf(IF e.score = rows[1][2] THEN atCount ELSE atRows, e.score)
    BY <2>1, <2>2, RanksOfEntries
  <2>3. ask.op \in {"top", "context"} => Len(entries) \in Nat /\ DOMAIN entries = 1 .. Len(entries)
    BY <2>1, EntriesAreListed
  <2>4. CASE ask.op = "top"
    <3>1. AnsweredEntries' = Range(entries)
      BY <1>2, <2>4 DEF ReadNames, Finish, AnsweredEntries, PageStart
    <3> HIDE DEF entries
    <3>2. \A e \in Range(entries) : \E i \in 1 .. Len(entries) : e = entries[i]
      BY <2>3, <2>4 DEF Range
    <3> QED
      BY <2>1, <2>2, <2>4, <3>1, <3>2 DEF EveryRankWasTrueOnce
  <2>5. CASE ask.op = "entry"
    <3>1. AnsweredEntries' = {Entries(0)[1]}
      BY <1>2, <2>5 DEF ReadNames, Finish, AnsweredEntries
    <3>2. rows = <<<<ask.user, atRows[ask.user]>>>> /\ ask.user \in User /\ atRows[ask.user] \in Score
      BY <2>1, <2>5, AskedTyping DEF RowsAtHand, TypeOK, Members
    <3>a. above + 1 = RankOf(atCount, rows[1][2])
      BY <2>1, RankOfFirstRow
    <3>3. Entries(0)[1].rank = above + 1 /\ Entries(0)[1].score = rows[1][2]
      <4> DEFINE score == atRows[ask.user]
                 e == [user |-> ask.user, score |-> score, rank |-> above + 1, named |-> ask.user \in names]
      <4>1. Decorate(RankPage(<<<<ask.user, score>>>>, 0, above + 1), names) = <<e>>
        BY <3>2, EntryOfRow
      <4>2. e.rank = above + 1 /\ e.score = score
        OBVIOUS
      <4> HIDE DEF e
      <4>3. Entries(0) = <<e>>
        BY <3>2, <4>1 DEF Entries
      <4>4. Entries(0)[1] = e
        BY <4>3
      <4>5. rows[1][2] = score
        BY <3>2
      <4> QED
        BY <4>2, <4>4, <4>5
    <3> QED
      BY <2>1, <3>1, <3>3, <3>a DEF EveryRankWasTrueOnce
  <2>6. CASE ask.op = "context"
    <3> DEFINE pivot == index - StripStart + 1
    <3>1. reply' = Split(entries, pivot)
      BY <1>2, <2>6 DEF ReadNames, Finish, PageStart
    <3>2. pivot >= 1 /\ pivot \in Int
      BY <2>1, <2>6, RowsAreAPage DEF StripStart, Greatest
    <3> HIDE DEF entries, pivot
    <3>3. CASE pivot <= Len(entries)
      <4>1. AnsweredEntries' = Range(SubSeq(entries, 1, pivot - 1)) \cup {entries[pivot]}
                                 \cup Range(SubSeq(entries, pivot + 1, Len(entries)))
        BY <3>1, <3>3 DEF Split, AnsweredEntries
      <4>2. pivot \in 1 .. Len(entries)
        BY <2>3, <2>6, <3>2, <3>3
      <4>3. \A e \in AnsweredEntries' : \E i \in 1 .. Len(entries) : e = entries[i]
        BY <2>3, <2>6, <4>1, <4>2, SplitRange
      <4> QED
        BY <2>1, <2>2, <2>6, <4>3 DEF EveryRankWasTrueOnce
    <3>4. CASE ~ (pivot <= Len(entries))
      BY <3>1, <3>4 DEF Split, Outcome, AnsweredEntries, EveryRankWasTrueOnce
    <3> QED
      BY <3>3, <3>4
  <2> QED
    BY <2>1, <2>4, <2>5, <2>6 DEF Control
<1>3. CASE ReadCard
  <2>1. AnsweredEntries' = {}
    BY <1>3 DEF ReadCard, Finish, Await, Control, Outcome, AnsweredEntries, Range
  <2> QED
    BY <2>1 DEF EveryRankWasTrueOnce
<1>4. CASE pc # "done" /\ ~ ReadNames /\ ~ ReadCard
  <2>1. reply'.op \notin {"top", "entry", "context"}
    BY <1>4, OthersLeaveTheRead
    DEF Next, Command, Arrive, ReadPage, ReadScore, ReadPlace, ReadSize, ReadStrip,
        ReadAbove, ReadScanned, Fail, Control, Finish, Await, Outcome
  <2> QED
    BY <2>1 DEF EveryRankWasTrueOnce, AnsweredEntries
<1> QED
  BY <1>1, <1>2, <1>3, <1>4

------------------------------------------------------------------------------
(* Answers nobody wrote into                                                   *)

Answers == {"top", "entry", "context", "absent", "crashed"}

(* Only these commands answer, and they leave the keys as they are.            *)
LEMMA AnsweringSteps ==
    ASSUME Control, pc # "done", [Next]_vars, reply'.op \in Answers
    PROVE  /\ ReadCard \/ ReadScore \/ ReadSize \/ ReadStrip \/ ReadNames
           /\ Exact' = Exact /\ quiet' = quiet
<1>1. ReadCard \/ ReadScore \/ ReadSize \/ ReadStrip \/ ReadNames
  BY OthersLeaveTheRead
  DEF Next, Command, Arrive, ReadPage, ReadPlace, ReadAbove, ReadScanned, Fail,
      Control, Finish, Await, Outcome, Answers
<1>2. UNCHANGED <<ask, bucket, zset, names, quiet>>
  BY <1>1 DEF ReadCard, ReadScore, ReadSize, ReadStrip, ReadNames, keys, observed
<1> QED
  BY <1>1, <1>2 DEF Exact, Board

LEMMA QuietPage ==
    ASSUME Control, TypeOK, RowsAtHand, UpToDate, quiet, ask.op = "top", pc \in {"card", "names"},
           NEW first, IsFirstRank(Board, rows, first)
    PROVE  [op |-> "top", total |-> Cardinality(Rows),
            entries |-> Decorate(RankPage(rows, ask.offset, first), names)] = Exact
<1>1. ValidAsk /\ atRows = Board
  BY DEF Control, UpToDate
<1>2. ask.offset \in Nat /\ ask.limit \in Nat /\ Board \in Boards
  BY <1>1, AskedTyping
<1>3. rows = Slice(RowsOf(Board), ask.offset, ask.offset + ask.limit)
  BY <1>1 DEF RowsAtHand
<1> QED
  BY <1>2, <1>3, TopIsExact DEF Exact, Rows

(* The first row of the rows read has the rank that was counted.               *)
LEMMA QuietFirstRank ==
    ASSUME UpToDate, TypeOK, quiet, pc = "names"
    PROVE  IsFirstRank(Board, rows, above + 1)
  BY DEF IsFirstRank, UpToDate, Rows

LEMMA AskedIsMember ==
    ASSUME Control, TypeOK, ask.op \in {"entry", "context"}
    PROVE  /\ ask.user \in User /\ Board \in Boards
           /\ OnBoard(bucket, ask.user) <=> ask.user \in Members(Board)
<1>1. ask.user \in User /\ Board \in Boards
  BY AskedTyping
<1> QED
  BY <1>1 DEF OnBoard, Board, Members, Boards

LEMMA QuietEntry ==
    ASSUME Control, TypeOK, RowsAtHand, UpToDate, quiet, ask.op = "entry", pc = "names"
    PROVE  [op |-> "entry", entry |-> Entries(0)[1]] = Exact
<1>1. ask.user \in Members(Board) /\ rows = <<<<ask.user, Board[ask.user]>>>>
  BY DEF RowsAtHand, UpToDate
<1>2. ask.user \in User /\ Board \in Boards /\ Board[ask.user] \in Score
  <2>1. ask.user \in User /\ Board \in Boards
    BY AskedTyping
  <2> QED
    BY <1>1, <2>1 DEF Boards, Members
<1>3. above + 1 = RankOf(Board, Board[ask.user])
  <2>1. rows[1][2] = Board[ask.user]
    BY <1>1
  <2>2. above = CountAbove(RowsOf(Board), Board[ask.user])
    BY <2>1 DEF UpToDate, Rows
  <2> QED
    BY <1>2, <2>2, Counts
<1>4. Entries(0) = <<Standing(Board, names, ask.user)>>
  BY <1>1, <1>2, <1>3, EntryOfRow DEF Entries, Standing
<1>5. Entries(0)[1] = Standing(Board, names, ask.user)
  BY <1>4
<1> QED
  BY <1>1, <1>5 DEF Exact, EntryOf

LEMMA QuietContext ==
    ASSUME Control, TypeOK, RowsAtHand, UpToDate, quiet, ask.op = "context", pc = "names"
    PROVE  Split(Entries(StripStart), index - StripStart + 1) = Exact
<1>1. /\ ValidAsk /\ index # NoPlace /\ atRows = Board /\ index = PlaceNow
      /\ total = Cardinality(RowsOf(Board))
  BY DEF Control, UpToDate, Rows
<1>2. ask.user \in Members(Board) /\ Board \in Boards /\ ask.radius \in Nat
  BY <1>1, AskedIsMember, AskedTyping DEF PlaceNow
<1>3. index = PlaceOf(RowsOf(Board), <<ask.user, Board[ask.user]>>)
  BY <1>1 DEF PlaceNow, Rows
<1>4. StripStart = StripFrom(index, ask.radius) /\ index - StripStart + 1 = Pivot(index, ask.radius)
  BY DEF StripStart, StripFrom, Pivot
<1>5. rows = Slice(RowsOf(Board), StripFrom(index, ask.radius), index + ask.radius + 1)
  BY <1>1, <1>4 DEF RowsAtHand
<1>6. IsFirstRank(Board, rows, above + 1)
  BY QuietFirstRank
<1>7. /\ Pivot(index, ask.radius) \in 1 .. Len(Entries(StripStart))
      /\ ContextOf(Board, names, ask.user, ask.radius)
           = SplitAt(Cardinality(RowsOf(Board)), Entries(StripStart), Pivot(index, ask.radius))
  BY <1>2, <1>3, <1>4, <1>5, <1>6, ContextIsExact DEF Entries
<1>8. Pivot(index, ask.radius) <= Len(Entries(StripStart))
  <2>1. Len(Entries(StripStart)) \in Nat
    BY EntriesAreListed DEF PageStart
  <2> QED
    BY <1>7, <2>1
<1> QED
  BY <1>1, <1>4, <1>7, <1>8 DEF Split, SplitAt, Exact

(* A player who is on the board has a strip.                                   *)
LEMMA StripHasPlayer ==
    ASSUME NEW board \in Boards, NEW u \in Members(board), NEW place \in Nat, NEW radius \in Nat,
           place = Cardinality(Ahead(board, u))
    PROVE  LET page == Slice(RowsOf(board), StripFrom(place, radius), place + radius + 1)
           IN  /\ Pivot(place, radius) \in 1 .. Len(page)
               /\ page[Pivot(place, radius)] = <<u, board[u]>>
               /\ Len(page) \in Nat /\ page # <<>>
<1> DEFINE start == StripFrom(place, radius)
           stop == place + radius + 1
           page == Slice(RowsOf(board), start, stop)
<1>1. start \in Nat /\ stop \in Int /\ start <= place /\ place < stop
  BY DEF StripFrom, Greatest
<1>2. place - start + 1 = Pivot(place, radius)
  BY DEF Pivot
<1> HIDE DEF start, stop
<1>3. /\ Pivot(place, radius) \in 1 .. Len(page)
      /\ page[Pivot(place, radius)] = <<u, board[u]>>
      /\ Len(page) \in Nat
  <2>1. place - start + 1 \in 1 .. Len(page) /\ page[place - start + 1] = <<u, board[u]>>
    <3>1. \A v \in Members(board), at \in Nat :
             /\ at = Cardinality(Ahead(board, v))
             /\ start <= at /\ at < stop
             => at - start + 1 \in 1 .. Len(page) /\ page[at - start + 1] = <<v, board[v]>>
      BY <1>1, Pages
    <3> HIDE DEF page
    <3> QED
      BY <1>1, <3>1
  <2>2. Len(page) \in Nat
    BY <1>1, Pages
  <2> QED
    BY <1>2, <2>1, <2>2
<1>4. Len(<<>>) = 0
  OBVIOUS
<1>5. page # <<>>
  BY <1>3, <1>4
<1> QED
  BY <1>3, <1>5 DEF start, stop

LEMMA NextExact ==
    /\ Control /\ TypeOK /\ RowsAtHand /\ UpToDate
    /\ QuietReadsAreExact /\ [Next]_vars
    => QuietReadsAreExact'
<1> SUFFICES ASSUME Control, TypeOK, RowsAtHand, UpToDate, QuietReadsAreExact, [Next]_vars
             PROVE  QuietReadsAreExact'
  OBVIOUS
<1>1. CASE pc = "done"
  BY <1>1, DoneIsOver
  DEF vars, keys, read, observed, QuietReadsAreExact, Exact, Board
<1>2. CASE pc # "done" /\ quiet' /\ reply'.op \in Answers
  <2>1. /\ ReadCard \/ ReadScore \/ ReadSize \/ ReadStrip \/ ReadNames
        /\ Exact' = Exact /\ quiet
    BY <1>2, AnsweringSteps
  <2> SUFFICES reply' = Exact
    BY <2>1 DEF QuietReadsAreExact
  <2>a. Board \in Boards
    BY AskedTyping
  <2>2. CASE ReadCard
    <3>0. ask.op = "top"
      BY <2>2 DEF ReadCard, Control
    <3>1. rows = <<>> /\ reply' = [op |-> "top", total |-> Cardinality(Rows), entries |-> <<>>]
      BY <1>2, <2>2 DEF ReadCard, Finish, Await, Control, Outcome, Answers
    <3>2. pc = "card" /\ Len(rows) = 0
      BY <2>2, <3>1 DEF ReadCard
    <3>3. IsFirstRank(Board, rows, 0)
      BY <3>2 DEF IsFirstRank
    <3>4. Decorate(RankPage(rows, ask.offset, 0), names) = <<>>
      BY <3>1 DEF RankPage, Decorate
    <3>5. [op |-> "top", total |-> Cardinality(Rows),
           entries |-> Decorate(RankPage(rows, ask.offset, 0), names)] = Exact
      BY <2>1, <3>0, <3>2, <3>3, QuietPage
    <3> QED
      BY <3>1, <3>4, <3>5
  <2>3. CASE ReadScore
    <3>1. ask.op = "entry" /\ ~ OnBoard(bucket, ask.user) /\ reply' = Outcome("absent")
      BY <1>2, <2>3 DEF ReadScore, Finish, Await, Control, Outcome, Answers
    <3>2. ask.user \notin Members(Board)
      BY <3>1, AskedIsMember
    <3> QED
      BY <3>1, <3>2 DEF Exact, EntryOf, Outcome
  <2>4. CASE ReadSize
    <3>1. pc = "size" /\ ask.op = "context" /\ index = NoPlace /\ reply' = Outcome("absent")
      BY <1>2, <2>4 DEF ReadSize, Finish, Await, Control, Outcome, Answers
    <3>2. PlaceNow = NoPlace
      BY <2>1, <3>1 DEF UpToDate
    <3>3. ask.user \notin Members(Board)
      <4>1. SUFFICES ASSUME ask.user \in Members(Board) PROVE FALSE
        OBVIOUS
      <4>2. OnBoard(bucket, ask.user)
        BY <3>1, <4>1, AskedIsMember
      <4>3. PlaceNow \in Nat
        BY <2>a, <4>1, <4>2, Counts DEF PlaceNow, Rows
      <4> QED
        BY <3>2, <4>3 DEF NoPlace
    <3> QED
      BY <3>1, <3>3 DEF Exact, ContextOf, Outcome
  <2>5. CASE ReadStrip
    <3>1. /\ pc = "strip" /\ ask.op = "context" /\ index # NoPlace
          /\ Slice(Rows, StripStart, index + ask.radius + 1) = <<>>
      BY <1>2, <2>5 DEF ReadStrip, Finish, Await, Control, Outcome, Answers
    <3>2. /\ ask.user \in Members(Board) /\ ask.radius \in Nat
          /\ index = PlaceOf(RowsOf(Board), <<ask.user, Board[ask.user]>>)
      <4>1. ValidAsk /\ index = PlaceNow
        BY <2>1, <3>1 DEF Control, UpToDate
      <4> QED
        BY <3>1, <4>1, AskedTyping, AskedIsMember DEF PlaceNow, Rows
    <3>3. index \in Nat /\ index = Cardinality(Ahead(Board, ask.user))
      BY <2>a, <3>2, Counts
    <3>4. Slice(RowsOf(Board), StripFrom(index, ask.radius), index + ask.radius + 1) # <<>>
      BY <2>a, <3>2, <3>3, StripHasPlayer
    <3> QED
      BY <3>1, <3>4 DEF Rows, StripStart, StripFrom
  <2>6. CASE ReadNames
    <3>1. pc = "names" /\ ask.op \in {"top", "entry", "context"}
      BY <2>6 DEF ReadNames, Control
    <3>2. CASE ask.op = "top"
      <4>1. IsFirstRank(Board, rows, above + 1)
        BY <2>1, <3>1, QuietFirstRank
      <4>2. total = Cardinality(Rows)
        BY <2>1, <3>1, <3>2 DEF UpToDate
      <4>3. reply' = [op |-> "top", total |-> total, entries |-> Entries(ask.offset)]
        BY <2>6, <3>2 DEF ReadNames, Finish
      <4> QED
        BY <2>1, <3>1, <3>2, <4>1, <4>2, <4>3, QuietPage DEF Entries
    <3>3. CASE ask.op = "entry"
      BY <2>1, <2>6, <3>1, <3>3, QuietEntry DEF ReadNames, Finish
    <3>4. CASE ask.op = "context"
      BY <2>1, <2>6, <3>1, <3>4, QuietContext DEF ReadNames, Finish
    <3> QED
      BY <3>1, <3>2, <3>3, <3>4
  <2> QED
    BY <2>1, <2>2, <2>3, <2>4, <2>5, <2>6
<1> QED
  BY <1>1, <1>2 DEF QuietReadsAreExact, Answers

------------------------------------------------------------------------------
(* A player whose place stands                                                 *)

LEMMA NextSteady ==
    /\ Control /\ TypeOK /\ RowsAtHand
    /\ SteadyPlayerIsShown /\ [Next]_vars
    => SteadyPlayerIsShown'
<1> SUFFICES ASSUME Control, TypeOK, RowsAtHand, SteadyPlayerIsShown, [Next]_vars
             PROVE  SteadyPlayerIsShown'
  OBVIOUS
<1>1. CASE pc = "done"
  BY <1>1, DoneIsOver DEF vars, read, SteadyPlayerIsShown
<1>2. CASE /\ pc # "done" /\ ask'.op = "context" /\ reply'.op \in {"context", "absent", "crashed"}
           /\ ask'.user \in Members(atRows') /\ Cardinality(Ahead(atRows', ask'.user)) = index'
  <2>1. ReadCard \/ ReadScore \/ ReadSize \/ ReadStrip \/ ReadNames
    BY <1>2, AnsweringSteps DEF Answers
  <2>2. ask' = ask /\ index' = index /\ ask.op = "context"
    BY <1>2, <2>1 DEF ReadCard, ReadScore, ReadSize, ReadStrip, ReadNames
  <2>3. ReadSize \/ ReadStrip \/ ReadNames
    BY <2>1, <2>2 DEF ReadCard, ReadScore, Control
  <2>4. /\ ValidAsk /\ ask.radius \in Nat /\ atRows \in Boards /\ Board \in Boards
        /\ atRows' = IF ReadStrip THEN Board ELSE atRows
    <3>1. ValidAsk
      BY <2>3 DEF ReadSize, ReadStrip, ReadNames, Control
    <3> QED
      BY <2>2, <2>3, <3>1, AskedTyping
      DEF ReadSize, ReadStrip, ReadNames, TypeOK, Boards
  <2>5. PICK board \in Boards : board = atRows'
    BY <2>4
  <2>6. index \in Nat /\ index = Cardinality(Ahead(board, ask.user)) /\ ask.user \in Members(board)
    <3>1. ask.user \in Members(board) /\ Cardinality(Ahead(board, ask.user)) = index
      BY <1>2, <2>2, <2>5
    <3>2. ASSUME NEW u \in Members(board) PROVE Cardinality(Ahead(board, u)) \in Nat
      <4>1. Cardinality(Ahead(board, u)) \in 0 .. Cardinality(Members(board)) - 1
        BY Counts
      <4>2. Cardinality(Members(board)) \in 0 .. Cardinality(User) /\ Cardinality(User) \in Nat
        BY Counts
      <4> QED
        BY <4>1, <4>2
    <3> QED
      BY <3>1, <3>2
  <2>7. LET page == Slice(RowsOf(board), StripFrom(index, ask.radius), index + ask.radius + 1)
        IN  /\ Pivot(index, ask.radius) \in 1 .. Len(page)
            /\ page[Pivot(index, ask.radius)] = <<ask.user, board[ask.user]>>
            /\ Len(page) \in Nat /\ page # <<>>
    <3>1. ASSUME NEW u \in Members(board), NEW place \in Nat, NEW radius \in Nat,
                 place = Cardinality(Ahead(board, u))
          PROVE  LET page == Slice(RowsOf(board), StripFrom(place, radius), place + radius + 1)
                 IN  /\ Pivot(place, radius) \in 1 .. Len(page)
                     /\ page[Pivot(place, radius)] = <<u, board[u]>>
                     /\ Len(page) \in Nat /\ page # <<>>
      BY <3>1, StripHasPlayer
    <3>2. ask.radius \in Nat
      BY <2>4
    <3> QED
      BY <2>6, <3>1, <3>2
  <2>8. StripStart = StripFrom(index, ask.radius) /\ index - StripStart + 1 = Pivot(index, ask.radius)
    BY DEF StripStart, StripFrom, Pivot
  <2>9. CASE ReadSize
    <3>1. index = NoPlace
      BY <1>2, <2>9 DEF ReadSize, Finish, Await, Control, Outcome
    <3> QED
      BY <2>6, <3>1 DEF NoPlace
  <2>10. CASE ReadStrip
    <3>1. Slice(RowsOf(board), StripStart, index + ask.radius + 1) = <<>>
      BY <1>2, <2>5, <2>10 DEF ReadStrip, Finish, Await, Control, Outcome, Rows
    <3> QED
      BY <2>7, <2>8, <3>1
  <2>11. CASE ReadNames
    <3> DEFINE pivot == Pivot(index, ask.radius)
               entries == Entries(StripStart)
    <3>1. pc = "names" /\ atRows = board /\ PageStart = StripStart
      BY <2>2, <2>5, <2>11 DEF ReadNames, PageStart
    <3>2. rows = Slice(RowsOf(atRows), StripFrom(index, ask.radius), index + ask.radius + 1)
      BY <2>2, <2>8, <3>1 DEF RowsAtHand
    <3>3. pivot \in 1 .. Len(rows) /\ rows[pivot][1] = ask.user
      BY <2>7, <3>1, <3>2
    <3>4. Len(rows) \in Nat /\ Len(entries) = Len(rows) /\ entries[pivot].user = rows[pivot][1]
      <4>1. /\ Len(rows) \in Nat /\ Len(entries) = Len(rows)
            /\ entries = [j \in 1 .. Len(rows) |->
                             [user |-> rows[j][1], score |-> rows[j][2],
                              rank |-> IF rows[j][2] = rows[1][2] THEN above + 1 ELSE RankOf(atRows, rows[j][2]),
                              named |-> rows[j][1] \in names]]
        BY <2>2, <3>1, EntriesAreListed
      <4> HIDE DEF pivot, entries
      <4> QED
        BY <3>3, <4>1
    <3>5. reply' = Split(entries, pivot)
      BY <2>2, <2>8, <2>11 DEF ReadNames, Finish
    <3> HIDE DEF pivot, entries
    <3>6. pivot <= Len(entries)
      BY <3>3, <3>4
    <3>7. reply'.op = "context" /\ reply'.user = entries[pivot]
      BY <3>5, <3>6 DEF Split
    <3> QED
      BY <2>2, <3>3, <3>4, <3>7 DEF SteadyPlayerIsShown
  <2> QED
    BY <2>3, <2>9, <2>10, <2>11
<1> QED
  BY <1>1, <1>2 DEF SteadyPlayerIsShown

------------------------------------------------------------------------------
(* A scan                                                                      *)

(* As long as nobody leaves, and no midnight sets anybody back, scores on the  *)
(* board the window names only rise.                                           *)
LEMMA OthersRaise ==
    ASSUME Control, TypeOK, Meanwhile
    PROVE  /\ NamedNow' \in Boards
           /\ ~ Departure => /\ Members(NamedNow) \subseteq Members(NamedNow')
                             /\ \A v \in Members(NamedNow) : NamedNow[v] <= NamedNow'[v]
<1>1. /\ zset \in [Bucket -> Boards] /\ BucketNow \in Bucket /\ ask.window \in Window
      /\ NamedNow = zset[BucketNow] /\ NamedNow \in Boards
  BY AskedTyping DEF TypeOK, KeysTypeOK, Boards, NamedNow
<1>2. /\ ask' = ask /\ BucketNow' = WindowSuffix(ask.window, now')
      /\ NamedNow' = zset'[BucketNow']
  BY DEF Meanwhile, read, BucketNow, NamedNow
<1>3. zset' \in [Bucket -> Boards] /\ now' \in Moment
  BY WritesKeepTypes, CalendarAssumption DEF Meanwhile, KeysTypeOK, Boards, Time, Moment
<1>4. NamedNow' \in Boards
  BY <1>1, <1>2, <1>3 DEF Bucket
<1>5. \A v \in Members(NamedNow) : v \in User /\ NamedNow[v] \in Score /\ NamedNow[v] <= NamedNow[v]
  BY <1>1, ScoreAssumption DEF Members, Boards, Score
<1> SUFFICES ASSUME ~ Departure, NEW v \in Members(NamedNow) PROVE NamedNow[v] <= NamedNow'[v]
  BY <1>4 DEF Departure
<1>6. v \in Members(NamedNow') /\ NamedNow'[v] \in Int /\ NamedNow[v] \in Int
  <2>1. v \in Members(NamedNow')
    BY DEF Departure
  <2>2. \A board \in Boards : v \in Members(board) => board[v] \in Int
    BY <1>5, ScoreAssumption DEF Members, Boards, Score
  <2> QED
    BY <1>1, <1>4, <2>1, <2>2
<1>7. CASE BucketNow' # BucketNow
  <2>1. ~ (NamedNow'[v] < NamedNow[v])
    BY <1>7 DEF Departure
  <2> QED
    BY <1>6, <2>1
<1>8. CASE BucketNow' = BucketNow /\ Write
  <2> DEFINE named == BucketNow
  <2>1. NamedNow' = zset'[named] /\ NamedNow = zset[named] /\ named \in Bucket
    BY <1>1, <1>2, <1>8
  <2>a. Watched \subseteq Bucket
    BY WatchedAreBoards
  <2> HIDE DEF named
  <2>2. ASSUME NEW b \in Watched, NEW u \in User, NEW score \in Score, NEW ttl, SubmitScript(b, u, score, ttl)
        PROVE  NamedNow[v] <= NamedNow'[v]
    <3>1. NamedNow'[v] = IF b = named /\ v = u THEN Best(NamedNow[v], score) ELSE NamedNow[v]
      BY <1>1, <1>5, <2>1, <2>2, <2>a DEF SubmitScript, Boards
    <3>2. NamedNow[v] \in Int /\ score \in Int
      BY <1>6, ScoreAssumption DEF Score
    <3> QED
      BY <3>1, <3>2, ScoreAssumption DEF Best
  <2>3. ASSUME NEW b \in Watched, NEW u \in User, RemoveMember(b, u)
        PROVE  NamedNow[v] <= NamedNow'[v]
    <3>1. NamedNow'[v] = IF b = named /\ v = u THEN NoScore ELSE NamedNow[v]
      BY <1>1, <1>5, <2>1, <2>3, <2>a DEF RemoveMember, Boards
    <3>2. NamedNow'[v] # NoScore
      BY <1>6, ScoreAssumption
    <3> QED
      BY <1>5, <3>1, <3>2
  <2>4. ASSUME NEW u \in User, SetName(u) \/ RemoveName(u)
        PROVE  NamedNow[v] <= NamedNow'[v]
    BY <1>5, <2>1, <2>4 DEF SetName, RemoveName
  <2> QED
    BY <1>8, <2>2, <2>3, <2>4, ReadAssumption DEF Write
<1>9. CASE BucketNow' = BucketNow /\ Tick
  <2>1. NamedNow' = EmptyBoard \/ NamedNow' = NamedNow
    BY <1>1, <1>2, <1>9 DEF Tick
  <2>2. NamedNow' # EmptyBoard
    BY <1>6 DEF Members, EmptyBoard
  <2> QED
    BY <1>5, <2>1, <2>2
<1> QED
  BY <1>7, <1>8, <1>9 DEF Meanwhile

(* A player whose score stands does not come to be listed earlier.             *)
LEMMA AheadGrows ==
    ASSUME NEW before \in Boards, NEW after \in Boards, Members(before) \subseteq Members(after),
           \A v \in Members(before) : before[v] <= after[v],
           NEW u \in Members(before), after[u] = before[u]
    PROVE  /\ Cardinality(Ahead(before, u)) \in Nat /\ Cardinality(Ahead(after, u)) \in Nat
           /\ Cardinality(Ahead(before, u)) <= Cardinality(Ahead(after, u))
<1>1. \A v \in Members(before) : v \in Members(after) /\ before[v] \in Int /\ after[v] \in Int
  BY ScoreAssumption DEF Members, Boards, Score
<1>2. Ahead(before, u) \subseteq Ahead(after, u)
  <2> SUFFICES ASSUME NEW v \in Members(before),
                      before[v] > before[u] \/ (before[v] = before[u] /\ v > u)
               PROVE  after[v] > after[u] \/ (after[v] = after[u] /\ v > u)
    BY <1>1 DEF Ahead
  <2>1. before[v] <= after[v]
    OBVIOUS
  <2> QED
    BY <1>1, <2>1
<1>3. IsFiniteSet(Ahead(after, u))
  <2>1. Ahead(after, u) \subseteq User
    BY BoardsAreBoards DEF Ahead
  <2> QED
    BY <2>1, ReadAssumption, FS_Subset
<1> QED
  BY <1>2, <1>3, FS_Subset, FS_CardinalityType

(* Whoever a scan should show is on the board it will ask for next, and was    *)
(* shown when listed before the place the scan has come to.                    *)
Scanning ==
    pc = "scan" =>
        /\ still \subseteq Members(NamedNow)
        /\ \A u \in still : Cardinality(Ahead(NamedNow, u)) < index => u \in seen

(* One page of a scan shows everybody listed before the place it comes to.     *)
LEMMA ScannedPage ==
    ASSUME Control, TypeOK, Scanning, ReadScanned
    PROVE  /\ ask.limit \in Nat \ {0} /\ index \in Nat /\ index' = index + ask.limit
           /\ \A u \in still : Cardinality(Ahead(NamedNow, u)) < index' => u \in seen'
<1> DEFINE page == Slice(RowsOf(NamedNow), index, index + ask.limit)
<1>1. /\ pc = "scan" /\ index \in Nat /\ ask.limit \in Nat \ {0} /\ index' = index + ask.limit
      /\ NamedNow \in Boards /\ NamedNow = zset[bucket']
  BY AskedTyping DEF ReadScanned, Control, NamedNow
<1>2. seen' = seen \cup {row[1] : row \in Range(page)}
  BY <1>1 DEF ReadScanned
<1>3. ASSUME NEW u \in still, Cardinality(Ahead(NamedNow, u)) < index + ask.limit PROVE u \in seen'
  <2>1. u \in Members(NamedNow)
    BY <1>1 DEF Scanning
  <2>2. PICK place \in Nat : place = Cardinality(Ahead(NamedNow, u))
    <3>1. /\ Cardinality(Ahead(NamedNow, u)) \in 0 .. Cardinality(Members(NamedNow)) - 1
          /\ Cardinality(Members(NamedNow)) \in 0 .. Cardinality(User) /\ Cardinality(User) \in Nat
      BY <1>1, <2>1, Counts
    <3>2. Cardinality(Ahead(NamedNow, u)) \in Nat
      BY <3>1
    <3> QED
      BY <3>2
  <2>3. CASE place < index
    BY <1>1, <1>2, <2>2, <2>3 DEF Scanning
  <2>4. CASE index <= place
    <3>1. DOMAIN page = 1 .. Len(page)
      BY <1>1, Pages
    <3>2. place - index + 1 \in 1 .. Len(page) /\ page[place - index + 1] = <<u, NamedNow[u]>>
      <4>1. place < index + ask.limit
        BY <1>3, <2>2
      <4> DEFINE stop == index + ask.limit
      <4>2. stop \in Int
        BY <1>1
      <4> HIDE DEF stop
      <4>3. \A v \in Members(NamedNow), at \in Nat :
             /\ at = Cardinality(Ahead(NamedNow, v))
             /\ index <= at /\ at < stop
             => /\ at - index + 1 \in 1 .. Len(Slice(RowsOf(NamedNow), index, stop))
                /\ Slice(RowsOf(NamedNow), index, stop)[at - index + 1] = <<v, NamedNow[v]>>
        BY <1>1, <4>2, Pages
      <4> QED
        BY <2>1, <2>2, <2>4, <4>1, <4>3 DEF stop
    <3>3. <<u, NamedNow[u]>> \in Range(page) /\ <<u, NamedNow[u]>>[1] = u
      <4> HIDE DEF page
      <4> QED
        BY <3>1, <3>2 DEF Range
    <3> QED
      BY <1>2, <3>3
  <2> QED
    BY <1>1, <2>3, <2>4
<1> QED
  BY <1>1, <1>3

LEMMA NextScanning == Control /\ TypeOK /\ Scanning /\ [Next]_vars => Scanning'
<1> SUFFICES ASSUME Control, TypeOK, Scanning, [Next]_vars, pc' = "scan" PROVE Scanning'
  BY DEF Scanning
<1>a. NamedNow \in Boards
  BY AskedTyping
<1>1. CASE Arrive
  <2>1. ask.op = "scan" /\ still' = Members(NamedNow) /\ NamedNow' = NamedNow /\ index' = 0
    <3>1. ask.op = "scan"
      BY <1>1, AskAssumption
      DEF Arrive, FirstCommand, Await, Finish, Control, TopAsk, EntryAsk, ContextAsk, ScanAsk
    <3>2. NamedNow' = NamedNow /\ index' = 0
      BY <1>1 DEF Arrive, Control, NamedNow, BucketNow, keys
    <3> QED
      BY <1>1, <3>1, <3>2 DEF Arrive
  <2>2. ASSUME NEW u \in Members(NamedNow) PROVE ~ (Cardinality(Ahead(NamedNow, u)) < 0)
    <3>1. /\ Cardinality(Ahead(NamedNow, u)) \in 0 .. Cardinality(Members(NamedNow)) - 1
          /\ Cardinality(Members(NamedNow)) \in 0 .. Cardinality(User) /\ Cardinality(User) \in Nat
      BY <1>a, Counts
    <3> QED
      BY <3>1
  <2> QED
    BY <2>1, <2>2 DEF Scanning
<1>2. CASE ReadScanned
  <2>1. still' = still /\ NamedNow' = NamedNow /\ pc = "scan"
    BY <1>2 DEF ReadScanned, NamedNow, BucketNow, keys
  <2>2. \A u \in still : Cardinality(Ahead(NamedNow, u)) < index' => u \in seen'
    BY <1>2, ScannedPage
  <2> QED
    BY <2>1, <2>2 DEF Scanning
<1>3. CASE Meanwhile
  <2>1. pc = "scan" /\ index' = index /\ seen' = seen /\ index \in Nat
    BY <1>3 DEF Meanwhile, read, Control
  <2>2. PICK after \in Boards : after = NamedNow'
    BY <1>3, OthersRaise
  <2>3. CASE ~ Departure
    <3>0. Members(NamedNow) \subseteq Members(after)
      BY <1>3, <2>2, <2>3, OthersRaise
    <3>1. still' = {u \in still : after[u] = NamedNow[u]}
      BY <1>3, <2>2, <2>3 DEF Meanwhile
    <3>2. \A v \in Members(NamedNow) : NamedNow[v] <= after[v]
      BY <1>3, <2>2, <2>3, OthersRaise
    <3>3. still \subseteq Members(NamedNow)
      BY <2>1 DEF Scanning
    <3>4. ASSUME NEW u \in still', Cardinality(Ahead(after, u)) < index PROVE u \in seen
      <4>1. u \in still /\ u \in Members(NamedNow) /\ after[u] = NamedNow[u]
        BY <3>1, <3>3
      <4>2. /\ Cardinality(Ahead(NamedNow, u)) \in Nat /\ Cardinality(Ahead(after, u)) \in Nat
            /\ Cardinality(Ahead(NamedNow, u)) <= Cardinality(Ahead(after, u))
        BY <1>a, <3>0, <3>2, <4>1, AheadGrows
      <4>3. Cardinality(Ahead(NamedNow, u)) < index
        BY <2>1, <3>4, <4>2
      <4> QED
        BY <2>1, <4>1, <4>3 DEF Scanning
    <3>5. still' \subseteq Members(after)
      BY <3>0, <3>1, <3>3
    <3> QED
      BY <2>1, <2>2, <3>4, <3>5 DEF Scanning
  <2>4. CASE Departure
    <3>1. still' = {}
      BY <1>3, <2>2, <2>4 DEF Meanwhile
    <3> QED
      BY <3>1 DEF Scanning
  <2> QED
    BY <2>3, <2>4
<1>4. CASE UNCHANGED vars
  BY <1>4 DEF vars, keys, read, observed, Scanning, NamedNow, BucketNow
<1>5. CASE ~ Arrive /\ ~ ReadScanned /\ ~ Meanwhile /\ Next
  BY <1>5 DEF Next, Command, ReadPage, ReadCard, ReadScore, ReadPlace, ReadSize, ReadStrip,
              ReadAbove, ReadNames, Fail, Await, Finish
<1> QED
  BY <1>1, <1>2, <1>3, <1>4, <1>5

LEMMA NextSkips ==
    /\ Control /\ TypeOK /\ Scanning
    /\ NobodyIsSkipped /\ [Next]_vars
    => NobodyIsSkipped'
<1> SUFFICES ASSUME Control, TypeOK, Scanning, NobodyIsSkipped, [Next]_vars, reply'.op = "scanned"
             PROVE  still' \subseteq seen'
  BY DEF NobodyIsSkipped
<1>1. CASE pc = "done"
  BY <1>1, DoneIsOver DEF vars, read, observed, NobodyIsSkipped
<1>2. CASE pc # "done"
  <2>1. ReadScanned
    BY <1>2, OthersLeaveTheRead
    DEF Next, Command, Arrive, ReadPage, ReadCard, ReadScore, ReadPlace, ReadSize, ReadStrip,
        ReadAbove, ReadNames, Fail, Control, Finish, Await, Outcome, Split
  <2>2. /\ ask.limit \in Nat \ {0} /\ index \in Nat /\ index' = index + ask.limit
        /\ \A u \in still : Cardinality(Ahead(NamedNow, u)) < index' => u \in seen'
    BY <2>1, ScannedPage
  <2> DEFINE page == Slice(RowsOf(NamedNow), index, index + ask.limit)
             size == Cardinality(Members(NamedNow))
  <2>3. NamedNow \in Boards /\ NamedNow = zset[bucket'] /\ still' = still /\ pc = "scan"
    BY <2>1, AskedTyping DEF ReadScanned, Control, NamedNow
  <2>4. Len(page) < ask.limit
    BY <1>2, <2>1, <2>3 DEF ReadScanned, Finish, Await, Control, Outcome
  <2>5. Len(page) = R!PageLen(index, index + ask.limit, size) /\ size \in Nat
    <3> DEFINE stop == index + ask.limit
    <3>1. stop \in Int
      BY <2>2
    <3> HIDE DEF stop
    <3>3. Len(Slice(RowsOf(NamedNow), index, stop)) = R!PageLen(index, stop, size)
      BY <2>2, <2>3, <3>1, Pages
    <3>2. size \in 0 .. Cardinality(User) /\ Cardinality(User) \in Nat
      BY <2>3, Counts
    <3>4. size \in Nat
      BY <3>2
    <3> QED
      BY <3>3, <3>4 DEF stop
  <2> HIDE DEF page, size
  <2>6. size < index + ask.limit
    BY <2>2, <2>4, <2>5 DEF R!PageLen, R!Least
  <2>7. ASSUME NEW u \in still PROVE u \in seen'
    <3>1. u \in Members(NamedNow)
      BY <2>3 DEF Scanning
    <3>2. Cardinality(Ahead(NamedNow, u)) \in 0 .. size - 1
      BY <2>3, <3>1, Counts DEF size
    <3>3. Cardinality(Ahead(NamedNow, u)) < index'
      BY <2>2, <2>5, <2>6, <3>2
    <3> QED
      BY <2>2, <3>3
  <2> QED
    BY <2>3, <2>7
<1> QED
  BY <1>1, <1>2

------------------------------------------------------------------------------
(* Theorems                                                                    *)

Inductive ==
    /\ Control
    /\ TypeOK
    /\ RowsAtHand
    /\ UpToDate
    /\ Scanning

LEMMA InitInductive ==
    Init => /\ Inductive
            /\ EveryRankWasTrueOnce /\ QuietReadsAreExact /\ SteadyPlayerIsShown /\ NobodyIsSkipped
<1> SUFFICES ASSUME Init
             PROVE  /\ Inductive
                    /\ EveryRankWasTrueOnce /\ QuietReadsAreExact /\ SteadyPlayerIsShown /\ NobodyIsSkipped
  OBVIOUS
<1>1. RowsAtHand /\ UpToDate /\ Scanning
  BY DEF Init, RowsAtHand, UpToDate, Scanning
<1>2. EveryRankWasTrueOnce
  BY DEF Init, Outcome, EveryRankWasTrueOnce, AnsweredEntries
<1>3. QuietReadsAreExact /\ SteadyPlayerIsShown /\ NobodyIsSkipped
  BY DEF Init, Outcome, QuietReadsAreExact, SteadyPlayerIsShown, NobodyIsSkipped
<1> QED
  BY <1>1, <1>2, <1>3, InitControl, InitTypeOK DEF Inductive

LEMMA NextInductive == Inductive /\ [Next]_vars => Inductive'
  BY NextControl, NextTypeOK, NextRowsAtHand, NextUpToDate, NextScanning DEF Inductive

LEMMA InductiveHolds == Spec => []Inductive
<1>1. Init => Inductive
  BY InitInductive
<1> QED
  BY <1>1, NextInductive, PTL DEF Spec

(* Whatever a read has of Redis when others write between its commands is      *)
(* well-formed: the rows and counts of redis_store.py:196-270 stay within the  *)
(* users there are, and the place of a player is a place or none.              *)
THEOREM ReadTypeCorrectness == Spec => []TypeOK
<1>1. Inductive => TypeOK
  BY DEF Inductive
<1> QED
  BY <1>1, InductiveHolds, PTL

(* rank_page (app/store/base.py:106), which walks down a page with the one rank *)
(* counted for its first row, gives every row a rank that was true: the rank of *)
(* its score on the board the rows were read from or, in the tie of the first  *)
(* row, on the board Redis held when it counted the better scores; on a board  *)
(* of any size, a page of any length, and whatever is written in between.      *)
THEOREM RanksWereTrueOnce == Spec => []EveryRankWasTrueOnce
<1>1. Init => EveryRankWasTrueOnce
  BY InitInductive
<1>2. Inductive /\ EveryRankWasTrueOnce /\ [Next]_vars => EveryRankWasTrueOnce'
  BY NextRanks DEF Inductive
<1> QED
  BY <1>1, <1>2, InductiveHolds, PTL DEF Spec

(* A read nobody wrote into answers what the contract of app/store/base.py     *)
(* defines: a slice, a count and rank_page make the page, the entry and the    *)
(* context of the listing, and neither an empty strip nor an index beyond it   *)
(* can occur (redis_store.py:196-270).                                         *)
THEOREM QuietReadsAnswerTheContract == Spec => []QuietReadsAreExact
<1>1. Init => QuietReadsAreExact
  BY InitInductive
<1>2. Inductive /\ QuietReadsAreExact /\ [Next]_vars => QuietReadsAreExact'
  BY NextExact DEF Inductive
<1> QED
  BY <1>1, <1>2, InductiveHolds, PTL DEF Spec

(* Other writes do not make a context miss its player, or fail, as long as as  *)
(* many players were ahead of the player at ZREVRANK as at ZREVRANGE           *)
(* (redis_store.py:240-250).                                                   *)
THEOREM SteadyContextIsThePlayers == Spec => []SteadyPlayerIsShown
<1>1. Init => SteadyPlayerIsShown
  BY InitInductive
<1>2. Inductive /\ SteadyPlayerIsShown /\ [Next]_vars => SteadyPlayerIsShown'
  BY NextSteady DEF Inductive
<1> QED
  BY <1>1, <1>2, InductiveHolds, PTL DEF Spec

(* Page after page of any size, a scan shows everybody who was on the board    *)
(* when it began and whose score stood, while nobody left and no midnight set  *)
(* anybody back: the order of redis_store.py:200 never moves such a player to  *)
(* an earlier place, whichever boards late and hurried writers write.          *)
THEOREM ScansSkipNobody == Spec => []NobodyIsSkipped
<1>1. Init => NobodyIsSkipped
  BY InitInductive
<1>2. Inductive /\ NobodyIsSkipped /\ [Next]_vars => NobodyIsSkipped'
  BY NextSkips DEF Inductive
<1> QED
  BY <1>1, <1>2, InductiveHolds, PTL DEF Spec
==============================================================================
