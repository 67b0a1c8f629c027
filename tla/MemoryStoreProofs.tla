-------------------------- MODULE MemoryStoreProofs --------------------------
(* The memory store keeps its two structures in step, for any games, users,    *)
(* windows and retentions.                                                     *)
EXTENDS MemoryStore, RankingProofs

(* What is true of one board at any time: it has its type, and the index holds *)
(* exactly the rows of the score map.                                          *)
InStep(board) ==
    /\ board \in [scores : [User -> CalledScore \cup {NoScore}],
                  order : SUBSET (User \X CalledScore), expires : Nat]
    /\ board.order = RowsOf(board.scores)

(* The inductive invariant is TypeOK and IndexMatchesScores, board by board.   *)
StoreInv ==
    /\ now \in Time
    /\ DOMAIN boards \subseteq Board
    /\ \A b \in DOMAIN boards : InStep(boards[b])
    /\ names \subseteq Game \X User
    /\ DOMAIN idempotency \subseteq Game \X Key
    /\ \A k \in DOMAIN idempotency : idempotency[k] \in Nat

LEMMA InvImplies == StoreInv => TypeOK /\ IndexMatchesScores
BY DEF StoreInv, InStep, TypeOK, IndexMatchesScores

LEMMA NoScoreIsNoScore == NoScore \notin CalledScore
BY StoreAssumption DEF StoreAssumption

(* A new board is empty, and so is its index.                                  *)
LEMMA NewBoardInStep == InStep(NewBoard)
<1>1. NewBoard \in [scores : [User -> CalledScore \cup {NoScore}],
                    order : SUBSET (User \X CalledScore), expires : Nat]
  BY DEF NewBoard, Never
<1>2. RowsOf(NewBoard.scores) = {}
  BY DEF NewBoard, RowsOf, Members
<1> QED
  BY <1>1, <1>2 DEF InStep, NewBoard

(* set_score takes the old row out before it puts the new one in.              *)
LEMMA SetScoreInStep ==
    ASSUME NEW board, InStep(board), NEW u \in User, NEW score \in CalledScore
    PROVE  InStep(SetScore(board, u, score))
<1> DEFINE after == SetScore(board, u, score)
<1>1. board.scores \in [User -> CalledScore \cup {NoScore}] /\ board.order \subseteq User \X CalledScore
  BY DEF InStep
<1>2. /\ after.scores = [board.scores EXCEPT ![u] = score]
      /\ after.order = (board.order \ {<<u, board.scores[u]>>}) \cup {<<u, score>>}
      /\ after \in [scores : [User -> CalledScore \cup {NoScore}],
                    order : SUBSET (User \X CalledScore), expires : Nat]
  <2>1. board \in [scores : [User -> CalledScore \cup {NoScore}],
                   order : SUBSET (User \X CalledScore), expires : Nat]
    BY DEF InStep
  <2>2. [board.scores EXCEPT ![u] = score] \in [User -> CalledScore \cup {NoScore}]
    BY <1>1
  <2>3. (board.order \ {<<u, board.scores[u]>>}) \cup {<<u, score>>} \in SUBSET (User \X CalledScore)
    BY <1>1
  <2> QED
    BY <2>1, <2>2, <2>3 DEF SetScore
<1>3. Members(after.scores) = Members(board.scores) \cup {u}
  BY <1>1, <1>2, NoScoreIsNoScore DEF Members
<1>4. ASSUME NEW r
      PROVE  r \in RowsOf(after.scores) <=> r \in after.order
  <2>1. r \in RowsOf(after.scores)
          <=> \E v \in Members(board.scores) \cup {u} : r = <<v, after.scores[v]>>
    BY <1>3 DEF RowsOf
  <2>2. r \in board.order <=> \E v \in Members(board.scores) : r = <<v, board.scores[v]>>
    BY DEF InStep, RowsOf
  <2>3. \A v \in User : after.scores[v] = IF v = u THEN score ELSE board.scores[v]
    BY <1>1, <1>2
  <2>4. Members(board.scores) \subseteq User
    BY <1>1 DEF Members
  <2> QED
    BY <1>2, <2>1, <2>2, <2>3, <2>4
<1> QED
  BY <1>2, <1>4 DEF InStep

LEMMA RemoveInStep ==
    ASSUME NEW board, InStep(board), NEW u \in User
    PROVE  InStep(Remove(board, u))
<1> DEFINE after == Remove(board, u)
<1>1. board.scores \in [User -> CalledScore \cup {NoScore}] /\ board.order \subseteq User \X CalledScore
  BY DEF InStep
<1>2. /\ after.scores = [board.scores EXCEPT ![u] = NoScore]
      /\ after.order = board.order \ {<<u, board.scores[u]>>}
      /\ after \in [scores : [User -> CalledScore \cup {NoScore}],
                    order : SUBSET (User \X CalledScore), expires : Nat]
  BY <1>1 DEF Remove, InStep
<1>3. Members(after.scores) = Members(board.scores) \ {u}
  BY <1>1, <1>2 DEF Members
<1>4. ASSUME NEW r
      PROVE  r \in RowsOf(after.scores) <=> r \in after.order
  <2>1. r \in RowsOf(after.scores)
          <=> \E v \in Members(board.scores) \ {u} : r = <<v, after.scores[v]>>
    BY <1>3 DEF RowsOf
  <2>2. r \in board.order <=> \E v \in Members(board.scores) : r = <<v, board.scores[v]>>
    BY DEF InStep, RowsOf
  <2>3. \A v \in User \ {u} : after.scores[v] = board.scores[v]
    BY <1>1, <1>2
  <2>4. Members(board.scores) \subseteq User
    BY <1>1 DEF Members
  <2> QED
    BY <1>2, <2>1, <2>2, <2>3, <2>4
<1> QED
  BY <1>2, <1>4 DEF InStep

LEMMA BoardAtIsBoard ==
    ASSUME StoreInv, NEW g \in Game, NEW window \in CalledWindow
    PROVE  BoardAt(g, window) \in Board
<1>1. now \in Moment
  BY CalendarAssumption DEF StoreInv, Time, Moment
<1> QED
  BY <1>1, StoreAssumption DEF BoardAt, Board, Bucket

LEMMA RetainedIsNat ==
    ASSUME StoreInv, NEW window \in CalledWindow, NEW expires \in Nat
    PROVE  Retained(TtlFor(window), expires) \in Nat
<1>1. window \in {"all_time", "daily", "weekly"}
  BY StoreAssumption DEF StoreAssumption, Window
<1>2. now \in Nat
  BY CalendarAssumption DEF StoreInv, Time, CalendarAssumption
<1> QED
  BY <1>1, <1>2, RetentionAssumption DEF Retained, TtlFor, NoTtl, RetentionAssumption

(* A lookup only ever drops boards.                                            *)
LEMMA FetchedInStep ==
    ASSUME StoreInv, NEW b
    PROVE  /\ DOMAIN Fetched(b) \subseteq Board
           /\ \A c \in DOMAIN Fetched(b) : InStep(Fetched(b)[c])
BY DEF StoreInv, Fetched

LEMMA SubmitKeepsInv ==
    ASSUME StoreInv, NEW g \in Game, NEW window \in CalledWindow, NEW u \in User,
           NEW score \in CalledScore, Submit(g, window, u, score)
    PROVE  StoreInv'
<1> DEFINE b == BoardAt(g, window)
           board == IF Found(b) THEN boards[b] ELSE NewBoard
           kept == [board EXCEPT !.expires = Retained(TtlFor(window), @)]
           previous == board.scores[u]
           standing == IF previous = NoScore THEN score ELSE Greatest(previous, score)
           after == IF previous = standing THEN kept ELSE SetScore(kept, u, standing)
<1>1. InStep(board)
  BY NewBoardInStep DEF StoreInv, Found, Fetched
<1>2. board.expires \in Nat /\ board.scores \in [User -> CalledScore \cup {NoScore}]
  BY <1>1 DEF InStep
<1>3. Retained(TtlFor(window), board.expires) \in Nat
  BY <1>2, RetainedIsNat
<1>4. /\ kept.scores = board.scores
      /\ kept.order = board.order
      /\ kept \in [scores : [User -> CalledScore \cup {NoScore}],
                   order : SUBSET (User \X CalledScore), expires : Nat]
  BY <1>1, <1>3 DEF InStep
<1>5. InStep(kept)
  BY <1>1, <1>4 DEF InStep
<1>6. standing \in CalledScore
  BY <1>2 DEF Greatest
<1>7. InStep(after)
  BY <1>5, <1>6, SetScoreInStep
<1>8. boards' = [c \in DOMAIN boards \cup {b} |-> IF c = b THEN after ELSE boards[c]]
  BY DEF Submit
<1>9. DOMAIN boards' \subseteq Board /\ \A c \in DOMAIN boards' : InStep(boards'[c])
  BY <1>7, <1>8, BoardAtIsBoard DEF StoreInv
<1> QED
  BY <1>9 DEF StoreInv, Submit, InStep

LEMMA RemovePlayerKeepsInv ==
    ASSUME StoreInv, NEW g \in Game, NEW u \in User, RemovePlayer(g, u)
    PROVE  StoreInv'
<1> DEFINE touched == {b \in DOMAIN boards : b[1] = g /\ boards[b].scores[u] # NoScore}
<1>1. boards' = [b \in DOMAIN boards |->
                   IF b \in touched THEN Remove(boards[b], u) ELSE boards[b]]
  BY DEF RemovePlayer
<1>2. DOMAIN boards' \subseteq Board /\ \A b \in DOMAIN boards' : InStep(boards'[b])
  BY <1>1, RemoveInStep DEF StoreInv
<1> QED
  BY <1>2 DEF StoreInv, RemovePlayer, InStep

LEMMA ClaimKeepsInv ==
    ASSUME StoreInv, NEW g \in Game, NEW key \in Key, ClaimIdempotencyKey(g, key)
    PROVE  StoreInv'
<1> DEFINE k == <<g, key>>
           claimed == [c \in DOMAIN idempotency \cup {k} |->
                         IF c = k THEN now + IdemTtl ELSE idempotency[c]]
<1>1. now + IdemTtl \in Nat
  BY StoreAssumption, CalendarAssumption DEF StoreInv, Time, StoreAssumption, CalendarAssumption
<1>2. DOMAIN claimed \subseteq Game \X Key /\ \A c \in DOMAIN claimed : claimed[c] \in Nat
  BY <1>1 DEF StoreInv
<1>3. /\ DOMAIN Swept(claimed, k) \subseteq Game \X Key
      /\ \A c \in DOMAIN Swept(claimed, k) : Swept(claimed, k)[c] \in Nat
  BY <1>2 DEF Swept
<1>4. idempotency' = Swept(claimed, k) \/ idempotency' = idempotency
  BY DEF ClaimIdempotencyKey
<1>5. /\ DOMAIN idempotency' \subseteq Game \X Key
      /\ \A c \in DOMAIN idempotency' : idempotency'[c] \in Nat
  BY <1>3, <1>4 DEF StoreInv
<1> QED
  BY <1>5 DEF StoreInv, ClaimIdempotencyKey, InStep

LEMMA ReadKeepsInv ==
    ASSUME StoreInv, NEW b, NEW result, ReadFrom(b, result)
    PROVE  StoreInv'
<1>1. DOMAIN boards' \subseteq Board /\ \A c \in DOMAIN boards' : InStep(boards'[c])
  BY FetchedInStep DEF ReadFrom
<1> QED
  BY <1>1 DEF StoreInv, ReadFrom, InStep

LEMMA StoreInvInductive == StoreInv /\ [Next]_vars => StoreInv'
<1> SUFFICES ASSUME StoreInv, [Next]_vars PROVE StoreInv'
  OBVIOUS
<1>1. ASSUME NEW g \in Game, NEW u \in User, NEW window \in CalledWindow, NEW score \in CalledScore,
             Submit(g, window, u, score)
      PROVE  StoreInv'
  BY <1>1, SubmitKeepsInv
<1>2. ASSUME NEW g \in Game, NEW u \in Renamed, SetDisplayName(g, u) PROVE StoreInv'
  <2>1. u \in User
    BY StoreAssumption
  <2> QED
    BY <1>2, <2>1 DEF SetDisplayName, StoreInv, InStep
<1>3. ASSUME NEW g \in Game, NEW u \in User, RemovePlayer(g, u) PROVE StoreInv'
  BY <1>3, RemovePlayerKeepsInv
<1>4. ASSUME NEW g \in Game, NEW key \in Key, ClaimIdempotencyKey(g, key) PROVE StoreInv'
  BY <1>4, ClaimKeepsInv
<1>5. CASE ListGames
  BY <1>5 DEF ListGames, StoreInv, InStep
<1>6. ASSUME NEW g \in Game, NEW window \in CalledWindow, TotalPlayers(g, window)
      PROVE  StoreInv'
  BY <1>6, ReadKeepsInv DEF TotalPlayers
<1>7. ASSUME NEW g \in Game, NEW window \in CalledWindow, NEW limit \in Limit,
             NEW offset \in Offset, Top(g, window, limit, offset)
      PROVE  StoreInv'
  BY <1>7, ReadKeepsInv DEF Top
<1>8. ASSUME NEW g \in Game, NEW window \in CalledWindow, NEW u \in User, GetEntry(g, window, u)
      PROVE  StoreInv'
  BY <1>8, ReadKeepsInv DEF GetEntry
<1>9. ASSUME NEW g \in Game, NEW window \in CalledWindow, NEW u \in User, NEW radius \in Radius,
             Context(g, window, u, radius)
      PROVE  StoreInv'
  BY <1>9, ReadKeepsInv DEF Context
<1>10. CASE ClockTick
  BY <1>10, CalendarAssumption DEF ClockTick, StoreInv, InStep, Time, CalendarAssumption
<1>11. CASE UNCHANGED vars
  BY <1>11 DEF vars, StoreInv, InStep
<1> QED
  BY <1>1, <1>2, <1>3, <1>4, <1>5, <1>6, <1>7, <1>8, <1>9, <1>10, <1>11 DEF Next, Write, Read

LEMMA StoreInvInit == Init => StoreInv
BY CalendarAssumption DEF Init, StoreInv, Time, CalendarAssumption

(* The index of every board holds one row per player, with the player's score, *)
(* after any sequence of calls of app/store/memory.py.                         *)
THEOREM IndexStaysInStep == Spec => []IndexMatchesScores
<1>1. StoreInv => IndexMatchesScores
  BY InvImplies
<1> QED
  BY <1>1, StoreInvInit, StoreInvInductive, PTL DEF Spec

(* The memory store keeps the type of its state.                               *)
THEOREM StoreTypeCorrectness == Spec => []TypeOK
<1>1. StoreInv => TypeOK
  BY InvImplies
<1> QED
  BY <1>1, StoreInvInit, StoreInvInductive, PTL DEF Spec

------------------------------------------------------------------------------
(* The boards callers name, and what they show                                 *)

LEMMA AllTimeIsBucket == AllTimeBucket \in Bucket
<1>1. 0 \in Moment
  BY CalendarAssumption DEF Moment
<1> QED
  BY <1>1 DEF Bucket, Window, WindowSuffix

LEMMA CalledBucket ==
    ASSUME StoreInv, NEW window \in CalledWindow
    PROVE  /\ WindowSuffix(window, now) \in Bucket
           /\ window # "all_time" => /\ WindowSuffix(window, now) # AllTimeBucket
                                     /\ TtlFor(window) \in Nat \ {0}
           /\ window = "all_time" => /\ WindowSuffix(window, now) = AllTimeBucket
                                     /\ TtlFor(window) = NoTtl
<1>1. window \in Window /\ now \in Moment
  BY StoreAssumption, CalendarAssumption DEF StoreInv, Time, Moment
<1>2. WindowSuffix(window, now) \in Bucket
  BY <1>1 DEF Bucket
<1>3. /\ WindowSuffix("all_time", now) = <<"all", 0>>
      /\ WindowSuffix("daily", now) = <<"d", now \div DayLength>>
      /\ WindowSuffix("weekly", now) = <<"w", now \div (DayLength * DaysPerWeek)>>
      /\ AllTimeBucket = <<"all", 0>>
  BY DEF WindowSuffix, AllTimeBucket
<1>4. window # "all_time" => WindowSuffix(window, now)[1] \in {"d", "w"}
  BY <1>1, <1>3 DEF Window
<1> QED
  BY <1>1, <1>2, <1>3, <1>4, RetentionAssumption DEF TtlFor, Window

(* The board a submission finds has the scores that are shown.                 *)
LEMMA FoundIsShown ==
    ASSUME NEW k
    PROVE  /\ Found(k) <=> k \in DOMAIN boards /\ ~ Expired(k)
           /\ (IF Found(k) THEN boards[k] ELSE NewBoard).scores = Shown(k)
<1>1. Found(k) <=> k \in DOMAIN boards /\ ~ Expired(k)
  BY DEF Found, Fetched
<1> QED
  BY <1>1 DEF Shown

LEMMA ShownTyping ==
    ASSUME StoreInv, NEW k
    PROVE  Shown(k) \in [User -> CalledScore \cup {NoScore}]
  BY DEF StoreInv, InStep, Shown, NewBoard

LEMMA BucketsAreFinite == IsFiniteSet(Bucket)
<1>1. IsFiniteSet(Moment)
  BY FS_Interval, CalendarAssumption DEF Moment
<1>2. ASSUME NEW window PROVE IsFiniteSet({WindowSuffix(window, at) : at \in Moment})
  <2> DEFINE named == {WindowSuffix(window, at) : at \in Moment}
             f == [at \in Moment |-> WindowSuffix(window, at)]
  <2>1. f \in Surjection(Moment, named)
    BY DEF Surjection
  <2> HIDE DEF f, named
  <2>2. IsFiniteSet(named)
    BY <1>1, <2>1, FS_Surjection
  <2> QED
    BY <2>2 DEF named
<1> DEFINE always == {WindowSuffix("all_time", at) : at \in Moment}
           days == {WindowSuffix("daily", at) : at \in Moment}
           weeks == {WindowSuffix("weekly", at) : at \in Moment}
<1>3. IsFiniteSet(always) /\ IsFiniteSet(days) /\ IsFiniteSet(weeks)
  BY <1>2
<1>4. Bucket = (always \cup days) \cup weeks
  BY DEF Bucket, Window
<1> HIDE DEF always, days, weeks
<1>5. IsFiniteSet(always \cup days)
  BY <1>3, FS_Union
<1>6. IsFiniteSet((always \cup days) \cup weeks)
  BY <1>3, <1>5, FS_Union
<1> QED
  BY <1>4, <1>6

(* When the claim of a key that is held lapses, 0 when it is free.             *)
LiveUntil(k) ==
    IF k \in DOMAIN idempotency /\ idempotency[k] > now THEN idempotency[k] ELSE 0

(* A sweep drops only claims that have lapsed.                                 *)
LEMMA ClaimOnMemory ==
    ASSUME StoreInv, NEW g \in Game, NEW key \in Key, ClaimIdempotencyKey(g, key)
    PROVE  LET c == <<g, key>>
               fresh == ~ (c \in DOMAIN idempotency /\ idempotency[c] > now)
           IN  /\ fresh <=> LiveUntil(c) = 0
               /\ \A d : LiveUntil(d)' = IF fresh /\ d = c THEN now + IdemTtl ELSE LiveUntil(d)
<1> DEFINE c == <<g, key>>
           fresh == ~ (c \in DOMAIN idempotency /\ idempotency[c] > now)
           claimed == [d \in DOMAIN idempotency \cup {c} |->
                          IF d = c THEN now + IdemTtl ELSE idempotency[d]]
<1>1. now \in Nat /\ IdemTtl \in Nat \ {0}
  BY StoreAssumption, CalendarAssumption DEF StoreInv, Time
<1>2. \A d \in DOMAIN idempotency : idempotency[d] \in Nat
  BY DEF StoreInv
<1>3. idempotency' = (IF fresh THEN Swept(claimed, c) ELSE idempotency) /\ now' = now
  BY DEF ClaimIdempotencyKey
<1>4. fresh <=> LiveUntil(c) = 0
  BY <1>1, <1>2 DEF LiveUntil
<1>8. \A d : LiveUntil(d)' = IF fresh /\ d = c THEN now + IdemTtl ELSE LiveUntil(d)
  <2>1. CASE ~ fresh
    BY <2>1, <1>3 DEF LiveUntil
  <2>2. CASE fresh
    <3>1. idempotency' = claimed
            \/ idempotency' = [d \in {e \in DOMAIN claimed : claimed[e] > now} |-> claimed[d]]
      BY <2>2, <1>3 DEF Swept
    <3>2. \A d : (d \in DOMAIN idempotency' /\ idempotency'[d] > now)
                    <=> (d \in DOMAIN claimed /\ claimed[d] > now)
      BY <3>1
    <3>3. \A d \in DOMAIN idempotency' : idempotency'[d] = claimed[d]
      BY <3>1
    <3>4. ASSUME NEW d PROVE LiveUntil(d)' = IF d = c THEN now + IdemTtl ELSE LiveUntil(d)
      <4>1. now' = now /\ now + IdemTtl > now
        BY <1>1, <1>3
      <4>2. CASE d = c
        <5>1. d \in DOMAIN claimed /\ claimed[d] = now + IdemTtl
          BY <4>2
        <5> QED
          BY <4>1, <4>2, <5>1, <3>2, <3>3 DEF LiveUntil
      <4>3. CASE d # c
        <5>1. /\ d \in DOMAIN claimed <=> d \in DOMAIN idempotency
              /\ d \in DOMAIN claimed => claimed[d] = idempotency[d]
          BY <4>3
        <5> QED
          BY <4>1, <4>3, <5>1, <3>2, <3>3 DEF LiveUntil
      <4> QED
        BY <4>2, <4>3
    <3> QED
      BY <2>2, <3>4
  <2> QED
    BY <2>1, <2>2
<1> QED
  BY <1>4, <1>8

------------------------------------------------------------------------------
(* The store behind its port                                                   *)

(* No call ever gives the all-time board of a game a deadline, so a submission *)
(* that leaves its expiry alone leaves it retained for good.                   *)
AllTimeKept == \A b \in DOMAIN boards : b[2] = AllTimeBucket => boards[b].expires = Never

(* What the port sees: the boards, when each is gone, and the claims held.     *)
Best == [b \in Board |-> Shown(b)]

Deadline == [b \in Board |-> IF Members(Shown(b)) = {} THEN 0 ELSE boards[b].expires]

Claims == [k \in Game \X Key |-> LiveUntil(k)]

(* The operators of Ranking are the same on both sides of the port.            *)
LEMMA PortRanking ==
    /\ \A S : Port!Cardinality(S) = Cardinality(S)
    /\ \A board : Port!Members(board) = Members(board)
    /\ \A board, score : Port!RankOf(board, score) = RankOf(board, score)
    /\ \A x, y : Port!Greatest(x, y) = Greatest(x, y) /\ Port!Least(x, y) = Least(x, y)
    /\ \A board, named, limit, offset :
          Port!TopOf(board, named, limit, offset) = TopOf(board, named, limit, offset)
    /\ \A board, named, u : Port!EntryOf(board, named, u) = EntryOf(board, named, u)
    /\ \A board, named, u, radius :
          Port!ContextOf(board, named, u, radius) = ContextOf(board, named, u, radius)
    /\ \A g : Port!NamesIn(g) = NamesIn(g)
<1>1. \A S : Port!Cardinality(S) = Cardinality(S)
  BY DEF Port!Cardinality, Cardinality
<1>2. \A board : Port!Members(board) = Members(board)
  BY DEF Port!Members, Members
<1>3. \A board, score : Port!RankOf(board, score) = RankOf(board, score)
  BY <1>1, <1>2 DEF Port!RankOf, RankOf
<1>4. \A board, u : Port!Ahead(board, u) = Ahead(board, u)
  BY <1>2 DEF Port!Ahead, Ahead
<1>5. \A board, named, u : Port!Standing(board, named, u) = Standing(board, named, u)
  BY <1>3 DEF Port!Standing, Standing
<1>6. \A board, named : Port!Listing(board, named) = Listing(board, named)
  BY DEF Port!Listing, Listing, Port!Members, Members, Port!Ahead, Ahead,
     Port!Standing, Standing, Port!RankOf, RankOf, Port!Cardinality, Cardinality
<1>7. \A x, y : Port!Greatest(x, y) = Greatest(x, y) /\ Port!Least(x, y) = Least(x, y)
  BY DEF Port!Greatest, Greatest, Port!Least, Least
<1>8. \A board, named, limit, offset :
         Port!TopOf(board, named, limit, offset) = TopOf(board, named, limit, offset)
  BY <1>1, <1>2, <1>6, <1>7 DEF Port!TopOf, TopOf
<1>9. \A board, named, u : Port!EntryOf(board, named, u) = EntryOf(board, named, u)
  BY <1>2, <1>5 DEF Port!EntryOf, EntryOf
<1>10. \A board, named, u, radius :
          Port!ContextOf(board, named, u, radius) = ContextOf(board, named, u, radius)
  BY DEF Port!ContextOf, ContextOf, Port!Listing, Listing, Port!Members, Members,
     Port!Ahead, Ahead, Port!Standing, Standing, Port!RankOf, RankOf,
     Port!Least, Least, Port!Greatest, Greatest, Port!Cardinality, Cardinality
<1>11. \A g : Port!NamesIn(g) = NamesIn(g)
  BY DEF Port!NamesIn, NamesIn
<1> QED
  BY <1>1, <1>2, <1>3, <1>7, <1>8, <1>9, <1>10, <1>11

LEMMA ShownIsBoard ==
    ASSUME StoreInv, NEW b
    PROVE  /\ IsBoard(Shown(b)) /\ DOMAIN Shown(b) = User
           /\ Cardinality(Members(Shown(b))) \in Nat
           /\ Members(Shown(b)) = {} => Shown(b) = NewBoard.scores
           /\ Members(NewBoard.scores) = {}
           /\ ~ Found(b) => Shown(b) = NewBoard.scores
           /\ Found(b) => /\ b \in DOMAIN boards /\ InStep(boards[b])
                          /\ boards[b].scores = Shown(b) /\ boards[b].order = RowsOf(Shown(b))
           /\ (IF Found(b) THEN boards[b].order ELSE {}) = RowsOf(Shown(b))
<1>1. Shown(b) \in [User -> CalledScore \cup {NoScore}]
  BY ShownTyping
<1>2. IsBoard(Shown(b)) /\ DOMAIN Shown(b) = User
  BY <1>1, StoreAssumption DEF IsBoard, Members
<1>3. Cardinality(Members(Shown(b))) \in Nat
  BY <1>2, IndexOfBoard
<1>4. Members(Shown(b)) = {} => Shown(b) = NewBoard.scores
  BY <1>1 DEF Members, NewBoard
<1>5. Members(NewBoard.scores) = {} /\ RowsOf(NewBoard.scores) = {}
  BY DEF Members, NewBoard, RowsOf
<1>6. ~ Found(b) => Shown(b) = NewBoard.scores
  BY FoundIsShown DEF Shown
<1>7. Found(b) => /\ b \in DOMAIN boards /\ InStep(boards[b])
                  /\ boards[b].scores = Shown(b) /\ boards[b].order = RowsOf(Shown(b))
  BY FoundIsShown DEF Shown, StoreInv, InStep
<1> QED
  BY <1>2, <1>3, <1>4, <1>5, <1>6, <1>7

(* What the port sees of a board depends on what is shown of it only.          *)
LEMMA SeenOf ==
    ASSUME StoreInv, NEW b
    PROVE  Members(Shown(b)) # {} => b \in DOMAIN boards /\ ~ Expired(b)
BY ShownIsBoard, FoundIsShown DEF Found

LEMMA ReadIsUnseen ==
    ASSUME StoreInv, NEW b, NEW result, ReadFrom(b, result)
    PROVE  /\ Best' = Best /\ Deadline' = Deadline /\ Claims' = Claims
           /\ now' = now /\ names' = names /\ answer' = result
<1>1. /\ boards' = [c \in {d \in DOMAIN boards : d = b => ~ Expired(d)} |-> boards[c]]
      /\ UNCHANGED <<now, names, idempotency>> /\ answer' = result
  BY DEF ReadFrom, Fetched
<1>2. \A c : Shown(c)' = Shown(c)
  BY <1>1 DEF Shown, Expired, NewBoard
<1>3. \A c : Members(Shown(c)) # {} => boards'[c] = boards[c]
  BY <1>1, SeenOf
<1> QED
  BY <1>1, <1>2, <1>3 DEF Best, Deadline, Claims, LiveUntil

LEMMA PortRead ==
    ASSUME StoreInv, NEW b, NEW result, ReadFrom(b, result)
    PROVE  Port!Read(result)
BY ReadIsUnseen DEF Port!Read, Best, Deadline, Claims, LiveUntil

(* A board the service names, as the port knows it.                            *)
LEMMA NamedBoard ==
    ASSUME StoreInv, NEW g \in Game, NEW window \in CalledWindow
    PROVE  LET b == BoardAt(g, window)
           IN  /\ b \in Board /\ b[1] = g /\ b[2] = WindowSuffix(window, now)
               /\ Best[b] = Shown(b) /\ TtlFor(window) \in {TtlFor(w) : w \in Window}
BY BoardAtIsBoard, StoreAssumption DEF BoardAt, Best

LEMMA TotalImplements ==
    ASSUME StoreInv, NEW g \in Game, NEW window \in CalledWindow, TotalPlayers(g, window)
    PROVE  Port!TotalPlayers(BoardAt(g, window))
<1> DEFINE b == BoardAt(g, window)
           result == [op |-> "total", total |-> Cardinality(Members(Best[b]))]
<1>1. b \in Board /\ Best[b] = Shown(b)
  BY NamedBoard
<1>2. (IF Found(b) THEN Cardinality(boards[b].order) ELSE 0) = Cardinality(Members(Shown(b)))
  <2>1. CASE Found(b)
    BY <2>1, ShownIsBoard, IndexOfBoard
  <2>2. CASE ~ Found(b)
    BY <2>2, ShownIsBoard, FS_EmptySet
  <2> QED
    BY <2>1, <2>2
<1>3. ReadFrom(b, result)
  BY <1>1, <1>2 DEF TotalPlayers
<1> HIDE DEF b
<1>4. Port!Read(result)
  BY <1>3, PortRead
<1> QED
  BY <1>4, PortRanking DEF Port!TotalPlayers, Best, b

LEMMA EntryImplements ==
    ASSUME StoreInv, NEW g \in Game, NEW window \in CalledWindow, NEW u \in User,
           GetEntry(g, window, u)
    PROVE  Port!GetEntry(BoardAt(g, window), u)
<1> DEFINE b == BoardAt(g, window)
           result == EntryOf(Best[b], NamesIn(b[1]), u)
<1>1. b \in Board /\ Best[b] = Shown(b) /\ b[1] = g
  BY NamedBoard
<1>2. ReadFrom(b, result)
  <2>1. CASE Found(b)
    <3>1. /\ boards[b].scores = Shown(b) /\ boards[b].order = RowsOf(Shown(b))
          /\ u \in Members(Shown(b)) <=> Shown(b)[u] # NoScore
      BY <2>1, ShownIsBoard DEF Members
    <3>2. CountAbove(boards[b].order, Shown(b)[u]) + 1 = RankOf(Shown(b), Shown(b)[u])
      BY <3>1, ShownIsBoard, IndexOfBoard
    <3> QED
      BY <2>1, <1>1, <3>1, <3>2 DEF GetEntry, EntryOf, Standing
  <2>2. CASE ~ Found(b)
    <3>1. u \notin Members(Shown(b))
      BY <2>2, ShownIsBoard
    <3> QED
      BY <2>2, <1>1, <3>1 DEF GetEntry, EntryOf
  <2> QED
    BY <2>1, <2>2
<1> HIDE DEF b
<1>3. Port!Read(result)
  BY <1>2, PortRead
<1> QED
  BY <1>3, PortRanking DEF Port!GetEntry, Best, b

LEMMA TopImplements ==
    ASSUME StoreInv, NEW g \in Game, NEW window \in CalledWindow,
           NEW limit \in Limit, NEW offset \in Offset, Top(g, window, limit, offset)
    PROVE  Port!Top(BoardAt(g, window), limit, offset)
<1> DEFINE b == BoardAt(g, window)
           board == Shown(b)
           named == NamesIn(g)
           rows == IF Found(b) THEN boards[b].order ELSE {}
           size == Cardinality(rows)
           stop == offset + limit
           page == Slice(RowsOf(board), offset, stop)
           entries == IF offset >= size THEN <<>>
                      ELSE Ranked(g, rows, Slice(rows, offset, stop), offset)
           result == TopOf(Best[b], NamesIn(b[1]), limit, offset)
<1>1. b \in Board /\ Best[b] = board /\ b[1] = g
  BY NamedBoard
<1>2. /\ rows = RowsOf(board) /\ IsBoard(board)
      /\ size = Cardinality(Members(board)) /\ size \in Nat
  BY ShownIsBoard, IndexOfBoard
<1>3. offset \in Nat /\ limit \in Nat \ {0} /\ stop \in Int
  BY StoreAssumption
<1>4. entries = Listed(board, named, offset, stop)
  <2> HIDE DEF board, stop
  <2>1. CASE offset >= size
    <3> DEFINE to == Least(stop, size)
    <3>1. to \in Int /\ offset + 1 \in Int /\ 1 .. (to - (offset + 1) + 1) = {}
      BY <2>1, <1>2, <1>3 DEF Least
    <3>2. Listed(board, named, offset, stop) = SubSeq(Listing(board, named), offset + 1, to)
      BY <1>2 DEF Listed
    <3> HIDE DEF to
    <3>3. SubSeq(Listing(board, named), offset + 1, to)
            = [i \in 1 .. (to - (offset + 1) + 1) |-> Listing(board, named)[offset + 1 + i - 1]]
      BY <3>1, CutOf
    <3>4. [i \in 1 .. (to - (offset + 1) + 1) |-> Listing(board, named)[offset + 1 + i - 1]] = <<>>
      BY <3>1
    <3> QED
      BY <2>1, <3>2, <3>3, <3>4
  <2>2. CASE ~ (offset >= size)
    <3> DEFINE first == CountAbove(rows, page[1][2]) + 1
    <3>1. IsFirstRank(board, page, first)
      BY <1>2 DEF IsFirstRank
    <3>2. entries = Answered(board, named, offset, stop, first)
      BY <2>2, <1>2 DEF Ranked, Answered
    <3> HIDE DEF first, entries
    <3> QED
      BY <3>1, <3>2, <1>2, <1>3, AnsweredIsListed
  <2> QED
    BY <2>1, <2>2
<1>5. ReadFrom(b, [op |-> "top", total |-> size, entries |-> entries])
  BY DEF Top
<1>6. result = [op |-> "top", total |-> size, entries |-> entries]
  BY <1>1, <1>2, <1>4 DEF TopOf, Listed
<1> HIDE DEF b, result, entries, size
<1>7. Port!Read(result)
  BY <1>5, <1>6, PortRead
<1> QED
  BY <1>7, PortRanking DEF Port!Top, Best, b, result

LEMMA ContextImplements ==
    ASSUME StoreInv, NEW g \in Game, NEW window \in CalledWindow, NEW u \in User,
           NEW radius \in Radius, Context(g, window, u, radius)
    PROVE  Port!Context(BoardAt(g, window), u, radius)
<1> DEFINE b == BoardAt(g, window)
           board == Shown(b)
           named == NamesIn(g)
           result == ContextOf(Best[b], NamesIn(b[1]), u, radius)
<1>1. b \in Board /\ Best[b] = board /\ b[1] = g
  BY NamedBoard
<1>2. IsBoard(board) /\ DOMAIN board = User /\ radius \in Nat
  BY ShownIsBoard, StoreAssumption
<1>3. ReadFrom(b, result)
  <2>1. CASE u \notin Members(board)
    <3>1. ~ Found(b) \/ boards[b].scores[u] = NoScore
      BY <2>1, <1>2, ShownIsBoard DEF Members
    <3> QED
      BY <2>1, <3>1, <1>1 DEF Context, ContextOf
  <2>2. CASE u \in Members(board)
    <3>1. /\ Found(b) /\ boards[b].scores = board /\ boards[b].order = RowsOf(board)
          /\ board[u] # NoScore
      BY <2>2, ShownIsBoard DEF Members
    <3>2. ReadFrom(b, Strip(g, RowsOf(board), u, board[u], radius))
      BY <3>1 DEF Context
    <3>3. Strip(g, RowsOf(board), u, board[u], radius) = ContextOf(board, named, u, radius)
      <4> HIDE DEF board
      <4> DEFINE rows == RowsOf(board)
                 place == PlaceOf(rows, Row(board, u))
                 start == StripFrom(place, radius)
                 page == Slice(rows, start, StripTo(place, radius))
                 first == CountAbove(rows, page[1][2]) + 1
                 entries == Answered(board, named, start, StripTo(place, radius), first)
      <4>1. place \in Int
        BY <1>2, <2>2, IndexOfBoard, CountsOfBoard
      <4>2. StripEnd(rows, place, radius) = Least(Cardinality(rows), StripTo(place, radius))
        BY DEF StripEnd, StripTo
      <4>3. Slice(rows, start, StripEnd(rows, place, radius)) = page
        <5> DEFINE stop == StripTo(place, radius)
                   size == Cardinality(rows)
        <5>1. stop \in Int /\ size \in Int
          BY <1>2, <4>1, IndexOfBoard DEF StripTo
        <5> HIDE DEF stop, size, start, rows
        <5>2. Least(Least(size, stop), size) = Least(stop, size)
          BY <5>1 DEF Least
        <5> QED
          BY <4>2, <5>2 DEF Slice, stop, size
      <4>4. IsFirstRank(board, page, first)
        BY DEF IsFirstRank
      <4>5. Ranked(g, rows, page, start) = entries
        BY DEF Ranked, Answered
      <4>6. Strip(g, rows, u, board[u], radius)
              = SplitAt(Cardinality(rows), entries, Pivot(place, radius))
        BY <4>3, <4>5 DEF Strip, SplitAt, Pivot, StripFrom, Row
      <4>7. place = PlaceOf(RowsOf(board), Row(board, u))
        OBVIOUS
      <4> HIDE DEF place, first
      <4>8. ContextOf(board, named, u, radius)
              = SplitAt(Cardinality(rows), entries, Pivot(place, radius))
        BY <1>2, <2>2, <4>4, <4>7, StripIsContext
      <4> QED
        BY <4>6, <4>8
    <3> QED
      BY <1>1, <3>2, <3>3
  <2> QED
    BY <2>1, <2>2
<1> HIDE DEF b
<1>4. Port!Read(result)
  BY <1>3, PortRead
<1> QED
  BY <1>4, PortRanking DEF Port!Context, Best, b

(* A game shown on the port has a board in memory.                             *)
LEMMA GamesImplement ==
    ASSUME StoreInv, ListGames
    PROVE  Port!ListGames
<1> DEFINE known == {b[1] : b \in DOMAIN boards}
<1>1. known \in SUBSET Game
  BY DEF StoreInv, Board
<1>2. ASSUME NEW b \in Board, Members(Shown(b)) # {} PROVE b[1] \in known
  BY <1>2, SeenOf
<1>3. Port!Read([op |-> "games", games |-> known])
  BY DEF ListGames, Port!Read, Shown, Expired, NewBoard, Members
<1> HIDE DEF known
<1>4. \A b \in Board : Members([c \in Board |-> Shown(c)][b]) # {} => b[1] \in known
  BY <1>2
<1> QED
  BY <1>1, <1>3, <1>4, PortRanking DEF Port!ListGames

LEMMA NameImplements ==
    ASSUME StoreInv, NEW g \in Game, NEW u \in User, SetDisplayName(g, u)
    PROVE  Port!SetDisplayName(g, u)
<1>1. /\ names' = names \cup {<<g, u>>} /\ answer' = [op |-> "name"]
      /\ UNCHANGED <<now, boards, idempotency>>
  BY DEF SetDisplayName
<1>2. Best' = Best /\ Deadline' = Deadline /\ Claims' = Claims
  BY <1>1 DEF Best, Deadline, Claims, Shown, Expired, NewBoard, Members, LiveUntil
<1> QED
  BY <1>1, <1>2 DEF Port!SetDisplayName, Best, Deadline, Claims, LiveUntil

LEMMA ClaimImplements ==
    ASSUME StoreInv, NEW g \in Game, NEW key \in Key, ClaimIdempotencyKey(g, key)
    PROVE  Port!ClaimIdempotencyKey(g, key, IdemTtl)
<1> DEFINE c == <<g, key>>
           fresh == Claims[c] = 0
<1>1. c \in Game \X Key /\ Claims[c] = LiveUntil(c)
  BY DEF Claims
<1>2. /\ UNCHANGED <<now, boards, names>> /\ answer' = [op |-> "claim", fresh |-> fresh]
      /\ \A d : LiveUntil(d)' = IF fresh /\ d = c THEN now + IdemTtl ELSE LiveUntil(d)
  <2>1. fresh <=> ~ (c \in DOMAIN idempotency /\ idempotency[c] > now)
    BY <1>1, ClaimOnMemory
  <2>2. fresh = ~ (c \in DOMAIN idempotency /\ idempotency[c] > now)
    BY <2>1
  <2>3. \A d : LiveUntil(d)' = IF fresh /\ d = c THEN now + IdemTtl ELSE LiveUntil(d)
    BY <2>1, ClaimOnMemory
  <2> QED
    BY <2>2, <2>3 DEF ClaimIdempotencyKey
<1>3. Best' = Best /\ Deadline' = Deadline
  BY <1>2 DEF Best, Deadline, Shown, Expired, NewBoard, Members
<1>4. Claims' = [Claims EXCEPT ![c] = IF fresh THEN now + IdemTtl ELSE @]
  <2>1. Claims' = [d \in Game \X Key |-> IF fresh /\ d = c THEN now + IdemTtl ELSE LiveUntil(d)]
    BY <1>2 DEF Claims
  <2> QED
    BY <1>1, <2>1 DEF Claims
<1> QED
  BY <1>2, <1>3, <1>4 DEF Port!ClaimIdempotencyKey, Best, Deadline, Claims, LiveUntil

(* A board in memory is gone for its readers at the tick its retention ends.   *)
LEMMA TickImplements ==
    ASSUME StoreInv, ClockTick
    PROVE  Port!Tick
<1>1. now' = now + 1 /\ now \in Nat /\ UNCHANGED <<boards, names, idempotency, answer>>
  BY CalendarAssumption DEF ClockTick, StoreInv, Time
<1>2. ASSUME NEW b \in Board
      PROVE  /\ Shown(b)' = IF Deadline[b] # 0 /\ Deadline[b] <= now' THEN NewBoard.scores ELSE Shown(b)
             /\ Deadline'[b] = IF Deadline[b] <= now' THEN 0 ELSE Deadline[b]
  <2>1. CASE Members(Shown(b)) = {}
    <3>1. Shown(b) = NewBoard.scores /\ Deadline[b] = 0
      BY <2>1, ShownIsBoard DEF Deadline
    <3>2. Shown(b)' \in {Shown(b), NewBoard.scores}
      BY <1>1, <3>1 DEF Shown, Expired, NewBoard, StoreInv, InStep, Never
    <3>3. Members(Shown(b)') = {}
      BY <3>1, <3>2, <2>1
    <3> QED
      BY <1>1, <3>1, <3>2, <3>3 DEF Deadline
  <2>2. CASE Members(Shown(b)) # {}
    <3>1. /\ b \in DOMAIN boards /\ ~ Expired(b) /\ boards[b].expires \in Nat
          /\ Shown(b) = boards[b].scores /\ Deadline[b] = boards[b].expires
      BY <2>2, SeenOf DEF Deadline, StoreInv, InStep, Shown
    <3>2. Expired(b)' <=> Deadline[b] # 0 /\ Deadline[b] <= now'
      BY <1>1, <3>1 DEF Expired, Never
    <3>3. Shown(b)' = IF Expired(b)' THEN NewBoard.scores ELSE Shown(b)
      BY <1>1, <3>1 DEF Shown, NewBoard
    <3>4. Members(Shown(b)') = {} <=> Expired(b)'
      BY <2>2, <3>3, ShownIsBoard
    <3>5. Deadline'[b] = IF Expired(b)' THEN 0 ELSE Deadline[b]
      BY <1>1, <3>1, <3>4 DEF Deadline
    <3> QED
      BY <1>1, <3>1, <3>2, <3>3, <3>5
  <2> QED
    BY <2>1, <2>2
<1>3. ASSUME NEW k \in Game \X Key
      PROVE  LiveUntil(k)' = IF Claims[k] <= now' THEN 0 ELSE Claims[k]
  BY <1>1 DEF LiveUntil, Claims, StoreInv
<1>4. Best' = [b \in Board |-> IF Deadline[b] # 0 /\ Deadline[b] <= now' THEN Port!Nobody ELSE Best[b]]
  BY <1>2 DEF Best, Port!Nobody, NewBoard
<1>5. Deadline' = [b \in Board |-> IF Deadline[b] <= now' THEN 0 ELSE Deadline[b]]
  BY <1>2 DEF Deadline
<1>6. Claims' = [k \in Game \X Key |-> IF Claims[k] <= now' THEN 0 ELSE Claims[k]]
  BY <1>3 DEF Claims
<1> QED
  BY <1>1, <1>4, <1>5, <1>6 DEF Port!Tick, Best, Deadline, Claims, LiveUntil

LEMMA InitImplements == Init => Port!Init /\ AllTimeKept
<1> SUFFICES ASSUME Init PROVE Port!Init /\ AllTimeKept
  OBVIOUS
<1>1. /\ now = 0 /\ DOMAIN boards = {} /\ DOMAIN idempotency = {} /\ names = {}
      /\ answer = [op |-> "none"]
  BY DEF Init
<1>2. \A b : Shown(b) = Port!Nobody /\ Members(Shown(b)) = {}
  BY <1>1 DEF Shown, NewBoard, Port!Nobody, Members
<1>3. \A k : LiveUntil(k) = 0
  BY <1>1 DEF LiveUntil
<1>4. AllTimeKept
  BY <1>1 DEF AllTimeKept
<1> QED
  BY <1>1, <1>2, <1>3, <1>4 DEF Port!Init, LiveUntil

(* What a submission does to the board it is made on.                          *)
LEMMA SubmitOnBoard ==
    ASSUME StoreInv, AllTimeKept, NEW g \in Game, NEW window \in CalledWindow, NEW u \in User,
           NEW score \in CalledScore, Submit(g, window, u, score),
           NEW b, b = BoardAt(g, window)
    PROVE  LET previous == Shown(b)[u]
               standing == IF previous = NoScore THEN score ELSE Greatest(previous, score)
           IN  /\ DOMAIN boards' = DOMAIN boards \cup {b}
               /\ boards'[b].scores = [Shown(b) EXCEPT ![u] = standing]
               /\ boards'[b].expires = IF window = "all_time" THEN Never ELSE now + TtlFor(window)
               /\ \A c \in DOMAIN boards \ {b} : boards'[c] = boards[c]
               /\ answer' = [op |-> "submit", score |-> standing, previous |-> previous,
                             rank |-> RankOf(boards'[b].scores, standing),
                             updated |-> previous # standing]
               /\ UNCHANGED <<now, names, idempotency>>
<1> DEFINE board == IF Found(b) THEN boards[b] ELSE NewBoard
           kept == [board EXCEPT !.expires = Retained(TtlFor(window), @)]
           previous == board.scores[u]
           standing == IF previous = NoScore THEN score ELSE Greatest(previous, score)
           after == IF previous = standing THEN kept ELSE SetScore(kept, u, standing)
<1>1. /\ boards' = [c \in DOMAIN boards \cup {b} |-> IF c = b THEN after ELSE boards[c]]
      /\ answer' = [op |-> "submit", score |-> standing, previous |-> previous,
                    rank |-> CountAbove(after.order, standing) + 1,
                    updated |-> previous # standing]
      /\ UNCHANGED <<now, names, idempotency>>
  BY DEF Submit
<1>2. board.scores = Shown(b)
  BY FoundIsShown
<1>3. /\ board \in [scores : [User -> CalledScore \cup {NoScore}],
                    order : SUBSET (User \X CalledScore), expires : Nat]
  BY NewBoardInStep, FoundIsShown DEF StoreInv, InStep
<1>4. /\ kept.scores = board.scores
      /\ kept.expires = Retained(TtlFor(window), board.expires)
      /\ kept = [scores |-> board.scores, order |-> board.order,
                 expires |-> Retained(TtlFor(window), board.expires)]
  BY <1>3
<1>5. after.scores = [board.scores EXCEPT ![u] = standing] /\ after.expires = kept.expires
  <2>1. CASE previous = standing
    BY <2>1, <1>3, <1>4
  <2>2. CASE previous # standing
    BY <2>2, <1>3, <1>4 DEF SetScore
  <2> QED
    BY <2>1, <2>2
<1>6. Retained(TtlFor(window), board.expires)
        = IF window = "all_time" THEN Never ELSE now + TtlFor(window)
  <2>1. CASE window = "all_time"
    <3>1. b[2] = AllTimeBucket /\ TtlFor(window) = NoTtl
      BY <2>1, CalledBucket DEF BoardAt
    <3>2. board.expires = Never
      BY <3>1, FoundIsShown DEF AllTimeKept, NewBoard
    <3> QED
      BY <2>1, <3>1, <3>2 DEF Retained
  <2>2. CASE window # "all_time"
    BY <2>2, CalledBucket DEF Retained, NoTtl
  <2> QED
    BY <2>1, <2>2
<1>7. CountAbove(after.order, standing) + 1 = RankOf(after.scores, standing)
  <2>1. StoreInv' /\ b \in DOMAIN boards' /\ boards'[b] = after
    BY <1>1, SubmitKeepsInv
  <2>2. after.order = RowsOf(after.scores) /\ after.scores \in [User -> CalledScore \cup {NoScore}]
    BY <2>1 DEF StoreInv, InStep
  <2> HIDE DEF after, standing
  <2>3. IsBoard(after.scores)
    BY <2>2, StoreAssumption DEF IsBoard, Members
  <2> QED
    BY <2>2, <2>3, IndexOfBoard
<1>8. boards'[b] = after /\ DOMAIN boards' = DOMAIN boards \cup {b}
  BY <1>1
<1>9. answer' = [op |-> "submit", score |-> standing, previous |-> previous,
                 rank |-> RankOf(boards'[b].scores, standing), updated |-> previous # standing]
  BY <1>1, <1>7, <1>8
<1> QED
  BY <1>1, <1>2, <1>4, <1>5, <1>6, <1>8, <1>9

LEMMA SubmitImplements ==
    ASSUME StoreInv, AllTimeKept, NEW g \in Game, NEW window \in CalledWindow, NEW u \in User,
           NEW score \in CalledScore, Submit(g, window, u, score),
           NEW b, b = BoardAt(g, window)
    PROVE  Port!Submit(b, u, score, TtlFor(window)) /\ AllTimeKept'
<1> DEFINE previous == Shown(b)[u]
           standing == IF previous = NoScore THEN score ELSE Greatest(previous, score)
<1>1. b \in Board /\ b[2] = WindowSuffix(window, now) /\ Best[b] = Shown(b)
  BY NamedBoard
<1>2. now \in Nat /\ (window # "all_time" => TtlFor(window) \in Nat \ {0} /\ TtlFor(window) # NoTtl)
  BY CalledBucket, CalendarAssumption DEF StoreInv, Time, NoTtl
<1>3. /\ DOMAIN boards' = DOMAIN boards \cup {b}
      /\ boards'[b].scores = [Shown(b) EXCEPT ![u] = standing]
      /\ boards'[b].expires = IF window = "all_time" THEN Never ELSE now + TtlFor(window)
      /\ \A c \in DOMAIN boards \ {b} : boards'[c] = boards[c]
      /\ answer' = [op |-> "submit", score |-> standing, previous |-> previous,
                    rank |-> RankOf(boards'[b].scores, standing), updated |-> previous # standing]
      /\ UNCHANGED <<now, names, idempotency>>
  BY SubmitOnBoard
<1>4. standing # NoScore /\ Shown(b) \in [User -> CalledScore \cup {NoScore}]
  BY ShownTyping, NoScoreIsNoScore DEF Greatest
<1> HIDE DEF standing, previous
<1>5. ~ Expired(b)' /\ Shown(b)' = [Shown(b) EXCEPT ![u] = standing]
  <2>1. ~ (boards'[b].expires # Never /\ boards'[b].expires <= now')
    BY <1>2, <1>3 DEF Never
  <2> QED
    BY <2>1, <1>3 DEF Expired, Shown
<1>6. Members(Shown(b)') # {}
  BY <1>4, <1>5 DEF Members
<1>7. ASSUME NEW c \in Board, c # b
      PROVE  Shown(c)' = Shown(c) /\ Deadline'[c] = Deadline[c]
  <2>1. /\ c \in DOMAIN boards' <=> c \in DOMAIN boards
        /\ c \in DOMAIN boards => boards'[c] = boards[c]
    BY <1>3, <1>7
  <2>2. Shown(c)' = Shown(c)
    BY <2>1, <1>3 DEF Shown, Expired, NewBoard
  <2>3. Members(Shown(c)) # {} => boards'[c] = boards[c]
    BY <2>1, SeenOf
  <2> QED
    BY <2>2, <2>3 DEF Deadline
<1>8. Best' = [Best EXCEPT ![b][u] = standing]
  BY <1>1, <1>5, <1>7 DEF Best
<1>9. Deadline' = [Deadline EXCEPT ![b] = IF TtlFor(window) = NoTtl THEN @ ELSE now + TtlFor(window)]
  <2>1. Deadline'[b] = IF window = "all_time" THEN Never ELSE now + TtlFor(window)
    BY <1>1, <1>3, <1>6 DEF Deadline
  <2>2. window = "all_time" => TtlFor(window) = NoTtl /\ Deadline[b] = 0
    BY <1>1, CalledBucket, SeenOf DEF Deadline, AllTimeKept, Never
  <2>3. Deadline'[b] = IF TtlFor(window) = NoTtl THEN Deadline[b] ELSE now + TtlFor(window)
    BY <2>1, <2>2, <1>2 DEF Never
  <2> QED
    BY <1>1, <1>7, <2>3 DEF Deadline
<1>10. Claims' = Claims
  BY <1>3 DEF Claims, LiveUntil
<1>11. AllTimeKept'
  <2>1. b[2] = AllTimeBucket => boards'[b].expires = Never
    BY <1>1, <1>3, CalledBucket
  <2> QED
    BY <2>1, <1>3 DEF AllTimeKept
<1>12. Best'[b] = boards'[b].scores /\ previous = Best[b][u]
  BY <1>1, <1>3, <1>5 DEF Best, previous
<1>13. Port!Submit(b, u, score, TtlFor(window))
  <2>1. standing = IF Best[b][u] = NoScore THEN score ELSE Port!Greatest(Best[b][u], score)
    BY <1>12, PortRanking DEF standing
  <2>2. answer' = [op |-> "submit", score |-> standing, previous |-> Best[b][u],
                   rank |-> Port!RankOf(Best'[b], standing), updated |-> Best[b][u] # standing]
    <3>1. Port!RankOf(Best'[b], standing) = RankOf(boards'[b].scores, standing)
      BY <1>12, PortRanking
    <3> QED
      BY <1>3, <1>12, <3>1
  <2>3. Best' = [Best EXCEPT ![b] = [Best[b] EXCEPT ![u] = standing]]
    BY <1>8
  <2>4. UNCHANGED <<now, names>> /\ Claims' = Claims
    BY <1>3, <1>10
  <2> QED
    BY <2>1, <2>2, <2>3, <2>4, <1>9 DEF Port!Submit, Best, Deadline, Claims, LiveUntil
<1> QED
  BY <1>11, <1>13

(* A deletion also counts the boards that no longer show, so it touches at     *)
(* least the boards the player is shown on and at most all boards of the game. *)
LEMMA TouchedIsBounded ==
    ASSUME StoreInv, NEW g \in Game, NEW u \in User,
           NEW touched, touched = {b \in DOMAIN boards : b[1] = g /\ boards[b].scores[u] # NoScore},
           NEW seen, seen = {b \in Board : b[1] = g /\ u \in Members(Shown(b))},
           NEW all, all = {b \in Board : b[1] = g}
    PROVE  Cardinality(touched) \in Cardinality(seen) .. Cardinality(all)
<1>1. IsFiniteSet({g} \X Bucket)
  BY BucketsAreFinite, FS_Singleton, FS_Product
<1>2. all \subseteq {g} \X Bucket
  BY DEF Board
<1>3. touched \subseteq all /\ seen \subseteq all
  BY DEF StoreInv
<1>4. seen \subseteq touched
  <2>1. ASSUME NEW b \in seen PROVE b \in touched
    <3>1. b \in DOMAIN boards /\ Shown(b) = boards[b].scores
      BY <2>1, SeenOf DEF Shown
    <3> QED
      BY <2>1, <3>1 DEF Members
  <2> QED
    BY <2>1
<1>5. IsFiniteSet(all) /\ IsFiniteSet(touched) /\ IsFiniteSet(seen)
  BY <1>1, <1>2, <1>3, FS_Subset
<1>6. Cardinality(touched) \in Nat /\ Cardinality(seen) \in Nat /\ Cardinality(all) \in Nat
  BY <1>5, FS_CardinalityType
<1>7. Cardinality(seen) <= Cardinality(touched) /\ Cardinality(touched) <= Cardinality(all)
  BY <1>3, <1>4, <1>5, FS_Subset
<1> QED
  BY <1>6, <1>7

LEMMA RemoveImplements ==
    ASSUME StoreInv, AllTimeKept, NEW g \in Game, NEW u \in User, RemovePlayer(g, u)
    PROVE  Port!RemovePlayer(g, u) /\ AllTimeKept'
<1> DEFINE touched == {b \in DOMAIN boards : b[1] = g /\ boards[b].scores[u] # NoScore}
<1>1. /\ boards' = [b \in DOMAIN boards |->
                      IF b \in touched THEN Remove(boards[b], u) ELSE boards[b]]
      /\ names' = names \ {<<g, u>>}
      /\ answer' = [op |-> "remove", touched |-> Cardinality(touched)]
      /\ UNCHANGED <<now, idempotency>>
  BY DEF RemovePlayer
<1>2. ASSUME NEW b \in DOMAIN boards
      PROVE  /\ boards'[b].expires = boards[b].expires
             /\ boards'[b].scores = IF b[1] = g THEN [boards[b].scores EXCEPT ![u] = NoScore]
                                    ELSE boards[b].scores
  <2>1. boards[b] \in [scores : [User -> CalledScore \cup {NoScore}],
                       order : SUBSET (User \X CalledScore), expires : Nat]
    BY DEF StoreInv, InStep
  <2>2. CASE b \in touched
    BY <1>1, <2>1, <2>2 DEF Remove
  <2>3. CASE b \notin touched
    BY <1>1, <2>1, <2>3
  <2> QED
    BY <2>2, <2>3
<1>3. DOMAIN boards' = DOMAIN boards
  BY <1>1
<1> HIDE DEF touched
<1>4. ASSUME NEW b \in Board
      PROVE  Shown(b)' = IF b[1] = g THEN [Shown(b) EXCEPT ![u] = NoScore] ELSE Shown(b)
  <2>1. b \in DOMAIN boards => (Expired(b)' <=> Expired(b))
    BY <1>1, <1>2 DEF Expired
  <2>2. CASE b \in DOMAIN boards /\ ~ Expired(b)
    BY <1>2, <1>3, <2>1, <2>2 DEF Shown
  <2>3. CASE ~ (b \in DOMAIN boards /\ ~ Expired(b))
    BY <1>3, <2>1, <2>3 DEF Shown, NewBoard
  <2> QED
    BY <2>2, <2>3
<1>5. ASSUME NEW b \in Board
      PROVE  Deadline'[b] = IF Members(Shown(b)') = {} THEN 0 ELSE Deadline[b]
  <2>1. ASSUME Members(Shown(b)') # {} PROVE Members(Shown(b)) # {}
    <3>1. Shown(b) \in [User -> CalledScore \cup {NoScore}]
      BY ShownTyping
    <3> QED
      BY <1>4, <2>1, <3>1 DEF Members
  <2>2. Members(Shown(b)) # {} => boards'[b].expires = boards[b].expires
    BY <1>2, SeenOf
  <2> QED
    BY <2>1, <2>2 DEF Deadline
<1>6. Best' = [b \in Board |-> IF b[1] = g THEN [Best[b] EXCEPT ![u] = NoScore] ELSE Best[b]]
  BY <1>4 DEF Best
<1>7. Deadline' = [b \in Board |-> IF Members(Best'[b]) = {} THEN 0 ELSE Deadline[b]]
  BY <1>5 DEF Deadline, Best
<1>8. Claims' = Claims
  BY <1>1 DEF Claims, LiveUntil
<1>9. Cardinality(touched) \in Cardinality({b \in Board : b[1] = g /\ u \in Members(Shown(b))})
                                 .. Cardinality({b \in Board : b[1] = g})
  BY TouchedIsBounded DEF touched
<1>10. /\ {b \in Port!BoardsOf(g) : u \in Port!Members(Best[b])}
            = {b \in Board : b[1] = g /\ u \in Members(Shown(b))}
       /\ Port!BoardsOf(g) = {b \in Board : b[1] = g}
  BY PortRanking DEF Port!BoardsOf, Best
<1>11. \E n \in Port!Cardinality({b \in Port!BoardsOf(g) : u \in Port!Members(Best[b])})
                 .. Port!Cardinality(Port!BoardsOf(g)) :
          answer' = [op |-> "remove", touched |-> n]
  BY <1>1, <1>9, <1>10, PortRanking
<1>12. AllTimeKept'
  BY <1>2, <1>3 DEF AllTimeKept
<1>13. Deadline' = [b \in Board |-> IF Port!Members(Best'[b]) = {} THEN 0 ELSE Deadline[b]]
  BY <1>7, PortRanking
<1>14. Port!RemovePlayer(g, u)
  BY <1>1, <1>6, <1>8, <1>11, <1>13 DEF Port!RemovePlayer, Best, Deadline, Claims, LiveUntil
<1> QED
  BY <1>12, <1>14

(* No other call gives a board a deadline.                                     *)
LEMMA AllTimeFrame ==
    ASSUME AllTimeKept,
           \/ UNCHANGED boards
           \/ \E b, result : ReadFrom(b, result)
    PROVE  AllTimeKept'
BY DEF AllTimeKept, ReadFrom, Fetched

LEMMA NextImplements ==
    ASSUME StoreInv, AllTimeKept, [Next]_vars
    PROVE  [Port!Next]_(Port!vars) /\ AllTimeKept'
<1>1. ASSUME NEW g \in Game, NEW u \in User, NEW window \in CalledWindow, NEW score \in CalledScore,
             Submit(g, window, u, score)
      PROVE  Port!Next /\ AllTimeKept'
  <2> DEFINE b == BoardAt(g, window)
  <2>1. Port!Submit(b, u, score, TtlFor(window)) /\ AllTimeKept'
    BY <1>1, SubmitImplements
  <2> QED
    BY <2>1, NamedBoard DEF Port!Next
<1>2. ASSUME NEW g \in Game, NEW u \in User, RemovePlayer(g, u)
      PROVE  Port!Next /\ AllTimeKept'
  BY <1>2, RemoveImplements DEF Port!Next
<1>3. ASSUME NEW g \in Game, NEW u \in Renamed, SetDisplayName(g, u)
      PROVE  Port!Next /\ AllTimeKept'
  <2>1. u \in User
    BY StoreAssumption
  <2>2. Port!SetDisplayName(g, u)
    BY <1>3, <2>1, NameImplements
  <2> QED
    BY <1>3, <2>1, <2>2, AllTimeFrame DEF Port!Next, SetDisplayName
<1>4. ASSUME NEW g \in Game, NEW key \in Key, ClaimIdempotencyKey(g, key)
      PROVE  Port!Next /\ AllTimeKept'
  <2>1. Port!ClaimIdempotencyKey(g, key, IdemTtl)
    BY <1>4, ClaimImplements
  <2> QED
    BY <1>4, <2>1, AllTimeFrame DEF Port!Next, ClaimIdempotencyKey
<1>5. CASE ListGames
  BY <1>5, GamesImplement, AllTimeFrame DEF Port!Next, ListGames
<1>6. ASSUME NEW g \in Game, NEW window \in CalledWindow, TotalPlayers(g, window)
      PROVE  Port!Next /\ AllTimeKept'
  BY <1>6, TotalImplements, NamedBoard, AllTimeFrame DEF Port!Next, TotalPlayers
<1>7. ASSUME NEW g \in Game, NEW window \in CalledWindow, NEW limit \in Limit,
             NEW offset \in Offset, Top(g, window, limit, offset)
      PROVE  Port!Next /\ AllTimeKept'
  BY <1>7, TopImplements, NamedBoard, AllTimeFrame DEF Port!Next, Top
<1>8. ASSUME NEW g \in Game, NEW window \in CalledWindow, NEW u \in User, GetEntry(g, window, u)
      PROVE  Port!Next /\ AllTimeKept'
  BY <1>8, EntryImplements, NamedBoard, AllTimeFrame DEF Port!Next, GetEntry
<1>9. ASSUME NEW g \in Game, NEW window \in CalledWindow, NEW u \in User, NEW radius \in Radius,
             Context(g, window, u, radius)
      PROVE  Port!Next /\ AllTimeKept'
  BY <1>9, ContextImplements, NamedBoard, AllTimeFrame DEF Port!Next, Context
<1>10. CASE ClockTick
  BY <1>10, TickImplements, AllTimeFrame DEF Port!Next, ClockTick
<1>11. CASE UNCHANGED vars
  <2>1. Best' = Best /\ Deadline' = Deadline /\ Claims' = Claims
    BY <1>11 DEF vars, Best, Deadline, Claims, Shown, Expired, NewBoard, Members, LiveUntil
  <2>2. UNCHANGED Port!vars
    BY <1>11, <2>1 DEF vars, Port!vars, Best, Deadline, Claims, LiveUntil
  <2> QED
    BY <1>11, <2>2, AllTimeFrame DEF vars
<1> QED
  BY <1>1, <1>2, <1>3, <1>4, <1>5, <1>6, <1>7, <1>8, <1>9, <1>10, <1>11 DEF Next, Write, Read

(* The memory backend keeps the promise of the storage port of                 *)
(* app/store/base.py, for any games, users, pages, windows and retentions.     *)
THEOREM ImplementsStoragePort == Spec => ImplementsPort
<1> DEFINE Inv == StoreInv /\ AllTimeKept
<1>1. Init => Inv /\ Port!Init
  BY StoreInvInit, InitImplements
<1>2. Inv /\ [Next]_vars => Inv'
  BY StoreInvInductive, NextImplements
<1>3. Inv /\ [Next]_vars => [Port!Next]_(Port!vars)
  BY NextImplements
<1> QED
  BY <1>1, <1>2, <1>3, PTL DEF Spec, ImplementsPort, Port!Spec
==============================================================================
