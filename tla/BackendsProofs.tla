---------------------------- MODULE BackendsProofs ---------------------------
(* Both backends keep the same boards, claims and deadlines, and so give the   *)
(* same answers but for names and deletions, for any users, scores, windows,   *)
(* retentions, page sizes and moments.                                         *)
EXTENDS Backends, MemoryStoreProofs

(* The board the memory store keeps for the sorted set of bucket b.            *)
Of(b) == <<TheGame, b>>

SameScores ==
    /\ zset \in [Bucket -> [User -> CalledScore \cup {NoScore}]]
    /\ \A b \in Bucket : zset[b] = Shown(Of(b))

(* An empty board may have a deadline in memory only, which nobody ever sees:  *)
(* the next submission restarts it, and the all-time board never has one.      *)
SameDeadlines ==
    /\ deadline \in [Bucket -> Nat]
    /\ \A b \in Bucket : Members(zset[b]) # {} => deadline[b] = boards[Of(b)].expires
    /\ deadline[AllTimeBucket] = 0
    /\ Of(AllTimeBucket) \in DOMAIN boards => boards[Of(AllTimeBucket)].expires = Never

SameClaims ==
    /\ idem \in [Key -> Nat]
    /\ \A k \in Key : idem[k] = LiveUntil(<<TheGame, k>>)

Registered ==
    /\ buckets \subseteq Bucket
    /\ \A b \in Bucket : Members(zset[b]) # {} => b \in buckets
    /\ DOMAIN boards # {} => TheGame \in games

NamesKept == {u \in User : <<TheGame, u>> \in names} \subseteq redisNames

(* The inductive invariant: what the two stores have in common.                *)
Same == SameScores /\ SameDeadlines /\ SameClaims /\ Registered /\ NamesKept

LEMMA OneGame == TheGame \in Game /\ \A g \in Game : g = TheGame
BY BackendsAssumption DEF TheGame

(* The Redis store has the same calendar.                                      *)
LEMMA SameCalendar ==
    /\ Red!Bucket = Bucket
    /\ Red!AllTimeBucket = AllTimeBucket
    /\ Red!NoTtl = NoTtl
    /\ \A window : Red!TtlFor(window) = TtlFor(window)
    /\ \A window, at : Red!WindowSuffix(window, at) = WindowSuffix(window, at)
    /\ \A window : Red!BoardOf(window) = WindowSuffix(window, now)
<1>1. \A window, at : Red!WindowSuffix(window, at) = WindowSuffix(window, at)
  BY DEF Red!WindowSuffix, WindowSuffix, Red!AllTimeBucket, AllTimeBucket
<1> QED
  BY <1>1 DEF Red!Bucket, Bucket, Red!Window, Window, Red!Moment, Moment, Red!AllTimeBucket,
     AllTimeBucket, Red!NoTtl, NoTtl, Red!TtlFor, TtlFor, Red!BoardOf

LEMMA SameInit == BothInit => Same
<1> SUFFICES ASSUME BothInit PROVE Same
  OBVIOUS
<1>1. SameScores
  BY SameCalendar DEF BothInit, Init, Red!KeysInit, Red!EmptyBoard, SameScores, Shown, NewBoard
<1>2. SameDeadlines
  BY <1>1, AllTimeIsBucket, SameCalendar
  DEF BothInit, Init, Red!KeysInit, Red!EmptyBoard, SameDeadlines, Never, Members
<1>3. SameClaims
  BY DEF BothInit, Init, Red!KeysInit, SameClaims, LiveUntil
<1>4. Registered
  BY SameCalendar DEF BothInit, Init, Red!KeysInit, Red!EmptyBoard, Registered, Members
<1>5. NamesKept
  BY DEF BothInit, Init, Red!KeysInit, NamesKept
<1> QED
  BY <1>1, <1>2, <1>3, <1>4, <1>5 DEF Same

------------------------------------------------------------------------------
(* Submissions                                                                 *)

(* What a submission does to the board, in terms of the Redis one.             *)
LEMMA SubmitOnMemory ==
    ASSUME StoreInv, Same, NEW window \in CalledWindow, NEW u \in User, NEW score \in CalledScore,
           NEW b, b = WindowSuffix(window, now), Submit(TheGame, window, u, score)
    PROVE  LET standing == IF zset[b][u] = NoScore THEN score ELSE Greatest(zset[b][u], score)
           IN  /\ DOMAIN boards' = DOMAIN boards \cup {Of(b)}
               /\ boards'[Of(b)].scores = [zset[b] EXCEPT ![u] = standing]
               /\ boards'[Of(b)].expires = IF window = "all_time" THEN Never
                                           ELSE now + TtlFor(window)
               /\ \A c \in DOMAIN boards \ {Of(b)} : boards'[c] = boards[c]
<1>1. BoardAt(TheGame, window) = Of(b) /\ b \in Bucket /\ zset[b] = Shown(Of(b))
  BY CalledBucket DEF BoardAt, Of, Same, SameScores
<1>2. AllTimeKept
  <2>1. ASSUME NEW c \in DOMAIN boards, c[2] = AllTimeBucket PROVE c = Of(AllTimeBucket)
    BY <2>1, OneGame DEF StoreInv, Board, Of
  <2> QED
    BY <2>1 DEF Same, SameDeadlines, AllTimeKept
<1> QED
  BY <1>1, <1>2, OneGame, SubmitOnBoard

LEMMA SubmitKeepsSame ==
    ASSUME StoreInv, Same, NEW window \in CalledWindow, NEW u \in User, NEW score \in CalledScore,
           Submit(TheGame, window, u, score), Red!Submit(window, u, score), NEW b, b = WindowSuffix(window, now)
    PROVE  Same'
<1> DEFINE standing == IF zset[b][u] = NoScore THEN score ELSE Greatest(zset[b][u], score)
<1>1. /\ DOMAIN boards' = DOMAIN boards \cup {Of(b)}
      /\ boards'[Of(b)].scores = [zset[b] EXCEPT ![u] = standing]
      /\ boards'[Of(b)].expires = IF window = "all_time" THEN Never ELSE now + TtlFor(window)
      /\ \A c \in DOMAIN boards \ {Of(b)} : boards'[c] = boards[c]
      /\ UNCHANGED <<now, names, idempotency>>
  <2>1. UNCHANGED <<now, names, idempotency>>
    BY DEF Submit
  <2> QED
    BY <2>1, SubmitOnMemory
<1>2. /\ b \in Bucket
      /\ zset \in [Bucket -> [User -> CalledScore \cup {NoScore}]]
      /\ deadline \in [Bucket -> Nat]
      /\ now \in Nat
  BY CalledBucket, CalendarAssumption DEF Same, SameScores, SameDeadlines, StoreInv, Time
<1>3. standing \in CalledScore
  BY <1>2 DEF Greatest
<1>4. /\ zset' = [zset EXCEPT ![b][u] = standing]
      /\ deadline' = [deadline EXCEPT ![b] = IF window = "all_time" THEN @ ELSE now + TtlFor(window)]
      /\ UNCHANGED <<idem, redisNames>>
      /\ buckets' = buckets \cup {b}
      /\ games' = games \cup {TheGame}
  <2>1. Red!Best(zset[b][u], score) = standing
    BY DEF Red!Best, Greatest
  <2>2. LET ttl == Red!TtlArgument(Red!TtlFor(window))
        IN  (IF ttl > 0 THEN now + ttl ELSE deadline[b]) =
               IF window = "all_time" THEN deadline[b] ELSE now + TtlFor(window)
    <3>1. Red!TtlFor(window) = TtlFor(window) /\ Red!NoTtl = NoTtl
      BY SameCalendar
    <3> QED
      BY <3>1, CalledBucket DEF Red!TtlArgument, NoTtl
  <2>3. Red!BoardOf(window) = b
    BY SameCalendar
  <2> QED
    BY <1>2, <2>1, <2>2, <2>3 DEF Red!Submit
<1>5. /\ \A c \in Bucket \ {b} : zset'[c] = zset[c] /\ deadline'[c] = deadline[c]
      /\ zset'[b] = [zset[b] EXCEPT ![u] = standing]
      /\ deadline'[b] = IF window = "all_time" THEN deadline[b] ELSE now + TtlFor(window)
  BY <1>2, <1>4
<1>6. \A c \in Bucket : c # b => Of(c) # Of(b)
  BY DEF Of
<1>7. \A c \in Bucket \ {b} : Shown(Of(c))' = Shown(Of(c))
  BY <1>1, <1>6 DEF Shown, Expired, NewBoard, Of
<1>8. Shown(Of(b))' = boards'[Of(b)].scores
  <2>1. ~ Expired(Of(b))'
    BY <1>1, <1>2, CalledBucket DEF Expired, Never, Of
  <2> QED
    BY <1>1, <2>1 DEF Shown, Of
<1>9. SameScores'
  BY <1>1, <1>2, <1>3, <1>4, <1>5, <1>7, <1>8 DEF Same, SameScores, Of
<1>10. SameDeadlines'
  <2>1. deadline' \in [Bucket -> Nat]
    BY <1>2, <1>4, CalledBucket
  <2>2. ASSUME NEW c \in Bucket, Members(zset'[c]) # {}
        PROVE  deadline'[c] = boards'[Of(c)].expires
    <3>1. CASE c = b
      <4>1. window = "all_time" => deadline[b] = Never
        BY CalledBucket DEF Same, SameDeadlines, Never
      <4> QED
        BY <3>1, <4>1, <1>1, <1>5
    <3>2. CASE c # b
      <4>1. Members(zset[c]) # {} /\ deadline'[c] = deadline[c]
        BY <2>2, <3>2, <1>5
      <4>2. zset[c] = Shown(Of(c)) /\ deadline[c] = boards[Of(c)].expires
        BY <4>1 DEF Same, SameScores, SameDeadlines
      <4>3. Of(c) \in DOMAIN boards \ {Of(b)}
        BY <4>1, <4>2, <3>2, <1>6 DEF Shown, NewBoard, Members
      <4> QED
        BY <4>1, <4>2, <4>3, <1>1
    <3> QED
      BY <3>1, <3>2
  <2>3. deadline'[AllTimeBucket] = 0
    BY <1>5, CalledBucket, AllTimeIsBucket DEF Same, SameDeadlines
  <2>4. Of(AllTimeBucket) \in DOMAIN boards' => boards'[Of(AllTimeBucket)].expires = Never
    <3>1. CASE window = "all_time"
      BY <3>1, <1>1, CalledBucket
    <3>2. CASE window # "all_time"
      BY <3>2, <1>1, <1>6, CalledBucket, AllTimeIsBucket DEF Same, SameDeadlines
    <3> QED
      BY <3>1, <3>2
  <2> QED
    BY <2>1, <2>2, <2>3, <2>4, <1>1 DEF SameDeadlines, Of, Never
<1> QED
  BY <1>1, <1>4, <1>5, <1>9, <1>10, <1>2
  DEF Same, SameClaims, LiveUntil, Registered, NamesKept, Of

------------------------------------------------------------------------------
(* The other calls                                                             *)

(* Enough for a step that changes neither what a board shows nor its deadline. *)
LEMMA BoardsFrame ==
    ASSUME Same, UNCHANGED <<zset, deadline, buckets>>, games \subseteq games',
           DOMAIN boards' \subseteq DOMAIN boards,
           \A c \in DOMAIN boards' : boards'[c] = boards[c],
           \A c \in DOMAIN boards \ DOMAIN boards' : Expired(c),
           now' = now
    PROVE  SameScores' /\ SameDeadlines' /\ Registered'
<1>1. \A c : Shown(c)' = Shown(c)
  BY DEF Shown, Expired, NewBoard
<1>2. SameScores'
  BY <1>1 DEF Same, SameScores, Of
<1>3. \A b \in Bucket : Members(zset[b]) # {} => Of(b) \in DOMAIN boards'
  BY DEF Same, SameScores, Shown, NewBoard, Members
<1>4. SameDeadlines'
  BY <1>3 DEF Same, SameDeadlines, Of, Never
<1> QED
  BY <1>2, <1>4 DEF Same, Registered

LEMMA ReadKeepsSame ==
    ASSUME Same, NEW k, NEW result, ReadFrom(k, result),
           UNCHANGED <<zset, deadline, idem, redisNames, buckets, games>>
    PROVE  Same'
<1>1. /\ boards' = [c \in {d \in DOMAIN boards : d = k => ~ Expired(d)} |-> boards[c]]
      /\ UNCHANGED <<now, names, idempotency>>
  BY DEF ReadFrom, Fetched
<1>2. SameScores' /\ SameDeadlines' /\ Registered'
  BY <1>1, BoardsFrame
<1> QED
  BY <1>1, <1>2 DEF Same, SameClaims, LiveUntil, NamesKept

LEMMA SetDisplayNameKeepsSame ==
    ASSUME Same, NEW u \in User, SetDisplayName(TheGame, u), Red!SetDisplayName(u)
    PROVE  Same'
<1>1. /\ names' = names \cup {<<TheGame, u>>}
      /\ UNCHANGED <<now, boards, idempotency>>
  BY DEF SetDisplayName
<1>2. /\ redisNames' = redisNames \cup {u}
      /\ UNCHANGED <<zset, deadline, idem, buckets, games>>
  BY DEF Red!SetDisplayName, Red!SetName
<1>3. SameScores' /\ SameDeadlines' /\ Registered'
  BY <1>1, <1>2, BoardsFrame
<1> QED
  BY <1>1, <1>2, <1>3 DEF Same, SameClaims, LiveUntil, NamesKept

(* A sweep drops only claims that have lapsed.                                 *)
LEMMA ClaimKeepsSame ==
    ASSUME StoreInv, Same, NEW k \in Key,
           ClaimIdempotencyKey(TheGame, k), Red!ClaimIdempotencyKey(k)
    PROVE  Same' /\ answer' = redisAnswer'
<1> DEFINE c == <<TheGame, k>>
           fresh == ~ (c \in DOMAIN idempotency /\ idempotency[c] > now)
<1>1. now \in Nat /\ IdemTtl \in Nat \ {0}
  BY StoreAssumption, CalendarAssumption DEF StoreInv, Time
<1>3. /\ answer' = [op |-> "claim", fresh |-> fresh]
      /\ UNCHANGED <<now, boards, names>>
  BY DEF ClaimIdempotencyKey
<1>4. fresh <=> LiveUntil(c) = 0
  BY ClaimOnMemory, OneGame
<1>5. fresh <=> Red!ClaimIsFree(k)
  BY <1>4 DEF Same, SameClaims, Red!ClaimIsFree
<1>6. /\ idem' = IF fresh THEN [idem EXCEPT ![k] = now + IdemTtl] ELSE idem
      /\ redisAnswer' = [op |-> "claim", fresh |-> fresh]
      /\ UNCHANGED <<zset, deadline, redisNames, buckets, games>>
  <2>1. redisAnswer' = [op |-> "claim", fresh |-> Red!ClaimIsFree(k)]
    BY DEF Red!ClaimIdempotencyKey
  <2>2. CASE fresh
    BY <2>1, <2>2, <1>5 DEF Red!ClaimIdempotencyKey, Red!SetClaim
  <2>3. CASE ~ fresh
    <3>1. UNCHANGED <<zset, deadline, idem, redisNames, buckets, games>>
      BY <2>3, <1>5 DEF Red!ClaimIdempotencyKey, Red!keys
    <3>2. fresh = FALSE /\ Red!ClaimIsFree(k) = FALSE
      BY <2>3, <1>5 DEF Red!ClaimIsFree
    <3> QED
      BY <2>1, <2>3, <3>1, <3>2
  <2> QED
    BY <2>2, <2>3
<1>7. SameScores' /\ SameDeadlines' /\ Registered'
  BY <1>3, <1>6, BoardsFrame
<1>8. \A d : LiveUntil(d)' = IF fresh /\ d = c THEN now + IdemTtl ELSE LiveUntil(d)
  BY ClaimOnMemory, OneGame
<1>9. SameClaims'
  <2>1. idem \in [Key -> Nat] /\ \A j \in Key : idem[j] = LiveUntil(<<TheGame, j>>)
    BY DEF Same, SameClaims
  <2>2. idem' \in [Key -> Nat]
    BY <2>1, <1>1, <1>6
  <2>3. ASSUME NEW j \in Key PROVE idem'[j] = LiveUntil(<<TheGame, j>>)'
    <3>1. idem'[j] = IF fresh /\ j = k THEN now + IdemTtl ELSE idem[j]
      BY <2>1, <1>6
    <3>2. <<TheGame, j>> = c <=> j = k
      OBVIOUS
    <3> QED
      BY <3>1, <3>2, <2>1, <1>8
  <2> QED
    BY <2>2, <2>3 DEF SameClaims
<1> QED
  BY <1>3, <1>6, <1>7, <1>9 DEF Same, NamesKept

LEMMA RemoveKeepsSame ==
    ASSUME StoreInv, Same, NEW u \in User, RemovePlayer(TheGame, u), Red!RemovePlayer(u)
    PROVE  Same'
<1> DEFINE touched == {k \in DOMAIN boards : k[1] = TheGame /\ boards[k].scores[u] # NoScore}
           emptied == {b \in Red!Touched(u) : \A v \in User \ {u} : ~ Red!OnBoard(b, v)}
<1>1. /\ boards' = [k \in DOMAIN boards |->
                      IF k \in touched THEN Remove(boards[k], u) ELSE boards[k]]
      /\ names' = names \ {<<TheGame, u>>}
      /\ UNCHANGED <<now, idempotency>>
  BY DEF RemovePlayer
<1>2. /\ zset' = [b \in Bucket |->
                    IF b \in buckets THEN [zset[b] EXCEPT ![u] = NoScore] ELSE zset[b]]
      /\ deadline' = [b \in Bucket |-> IF b \in emptied THEN 0 ELSE deadline[b]]
      /\ redisNames' = IF buckets = {} THEN redisNames ELSE redisNames \ {u}
      /\ UNCHANGED <<idem, buckets, games>>
  BY SameCalendar DEF Red!RemovePlayer
<1>3. /\ zset \in [Bucket -> [User -> CalledScore \cup {NoScore}]]
      /\ deadline \in [Bucket -> Nat]
  BY DEF Same, SameScores, SameDeadlines
<1>4. ASSUME NEW k \in DOMAIN boards
      PROVE  /\ boards'[k].expires = boards[k].expires
             /\ k[1] = TheGame => boards'[k].scores = [boards[k].scores EXCEPT ![u] = NoScore]
  <2>1. boards[k] \in [scores : [User -> CalledScore \cup {NoScore}],
                       order : SUBSET (User \X CalledScore), expires : Nat]
    BY DEF StoreInv, InStep
  <2>2. CASE k \in touched
    BY <1>1, <2>1, <2>2 DEF Remove
  <2>3. CASE k \notin touched
    BY <1>1, <2>1, <2>3
  <2> QED
    BY <2>2, <2>3
<1>5. ASSUME NEW b \in Bucket PROVE Shown(Of(b))' = [Shown(Of(b)) EXCEPT ![u] = NoScore]
  <2>1. DOMAIN boards' = DOMAIN boards /\ Of(b)[1] = TheGame
    BY <1>1 DEF Of
  <2>2. Of(b) \in DOMAIN boards => (Expired(Of(b))' <=> Expired(Of(b)))
    BY <1>1, <1>4 DEF Expired, Of
  <2>3. CASE Of(b) \in DOMAIN boards /\ ~ Expired(Of(b))
    BY <2>1, <2>2, <2>3, <1>4 DEF Shown, Of
  <2>4. CASE ~ (Of(b) \in DOMAIN boards /\ ~ Expired(Of(b)))
    BY <2>1, <2>2, <2>4 DEF Shown, NewBoard, Of
  <2> QED
    BY <2>3, <2>4
<1>6. ASSUME NEW b \in Bucket PROVE zset'[b] = [zset[b] EXCEPT ![u] = NoScore]
  <2>1. CASE b \in buckets
    BY <1>2, <2>1
  <2>2. CASE b \notin buckets
    <3>1. zset[b][u] = NoScore
      BY <2>2, <1>3 DEF Same, Registered, Members
    <3> QED
      BY <1>2, <1>3, <2>2, <3>1
  <2> QED
    BY <2>1, <2>2
<1>7. SameScores'
  <2>1. zset' \in [Bucket -> [User -> CalledScore \cup {NoScore}]]
    BY <1>2, <1>3
  <2>2. ASSUME NEW b \in Bucket PROVE zset'[b] = Shown(Of(b))'
    BY <1>5, <1>6 DEF Same, SameScores
  <2> QED
    BY <2>1, <2>2 DEF SameScores, Of
<1>8. ASSUME NEW b \in Bucket, Members(zset'[b]) # {}
      PROVE  Members(zset[b]) # {} /\ deadline'[b] = deadline[b]
  <2>1. PICK v \in User : zset'[b][v] # NoScore
    BY <1>3, <1>6, <1>8 DEF Members
  <2>2. v # u /\ zset[b][v] # NoScore
    BY <2>1, <1>3, <1>6
  <2>3. b \notin emptied
    BY <2>2 DEF Red!OnBoard
  <2> QED
    BY <2>2, <2>3, <1>2, <1>3 DEF Members
<1>9. SameDeadlines'
  <2>1. deadline' \in [Bucket -> Nat] /\ deadline'[AllTimeBucket] = 0
    BY <1>2, <1>3, AllTimeIsBucket DEF Same, SameDeadlines
  <2>2. ASSUME NEW b \in Bucket, Members(zset'[b]) # {}
        PROVE  deadline'[b] = boards'[Of(b)].expires
    <3>1. deadline'[b] = boards[Of(b)].expires
      BY <2>2, <1>8 DEF Same, SameDeadlines
    <3>2. Of(b) \in DOMAIN boards
      BY <2>2, <1>8 DEF Same, SameScores, Shown, NewBoard, Members
    <3> QED
      BY <3>1, <3>2, <1>4
  <2>3. Of(AllTimeBucket) \in DOMAIN boards' => boards'[Of(AllTimeBucket)].expires = Never
    BY <1>1, <1>4 DEF Same, SameDeadlines
  <2> QED
    BY <2>1, <2>2, <2>3 DEF SameDeadlines, Of, Never
<1>10. Registered'
  BY <1>1, <1>2, <1>8 DEF Same, Registered
<1>11. NamesKept'
  BY <1>1, <1>2 DEF Same, NamesKept
<1> QED
  BY <1>1, <1>2, <1>7, <1>9, <1>10, <1>11 DEF Same, SameClaims, LiveUntil

(* A board in memory expires at the tick at which Redis drops the key.         *)
LEMMA TickKeepsSame ==
    ASSUME StoreInv, Same, ClockTick, Red!ClockTick
    PROVE  Same'
<1>1. now' = now + 1 /\ UNCHANGED <<boards, names, idempotency, answer>>
  BY DEF ClockTick
<1>2. /\ zset' = [b \in Bucket |-> IF Red!Lapsed(deadline[b]) THEN Red!EmptyBoard ELSE zset[b]]
      /\ deadline' = [b \in Bucket |-> IF Red!Lapsed(deadline[b]) THEN 0 ELSE deadline[b]]
      /\ idem' = [k \in Key |-> IF Red!Lapsed(idem[k]) THEN 0 ELSE idem[k]]
      /\ UNCHANGED <<redisNames, buckets, games>>
  BY SameCalendar DEF Red!ClockTick, Red!Tick
<1>3. /\ zset \in [Bucket -> [User -> CalledScore \cup {NoScore}]]
      /\ deadline \in [Bucket -> Nat]
      /\ now \in Nat
      /\ idem \in [Key -> Nat]
  BY CalendarAssumption DEF Same, SameScores, SameDeadlines, SameClaims, StoreInv, Time
<1>4. Red!EmptyBoard = NewBoard.scores
  BY DEF Red!EmptyBoard, NewBoard
<1>5. ASSUME NEW b \in Bucket PROVE zset'[b] = Shown(Of(b))'
  <2>1. zset[b] = Shown(Of(b)) /\ zset[b] \in [User -> CalledScore \cup {NoScore}]
    BY <1>3 DEF Same, SameScores
  <2>2. CASE Members(zset[b]) = {}
    <3>1. zset[b] = NewBoard.scores
      BY <2>1, <2>2 DEF Members, NewBoard
    <3>2. zset'[b] = NewBoard.scores
      BY <3>1, <1>2, <1>4
    <3>3. Shown(Of(b))' \in {Shown(Of(b)), NewBoard.scores}
      BY <1>1, <1>3, <2>1, <3>1 DEF Shown, Expired, NewBoard, Of, StoreInv, InStep
    <3> QED
      BY <2>1, <3>1, <3>2, <3>3
  <2>3. CASE Members(zset[b]) # {}
    <3>1. deadline[b] = boards[Of(b)].expires /\ deadline[b] \in Nat
      BY <2>3, <1>3 DEF Same, SameDeadlines
    <3>2. Of(b) \in DOMAIN boards /\ ~ Expired(Of(b))
      BY <2>1, <2>3 DEF Shown, NewBoard, Members
    <3>3. Red!Lapsed(deadline[b]) <=> Expired(Of(b))'
      BY <3>1, <1>1, <1>3 DEF Red!Lapsed, Expired, Never, Of
    <3> QED
      BY <3>2, <3>3, <2>1, <1>1, <1>2, <1>4 DEF Shown, NewBoard, Of
  <2> QED
    BY <2>2, <2>3
<1>6. ASSUME NEW b \in Bucket, Members(zset'[b]) # {}
      PROVE  Members(zset[b]) # {} /\ deadline'[b] = deadline[b]
  BY <1>2, <1>6 DEF Red!EmptyBoard, Members
<1>7. SameScores'
  <2>1. zset' \in [Bucket -> [User -> CalledScore \cup {NoScore}]]
    BY <1>2, <1>3 DEF Red!EmptyBoard
  <2> QED
    BY <2>1, <1>5 DEF SameScores, Of
<1>8. SameDeadlines'
  <2>1. deadline' \in [Bucket -> Nat]
    BY <1>2, <1>3
  <2> QED
    BY <2>1, <1>1, <1>2, <1>6, AllTimeIsBucket DEF Same, SameDeadlines, Of, Never
<1>9. SameClaims'
  <2>1. \A c \in DOMAIN idempotency : idempotency[c] \in Nat
    BY DEF StoreInv
  <2>2. ASSUME NEW k \in Key PROVE idem'[k] = LiveUntil(<<TheGame, k>>)'
    BY <2>1, <1>1, <1>2, <1>3 DEF Same, SameClaims, LiveUntil, Red!Lapsed
  <2> QED
    BY <2>2, <1>2, <1>3 DEF SameClaims
<1>10. Registered' /\ NamesKept'
  BY <1>1, <1>2, <1>6 DEF Same, Registered, NamesKept
<1> QED
  BY <1>7, <1>8, <1>9, <1>10 DEF Same

------------------------------------------------------------------------------
(* What both find                                                              *)

(* A lookup in memory finds the rows of the sorted set.                        *)
LEMMA FoundRows ==
    ASSUME StoreInv, Same, NEW b \in Bucket
    PROVE  /\ (IF Found(Of(b)) THEN boards[Of(b)].order ELSE {}) = RowsOf(zset[b])
           /\ Found(Of(b)) => boards[Of(b)].scores = zset[b] /\ boards[Of(b)].order = RowsOf(zset[b])
           /\ ~ Found(Of(b)) => RowsOf(zset[b]) = {} /\ \A u \in User : zset[b][u] = NoScore
           /\ zset[b] \in [User -> CalledScore \cup {NoScore}]
           /\ IsIndex(RowsOf(zset[b])) /\ Cardinality(RowsOf(zset[b])) \in Nat
           /\ \A u \in User : zset[b][u] # NoScore => <<u, zset[b][u]>> \in RowsOf(zset[b])
<1>1. zset[b] = Shown(Of(b)) /\ zset[b] \in [User -> CalledScore \cup {NoScore}]
  BY DEF Same, SameScores
<1>2. /\ (IF Found(Of(b)) THEN boards[Of(b)].order ELSE {}) = RowsOf(zset[b])
      /\ Found(Of(b)) => boards[Of(b)].scores = zset[b] /\ boards[Of(b)].order = RowsOf(zset[b])
  BY <1>1, ShownIsBoard
<1>3. ~ Found(Of(b)) => RowsOf(zset[b]) = {} /\ \A u \in User : zset[b][u] = NoScore
  BY <1>1, <1>2, ShownIsBoard DEF NewBoard
<1>4. IsIndex(RowsOf(zset[b])) /\ Cardinality(RowsOf(zset[b])) \in Nat
  BY <1>1, ShownIsBoard, IndexOfBoard
<1>5. \A u \in User : zset[b][u] # NoScore => <<u, zset[b][u]>> \in RowsOf(zset[b])
  BY <1>1 DEF RowsOf, Members
<1> QED
  BY <1>1, <1>2, <1>3, <1>4, <1>5

(* The operators of Ranking are the same on both sides.                        *)
LEMMA SameRanking ==
    /\ \A S : Red!Cardinality(S) = Cardinality(S)
    /\ \A board : Red!RowsOf(board) = RowsOf(board)
    /\ \A rows, score : Red!CountAbove(rows, score) = CountAbove(rows, score)
    /\ \A rows, start, stop : Red!Slice(rows, start, stop) = Slice(rows, start, stop)
    /\ \A rows, r : Red!PlaceOf(rows, r) = PlaceOf(rows, r)
    /\ \A page, start, first : Red!RankPage(page, start, first) = RankPage(page, start, first)
    /\ \A entries, named : Red!Decorate(entries, named) = Decorate(entries, named)
    /\ \A x, y : Red!Greatest(x, y) = Greatest(x, y)
<1>0. \A S : Red!Cardinality(S) = Cardinality(S)
  BY DEF Red!Cardinality, Cardinality
<1>1. \A board : Red!RowsOf(board) = RowsOf(board)
  BY DEF Red!RowsOf, RowsOf, Red!Members, Members
<1>2. \A rows, score : Red!CountAbove(rows, score) = CountAbove(rows, score)
  BY <1>0 DEF Red!CountAbove, CountAbove
<1>3. \A rows, r : Red!PlaceOf(rows, r) = PlaceOf(rows, r)
  BY <1>0 DEF Red!PlaceOf, PlaceOf, Red!Before, Before
<1>4. \A rows, start, stop : Red!Slice(rows, start, stop) = Slice(rows, start, stop)
  BY <1>0, <1>3 DEF Red!Slice, Slice, Red!Least, Least
<1>5. \A page, start, first : Red!RankPage(page, start, first) = RankPage(page, start, first)
  BY DEF Red!RankPage, RankPage
<1>6. \A entries, named : Red!Decorate(entries, named) = Decorate(entries, named)
  BY DEF Red!Decorate, Decorate
<1>7. \A x, y : Red!Greatest(x, y) = Greatest(x, y)
  BY DEF Red!Greatest, Greatest
<1> QED
  BY <1>0, <1>1, <1>2, <1>3, <1>4, <1>5, <1>6, <1>7

------------------------------------------------------------------------------
(* What both answer                                                            *)

Blind(entries) == [i \in DOMAIN entries |-> Unnamed(entries[i])]

LEMMA UnnamedSame ==
    ASSUME NEW e, NEW d, DOMAIN e = {"user", "score", "rank", "named"}, DOMAIN d = DOMAIN e,
           d.user = e.user, d.score = e.score, d.rank = e.rank
    PROVE  Unnamed(d) = Unnamed(e)
BY DEF Unnamed

LEMMA DecoratedAt ==
    ASSUME NEW entries, NEW named, NEW at \in 1 .. Len(entries)
    PROVE  LET entry == Decorate(entries, named)[at]
           IN  /\ DOMAIN entry = {"user", "score", "rank", "named"}
               /\ entry.user = entries[at].user
               /\ entry.score = entries[at].score
               /\ entry.rank = entries[at].rank
BY DEF Decorate

LEMMA BlindAt ==
    ASSUME NEW entries, NEW some, NEW others, NEW at \in 1 .. Len(entries)
    PROVE  Unnamed(Decorate(entries, some)[at]) = Unnamed(Decorate(entries, others)[at])
<1>1. ASSUME NEW named
      PROVE  LET entry == Decorate(entries, named)[at]
             IN  /\ DOMAIN entry = {"user", "score", "rank", "named"}
                 /\ entry.user = entries[at].user
                 /\ entry.score = entries[at].score
                 /\ entry.rank = entries[at].rank
  BY DecoratedAt
<1> QED
  BY <1>1, UnnamedSame

(* The names are all that _decorate adds, so without them, whole or cut, two   *)
(* decorations of the same entries are the same.                               *)
LEMMA BlindDecorate ==
    ASSUME NEW entries, NEW some, NEW others
    PROVE  Blind(Decorate(entries, some)) = Blind(Decorate(entries, others))
<1>1. \A named : DOMAIN Decorate(entries, named) = 1 .. Len(entries)
  BY DEF Decorate
<1>2. \A i \in 1 .. Len(entries) :
         Unnamed(Decorate(entries, some)[i]) = Unnamed(Decorate(entries, others)[i])
  BY BlindAt
<1> QED
  BY <1>1, <1>2 DEF Blind

LEMMA DecorateLen ==
    ASSUME NEW entries, NEW named, Len(entries) \in Nat
    PROVE  Len(Decorate(entries, named)) = Len(entries)
BY DEF Decorate

LEMMA BlindCut ==
    ASSUME NEW entries, NEW some, NEW others, Len(entries) \in Nat,
           NEW from \in Nat \ {0}, NEW to \in Int, to <= Len(entries)
    PROVE  Blind(SubSeq(Decorate(entries, some), from, to))
             = Blind(SubSeq(Decorate(entries, others), from, to))
<1> DEFINE n == to - from + 1
           Cut(named) == SubSeq(Decorate(entries, named), from, to)
<1>1. \A i \in 1 .. n : from + i - 1 \in 1 .. Len(entries)
  OBVIOUS
<1>2. \A named : /\ DOMAIN Cut(named) = 1 .. n
                 /\ \A i \in 1 .. n : Cut(named)[i] = Decorate(entries, named)[from + i - 1]
  BY CutOf
<1>3. \A i \in 1 .. n :
         Unnamed(Decorate(entries, some)[from + i - 1])
           = Unnamed(Decorate(entries, others)[from + i - 1])
  BY <1>1, BlindAt
<1>4. \A i \in 1 .. n : Unnamed(Cut(some)[i]) = Unnamed(Cut(others)[i])
  BY <1>2, <1>3
<1> HIDE DEF Cut
<1>5. Blind(Cut(some)) = Blind(Cut(others))
  BY <1>2, <1>4 DEF Blind
<1> QED
  BY <1>5 DEF Cut

(* rank_page ranks as many rows as it is given; the first gets rank `first`.   *)
LEMMA RankPageLen ==
    ASSUME NEW page, NEW start, NEW first, Len(page) \in Nat
    PROVE  Len(RankPage(page, start, first)) = Len(page)
BY DEF RankPage

LEMMA RankPageOfOne ==
    ASSUME NEW r, NEW start, NEW first
    PROVE  /\ Len(RankPage(<<r>>, start, first)) = 1
           /\ RankPage(<<r>>, start, first)[1] = [user |-> r[1], score |-> r[2], rank |-> first]
<1> DEFINE page == <<r>>
<1>1. Len(page) = 1 /\ page[1] = r
  OBVIOUS
<1> DEFINE step(f) == [i \in 1 .. Len(page) |->
                         IF i = 1 THEN first
                         ELSE IF page[i][2] = page[i - 1][2] THEN f[i - 1]
                         ELSE start + i]
           rank == CHOOSE f : f = step(f)
<1>2. RankPage(page, start, first) = [i \in 1 .. Len(page) |->
            [user |-> page[i][1], score |-> page[i][2], rank |-> rank[i]]]
  BY DEF RankPage
<1>3. [i \in 1 .. 1 |-> first] = step([i \in 1 .. 1 |-> first])
  BY <1>1
<1>4. rank = step(rank)
  BY <1>3
<1>5. rank[1] = first
  BY <1>1, <1>4
<1> QED
  BY <1>1, <1>2, <1>5

LEMMA NamelessTop ==
    ASSUME NEW total, NEW some, NEW others, Blind(some) = Blind(others)
    PROVE  Nameless([op |-> "top", total |-> total, entries |-> some])
             = Nameless([op |-> "top", total |-> total, entries |-> others])
<1>1. ASSUME NEW entries
      PROVE  Nameless([op |-> "top", total |-> total, entries |-> entries])
               = [op |-> "top", total |-> total, entries |-> Blind(entries)]
  BY DEF Nameless, Blind
<1> QED
  BY <1>1

LEMMA NamelessEntry ==
    ASSUME NEW some, NEW others, Unnamed(some) = Unnamed(others)
    PROVE  Nameless([op |-> "entry", entry |-> some]) = Nameless([op |-> "entry", entry |-> others])
<1>1. ASSUME NEW entry
      PROVE  Nameless([op |-> "entry", entry |-> entry]) = [op |-> "entry", entry |-> Unnamed(entry)]
  BY DEF Nameless
<1> QED
  BY <1>1

LEMMA NamelessContext ==
    ASSUME NEW total, NEW a1, NEW u1, NEW b1, NEW a2, NEW u2, NEW b2,
           Blind(a1) = Blind(a2), Unnamed(u1) = Unnamed(u2), Blind(b1) = Blind(b2)
    PROVE  Nameless([op |-> "context", total |-> total, above |-> a1, user |-> u1, below |-> b1])
             = Nameless([op |-> "context", total |-> total, above |-> a2, user |-> u2, below |-> b2])
<1>1. ASSUME NEW above, NEW user, NEW below
      PROVE  Nameless([op |-> "context", total |-> total,
                       above |-> above, user |-> user, below |-> below])
               = [op |-> "context", total |-> total,
                  above |-> Blind(above), user |-> Unnamed(user), below |-> Blind(below)]
  BY DEF Nameless, Blind
<1>2. Nameless([op |-> "context", total |-> total, above |-> a1, user |-> u1, below |-> b1])
        = [op |-> "context", total |-> total,
           above |-> Blind(a1), user |-> Unnamed(u1), below |-> Blind(b1)]
  BY <1>1
<1>3. Nameless([op |-> "context", total |-> total, above |-> a2, user |-> u2, below |-> b2])
        = [op |-> "context", total |-> total,
           above |-> Blind(a2), user |-> Unnamed(u2), below |-> Blind(b2)]
  BY <1>1
<1> QED
  BY <1>2, <1>3

(* The windows the callers use name boards that Redis knows.                   *)
LEMMA AskedBoard ==
    ASSUME StoreInv, Same, NEW window \in CalledWindow, NEW b, b = WindowSuffix(window, now)
    PROVE  /\ b \in Bucket
           /\ BoardAt(TheGame, window) = Of(b)
           /\ Red!BoardOf(window) = b
BY CalledBucket, SameCalendar DEF BoardAt, Of

(* What BackendsDifferOneWay says of a submission.                             *)
ReportsGoTogether(memory, redis) ==
    /\ redis.updated = memory.updated
    /\ redis.score <= memory.score => redis.rank >= memory.rank
    /\ redis.score >= memory.score => redis.rank <= memory.rank

LEMMA LuaTextIsInt == ASSUME NEW n \in Int PROVE Red!LuaText(n) \in Int
<1>1. ASSUME NEW size \in Int PROVE Red!ToTens(size) \in Int
  BY DEF Red!ToTens
<1>2. Red!ToTens(n) \in Int /\ Red!ToTens(-n) \in Int
  BY <1>1
<1> QED
  BY <1>2, BackendsAssumption DEF Red!LuaText

(* A higher bound leaves fewer scores above it.                                *)
LEMMA CountsGoDown ==
    ASSUME NEW board \in [User -> CalledScore \cup {NoScore}],
           NEW low \in Int, NEW high \in Int, low <= high
    PROVE  /\ CountAbove(RowsOf(board), low) \in Nat
           /\ CountAbove(RowsOf(board), high) \in Nat
           /\ CountAbove(RowsOf(board), high) <= CountAbove(RowsOf(board), low)
<1> DEFINE rows == RowsOf(board)
           above(bound) == {q \in rows : q[2] > bound}
<1>1. IsFiniteSet(rows) /\ \A q \in rows : q[2] \in Int
  <2>1. IsBoard(board)
    BY StoreAssumption, FS_Subset DEF IsBoard, Members
  <2> QED
    BY <2>1, IndexOfBoard DEF IsIndex
<1>2. above(high) \subseteq above(low) /\ above(low) \subseteq rows
  BY <1>1
<1>3. /\ IsFiniteSet(above(low)) /\ IsFiniteSet(above(high))
      /\ Cardinality(above(high)) <= Cardinality(above(low))
  BY <1>1, <1>2, FS_Subset
<1> QED
  BY <1>3, FS_CardinalityType DEF CountAbove

LEMMA SubmitAnswersAgree ==
    ASSUME StoreInv, Same, NEW window \in CalledWindow, NEW u \in User, NEW score \in CalledScore,
           Submit(TheGame, window, u, score), Red!Submit(window, u, score),
           NEW b, b = WindowSuffix(window, now)
    PROVE  /\ answer'.op = "submit"
           /\ RoundedReport(answer') \/ answer' = redisAnswer'
           /\ ReportsGoTogether(answer', redisAnswer')
<1> DEFINE k == Of(b)
           board == IF Found(k) THEN boards[k] ELSE NewBoard
           kept == [board EXCEPT !.expires = Retained(TtlFor(window), @)]
           previous == board.scores[u]
           standing == IF previous = NoScore THEN score ELSE Greatest(previous, score)
           after == IF previous = standing THEN kept ELSE SetScore(kept, u, standing)
           scores == [zset[b] EXCEPT ![u] = standing]
<1>1. /\ b \in Bucket
      /\ BoardAt(TheGame, window) = k
      /\ Red!BoardOf(window) = b
      /\ board.scores = zset[b]
      /\ zset \in [Bucket -> [User -> CalledScore \cup {NoScore}]]
  BY AskedBoard, FoundIsShown DEF Same, SameScores
<1>2. answer' = [op |-> "submit", score |-> standing, previous |-> previous,
                 rank |-> CountAbove(after.order, standing) + 1, updated |-> previous # standing]
  BY <1>1 DEF Submit
<1>3. InStep(board)
  BY NewBoardInStep, FoundIsShown DEF StoreInv
<1>4. /\ kept.scores = board.scores
      /\ kept.order = board.order
      /\ InStep(kept)
  <2>1. Retained(TtlFor(window), board.expires) \in Nat
    BY <1>3, RetainedIsNat DEF InStep
  <2> QED
    BY <1>3, <2>1 DEF InStep
<1>5. /\ standing \in CalledScore
      /\ previous \in CalledScore \cup {NoScore}
      /\ previous # NoScore => previous <= standing
      /\ CalledScore \subseteq Int
  <2>1. previous \in CalledScore \cup {NoScore} /\ CalledScore \subseteq Int
    BY <1>1, StoreAssumption
  <2> HIDE DEF previous
  <2>2. standing \in CalledScore /\ (previous # NoScore => previous <= standing)
    BY <2>1 DEF Greatest
  <2> QED
    BY <2>1, <2>2
<1>6. InStep(after) /\ after.scores = scores
  <2>1. CASE previous = standing
    BY <1>1, <1>4, <2>1
  <2>2. CASE previous # standing
    <3>1. InStep(SetScore(kept, u, standing))
      BY <1>4, <1>5, SetScoreInStep
    <3>2. SetScore(kept, u, standing).scores = [kept.scores EXCEPT ![u] = standing]
      BY <1>4 DEF SetScore, InStep
    <3> QED
      BY <2>2, <3>1, <3>2, <1>1, <1>4
  <2> QED
    BY <2>1, <2>2
<1>7. after.order = RowsOf(scores)
  BY <1>6 DEF InStep
<1>8. Red!Best(zset[b][u], score) = standing
  BY <1>1 DEF Red!Best, Greatest
<1>9. zset'[b] = scores
  BY <1>1, <1>8 DEF Red!Submit
<1>10. redisAnswer' = [op |-> "submit", score |-> Red!LuaText(standing),
          previous |-> IF previous = NoScore THEN NoScore ELSE Red!LuaText(previous),
          rank |-> CountAbove(RowsOf(zset'[b]), Red!LuaText(standing)) + 1,
          updated |-> previous # standing]
  BY <1>1, <1>8, SameRanking DEF Red!Submit
<1> HIDE DEF standing, previous, after
<1>11. ASSUME NEW n \in CalledScore, ~ (n >= LuaExact \/ n <= -LuaExact)
       PROVE  Red!LuaText(n) = n
  BY <1>11 DEF Red!LuaText
<1>12. ASSUME \A n \in {standing, previous} \ {NoScore} : ~ (n >= LuaExact \/ n <= -LuaExact)
       PROVE  answer' = redisAnswer'
  <2>1. standing # NoScore
    BY <1>5, StoreAssumption
  <2>2. Red!LuaText(standing) = standing
    BY <1>5, <1>11, <1>12, <2>1
  <2>3. previous # NoScore => Red!LuaText(previous) = previous
    BY <1>5, <1>11, <1>12
  <2> QED
    BY <1>2, <1>7, <1>9, <1>10, <2>2, <2>3
<1>13. ASSUME NEW n \in {standing, previous} \ {NoScore}, n >= LuaExact \/ n <= -LuaExact
       PROVE  RoundedReport(answer')
  BY <1>2, <1>13 DEF RoundedReport
<1>14. ReportsGoTogether(answer', redisAnswer')
  <2>1. scores \in [User -> CalledScore \cup {NoScore}]
    BY <1>1, <1>5
  <2> HIDE DEF scores
  <2>2. standing \in Int /\ Red!LuaText(standing) \in Int
    BY <1>5, LuaTextIsInt
  <2>3. /\ Red!LuaText(standing) <= standing =>
              CountAbove(RowsOf(scores), Red!LuaText(standing)) + 1 >= CountAbove(RowsOf(scores), standing) + 1
        /\ Red!LuaText(standing) >= standing =>
              CountAbove(RowsOf(scores), Red!LuaText(standing)) + 1 <= CountAbove(RowsOf(scores), standing) + 1
    <3> DEFINE told == Red!LuaText(standing)
    <3>1. told \in Int /\ standing \in Int
      BY <2>2
    <3> HIDE DEF told
    <3>2. CASE told <= standing
      <4>1. /\ CountAbove(RowsOf(scores), told) \in Nat
            /\ CountAbove(RowsOf(scores), standing) \in Nat
            /\ CountAbove(RowsOf(scores), standing) <= CountAbove(RowsOf(scores), told)
        BY <2>1, <3>1, <3>2, CountsGoDown
      <4>2. told >= standing => told = standing
        BY <3>1, <3>2
      <4> QED
        BY <4>1, <4>2 DEF told
    <3>3. CASE standing <= told
      <4>1. /\ CountAbove(RowsOf(scores), told) \in Nat
            /\ CountAbove(RowsOf(scores), standing) \in Nat
            /\ CountAbove(RowsOf(scores), told) <= CountAbove(RowsOf(scores), standing)
        BY <2>1, <3>1, <3>3, CountsGoDown
      <4>2. told <= standing => told = standing
        BY <3>1, <3>3
      <4> QED
        BY <4>1, <4>2 DEF told
    <3> QED
      BY <3>1, <3>2, <3>3
  <2>4. /\ answer'.score = standing /\ redisAnswer'.score = Red!LuaText(standing)
        /\ answer'.updated = redisAnswer'.updated
        /\ answer'.rank = CountAbove(RowsOf(scores), standing) + 1
        /\ redisAnswer'.rank = CountAbove(RowsOf(scores), Red!LuaText(standing)) + 1
    BY <1>2, <1>7, <1>9, <1>10
  <2> QED
    BY <2>3, <2>4 DEF ReportsGoTogether
<1> QED
  BY <1>2, <1>12, <1>13, <1>14

LEMMA TotalAnswersAgree ==
    ASSUME StoreInv, Same, NEW window \in CalledWindow, NEW b, b = WindowSuffix(window, now),
           TotalPlayers(TheGame, window), Red!TotalPlayers(window)
    PROVE  answer'.op = "total" /\ answer' = redisAnswer'
<1>1. b \in Bucket /\ BoardAt(TheGame, window) = Of(b) /\ Red!BoardOf(window) = b
  BY AskedBoard
<1>2. answer' = [op |-> "total",
                 total |-> IF Found(Of(b)) THEN Cardinality(boards[Of(b)].order) ELSE 0]
  BY <1>1 DEF TotalPlayers, ReadFrom
<1>3. redisAnswer' = [op |-> "total", total |-> Cardinality(RowsOf(zset[b]))]
  BY <1>1, SameRanking DEF Red!TotalPlayers, Red!ReadOf, Red!Rows
<1>4. Cardinality({}) = 0
  BY FS_EmptySet
<1> QED
  BY <1>1, <1>2, <1>3, <1>4, FoundRows

(* Both cut the page out of the same rows, and rank it from the same count.    *)
LEMMA TopAnswersAgree ==
    ASSUME StoreInv, Same, NEW window \in CalledWindow, NEW b, b = WindowSuffix(window, now),
           NEW limit \in Limit, NEW offset \in Offset,
           Top(TheGame, window, limit, offset), Red!Top(window, limit, offset)
    PROVE  answer'.op = "top" /\ Nameless(answer') = Nameless(redisAnswer')
<1> DEFINE rows == RowsOf(zset[b])
           size == Cardinality(rows)
           page == Slice(rows, offset, offset + limit)
           ranked == RankPage(page, offset, CountAbove(rows, page[1][2]) + 1)
<1>1. b \in Bucket /\ BoardAt(TheGame, window) = Of(b) /\ Red!BoardOf(window) = b
  BY AskedBoard
<1>2. IsIndex(rows) /\ size \in Nat /\ (IF Found(Of(b)) THEN boards[Of(b)].order ELSE {}) = rows
  BY <1>1, FoundRows
<1>3. limit \in Nat \ {0} /\ offset \in Nat /\ offset + limit \in Int
  BY StoreAssumption
<1>4. answer' = [op |-> "top", total |-> size,
                 entries |-> IF offset >= size THEN <<>> ELSE Decorate(ranked, NamesIn(TheGame))]
  BY <1>1, <1>2 DEF Top, ReadFrom, Ranked
<1>5. redisAnswer' = [op |-> "top", total |-> size,
                      entries |-> IF page = <<>> THEN <<>> ELSE Decorate(ranked, redisNames)]
  BY <1>1, SameRanking DEF Red!Top, Red!ReadOf, Red!Rows, Red!Ranked
<1>6. Len(page) = IF Least(offset + limit, size) - offset < 0 THEN 0
                  ELSE Least(offset + limit, size) - offset
  BY <1>2, <1>3, SliceIsPage
<1>7. page = <<>> <=> offset >= size
  <2>1. CASE offset >= size
    <3>1. 1 .. Least(offset + limit, size) - offset = {}
      BY <2>1, <1>2, <1>3 DEF Least
    <3> QED
      BY <2>1, <3>1 DEF Slice
  <2>2. CASE ~ (offset >= size)
    <3>1. Len(page) > 0
      BY <2>2, <1>2, <1>3, <1>6 DEF Least
    <3>2. Len(<<>>) = 0
      OBVIOUS
    <3> QED
      BY <2>2, <3>1, <3>2
  <2> QED
    BY <2>1, <2>2
<1>8. Blind(Decorate(ranked, NamesIn(TheGame))) = Blind(Decorate(ranked, redisNames))
  BY BlindDecorate
<1> HIDE DEF rows, size, page, ranked
<1> QED
  BY <1>4, <1>5, <1>7, <1>8, NamelessTop

(* The memory store builds the entry by hand, Redis ranks a page of one row.   *)
LEMMA EntryAnswersAgree ==
    ASSUME StoreInv, Same, NEW window \in CalledWindow, NEW b, b = WindowSuffix(window, now),
           NEW u \in User, GetEntry(TheGame, window, u), Red!GetEntry(window, u)
    PROVE  answer'.op \in {"entry", "absent"} /\ Nameless(answer') = Nameless(redisAnswer')
<1> DEFINE rows == RowsOf(zset[b])
           score == zset[b][u]
           rank == CountAbove(rows, score) + 1
           mine == [user |-> u, score |-> score, rank |-> rank, named |-> u \in NamesIn(TheGame)]
           page == <<<<u, score>>>>
           ranked == RankPage(page, 0, CountAbove(rows, page[1][2]) + 1)
           theirs == Decorate(ranked, redisNames)[1]
<1>1. b \in Bucket /\ BoardAt(TheGame, window) = Of(b) /\ Red!BoardOf(window) = b
  BY AskedBoard
<1>2. Red!OnBoard(b, u) <=> score # NoScore
  BY DEF Red!OnBoard
<1>3. redisAnswer' = IF score = NoScore THEN [op |-> "absent"] ELSE [op |-> "entry", entry |-> theirs]
  BY <1>1, <1>2, SameRanking DEF Red!GetEntry, Red!ReadOf, Red!Rows, Red!Ranked
<1>4. answer' = IF score = NoScore THEN [op |-> "absent"] ELSE [op |-> "entry", entry |-> mine]
  <2>1. CASE Found(Of(b))
    <3>1. boards[Of(b)].scores = zset[b] /\ boards[Of(b)].order = rows
      BY <1>1, <2>1, FoundRows
    <3> QED
      BY <1>1, <2>1, <3>1 DEF GetEntry, ReadFrom
  <2>2. CASE ~ Found(Of(b))
    <3>1. score = NoScore
      BY <1>1, <2>2, FoundRows
    <3> QED
      BY <1>1, <2>2, <3>1 DEF GetEntry, ReadFrom
  <2> QED
    BY <2>1, <2>2
<1>5. Unnamed(mine) = Unnamed(theirs)
  <2>1. page[1] = <<u, score>> /\ page[1][1] = u /\ page[1][2] = score
    OBVIOUS
  <2>2. Len(ranked) = 1 /\ ranked[1] = [user |-> u, score |-> score, rank |-> rank]
    BY <2>1, RankPageOfOne
  <2>3. /\ DOMAIN theirs = {"user", "score", "rank", "named"}
        /\ theirs.user = ranked[1].user
        /\ theirs.score = ranked[1].score
        /\ theirs.rank = ranked[1].rank
    BY <2>2, DecoratedAt
  <2>4. /\ DOMAIN mine = {"user", "score", "rank", "named"}
        /\ mine.user = u
        /\ mine.score = score
        /\ mine.rank = rank
    OBVIOUS
  <2> HIDE DEF mine, theirs, ranked, rank
  <2> QED
    BY <2>2, <2>3, <2>4, UnnamedSame
<1> HIDE DEF mine, theirs
<1>6. CASE score = NoScore
  BY <1>3, <1>4, <1>6
<1>7. CASE score # NoScore
  BY <1>3, <1>4, <1>5, <1>7, NamelessEntry
<1> QED
  BY <1>6, <1>7

LEMMA ContextAnswersAgree ==
    ASSUME StoreInv, Same, NEW window \in CalledWindow, NEW b, b = WindowSuffix(window, now),
           NEW u \in User, NEW radius \in Radius,
           Context(TheGame, window, u, radius), Red!Context(window, u, radius)
    PROVE  answer'.op \in {"context", "absent"} /\ Nameless(answer') = Nameless(redisAnswer')
<1> DEFINE rows == RowsOf(zset[b])
           size == Cardinality(rows)
           score == zset[b][u]
           index == PlaceOf(rows, <<u, score>>)
           start == Greatest(0, index - radius)
           stop == index + radius + 1
           page == Slice(rows, start, stop)
           ranked == RankPage(page, start, CountAbove(rows, page[1][2]) + 1)
           pivot == index - start + 1
           Strung(entries) ==
               [op |-> "context", total |-> size,
                above |-> SubSeq(entries, 1, pivot - 1), user |-> entries[pivot],
                below |-> SubSeq(entries, pivot + 1, Len(entries))]
           mine == Decorate(ranked, NamesIn(TheGame))
           theirs == Decorate(ranked, redisNames)
<1>1. b \in Bucket /\ BoardAt(TheGame, window) = Of(b) /\ Red!BoardOf(window) = b
  BY AskedBoard
<1>2. /\ zset[b] \in [User -> CalledScore \cup {NoScore}]
      /\ IsIndex(rows) /\ size \in Nat
  BY <1>1, FoundRows
<1>3. radius \in Nat \ {0}
  BY StoreAssumption
<1>4. redisAnswer' = IF score = NoScore THEN [op |-> "absent"] ELSE Strung(theirs)
  <2>1. /\ Red!OnBoard(b, u) <=> score # NoScore
        /\ Red!Rows(b) = rows
        /\ Red!PlaceOf(Red!Rows(b), <<u, zset[b][u]>>) = index
        /\ Red!Greatest(0, index - radius) = start
        /\ Red!StripStop(index, radius) = stop
    BY SameRanking DEF Red!OnBoard, Red!Rows, Red!StripStop
  <2>2. Red!Ranked(b, Red!Slice(Red!Rows(b), start, stop), start) = theirs
    BY <2>1, SameRanking DEF Red!Ranked
  <2> HIDE DEF rows, size, score, index, start, stop, page, ranked, mine, theirs
  <2>3. redisAnswer' = IF ~ Red!OnBoard(b, u) THEN [op |-> "absent"]
                       ELSE [op |-> "context", total |-> Red!Cardinality(Red!Rows(b)),
                             above |-> SubSeq(theirs, 1, pivot - 1), user |-> theirs[pivot],
                             below |-> SubSeq(theirs, pivot + 1, Len(theirs))]
    BY <1>1, <2>1, <2>2 DEF Red!Context, Red!ReadOf, score
  <2> QED
    BY <2>1, <2>3, SameRanking DEF size
<1>6. score # NoScore => index \in Nat /\ index < size
  <2>1. score # NoScore => <<u, score>> \in rows
    BY <1>1, FoundRows
  <2> QED
    BY <1>2, <2>1, PlaceIsInRange
<1>7. answer' = IF score = NoScore THEN [op |-> "absent"] ELSE Strung(mine)
  <2>1. CASE score = NoScore
    <3>1. Found(Of(b)) => boards[Of(b)].scores = zset[b]
      BY <1>1, FoundRows
    <3> HIDE DEF Strung
    <3> QED
      BY <1>1, <2>1, <3>1 DEF Context, ReadFrom
  <2>2. CASE score # NoScore
    <3>1. Found(Of(b)) /\ boards[Of(b)].scores = zset[b] /\ boards[Of(b)].order = rows
      BY <1>1, <2>2, FoundRows
    <3>2. answer' = Strip(TheGame, rows, u, score, radius)
      BY <1>1, <2>2, <3>1 DEF Context, ReadFrom
    <3>3. Slice(rows, start, StripEnd(rows, index, radius)) = page
      <4>1. index \in Nat
        BY <2>2, <1>6
      <4> HIDE DEF index
      <4>2. Least(StripEnd(rows, index, radius), size) = Least(stop, size)
        BY <1>2, <1>3, <4>1 DEF StripEnd, Least
      <4> QED
        BY <4>2 DEF Slice
    <3>4. Ranked(TheGame, rows, Slice(rows, start, StripEnd(rows, index, radius)), start) = mine
      BY <3>3 DEF Ranked
    <3> HIDE DEF rows, size, score, index, start, page, ranked, mine, theirs
    <3>5. answer' = Strung(mine)
      BY <3>2, <3>4 DEF Strip, index, start, size
    <3> QED
      BY <2>2, <3>5
  <2> QED
    BY <2>1, <2>2
<1>8. ASSUME score # NoScore PROVE Nameless(Strung(mine)) = Nameless(Strung(theirs))
  <2>1. index \in Nat /\ index < size /\ start \in Nat /\ stop \in Nat /\ pivot \in Nat \ {0}
    BY <1>3, <1>6, <1>8 DEF Greatest
  <2>2. Len(page) = IF Least(stop, size) - start < 0 THEN 0 ELSE Least(stop, size) - start
    BY <1>2, <2>1, SliceIsPage
  <2> HIDE DEF rows, index
  <2>3. Len(page) \in Nat /\ pivot <= Len(page)
    BY <1>2, <1>3, <2>1, <2>2 DEF Greatest, Least
  <2>4. Len(ranked) = Len(page)
    BY <2>3, RankPageLen
  <2>5. Len(mine) = Len(ranked) /\ Len(theirs) = Len(ranked)
    BY <2>3, <2>4, DecorateLen
  <2> HIDE DEF ranked, pivot, page, start, stop
  <2>6. Blind(SubSeq(mine, 1, pivot - 1)) = Blind(SubSeq(theirs, 1, pivot - 1))
    BY <2>1, <2>3, <2>4, BlindCut
  <2>7. Unnamed(mine[pivot]) = Unnamed(theirs[pivot])
    BY <2>1, <2>3, <2>4, BlindAt
  <2>8. Blind(SubSeq(mine, pivot + 1, Len(mine))) = Blind(SubSeq(theirs, pivot + 1, Len(theirs)))
    <3>1. Blind(SubSeq(mine, pivot + 1, Len(ranked))) = Blind(SubSeq(theirs, pivot + 1, Len(ranked)))
      BY <2>1, <2>3, <2>4, BlindCut
    <3> QED
      BY <3>1, <2>5
  <2> HIDE DEF mine, theirs, size
  <2> DEFINE above(entries) == SubSeq(entries, 1, pivot - 1)
             below(entries) == SubSeq(entries, pivot + 1, Len(entries))
             strip(entries) == [op |-> "context", total |-> size, above |-> above(entries),
                                user |-> entries[pivot], below |-> below(entries)]
  <2>9. Blind(above(mine)) = Blind(above(theirs)) /\ Blind(below(mine)) = Blind(below(theirs))
    BY <2>6, <2>8
  <2>10. Strung(mine) = strip(mine) /\ Strung(theirs) = strip(theirs)
    OBVIOUS
  <2> HIDE DEF above, below, Strung
  <2>11. Nameless(strip(mine)) = Nameless(strip(theirs))
    BY <2>7, <2>9, NamelessContext
  <2> HIDE DEF strip
  <2> QED
    BY <2>10, <2>11
<1>9. Strung(mine).op = "context"
  OBVIOUS
<1> HIDE DEF Strung
<1> QED
  BY <1>4, <1>7, <1>8, <1>9

(* Every board Redis deletes the player from is a board in memory; memory may  *)
(* hold more of them, those that have expired and nobody has asked for since.  *)
LEMMA RemoveAnswersDiffer ==
    ASSUME StoreInv, Same, NEW u \in User, RemovePlayer(TheGame, u), Red!RemovePlayer(u)
    PROVE  /\ answer'.op = "remove"
           /\ redisAnswer'.touched <= answer'.touched
<1> DEFINE touched == {k \in DOMAIN boards : k[1] = TheGame /\ boards[k].scores[u] # NoScore}
           theirs == Red!Touched(u)
           back == [k \in touched |-> k[2]]
           to == [b \in theirs |-> Of(b)]
<1>1. answer' = [op |-> "remove", touched |-> Cardinality(touched)]
  BY DEF RemovePlayer
<1>2. redisAnswer' = [op |-> "remove", touched |-> Cardinality(theirs)]
  BY SameRanking DEF Red!RemovePlayer
<1>3. touched \subseteq {TheGame} \X Bucket
  BY DEF StoreInv, Board
<1>4. ASSUME NEW b \in theirs PROVE Of(b) \in touched
  <2>1. b \in Bucket /\ zset[b][u] # NoScore
    BY DEF Red!Touched, Red!OnBoard, Same, Registered
  <2>2. Of(b) \in DOMAIN boards /\ boards[Of(b)].scores[u] # NoScore
    BY <2>1 DEF Same, SameScores, Shown, NewBoard
  <2> QED
    BY <2>2 DEF Of
<1>5. back \in Injection(touched, Bucket)
  BY <1>3 DEF Injection, IsInjective
<1>6. to \in Injection(theirs, touched)
  BY <1>4 DEF Injection, IsInjective, Of
<1> HIDE DEF touched, theirs, back, to
<1>7. IsFiniteSet(touched)
  BY <1>5, BucketsAreFinite, FS_Injection
<1>8. Cardinality(theirs) <= Cardinality(touched)
  BY <1>6, <1>7, FS_Injection
<1> QED
  BY <1>1, <1>2, <1>8

LEMMA GamesAnswersDiffer ==
    ASSUME StoreInv, Same, ListGames, Red!ListGames
    PROVE  answer'.op = "games" /\ answer'.games \subseteq redisAnswer'.games
<1>1. /\ answer' = [op |-> "games", games |-> {k[1] : k \in DOMAIN boards}]
      /\ redisAnswer' = [op |-> "games", games |-> games]
  BY DEF ListGames, Red!ListGames, Red!ReadOf
<1>2. \A k \in DOMAIN boards : k[1] = TheGame
  BY OneGame DEF StoreInv, Board
<1>3. DOMAIN boards # {} => TheGame \in games
  BY DEF Same, Registered
<1> QED
  BY <1>1, <1>2, <1>3

------------------------------------------------------------------------------
(* Every step                                                                  *)

(* What a pair of answers is held to, StandingsAgree and the other half of     *)
(* BackendsDifferOneWay.                                                       *)
OneWay ==
    /\ answer.op = "remove" => redisAnswer.touched <= answer.touched
    /\ answer.op = "games" => answer.games \subseteq redisAnswer.games
    /\ answer.op = "submit" => ReportsGoTogether(answer, redisAnswer)

BothInv == StoreInv /\ Same /\ StandingsAgree /\ OneWay

LEMMA BothInvInit == BothInit => BothInv
<1> SUFFICES ASSUME BothInit PROVE BothInv
  OBVIOUS
<1>1. answer = [op |-> "none"] /\ redisAnswer = [op |-> "none"]
  BY DEF BothInit, Init
<1>2. StandingsAgree /\ OneWay
  BY <1>1 DEF StandingsAgree, OneWay
<1>3. StoreInv
  BY StoreInvInit DEF BothInit
<1> QED
  BY <1>2, <1>3, SameInit DEF BothInv

LEMMA RedisReadFrame ==
    ASSUME NEW result, Red!ReadOf(result)
    PROVE  UNCHANGED <<zset, deadline, idem, redisNames, buckets, games>>
BY DEF Red!ReadOf, Red!keys

LEMMA BothInvInductive == BothInv /\ [BothNext]_<<vars, redisVars>> => BothInv'
<1> SUFFICES ASSUME BothInv, [BothNext]_<<vars, redisVars>> PROVE BothInv'
  OBVIOUS
<1>0. StoreInv /\ Same /\ StandingsAgree /\ OneWay
  BY DEF BothInv
<1> USE OneGame
<1>1. ASSUME NEW u \in User, NEW window \in CalledWindow, NEW score \in CalledScore,
             Submit(TheGame, window, u, score), Red!Submit(window, u, score),
             NEW b, b = WindowSuffix(window, now)
      PROVE  BothInv'
  <2>1. StoreInv'
    BY <1>0, <1>1, SubmitKeepsInv
  <2>2. Same'
    BY <1>0, <1>1, SubmitKeepsSame
  <2>3. /\ answer'.op = "submit"
        /\ RoundedReport(answer') \/ answer' = redisAnswer'
        /\ ReportsGoTogether(answer', redisAnswer')
    BY <1>0, <1>1, SubmitAnswersAgree
  <2>4. StandingsAgree' /\ OneWay'
    BY <2>3 DEF StandingsAgree, OneWay
  <2> QED
    BY <2>1, <2>2, <2>4 DEF BothInv
<1>2. ASSUME NEW u \in User, RemovePlayer(TheGame, u), Red!RemovePlayer(u)
      PROVE  BothInv'
  <2>1. StoreInv' /\ Same'
    BY <1>0, <1>2, RemovePlayerKeepsInv, RemoveKeepsSame
  <2>2. answer'.op = "remove" /\ redisAnswer'.touched <= answer'.touched
    BY <1>0, <1>2, RemoveAnswersDiffer
  <2>3. StandingsAgree' /\ OneWay'
    BY <2>2 DEF StandingsAgree, OneWay
  <2> QED
    BY <2>1, <2>3 DEF BothInv
<1>3. ASSUME NEW u \in Renamed, SetDisplayName(TheGame, u), Red!SetDisplayName(u)
      PROVE  BothInv'
  <2>1. u \in User
    BY StoreAssumption
  <2>2. Same'
    BY <1>0, <1>3, <2>1, SetDisplayNameKeepsSame
  <2>3. StoreInv'
    BY <1>0, <1>3, <2>1 DEF SetDisplayName, StoreInv, InStep
  <2>4. answer' = [op |-> "name"] /\ redisAnswer' = [op |-> "name"]
    BY <1>3 DEF SetDisplayName, Red!SetDisplayName
  <2>5. StandingsAgree' /\ OneWay'
    BY <2>4 DEF StandingsAgree, OneWay
  <2> QED
    BY <2>2, <2>3, <2>5 DEF BothInv
<1>4. ASSUME NEW k \in Key, ClaimIdempotencyKey(TheGame, k), Red!ClaimIdempotencyKey(k)
      PROVE  BothInv'
  <2>1. Same' /\ answer' = redisAnswer'
    BY <1>0, <1>4, ClaimKeepsSame
  <2>2. StoreInv'
    BY <1>0, <1>4, ClaimKeepsInv
  <2>3. answer'.op = "claim"
    BY <1>4 DEF ClaimIdempotencyKey
  <2>4. StandingsAgree' /\ OneWay'
    BY <2>1, <2>3 DEF StandingsAgree, OneWay
  <2> QED
    BY <2>1, <2>2, <2>4 DEF BothInv
<1>5. CASE ListGames /\ Red!ListGames
  <2>1. UNCHANGED <<now, boards, names, idempotency>>
    BY <1>5 DEF ListGames
  <2>2. UNCHANGED <<zset, deadline, idem, redisNames, buckets, games>>
    BY <1>5, RedisReadFrame DEF Red!ListGames
  <2>3. StoreInv'
    BY <1>0, <2>1 DEF StoreInv, InStep
  <2>4. SameScores' /\ SameDeadlines' /\ Registered'
    BY <1>0, <2>1, <2>2, BoardsFrame
  <2>5. Same'
    BY <1>0, <2>1, <2>2, <2>4 DEF Same, SameClaims, LiveUntil, NamesKept
  <2>6. answer'.op = "games" /\ answer'.games \subseteq redisAnswer'.games
    BY <1>0, <1>5, GamesAnswersDiffer
  <2>7. StandingsAgree' /\ OneWay'
    BY <2>6 DEF StandingsAgree, OneWay
  <2> QED
    BY <2>3, <2>5, <2>7 DEF BothInv
<1>6. ASSUME NEW k, NEW result, ReadFrom(k, result), NEW theirs, Red!ReadOf(theirs),
             answer'.op \notin {"remove", "games", "submit"}, Nameless(answer') = Nameless(redisAnswer')
      PROVE  BothInv'
  <2>1. Same'
    BY <1>0, <1>6, RedisReadFrame, ReadKeepsSame
  <2>2. StoreInv'
    BY <1>0, <1>6, ReadKeepsInv
  <2>3. StandingsAgree'
    BY <1>6 DEF StandingsAgree
  <2>4. OneWay'
    BY <1>6 DEF OneWay
  <2> QED
    BY <2>1, <2>2, <2>3, <2>4 DEF BothInv
<1>7. ASSUME NEW window \in CalledWindow, NEW b, b = WindowSuffix(window, now),
             TotalPlayers(TheGame, window), Red!TotalPlayers(window)
      PROVE  BothInv'
  <2>1. answer'.op = "total" /\ answer' = redisAnswer'
    BY <1>0, <1>7, TotalAnswersAgree
  <2> QED
    BY <1>6, <1>7, <2>1 DEF TotalPlayers, Red!TotalPlayers
<1>8. ASSUME NEW window \in CalledWindow, NEW b, b = WindowSuffix(window, now),
             NEW limit \in Limit, NEW offset \in Offset,
             Top(TheGame, window, limit, offset), Red!Top(window, limit, offset)
      PROVE  BothInv'
  <2>1. answer'.op = "top" /\ Nameless(answer') = Nameless(redisAnswer')
    BY <1>0, <1>8, TopAnswersAgree
  <2> QED
    BY <1>6, <1>8, <2>1 DEF Top, Red!Top
<1>9. ASSUME NEW window \in CalledWindow, NEW b, b = WindowSuffix(window, now),
             NEW u \in User, GetEntry(TheGame, window, u), Red!GetEntry(window, u)
      PROVE  BothInv'
  <2>1. answer'.op \in {"entry", "absent"} /\ Nameless(answer') = Nameless(redisAnswer')
    BY <1>0, <1>9, EntryAnswersAgree
  <2> QED
    BY <1>6, <1>9, <2>1 DEF GetEntry, Red!GetEntry
<1>10. ASSUME NEW window \in CalledWindow, NEW b, b = WindowSuffix(window, now),
              NEW u \in User, NEW radius \in Radius,
              Context(TheGame, window, u, radius), Red!Context(window, u, radius)
       PROVE  BothInv'
  <2>1. answer'.op \in {"context", "absent"} /\ Nameless(answer') = Nameless(redisAnswer')
    BY <1>0, <1>10, ContextAnswersAgree
  <2> QED
    BY <1>6, <1>10, <2>1 DEF Context, Red!Context
<1>11. CASE ClockTick /\ Red!ClockTick
  <2>1. StoreInv'
    BY <1>0, <1>11, StoreInvInductive DEF Next
  <2>2. Same'
    BY <1>0, <1>11, TickKeepsSame
  <2>3. UNCHANGED <<answer, redisAnswer>>
    BY <1>11 DEF ClockTick, Red!ClockTick
  <2>4. StandingsAgree' /\ OneWay'
    BY <1>0, <2>3 DEF StandingsAgree, OneWay
  <2> QED
    BY <2>1, <2>2, <2>4 DEF BothInv
<1>12. CASE UNCHANGED <<vars, redisVars>>
  <2>1. UNCHANGED <<now, boards, names, idempotency, answer, zset, deadline, idem, redisNames,
                    buckets, games, redisAnswer>>
    BY <1>12 DEF vars, redisVars
  <2>2. StoreInv'
    BY <1>0, <2>1 DEF StoreInv, InStep
  <2>3. SameScores' /\ SameDeadlines' /\ Registered'
    BY <1>0, <2>1, BoardsFrame
  <2>4. Same'
    BY <1>0, <2>1, <2>3 DEF Same, SameClaims, LiveUntil, NamesKept
  <2>5. StandingsAgree' /\ OneWay'
    BY <1>0, <2>1 DEF StandingsAgree, OneWay
  <2> QED
    BY <2>2, <2>4, <2>5 DEF BothInv
<1>13. CASE BothWrite
  BY <1>13, <1>1, <1>2, <1>3, <1>4 DEF BothWrite
<1>14. CASE BothRead
  BY <1>14, <1>5, <1>7, <1>8, <1>9, <1>10 DEF BothRead
<1> QED
  BY <1>11, <1>12, <1>13, <1>14 DEF BothNext

(* The Redis store and the memory store give the same standing, page, strip,   *)
(* count and claim after the same calls at the same moments, for any users,    *)
(* windows, retentions and page sizes, up to the display names, and the same   *)
(* report of a submission while Lua prints its scores exactly.                 *)
THEOREM SameStandings == BothSpec => []StandingsAgree
<1>1. BothInv => StandingsAgree
  BY DEF BothInv
<1> QED
  BY <1>1, BothInvInit, BothInvInductive, PTL DEF BothSpec

(* Where the two stores differ they differ one way: Redis may keep the name of *)
(* a player erased before any board was registered, memory may count boards    *)
(* past their retention in a deletion, and Redis may list a game too many; the *)
(* rank it reports of a submission goes with the rounded score it reports.     *)
THEOREM DifferencesAreOneWay == BothSpec => []BackendsDifferOneWay
<1>1. BothInv => BackendsDifferOneWay
  BY DEF BothInv, Same, NamesKept, OneWay, ReportsGoTogether, BackendsDifferOneWay
<1> QED
  BY <1>1, BothInvInit, BothInvInductive, PTL DEF BothSpec

(* What the two backends do together contains what the memory store does       *)
(* alone, so beside Redis it keeps the promise of its port as well, and its    *)
(* index in step.                                                              *)
THEOREM MemoryKeepsItsPromise == BothSpec => ImplementsPort /\ []TypeOK /\ []IndexMatchesScores
<1>1. BothInit => Init
  BY DEF BothInit
<1>2. ASSUME [BothNext]_<<vars, redisVars>> PROVE [Next]_vars
  <2>1. CASE UNCHANGED <<vars, redisVars>>
    BY <2>1
  <2>2. CASE BothNext
    <3>1. BothWrite => Write
      BY OneGame DEF BothWrite, Write
    <3>2. BothRead => Read
      BY OneGame DEF BothRead, Read
    <3> QED
      BY <2>2, <3>1, <3>2 DEF BothNext, Next
  <2> QED
    BY <1>2, <2>1, <2>2
<1>3. BothSpec => Spec
  BY <1>1, <1>2, PTL DEF BothSpec, Spec
<1> QED
  BY <1>3, ImplementsStoragePort, StoreTypeCorrectness, IndexStaysInStep, PTL
==============================================================================
