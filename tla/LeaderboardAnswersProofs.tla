---------------------- MODULE LeaderboardAnswersProofs ----------------------
(* What the answers of the write side mean: what expiry leaves of a score that *)
(* landed, and then proofs about "created", the boards of one player once      *)
(* everything was answered, and about 204 and 404.                             *)
EXTENDS LeaderboardWritesProofs

------------------------------------------------------------------------------
(* What expiry leaves standing                                                 *)

LEMMA RollingWindows ==
    /\ WindowOrder[2] = "daily" /\ WindowOrder[3] = "weekly" /\ WindowOrder[1] = "all_time"
    /\ TtlFor("daily") = DailyTtl /\ TtlFor("weekly") = WeeklyTtl
    /\ \A i \in 2 .. 3 : /\ TtlFor(WindowOrder[i]) \in Nat \ {0}
                         /\ TtlArgument(TtlFor(WindowOrder[i])) = TtlFor(WindowOrder[i])
<1>1. WindowOrder[2] = "daily" /\ WindowOrder[3] = "weekly" /\ WindowOrder[1] = "all_time"
  BY DEF WindowOrder
<1>2. TtlFor("daily") = DailyTtl /\ TtlFor("weekly") = WeeklyTtl
  BY DEF TtlFor
<1>3. \A i \in 2 .. 3 : TtlFor(WindowOrder[i]) \in Nat \ {0}
  BY <1>1, <1>2, RetentionAssumption
<1>4. \A i \in 2 .. 3 : TtlArgument(TtlFor(WindowOrder[i])) = TtlFor(WindowOrder[i])
  BY <1>3 DEF TtlArgument, NoTtl
<1> QED
  BY <1>1, <1>2, <1>3, <1>4

(* RollingBoardsExpire without the all-time board, by position in the order.   *)
Expiring ==
    \A i \in 2 .. 3, at \in Moment :
        Populated(WindowSuffix(WindowOrder[i], at)) =>
            /\ now < deadline[WindowSuffix(WindowOrder[i], at)]
            /\ deadline[WindowSuffix(WindowOrder[i], at)] <= now + TtlFor(WindowOrder[i])

LEMMA NextExpiring == Control /\ TypeOK /\ FanOut /\ Expiring /\ [Next]_vars => Expiring'
<1> SUFFICES ASSUME Control, TypeOK, FanOut, Expiring, [Next]_vars,
                    NEW i \in 2 .. 3, NEW at \in Moment
             PROVE  LET b == WindowSuffix(WindowOrder[i], at)
                    IN  Populated(b)' =>
                          /\ now' < deadline'[b]
                          /\ deadline'[b] <= now' + TtlFor(WindowOrder[i])
  BY DEF Expiring
<1> DEFINE b == WindowSuffix(WindowOrder[i], at)
           ttl == TtlFor(WindowOrder[i])
           Keeps == Populated(b)' => now' < deadline'[b] /\ deadline'[b] <= now' + ttl
<1> SUFFICES Keeps
  OBVIOUS
<1>a. now \in Nat /\ now \in Time
  BY CalendarAssumption DEF TypeOK, KeysTypeOK, Time
<1>b. /\ zset \in [Bucket -> [User -> Score \cup {NoScore}]]
      /\ deadline \in [Bucket -> Nat]
  BY DEF TypeOK, KeysTypeOK
<1>c. b \in Bucket /\ ttl \in Nat \ {0} /\ TtlArgument(ttl) = ttl
  BY BucketTyping, RollingWindows
<1>d. Populated(b) => now < deadline[b] /\ deadline[b] <= now + ttl
  BY DEF Expiring
<1>e. ASSUME UNCHANGED <<now, zset, deadline>> PROVE Keeps
  BY <1>d, <1>e DEF Populated, OnBoard
<1> HIDE DEF b, ttl
<1>1. ASSUME NEW p \in Req, ArriveSubmission(p) PROVE Keeps
  BY <1>1, <1>e DEF ArriveSubmission, keys
<1>2. ASSUME NEW p \in Req, Claim(p) PROVE Keeps
  BY <1>2, <1>e DEF Claim, SetClaim, keys
<1>3. ASSUME NEW p \in Req, ClaimIsTaken(p) PROVE Keeps
  BY <1>3, <1>e DEF ClaimIsTaken, keys
<1>4. ASSUME NEW p \in Req, ReadStanding(p) PROVE Keeps
  BY <1>4, <1>e DEF ReadStanding, keys
<1>5. ASSUME NEW p \in Req, SetDisplayName(p) PROVE Keeps
  BY <1>5, <1>e DEF SetDisplayName, SetName, keys
<1>6. ASSUME NEW p \in Req, CallSubmit(p) PROVE Keeps
  BY <1>6, <1>e DEF CallSubmit, keys
<1>7. ASSUME NEW p \in Req, RunScript(p) PROVE Keeps
  <2>1. /\ zset' = [zset EXCEPT ![bucket[p]][job[p].user] = Best(@, job[p].score)]
        /\ now' = now
        /\ bucket[p] \in Bucket
    BY <1>7 DEF RunScript, SubmitScript, TypeOK
  <2>2. CASE bucket[p] = b
    <3>1. win[p] = i
      BY <1>7, <2>2, SuffixTellsWindow DEF RunScript, FanOut, Named, TypeOK, b
    <3>2. TtlArgument(TtlFor(WindowOrder[win[p]])) = ttl
      BY <3>1, <1>c DEF ttl
    <3>3. deadline' = [deadline EXCEPT ![b] = IF ttl > 0 THEN now + ttl ELSE @]
      BY <1>7, <2>2, <3>2 DEF RunScript, SubmitScript
    <3>4. deadline'[b] = now + ttl
      BY <3>3, <1>a, <1>b, <1>c
    <3> QED
      BY <3>4, <2>1, <1>a, <1>b, <1>c
  <2>3. CASE bucket[p] # b
    <3>1. zset'[b] = zset[b] /\ deadline'[b] = deadline[b]
      BY <1>7, <2>1, <2>3, <1>b, <1>c DEF RunScript, SubmitScript
    <3> QED
      BY <3>1, <2>1, <1>d DEF Populated, OnBoard
  <2> QED
    BY <2>2, <2>3
<1>8. ASSUME NEW p \in Req, AddGame(p) PROVE Keeps
  BY <1>8, <1>e DEF AddGame, RegisterGame, keys
<1>9. ASSUME NEW p \in Req, AddBucket(p) PROVE Keeps
  BY <1>9, <1>e DEF AddBucket, RegisterBucket, keys
<1>10. ASSUME NEW p \in Req, ArriveDeletion(p) PROVE Keeps
  BY <1>10, <1>e DEF ArriveDeletion, keys
<1>11. ASSUME NEW p \in Req, ListBuckets(p) PROVE Keeps
  BY <1>11, <1>e DEF ListBuckets, keys
<1>12. ASSUME NEW p \in Req, RemoveFromBoard(p) PROVE Keeps
  <2>1. PICK c \in todo[p] : RemoveMember(c, job[p].user)
    BY <1>12 DEF RemoveFromBoard
  <2>2. c \in Bucket /\ now' = now /\ job[p].user \in User
    BY <1>12, <2>1, Payloads DEF RemoveFromBoard, Control, DeleteSteps, TypeOK
  <2>3. Populated(b)' => Populated(b) /\ deadline'[b] = deadline[b]
    BY <2>1, <2>2, <1>b, <1>c DEF RemoveMember, Populated, OnBoard
  <2> QED
    BY <2>2, <2>3, <1>d
<1>13. ASSUME NEW p \in Req, DropName(p) PROVE Keeps
  BY <1>13, <1>e DEF DropName, RemoveName, keys
<1>14. ASSUME NEW p \in Req, GiveUp(p) PROVE Keeps
  BY <1>14, <1>e DEF GiveUp, keys
<1>15. ASSUME NEW p \in Req, Lose(p) PROVE Keeps
  BY <1>15, <1>e DEF Lose, keys
<1>16. CASE ClockTick
  <2>1. /\ now' = now + 1
        /\ Populated(b)' => /\ Populated(b)
                            /\ ~ Lapsed(deadline[b])
                            /\ deadline'[b] = deadline[b]
    BY <1>16, <1>b, <1>c DEF ClockTick, Tick, Populated, OnBoard, EmptyBoard
  <2> QED
    BY <2>1, <1>a, <1>b, <1>c, <1>d DEF Lapsed
<1>17. CASE UNCHANGED vars
  BY <1>17, <1>e DEF vars, keys
<1> QED
  BY <1>1, <1>2, <1>3, <1>4, <1>5, <1>6, <1>7, <1>8, <1>9, <1>10, <1>11, <1>12,
     <1>13, <1>14, <1>15, <1>16, <1>17
  DEF Next, Arrive, Serve, Submit, Delete

(* RollingBoardsExpire: for every instance, a rolling board with players       *)
(* carries a TTL within its window's retention; the all-time board has none.   *)
THEOREM RollingBoardsLapse == Spec => []RollingBoardsExpire
<1> DEFINE Inv == Control /\ TypeOK /\ FanOut /\ AllTimeInv /\ Expiring
<1>1. Init => Expiring
  BY BucketTyping DEF Init, KeysInit, EmptyBoard, Expiring, Populated, OnBoard
<1>2. Init => Inv
  BY <1>1, InitControl, InitTypeOK, InitFanOut, InitAllTime
<1>3. Inv /\ [Next]_vars => Inv'
  BY NextControl, NextTypeOK, NextFanOut, NextAllTime, NextExpiring
<1>4. Inv => RollingBoardsExpire
  <2>1. Expiring => \A window \in {"daily", "weekly"}, at \in Moment :
          Populated(WindowSuffix(window, at)) =>
              /\ now < deadline[WindowSuffix(window, at)]
              /\ deadline[WindowSuffix(window, at)] <= now + TtlFor(window)
    BY RollingWindows DEF Expiring
  <2> QED
    BY <2>1 DEF RollingBoardsExpire, AllTimeInv, AllTimeStands
<1> QED
  BY <1>2, <1>3, <1>4, PTL DEF Spec

------------------------------------------------------------------------------
(* Scores outlive their windows                                                *)

(* Two moments of one bucket are less than the length of its window apart.     *)
LEMMA SameSpan ==
    ASSUME NEW length \in Nat \ {0}, NEW at \in Nat, NEW when \in Nat,
           at \div length = when \div length
    PROVE  when < at + length
<1>1. at = length * (at \div length) + (at % length) /\ at % length \in 0 .. length - 1
  OBVIOUS
<1>2. when = length * (when \div length) + (when % length) /\ when % length \in 0 .. length - 1
  OBVIOUS
<1> QED
  BY <1>1, <1>2

LEMMA CurrentMeansRecent ==
    ASSUME NEW i \in 2 .. 3, NEW at \in Moment, NEW window \in Window, NEW when \in Moment,
           WindowSuffix(window, when) = WindowSuffix(WindowOrder[i], at)
    PROVE  when + MaxSkew < at + TtlFor(WindowOrder[i])
<1>1. PICK j \in 1 .. 3 : window = WindowOrder[j]
  BY RollingWindows DEF Window
<1>2. window = WindowOrder[i]
  BY <1>1, SuffixTellsWindow
<1>3. at \in Nat /\ when \in Nat /\ MaxSkew \in Nat
  BY CalendarAssumption DEF Moment
<1>4. DayLength \in Nat \ {0} /\ DayLength * DaysPerWeek \in Nat \ {0}
  BY CalendarAssumption
<1>5. CASE i = 2
  <2>1. /\ WindowSuffix("daily", when) = <<"d", when \div DayLength>>
        /\ WindowSuffix("daily", at) = <<"d", at \div DayLength>>
    BY DEF WindowSuffix
  <2>2. when \div DayLength = at \div DayLength
    BY <1>2, <1>5, <2>1, RollingWindows
  <2>3. when < at + DayLength
    BY <2>2, <1>3, <1>4, SameSpan
  <2> QED
    BY <1>5, <2>3, <1>3, RollingWindows, CoverAssumption, CalendarAssumption, RetentionAssumption
<1>6. CASE i = 3
  <2>1. /\ WindowSuffix("weekly", when) = <<"w", when \div (DayLength * DaysPerWeek)>>
        /\ WindowSuffix("weekly", at) = <<"w", at \div (DayLength * DaysPerWeek)>>
    BY DEF WindowSuffix
  <2>2. when \div (DayLength * DaysPerWeek) = at \div (DayLength * DaysPerWeek)
    BY <1>2, <1>6, <2>1, RollingWindows
  <2> DEFINE week == DayLength * DaysPerWeek
  <2>3. week \in Nat \ {0} /\ week + MaxSkew <= WeeklyTtl
    BY <1>4, CoverAssumption
  <2> HIDE DEF week
  <2>4. when < at + week
    BY <2>2, <2>3, <1>3, SameSpan DEF week
  <2> QED
    BY <1>6, <2>3, <2>4, <1>3, RollingWindows, RetentionAssumption
<1> QED
  BY <1>5, <1>6

(* A score that landed on a rolling board stands there, and the board's TTL    *)
(* reaches, up to the skew, past the retention counted from the moment that    *)
(* named the bucket, until that retention is over.                             *)
Held(b, u, score) ==
    \E i \in 2 .. 3, at \in Moment :
        /\ at <= now + MaxSkew
        /\ b = WindowSuffix(WindowOrder[i], at)
        /\ \/ AtLeast(b, u, score) /\ at + TtlFor(WindowOrder[i]) <= deadline[b] + MaxSkew
           \/ at + TtlFor(WindowOrder[i]) <= now + MaxSkew

LandedInv ==
    \A p \in Submissions : \A b \in wrote[p] \ {AllTimeBucket} :
        Untargeted(job[p].user) => Held(b, job[p].user, job[p].score)

(* Enough for a step that writes no new bucket: what is held stays held.       *)
LEMMA LandedFrame ==
    ASSUME Control, [Next]_vars, LandedInv, UNCHANGED <<job, wrote>>,
           \A p \in Submissions : \A b \in wrote[p] \ {AllTimeBucket} :
               /\ Untargeted(job[p].user)
               /\ Untargeted(job[p].user)'
               /\ Held(b, job[p].user, job[p].score)
               => Held(b, job[p].user, job[p].score)'
    PROVE  LandedInv'
  BY UntargetedBefore DEF LandedInv, Submissions

LEMMA NextLandedInv ==
    Control /\ TypeOK /\ FanOut /\ LandedInv /\ [Next]_vars => LandedInv'
<1> SUFFICES ASSUME Control, TypeOK, FanOut, LandedInv, [Next]_vars PROVE LandedInv'
  OBVIOUS
<1>a. now \in Nat /\ now \in Time
  BY CalendarAssumption DEF TypeOK, KeysTypeOK, Time
<1>b. /\ zset \in [Bucket -> [User -> Score \cup {NoScore}]]
      /\ deadline \in [Bucket -> Nat]
      /\ wrote \in [Req -> SUBSET Bucket]
  BY DEF TypeOK, KeysTypeOK
<1>c. Score \subseteq Int /\ NoScore \notin Int
  BY ScoreAssumption DEF Score
<1>d. \A p \in Submissions : job[p].user \in User /\ job[p].score \in Int
  BY Payloads DEF Submissions
<1>e. ASSUME UNCHANGED <<now, zset, deadline, job, wrote>> PROVE LandedInv'
  <2>1. ASSUME NEW p \in Submissions, NEW b \in wrote[p] \ {AllTimeBucket},
               Held(b, job[p].user, job[p].score)
        PROVE  Held(b, job[p].user, job[p].score)'
    BY <1>e, <2>1 DEF Held, AtLeast, OnBoard
  <2> QED
    BY <1>e, <2>1, LandedFrame
<1>1. ASSUME NEW p \in Req, ArriveSubmission(p) PROVE LandedInv'
  BY <1>1, <1>e DEF ArriveSubmission, keys
<1>2. ASSUME NEW p \in Req, Claim(p) PROVE LandedInv'
  BY <1>2, <1>e DEF Claim, SetClaim, keys
<1>3. ASSUME NEW p \in Req, ClaimIsTaken(p) PROVE LandedInv'
  BY <1>3, <1>e DEF ClaimIsTaken, keys
<1>4. ASSUME NEW p \in Req, ReadStanding(p) PROVE LandedInv'
  BY <1>4, <1>e DEF ReadStanding, keys
<1>5. ASSUME NEW p \in Req, SetDisplayName(p) PROVE LandedInv'
  BY <1>5, <1>e DEF SetDisplayName, SetName, keys
<1>6. ASSUME NEW p \in Req, CallSubmit(p) PROVE LandedInv'
  BY <1>6, <1>e DEF CallSubmit, keys
<1>7. ASSUME NEW p \in Req, RunScript(p) PROVE LandedInv'
  <2> DEFINE c == bucket[p]
             u == job[p].user
             value == job[p].score
  <2>1. /\ zset' = [zset EXCEPT ![c][u] = Best(@, value)]
        /\ wrote' = [wrote EXCEPT ![p] = @ \cup {c}]
        /\ UNCHANGED <<now, job>>
    BY <1>7 DEF RunScript, SubmitScript
  <2>2. c \in Bucket /\ u \in User /\ value \in Score /\ p \in Submissions
    BY <1>7, Payloads DEF RunScript, Control, SubmitSteps, TypeOK
  <2>3. /\ zset'[c][u] = Best(zset[c][u], value)
        /\ \A b \in Bucket, v \in User : <<b, v>> # <<c, u>> => zset'[b][v] = zset[b][v]
    BY <2>1, <2>2, <1>b
  <2>4. zset[c][u] \in Score \cup {NoScore}
    BY <2>2, <1>b
  <2>5. /\ Best(zset[c][u], value) # NoScore
        /\ Best(zset[c][u], value) >= value
        /\ zset[c][u] # NoScore => Best(zset[c][u], value) >= zset[c][u]
        /\ Best(zset[c][u], value) \in {zset[c][u], value}
    BY <2>2, <2>4, BestIsBetter
  <2>6. PICK at \in Moment : at <= now + MaxSkew /\ c = WindowSuffix(WindowOrder[win[p]], at)
    BY <1>7 DEF RunScript, FanOut, Named
  <2>7. win[p] \in 1 .. 3
    BY DEF TypeOK
  <2>8. c # AllTimeBucket => win[p] \in 2 .. 3
    BY <2>6, <2>7, AllTimeIsFirst
(* The TTL restarts, and so can only reach further.                            *)
  <2>9. ASSUME NEW i \in 2 .. 3, NEW when \in Moment, when <= now + MaxSkew,
               c = WindowSuffix(WindowOrder[i], when)
        PROVE  when + TtlFor(WindowOrder[i]) <= deadline'[c] + MaxSkew
    <3>1. win[p] = i
      <4>1. WindowSuffix(WindowOrder[win[p]], at) = WindowSuffix(WindowOrder[i], when)
        BY <2>6, <2>9
      <4>2. i \in 1 .. 3
        OBVIOUS
      <4> QED
        BY <4>1, <4>2, <2>7, SuffixTellsWindow
    <3>2. /\ TtlArgument(TtlFor(WindowOrder[win[p]])) = TtlFor(WindowOrder[i])
          /\ TtlFor(WindowOrder[i]) \in Nat \ {0}
      BY <3>1, RollingWindows
    <3> DEFINE ttl == TtlFor(WindowOrder[i])
    <3>3. deadline' = [deadline EXCEPT ![c] = IF ttl > 0 THEN now + ttl ELSE @]
      BY <1>7, <3>2 DEF RunScript, SubmitScript
    <3> HIDE DEF ttl
    <3>4. deadline'[c] = now + ttl
      BY <3>2, <3>3, <2>2, <1>a, <1>b DEF ttl
    <3> QED
      BY <3>2, <3>4, <2>9, <1>a, CalendarAssumption DEF ttl, Moment
  <2>10. \A b \in Bucket : b # c => deadline'[b] = deadline[b]
    BY <1>7, <1>b DEF RunScript, SubmitScript
  <2>11. ASSUME NEW q \in Submissions, NEW b \in wrote[q] \ {AllTimeBucket},
                Held(b, job[q].user, job[q].score)
         PROVE  Held(b, job[q].user, job[q].score)'
    <3>1. PICK i \in 2 .. 3, when \in Moment :
             /\ when <= now + MaxSkew
             /\ b = WindowSuffix(WindowOrder[i], when)
             /\ \/ /\ AtLeast(b, job[q].user, job[q].score)
                   /\ when + TtlFor(WindowOrder[i]) <= deadline[b] + MaxSkew
                \/ when + TtlFor(WindowOrder[i]) <= now + MaxSkew
      BY <2>11 DEF Held
    <3>2. b \in Bucket /\ job[q].user \in User /\ job[q].score \in Int
      BY <1>b, <1>d DEF Submissions
    <3>3. AtLeast(b, job[q].user, job[q].score) => AtLeast(b, job[q].user, job[q].score)'
      <4>1. CASE <<b, job[q].user>> # <<c, u>>
        BY <4>1, <3>2, <2>1, <2>3 DEF AtLeast, OnBoard
      <4>2. CASE b = c /\ job[q].user = u
        <5>1. zset[c][u] # NoScore => zset[c][u] \in Int /\ Best(zset[c][u], value) \in Int
          <6>1. zset[c][u] # NoScore => zset[c][u] \in Int
            BY <2>4, <1>c
          <6>2. value \in Int
            BY <2>2, <1>c
          <6> QED
            BY <6>1, <6>2, <2>5
        <5> QED
          BY <4>2, <5>1, <3>2, <2>1, <2>3, <2>5 DEF AtLeast, OnBoard
      <4> QED
        BY <4>1, <4>2
    <3>4. when + TtlFor(WindowOrder[i]) <= deadline[b] + MaxSkew =>
            when + TtlFor(WindowOrder[i]) <= deadline'[b] + MaxSkew
      BY <3>1, <3>2, <2>9, <2>10
    <3> QED
      BY <3>1, <3>3, <3>4, <2>1 DEF Held
  <2>12. c # AllTimeBucket => Held(c, u, value)'
    <3> SUFFICES ASSUME c # AllTimeBucket PROVE Held(c, u, value)'
      OBVIOUS
    <3>1. AtLeast(c, u, value)'
      BY <2>1, <2>3, <2>5, <1>7 DEF AtLeast, OnBoard, RunScript
    <3>2. at + TtlFor(WindowOrder[win[p]]) <= deadline'[c] + MaxSkew
      BY <2>6, <2>8, <2>9
    <3> QED
      BY <3>1, <3>2, <2>1, <2>6, <2>8, <1>7 DEF Held, RunScript
  <2>13. ASSUME NEW q \in Submissions, NEW b \in wrote'[q] \ {AllTimeBucket},
                Untargeted(job[q].user)
         PROVE  Held(b, job[q].user, job[q].score)'
    <3>1. CASE b \in wrote[q]
      BY <3>1, <2>11, <2>13 DEF LandedInv
    <3>2. CASE b \notin wrote[q]
      <4>1. q = p /\ b = c
        BY <3>2, <2>1, <2>13, <1>b DEF Submissions
      <4> QED
        BY <4>1, <2>12, <1>7 DEF RunScript
    <3> QED
      BY <3>1, <3>2
  <2> QED
    BY <2>1, <2>13, UntargetedBefore DEF LandedInv, Submissions
<1>8. ASSUME NEW p \in Req, AddGame(p) PROVE LandedInv'
  BY <1>8, <1>e DEF AddGame, RegisterGame, keys
<1>9. ASSUME NEW p \in Req, AddBucket(p) PROVE LandedInv'
  BY <1>9, <1>e DEF AddBucket, RegisterBucket, keys
<1>10. ASSUME NEW p \in Req, ArriveDeletion(p) PROVE LandedInv'
  BY <1>10, <1>e DEF ArriveDeletion, keys
<1>11. ASSUME NEW p \in Req, ListBuckets(p) PROVE LandedInv'
  BY <1>11, <1>e DEF ListBuckets, keys
<1>12. ASSUME NEW p \in Req, RemoveFromBoard(p) PROVE LandedInv'
  <2>1. PICK c \in todo[p] : RemoveMember(c, job[p].user)
    BY <1>12 DEF RemoveFromBoard
  <2>2. c \in Bucket /\ p \in Deletions /\ job[p].user \in User
    BY <1>12, <2>1, Payloads DEF RemoveFromBoard, Control, DeleteSteps, TypeOK
  <2>3. UNCHANGED <<now, job, wrote>> /\ ~ Untargeted(job[p].user)
    BY <1>12, <2>2 DEF RemoveFromBoard, Untargeted
  <2>4. \A b \in Bucket, v \in User \ {job[p].user} :
          /\ zset'[b][v] = zset[b][v]
          /\ zset[b][v] # NoScore => deadline'[b] = deadline[b]
    BY <2>1, <2>2, <1>b DEF RemoveMember, OnBoard
  <2>5. ASSUME NEW q \in Submissions, NEW b \in wrote[q] \ {AllTimeBucket},
               Untargeted(job[q].user), Held(b, job[q].user, job[q].score)
        PROVE  Held(b, job[q].user, job[q].score)'
    <3>1. job[q].user \in User \ {job[p].user} /\ b \in Bucket
      BY <2>3, <2>5, <1>b, <1>d DEF Submissions
    <3> QED
      BY <3>1, <2>3, <2>4, <2>5 DEF Held, AtLeast, OnBoard
  <2> QED
    BY <2>3, <2>5, LandedFrame
<1>13. ASSUME NEW p \in Req, DropName(p) PROVE LandedInv'
  BY <1>13, <1>e DEF DropName, RemoveName, keys
<1>14. ASSUME NEW p \in Req, GiveUp(p) PROVE LandedInv'
  BY <1>14, <1>e DEF GiveUp, keys
<1>15. ASSUME NEW p \in Req, Lose(p) PROVE LandedInv'
  BY <1>15, <1>e DEF Lose, keys
<1>16. CASE ClockTick
  <2>1. now' = now + 1 /\ UNCHANGED <<job, wrote>>
    BY <1>16 DEF ClockTick, Tick, request
  <2>2. \A b \in Bucket : ~ Lapsed(deadline[b]) => zset'[b] = zset[b] /\ deadline'[b] = deadline[b]
    BY <1>16, <1>b DEF ClockTick, Tick
  <2>3. ASSUME NEW q \in Submissions, NEW b \in wrote[q] \ {AllTimeBucket},
               Held(b, job[q].user, job[q].score)
        PROVE  Held(b, job[q].user, job[q].score)'
    <3>1. PICK i \in 2 .. 3, at \in Moment :
             /\ at <= now + MaxSkew
             /\ b = WindowSuffix(WindowOrder[i], at)
             /\ \/ /\ AtLeast(b, job[q].user, job[q].score)
                   /\ at + TtlFor(WindowOrder[i]) <= deadline[b] + MaxSkew
                \/ at + TtlFor(WindowOrder[i]) <= now + MaxSkew
      BY <2>3 DEF Held
    <3>2. /\ b \in Bucket /\ deadline[b] \in Nat /\ at \in Nat
          /\ TtlFor(WindowOrder[i]) \in Nat /\ MaxSkew \in Nat
      BY <1>b, RollingWindows, CalendarAssumption DEF Submissions, Moment
    <3>3. CASE Lapsed(deadline[b])
      <4>1. at + TtlFor(WindowOrder[i]) <= now' + MaxSkew
        BY <3>1, <3>2, <3>3, <2>1, <1>a DEF Lapsed
      <4> QED
        BY <3>1, <3>2, <4>1, <2>1, <1>a DEF Held
    <3>4. CASE ~ Lapsed(deadline[b])
      <4>1. AtLeast(b, job[q].user, job[q].score) => AtLeast(b, job[q].user, job[q].score)'
        BY <3>2, <3>4, <2>1, <2>2 DEF AtLeast, OnBoard
      <4> QED
        BY <3>1, <3>2, <3>4, <4>1, <2>1, <2>2, <1>a DEF Held
    <3> QED
      BY <3>3, <3>4
  <2> QED
    BY <2>1, <2>3, LandedFrame
<1>17. CASE UNCHANGED vars
  BY <1>17, <1>e DEF vars, keys, request
<1> QED
  BY <1>1, <1>2, <1>3, <1>4, <1>5, <1>6, <1>7, <1>8, <1>9, <1>10, <1>11, <1>12,
     <1>13, <1>14, <1>15, <1>16, <1>17
  DEF Next, Arrive, Serve, Submit, Delete

(* LandedScoresStand: for every instance, a score whose script ran stands on   *)
(* each board it was written to while that board is current, whatever other    *)
(* submissions, expiries and late commands come between.                       *)
THEOREM LandedScoresAreKept == Spec => []LandedScoresStand
<1> DEFINE Inv == Control /\ TypeOK /\ FanOut /\ AllTimeInv /\ LandedInv
<1>1. Init => LandedInv
  BY DEF Init, LandedInv, Submissions
<1>2. Init => Inv
  BY <1>1, InitControl, InitTypeOK, InitFanOut, InitAllTime
<1>3. Inv /\ [Next]_vars => Inv'
  BY NextControl, NextTypeOK, NextFanOut, NextAllTime, NextLandedInv
<1>4. Inv => LandedScoresStand
  <2> SUFFICES ASSUME Inv, NEW p \in Submissions, NEW b \in Bucket, b \in wrote[p],
                      Untargeted(job[p].user),
                      NEW window \in Window, NEW q \in Req, b = WindowSuffix(window, Clock(q))
               PROVE  AtLeast(b, job[p].user, job[p].score)
    BY DEF LandedScoresStand
  <2>1. CASE b = AllTimeBucket
    BY <2>1 DEF AllTimeInv, AllTimeStands
  <2>2. CASE b # AllTimeBucket
    <3>1. PICK i \in 2 .. 3, at \in Moment :
             /\ b = WindowSuffix(WindowOrder[i], at)
             /\ \/ AtLeast(b, job[p].user, job[p].score)
                \/ at + TtlFor(WindowOrder[i]) <= now + MaxSkew
      BY <2>2 DEF LandedInv, Held
    <3>2. /\ now \in Time /\ Clock(q) \in Moment /\ now <= Clock(q)
          /\ now \in Nat /\ Clock(q) \in Nat /\ at \in Nat /\ MaxSkew \in Nat
          /\ TtlFor(WindowOrder[i]) \in Nat
      BY ClockTyping, RollingWindows, CalendarAssumption DEF TypeOK, KeysTypeOK, Time, Moment
    <3>3. Clock(q) + MaxSkew < at + TtlFor(WindowOrder[i])
      BY <3>1, <3>2, CurrentMeansRecent
    <3> QED
      BY <3>1, <3>2, <3>3
  <2> QED
    BY <2>1, <2>2
<1> QED
  BY <1>2, <1>3, <1>4, PTL DEF Spec

------------------------------------------------------------------------------
(* What has been written and registered, step by step                          *)

(* The request has written to a bucket of window number i.                     *)
Reached(p, i) == \E at \in Moment : WindowSuffix(WindowOrder[i], at) \in wrote[p]

(* How far the boards of a request and their registration are, at each step.   *)
Bookkept(p) ==
    /\ pc[p] \in {"idle", "claim", "hset", "standings"} => wrote[p] = {}
    /\ reply[p] \in {"rejected", "replayed"} => wrote[p] = {}
    /\ pc[p] \in {"call", "eval"} => wrote[p] \subseteq buckets
    /\ pc[p] \in {"sadd_games", "sadd_buckets"} =>
          Reached(p, win[p]) /\ wrote[p] \subseteq buckets \cup {bucket[p]}
    /\ pc[p] \in {"call", "eval", "sadd_games", "sadd_buckets"} =>
          \A i \in 1 .. 3 : i < win[p] => Reached(p, i)
    /\ pc[p] = "sadd_buckets" => Game \in games
    /\ reply[p] = "created" =>
          (\A i \in 1 .. 3 : Reached(p, i)) /\ wrote[p] \subseteq buckets /\ Game \in games

Bookkeeping == \A p \in Req : Bookkept(p)

(* The registry only grows, so other requests lose nothing by a step of p.     *)
LEMMA BookkeepingFrame ==
    ASSUME Bookkeeping, NEW p \in Req, Bookkept(p)',
           buckets \subseteq buckets', games \subseteq games',
           \A q \in Req \ {p} : /\ pc'[q] = pc[q]
                                /\ win'[q] = win[q]
                                /\ bucket'[q] = bucket[q]
                                /\ reply'[q] = reply[q]
                                /\ wrote'[q] = wrote[q]
    PROVE  Bookkeeping'
<1>1. ASSUME NEW q \in Req \ {p} PROVE Bookkept(q)'
  <2>1. Bookkept(q)
    BY DEF Bookkeeping
  <2>2. \A i : Reached(q, i)' <=> Reached(q, i)
    BY DEF Reached
  <2> QED
    BY <2>1, <2>2 DEF Bookkept
<1> QED
  BY <1>1 DEF Bookkeeping

LEMMA NextBookkeeping ==
    Control /\ TypeOK /\ FanOut /\ Bookkeeping /\ [Next]_vars => Bookkeeping'
<1> SUFFICES ASSUME Control, TypeOK, FanOut, Bookkeeping, [Next]_vars PROVE Bookkeeping'
  OBVIOUS
<1>a. /\ pc \in [Req -> {"idle", "call", "done"} \cup InFlight]
      /\ win \in [Req -> 1 .. 3]
      /\ bucket \in [Req -> Bucket]
      /\ reply \in [Req -> Reply]
      /\ wrote \in [Req -> SUBSET Bucket]
  BY DEF TypeOK
<1>b. \A p \in Req : Bookkept(p)
  BY DEF Bookkeeping
<1>c. \A p \in Req : pc[p] # "done" => reply[p] \in {"none", "failed"}
  BY DEF Control, SubmitSteps, DeleteSteps
<1>d. \A p \in Req : pc[p] \in {"idle", "claim", "hset"} => win[p] = 1
  BY DEF FanOut
<1>1. ASSUME NEW p \in Req, ArriveSubmission(p) PROVE Bookkeeping'
  BY <1>1, <1>a, <1>b, <1>c, <1>d, BookkeepingFrame
  DEF ArriveSubmission, Answer, Abandoned, FirstStep, AfterClaim, keys, Bookkept, Reached
<1>2. ASSUME NEW p \in Req, Claim(p) PROVE Bookkeeping'
  BY <1>2, <1>a, <1>b, <1>c, <1>d, BookkeepingFrame
  DEF Claim, Goto, Abandoned, AfterClaim, SetClaim, Bookkept, Reached
<1>3. ASSUME NEW p \in Req, ClaimIsTaken(p) PROVE Bookkeeping'
  BY <1>3, <1>a, <1>b, <1>c, <1>d, BookkeepingFrame
  DEF ClaimIsTaken, Goto, Abandoned, keys, Bookkept, Reached
<1>4. ASSUME NEW p \in Req, ReadStanding(p) PROVE Bookkeeping'
  BY <1>4, <1>a, <1>b, <1>c, <1>d, BookkeepingFrame
  DEF ReadStanding, Goto, Answer, Abandoned, keys, Bookkept, Reached
<1>5. ASSUME NEW p \in Req, SetDisplayName(p) PROVE Bookkeeping'
  BY <1>5, <1>a, <1>b, <1>c, <1>d, BookkeepingFrame
  DEF SetDisplayName, Goto, Abandoned, SetName, Bookkept, Reached
<1>6. ASSUME NEW p \in Req, CallSubmit(p) PROVE Bookkeeping'
  BY <1>6, <1>a, <1>b, <1>c, <1>d, BookkeepingFrame
  DEF CallSubmit, keys, Bookkept, Reached
<1>7. ASSUME NEW p \in Req, RunScript(p) PROVE Bookkeeping'
  BY <1>7, <1>a, <1>b, <1>c, <1>d, BookkeepingFrame
  DEF RunScript, Goto, Abandoned, SubmitScript, Bookkept, Reached, FanOut, Named
<1>8. ASSUME NEW p \in Req, AddGame(p) PROVE Bookkeeping'
  BY <1>8, <1>a, <1>b, <1>c, <1>d, BookkeepingFrame
  DEF AddGame, Pipelined, RegisterGame, Bookkept, Reached
<1>9. ASSUME NEW p \in Req, AddBucket(p) PROVE Bookkeeping'
  BY <1>9, <1>a, <1>b, <1>c, <1>d, BookkeepingFrame
  DEF AddBucket, Goto, Answer, Abandoned, RegisterBucket, Bookkept, Reached
<1>10. ASSUME NEW p \in Req, ArriveDeletion(p) PROVE Bookkeeping'
  BY <1>10, <1>a, <1>b, <1>c, <1>d, BookkeepingFrame
  DEF ArriveDeletion, keys, Bookkept, Reached
<1>11. ASSUME NEW p \in Req, ListBuckets(p) PROVE Bookkeeping'
  BY <1>11, <1>a, <1>b, <1>c, <1>d, BookkeepingFrame
  DEF ListBuckets, Goto, Answer, Abandoned, keys, Bookkept, Reached
<1>12. ASSUME NEW p \in Req, RemoveFromBoard(p) PROVE Bookkeeping'
  BY <1>12, <1>a, <1>b, <1>c, <1>d, BookkeepingFrame
  DEF RemoveFromBoard, Pipelined, RemoveMember, Bookkept, Reached
<1>13. ASSUME NEW p \in Req, DropName(p) PROVE Bookkeeping'
  BY <1>13, <1>a, <1>b, <1>c, <1>d, BookkeepingFrame
  DEF DropName, Answer, Abandoned, RemoveName, Bookkept, Reached
<1>14. ASSUME NEW p \in Req, GiveUp(p) PROVE Bookkeeping'
  BY <1>14, <1>a, <1>b, <1>c, <1>d, BookkeepingFrame
  DEF GiveUp, keys, Bookkept, Reached
<1>15. ASSUME NEW p \in Req, Lose(p) PROVE Bookkeeping'
  BY <1>15, <1>a, <1>b, <1>c, <1>d, BookkeepingFrame
  DEF Lose, keys, Bookkept, Reached
<1>16. CASE ClockTick
  BY <1>16, <1>b DEF ClockTick, Tick, request, Bookkeeping, Bookkept, Reached
<1>17. CASE UNCHANGED vars
  BY <1>17, <1>b DEF vars, keys, request, Bookkeeping, Bookkept, Reached
<1> QED
  BY <1>1, <1>2, <1>3, <1>4, <1>5, <1>6, <1>7, <1>8, <1>9, <1>10, <1>11, <1>12,
     <1>13, <1>14, <1>15, <1>16, <1>17
  DEF Next, Arrive, Serve, Submit, Delete

LEMMA InitBookkeeping == Init => Bookkeeping
BY DEF Init, Bookkeeping, Bookkept

(* CreatedIsOnEveryBoard: for every instance, a 201 that is not deduplicated   *)
(* means that the request itself wrote to one bucket of every window, and that *)
(* the registry names them all.  Of a replay, answered 201 too, it says        *)
(* nothing.                                                                    *)
THEOREM CreatedReachesEveryBoard == Spec => []CreatedIsOnEveryBoard
<1> DEFINE Inv == Control /\ TypeOK /\ FanOut /\ Bookkeeping
<1>1. Init => Inv
  BY InitControl, InitTypeOK, InitFanOut, InitBookkeeping
<1>2. Inv /\ [Next]_vars => Inv'
  BY NextControl, NextTypeOK, NextFanOut, NextBookkeeping
<1>3. Inv => CreatedIsOnEveryBoard
  <2>1. \A window \in Window : \E i \in 1 .. 3 : window = WindowOrder[i]
    BY RollingWindows DEF Window
  <2> QED
    BY <2>1 DEF Bookkeeping, Bookkept, Reached, CreatedIsOnEveryBoard
<1> QED
  BY <1>1, <1>2, <1>3, PTL DEF Spec

------------------------------------------------------------------------------
(* Where standings and names come from                                         *)

(* The submission has passed the step that sets the display name.              *)
PastName(p) ==
    \/ pc[p] \in {"call", "eval", "sadd_games", "sadd_buckets"}
    \/ reply[p] \in {"created", "failed"}

(* Every standing is a score some submission wrote to that very board, and a   *)
(* name was set by some submission.                                            *)
Origin ==
    /\ \A b \in Bucket, u \in User : OnBoard(b, u) =>
          \E p \in Submissions : /\ job[p].user = u
                                 /\ b \in wrote[p]
                                 /\ job[p].score = zset[b][u]
    /\ \A u \in names : \E p \in Submissions : job[p].user = u /\ job[p].named /\ PastName(p)

(* Enough for a step that adds no standing and no name.                        *)
LEMMA OriginFrame ==
    ASSUME Origin, job' = job, names' \subseteq names,
           \A p \in Submissions : wrote[p] \subseteq wrote'[p] /\ (PastName(p) => PastName(p)'),
           \A b \in Bucket, u \in User : OnBoard(b, u)' => zset'[b][u] = zset[b][u]
    PROVE  Origin'
<1>1. \A b \in Bucket, u \in User : OnBoard(b, u)' => OnBoard(b, u)
  BY DEF OnBoard
<1>2. Submissions' = Submissions
  BY DEF Submissions
<1>3. ASSUME NEW b \in Bucket, NEW u \in User, OnBoard(b, u)'
      PROVE  \E p \in Submissions : /\ job'[p].user = u
                                    /\ b \in wrote'[p]
                                    /\ job'[p].score = zset'[b][u]
  BY <1>1, <1>3 DEF Origin
<1>4. \A u \in names' : \E p \in Submissions : job'[p].user = u /\ job'[p].named /\ PastName(p)'
  BY DEF Origin
<1> QED
  BY <1>2, <1>3, <1>4 DEF Origin

LEMMA NextOrigin == Control /\ TypeOK /\ Origin /\ [Next]_vars => Origin'
<1> SUFFICES ASSUME Control, TypeOK, Origin, [Next]_vars PROVE Origin'
  OBVIOUS
<1>a. /\ pc \in [Req -> {"idle", "call", "done"} \cup InFlight]
      /\ reply \in [Req -> Reply]
      /\ wrote \in [Req -> SUBSET Bucket]
      /\ zset \in [Bucket -> [User -> Score \cup {NoScore}]]
  BY DEF TypeOK, KeysTypeOK
<1>b. /\ \A p \in Req : pc[p] # "done" => reply[p] \in {"none", "failed"}
      /\ \A p \in Req : pc[p] \in {"idle", "call"} => reply[p] = "none"
  BY DEF Control, SubmitSteps, DeleteSteps
<1>c. Submissions \subseteq Req
  BY DEF Submissions
<1> USE DEF PastName, OnBoard
<1>1. ASSUME NEW p \in Req, ArriveSubmission(p) PROVE Origin'
  BY <1>1, <1>a, <1>b, <1>c, OriginFrame
  DEF ArriveSubmission, Answer, Abandoned, FirstStep, AfterClaim, keys
<1>2. ASSUME NEW p \in Req, Claim(p) PROVE Origin'
  BY <1>2, <1>a, <1>b, <1>c, OriginFrame DEF Claim, Goto, Abandoned, AfterClaim, SetClaim
<1>3. ASSUME NEW p \in Req, ClaimIsTaken(p) PROVE Origin'
  BY <1>3, <1>a, <1>b, <1>c, OriginFrame DEF ClaimIsTaken, Goto, Abandoned, keys
<1>4. ASSUME NEW p \in Req, ReadStanding(p) PROVE Origin'
  BY <1>4, <1>a, <1>b, <1>c, OriginFrame DEF ReadStanding, Goto, Answer, Abandoned, keys
<1>5. ASSUME NEW p \in Req, SetDisplayName(p) PROVE Origin'
  <2>1. PastName(p)' /\ \A q \in Submissions : PastName(q) => PastName(q)'
    BY <1>5, <1>a, <1>c DEF SetDisplayName, Goto, Abandoned
  <2>2. p \in Submissions /\ job[p].named
    BY <1>5 DEF SetDisplayName, Control, SubmitSteps
  <2>3. /\ names' = names \cup {job[p].user}
        /\ UNCHANGED <<zset, job, wrote>>
    BY <1>5 DEF SetDisplayName, SetName
  <2> QED
    BY <2>1, <2>2, <2>3 DEF Origin, Submissions
<1>6. ASSUME NEW p \in Req, CallSubmit(p) PROVE Origin'
  BY <1>6, <1>a, <1>b, <1>c, OriginFrame DEF CallSubmit, keys
<1>7. ASSUME NEW p \in Req, RunScript(p) PROVE Origin'
  <2> DEFINE c == bucket[p]
             v == job[p].user
  <2>1. p \in Submissions /\ c \in Bucket /\ v \in User /\ job[p].score \in Score
    BY <1>7, Payloads DEF RunScript, Control, SubmitSteps, TypeOK
  <2>2. /\ zset' = [zset EXCEPT ![c][v] = Best(@, job[p].score)]
        /\ wrote' = [wrote EXCEPT ![p] = @ \cup {c}]
        /\ UNCHANGED <<job, names>>
    BY <1>7 DEF RunScript, SubmitScript
  <2>3. \A q \in Submissions : wrote[q] \subseteq wrote'[q] /\ (PastName(q) => PastName(q)')
    BY <1>7, <1>a, <1>c DEF RunScript, Goto, Abandoned
  <2>4. /\ \A b \in Bucket, u \in User : <<b, u>> # <<c, v>> => zset'[b][u] = zset[b][u]
        /\ zset'[c][v] = Best(zset[c][v], job[p].score)
    BY <2>1, <2>2, <1>a
  <2>5. zset'[c][v] = job[p].score \/ (zset'[c][v] = zset[c][v] /\ zset[c][v] # NoScore)
    BY <2>4 DEF Best
  <2>6. c \in wrote'[p]
    BY <2>2, <1>a
  <2>7. ASSUME NEW b \in Bucket, NEW u \in User, OnBoard(b, u)'
        PROVE  \E q \in Submissions : /\ job[q].user = u
                                      /\ b \in wrote'[q]
                                      /\ job[q].score = zset'[b][u]
    <3>1. CASE b = c /\ u = v /\ zset'[c][v] = job[p].score
      BY <3>1, <2>1, <2>6
    <3>2. CASE zset'[b][u] = zset[b][u]
      BY <3>2, <2>3, <2>7 DEF Origin
    <3> QED
      BY <3>1, <3>2, <2>4, <2>5
  <2> QED
    BY <2>2, <2>3, <2>7 DEF Origin, Submissions
<1>8. ASSUME NEW p \in Req, AddGame(p) PROVE Origin'
  BY <1>8, <1>a, <1>b, <1>c, OriginFrame DEF AddGame, Pipelined, RegisterGame
<1>9. ASSUME NEW p \in Req, AddBucket(p) PROVE Origin'
  BY <1>9, <1>a, <1>b, <1>c, OriginFrame DEF AddBucket, Goto, Answer, Abandoned, RegisterBucket
<1>10. ASSUME NEW p \in Req, ArriveDeletion(p) PROVE Origin'
  BY <1>10, <1>a, <1>b, <1>c, OriginFrame DEF ArriveDeletion, keys
<1>11. ASSUME NEW p \in Req, ListBuckets(p) PROVE Origin'
  BY <1>11, <1>a, <1>b, <1>c, OriginFrame DEF ListBuckets, Goto, Answer, Abandoned, keys
<1>12. ASSUME NEW p \in Req, RemoveFromBoard(p) PROVE Origin'
  <2>1. PICK c \in todo[p] : RemoveMember(c, job[p].user)
    BY <1>12 DEF RemoveFromBoard
  <2>2. /\ \A b \in Bucket, u \in User : zset'[b][u] # NoScore => zset'[b][u] = zset[b][u]
        /\ UNCHANGED <<job, names, wrote>>
    BY <1>12, <2>1, <1>a DEF RemoveFromBoard, RemoveMember
  <2>3. \A q \in Submissions : PastName(q) => PastName(q)'
    BY <1>12, <1>a, <1>c DEF RemoveFromBoard, Pipelined
  <2> QED
    BY <2>2, <2>3, OriginFrame
<1>13. ASSUME NEW p \in Req, DropName(p) PROVE Origin'
  BY <1>13, <1>a, <1>b, <1>c, OriginFrame DEF DropName, Answer, Abandoned, RemoveName
<1>14. ASSUME NEW p \in Req, GiveUp(p) PROVE Origin'
  BY <1>14, <1>a, <1>b, <1>c, OriginFrame DEF GiveUp, keys
<1>15. ASSUME NEW p \in Req, Lose(p) PROVE Origin'
  BY <1>15, <1>a, <1>b, <1>c, OriginFrame DEF Lose, keys, Abandoned
<1>16. CASE ClockTick
  <2>1. /\ \A b \in Bucket, u \in User : zset'[b][u] # NoScore => zset'[b][u] = zset[b][u]
        /\ UNCHANGED <<job, names, wrote, pc, reply>>
    BY <1>16, <1>a DEF ClockTick, Tick, EmptyBoard, request
  <2> QED
    BY <2>1, OriginFrame
<1>17. CASE UNCHANGED vars
  BY <1>17, OriginFrame DEF vars, keys, request
<1> QED
  BY <1>1, <1>2, <1>3, <1>4, <1>5, <1>6, <1>7, <1>8, <1>9, <1>10, <1>11, <1>12,
     <1>13, <1>14, <1>15, <1>16, <1>17
  DEF Next, Arrive, Serve, Submit, Delete

LEMMA InitOrigin == Init => Origin
BY DEF Init, KeysInit, EmptyBoard, Origin, OnBoard

------------------------------------------------------------------------------
(* Deletions                                                                   *)

(* No step brings a request back to the start, or moves one that is over.      *)
LEMMA RequestsGoForward ==
    ASSUME Control, TypeOK, [Next]_vars, NEW p \in Req
    PROVE  /\ pc[p] # "idle" => pc'[p] # "idle" /\ before'[p] = before[p]
           /\ pc[p] = "done" => pc'[p] = "done" /\ reply'[p] = reply[p]
<1> USE DEF Control, SubmitSteps, DeleteSteps
<1>a. before \in [Req -> SUBSET Req]
  BY DEF TypeOK
<1>1. ASSUME NEW q \in Req, Arrive(q) PROVE pc[q] = "idle"
  BY <1>1 DEF Arrive, ArriveSubmission, ArriveDeletion
<1>2. ASSUME NEW q \in Req, Arrive(q)
      PROVE  \A r \in Req \ {q} : /\ pc'[r] = pc[r]
                                  /\ reply'[r] = reply[r]
                                  /\ before'[r] = before[r]
  BY <1>2, <1>a DEF Arrive, ArriveSubmission, ArriveDeletion, Answer
<1>3. ASSUME NEW q \in Req, Submit(q)
      PROVE  /\ pc[q] \notin {"idle", "done"} /\ pc'[q] # "idle" /\ before' = before
             /\ \A r \in Req \ {q} : pc'[r] = pc[r] /\ reply'[r] = reply[r]
  BY <1>3 DEF Submit, Claim, ClaimIsTaken, ReadStanding, SetDisplayName, CallSubmit, RunScript,
     AddGame, AddBucket, Goto, Answer, Pipelined, AfterClaim
<1>4. ASSUME NEW q \in Req, Delete(q)
      PROVE  /\ pc[q] \notin {"idle", "done"} /\ pc'[q] # "idle" /\ before' = before
             /\ \A r \in Req \ {q} : pc'[r] = pc[r] /\ reply'[r] = reply[r]
  BY <1>4 DEF Delete, ListBuckets, RemoveFromBoard, DropName, Goto, Answer, Pipelined
<1>5. ASSUME NEW q \in Req, GiveUp(q) \/ Lose(q)
      PROVE  /\ pc[q] \notin {"idle", "done"} /\ pc'[q] # "idle" /\ before' = before
             /\ \A r \in Req \ {q} : pc'[r] = pc[r] /\ reply'[r] = reply[r]
  BY <1>5 DEF GiveUp, Lose, InFlight
<1>6. CASE ClockTick \/ UNCHANGED vars
  BY <1>6 DEF ClockTick, vars, request
<1>7. CASE \E q \in Req : Arrive(q)
  BY <1>1, <1>2, <1>7
<1>8. CASE \E q \in Req : Serve(q)
  BY <1>3, <1>4, <1>5, <1>8 DEF Serve
<1> QED
  BY <1>6, <1>7, <1>8 DEF Next

(* The condition of NothingOlderSurvives, and what it promises of one board    *)
(* and of the display name.                                                    *)
Unfailed(d) ==
    \A p \in Submissions \cap before[d] : job[p].user = job[d].user => ~ Abandoned(p)

Younger(d, b) ==
    OnBoard(b, job[d].user) =>
        \E p \in Overlapping(d) : b \in wrote[p] /\ zset[b][job[d].user] = job[p].score

NameIsYounger(d) == job[d].user \in names => \E p \in Overlapping(d) : job[p].named

(* What a deletion has left to remove: nothing older is on a board it has been *)
(* to, or that it has not listed.                                              *)
Erasing ==
    \A d \in Deletions : pc[d] # "idle" =>
        /\ \A p \in before[d] : pc[p] = "done"
        /\ Unfailed(d) =>
              /\ pc[d] = "zrem" => \A b \in Bucket \ todo[d] : Younger(d, b)
              /\ pc[d] = "hdel" => \A b \in Bucket : Younger(d, b)
              /\ reply[d] \in {"erased", "not_found"} =>
                    (\A b \in Bucket : Younger(d, b)) /\ NameIsYounger(d)

LEMMA JobsStay == [Next]_vars => job' = job
BY DEF Next, Arrive, Serve, Submit, Delete, ClockTick, vars, ArriveSubmission, Claim,
       ClaimIsTaken, ReadStanding, SetDisplayName, CallSubmit, RunScript, AddGame, AddBucket,
       ArriveDeletion, ListBuckets, RemoveFromBoard, DropName, GiveUp, Lose

(* Only a running submission for a player changes a standing that remains, or  *)
(* names the player.                                                           *)
LEMMA OnlySubmissionsAdd ==
    ASSUME Control, TypeOK, [Next]_vars, NEW u \in User
    PROVE  /\ \A p \in Req : wrote[p] \subseteq wrote'[p]
           /\ \A b \in Bucket : OnBoard(b, u)' =>
                 \/ zset'[b][u] = zset[b][u]
                 \/ \E p \in Submissions : /\ pc[p] \notin {"idle", "done"}
                                          /\ job[p].user = u
                                          /\ b \in wrote'[p]
                                          /\ zset'[b][u] = job[p].score
           /\ u \in names' =>
                 \/ u \in names
                 \/ \E p \in Submissions : /\ pc[p] \notin {"idle", "done"}
                                          /\ job[p].user = u
                                          /\ job[p].named
<1> DEFINE Grown == \A p \in Req : wrote[p] \subseteq wrote'[p]
           Placed == \A b \in Bucket : OnBoard(b, u)' =>
                 \/ zset'[b][u] = zset[b][u]
                 \/ \E p \in Submissions : /\ pc[p] \notin {"idle", "done"}
                                          /\ job[p].user = u
                                          /\ b \in wrote'[p]
                                          /\ zset'[b][u] = job[p].score
           Renaming == u \in names' =>
                 \/ u \in names
                 \/ \E p \in Submissions : /\ pc[p] \notin {"idle", "done"}
                                          /\ job[p].user = u
                                          /\ job[p].named
           Kept == Grown /\ Placed /\ Renaming
<1>a. /\ zset \in [Bucket -> [User -> Score \cup {NoScore}]]
      /\ wrote \in [Req -> SUBSET Bucket]
  BY DEF TypeOK, KeysTypeOK
<1>b. \A p \in Req : pc[p] \in SubmitSteps => p \in Submissions
  BY DEF Control
<1>1. ASSUME NEW p \in Req, Arrive(p) \/ ClaimIsTaken(p) \/ ReadStanding(p) \/ CallSubmit(p)
                            \/ ListBuckets(p) \/ GiveUp(p) \/ Lose(p)
      PROVE  Kept
  BY <1>1 DEF Arrive, ArriveSubmission, ArriveDeletion, ClaimIsTaken, ReadStanding, CallSubmit,
     ListBuckets, GiveUp, Lose, keys
<1>2. ASSUME NEW p \in Req, Claim(p) \/ AddGame(p) \/ AddBucket(p) PROVE Kept
  BY <1>2 DEF Claim, SetClaim, AddGame, RegisterGame, AddBucket, RegisterBucket
<1>3. ASSUME NEW p \in Req, SetDisplayName(p) PROVE Kept
  <2>1. p \in Submissions /\ job[p].named /\ pc[p] \notin {"idle", "done"}
    BY <1>3, <1>b DEF SetDisplayName, SubmitSteps, Control
  <2> QED
    BY <1>3, <2>1 DEF SetDisplayName, SetName
<1>4. ASSUME NEW p \in Req, RunScript(p) PROVE Kept
  <2>1. p \in Submissions /\ pc[p] \notin {"idle", "done"} /\ bucket[p] \in Bucket
    BY <1>4, <1>b DEF RunScript, SubmitSteps, TypeOK
  <2>2. /\ zset' = [zset EXCEPT ![bucket[p]][job[p].user] = Best(@, job[p].score)]
        /\ wrote' = [wrote EXCEPT ![p] = @ \cup {bucket[p]}]
        /\ names' = names
    BY <1>4 DEF RunScript, SubmitScript
  <2>3. Grown /\ bucket[p] \in wrote'[p]
    BY <2>2, <1>a
  <2>4. ASSUME NEW b \in Bucket
        PROVE  zset'[b][u] = zset[b][u] \/ (b = bucket[p] /\ u = job[p].user /\ zset'[b][u] = job[p].score)
    <3>1. zset'[b][u] = IF b = bucket[p] /\ u = job[p].user THEN Best(zset[b][u], job[p].score) ELSE zset[b][u]
      BY <2>2, <1>a
    <3> QED
      BY <3>1 DEF Best
  <2> QED
    BY <2>1, <2>2, <2>3, <2>4
<1>5. ASSUME NEW p \in Req, RemoveFromBoard(p) \/ DropName(p) PROVE Kept
  BY <1>5, <1>a DEF RemoveFromBoard, RemoveMember, DropName, RemoveName, OnBoard
<1>6. CASE ClockTick
  BY <1>6, <1>a DEF ClockTick, Tick, EmptyBoard, request, OnBoard
<1>7. CASE UNCHANGED vars
  BY <1>7 DEF vars, keys, request
<1> QED
  BY <1>1, <1>2, <1>3, <1>4, <1>5, <1>6, <1>7 DEF Next, Serve, Submit, Delete

(* Once a deletion has arrived, what is younger than it stays so.              *)
LEMMA YoungerStays ==
    ASSUME Control, TypeOK, [Next]_vars, NEW d \in Deletions, pc[d] # "idle",
           \A p \in before[d] : pc[p] = "done"
    PROVE  /\ \A p \in before'[d] : pc'[p] = "done"
           /\ Unfailed(d)' => Unfailed(d)
           /\ \A b \in Bucket : Younger(d, b) => Younger(d, b)'
           /\ NameIsYounger(d) => NameIsYounger(d)'
<1> DEFINE u == job[d].user
<1>1. job' = job /\ Submissions' = Submissions /\ u \in User /\ d \in Req
  BY JobsStay, Payloads DEF Submissions, Deletions
<1>2. before'[d] = before[d] /\ before[d] \subseteq Req
  BY <1>1, RequestsGoForward DEF TypeOK
<1>3. \A p \in Req : /\ pc[p] # "idle" => pc'[p] # "idle"
                     /\ pc[p] = "done" => pc'[p] = "done" /\ reply'[p] = reply[p]
  BY RequestsGoForward
<1>4. \A p \in Submissions : /\ p \in Req
                             /\ pc[p] \notin {"idle", "done"} /\ job[p].user = u => p \in Overlapping(d)'
                             /\ p \in Overlapping(d) => p \in Overlapping(d)'
  BY <1>1, <1>2, <1>3 DEF Overlapping, Submissions
<1>5. Overlapping(d) \subseteq Submissions
  BY DEF Overlapping
<1>6. \A p \in before'[d] : pc'[p] = "done"
  BY <1>2, <1>3
<1>7. Unfailed(d)' => Unfailed(d)
  BY <1>1, <1>2, <1>3 DEF Unfailed, Abandoned
<1>8. ASSUME NEW b \in Bucket, Younger(d, b), OnBoard(b, u)'
      PROVE  \E p \in Overlapping(d)' : b \in wrote'[p] /\ zset'[b][u] = job[p].score
  <2>1. CASE zset'[b][u] = zset[b][u]
    <3>a. OnBoard(b, u)
      BY <1>1, <1>8, <2>1 DEF OnBoard
    <3>1. PICK p \in Overlapping(d) : b \in wrote[p] /\ zset[b][u] = job[p].score
      BY <1>8, <3>a DEF Younger
    <3>2. b \in wrote'[p] /\ p \in Overlapping(d)'
      BY <3>1, <1>1, <1>4, <1>5, OnlySubmissionsAdd
    <3> QED
      BY <2>1, <3>1, <3>2
  <2>2. CASE \E p \in Submissions : /\ pc[p] \notin {"idle", "done"}
                                    /\ job[p].user = u
                                    /\ b \in wrote'[p]
                                    /\ zset'[b][u] = job[p].score
    BY <2>2, <1>4
  <2> QED
    BY <2>1, <2>2, <1>1, <1>8, OnlySubmissionsAdd
<1>9. ASSUME NameIsYounger(d), u \in names'
      PROVE  \E p \in Overlapping(d)' : job[p].named
  <2>1. \/ u \in names
        \/ \E p \in Submissions : pc[p] \notin {"idle", "done"} /\ job[p].user = u /\ job[p].named
    BY <1>1, <1>9, OnlySubmissionsAdd
  <2> QED
    BY <2>1, <1>4, <1>5, <1>9 DEF NameIsYounger
<1>10. ASSUME NEW b \in Bucket, Younger(d, b) PROVE Younger(d, b)'
  BY <1>1, <1>8, <1>10 DEF Younger
<1>11. NameIsYounger(d) => NameIsYounger(d)'
  BY <1>1, <1>9 DEF NameIsYounger
<1> QED
  BY <1>6, <1>7, <1>10, <1>11

(* What the registry does not name is younger than the deletion that lists it. *)
LEMMA UnlistedIsYounger ==
    ASSUME Control, TypeOK, Bookkeeping, Origin, NEW d \in Deletions, Unfailed(d),
           \A p \in before[d] : pc[p] = "done"
    PROVE  /\ \A b \in Bucket \ buckets : Younger(d, b)
           /\ buckets = {} => NameIsYounger(d)
<1> DEFINE u == job[d].user
<1>1. u \in User
  BY Payloads DEF Deletions
<1>2. ASSUME NEW p \in Submissions, job[p].user = u, p \in before[d]
      PROVE  reply[p] \in {"created", "replayed", "rejected"}
  <2>1. p \in Req /\ pc[p] = "done" /\ p \notin Deletions /\ reply[p] # "failed"
    BY <1>2 DEF Unfailed, Abandoned, Submissions, Deletions
  <2> QED
    BY <2>1 DEF Control, Reply
<1>3. ASSUME NEW p \in Submissions, job[p].user = u, p \notin before[d], pc[p] # "idle"
      PROVE  p \in Overlapping(d)
  BY <1>3 DEF Overlapping
<1>4. \A p \in Submissions : p \in Req /\ Bookkept(p) /\ (pc[p] = "idle" => reply[p] = "none")
  BY DEF Bookkeeping, Submissions, Control
<1>5. ASSUME NEW b \in Bucket, b \notin buckets, OnBoard(b, u)
      PROVE  \E p \in Overlapping(d) : b \in wrote[p] /\ zset[b][u] = job[p].score
  <2>1. PICK p \in Submissions : job[p].user = u /\ b \in wrote[p] /\ job[p].score = zset[b][u]
    BY <1>1, <1>5 DEF Origin
  <2>2. Bookkept(p) /\ pc[p] # "idle"
    BY <2>1, <1>4 DEF Bookkept
  <2>3. p \notin before[d]
    BY <2>1, <2>2, <1>2, <1>5 DEF Bookkept
  <2> QED
    BY <2>1, <2>2, <2>3, <1>3
<1>6. ASSUME buckets = {}, u \in names PROVE \E p \in Overlapping(d) : job[p].named
  <2>1. PICK p \in Submissions : job[p].user = u /\ job[p].named /\ PastName(p)
    BY <1>6 DEF Origin
  <2>2. Bookkept(p) /\ pc[p] # "idle"
    BY <2>1, <1>4 DEF PastName
  <2>3. reply[p] # "created"
    BY <2>2, <1>6 DEF Bookkept, Reached
  <2>4. p \notin before[d]
    BY <2>1, <2>3, <1>2 DEF PastName
  <2> QED
    BY <2>1, <2>2, <2>4, <1>3
<1> QED
  BY <1>5, <1>6 DEF Younger, NameIsYounger

(* A step moves a deletion only when it is one of its own.                     *)
LEMMA StepsOfDeletions ==
    ASSUME Control, TypeOK, [Next]_vars, NEW d \in Deletions
    PROVE  \/ /\ pc'[d] = pc[d]
              /\ todo'[d] = todo[d]
              /\ reply'[d] = reply[d]
           \/ ArriveDeletion(d) \/ Delete(d) \/ GiveUp(d) \/ Lose(d)
<1> DEFINE Same == pc'[d] = pc[d] /\ todo'[d] = todo[d] /\ reply'[d] = reply[d]
<1>a. d \in Req /\ d \notin Submissions /\ todo \in [Req -> SUBSET Bucket]
  BY DEF Deletions, Submissions, TypeOK
<1>b. \A p \in Req : pc[p] \in SubmitSteps => p \in Submissions
  BY DEF Control
<1> USE DEF Control, SubmitSteps, DeleteSteps
<1>1. ASSUME NEW p \in Req, ArriveSubmission(p) PROVE Same
  BY <1>1, <1>a DEF ArriveSubmission, Answer
<1>2. ASSUME NEW p \in Req, ArriveDeletion(p) PROVE Same \/ ArriveDeletion(d)
  BY <1>2, <1>a DEF ArriveDeletion
<1>3. ASSUME NEW p \in Req, Submit(p) PROVE Same
  <2>1. p # d
    BY <1>3, <1>a, <1>b DEF Submit, Claim, ClaimIsTaken, ReadStanding, SetDisplayName, CallSubmit,
       RunScript, AddGame, AddBucket
  <2> QED
    BY <1>3, <1>a, <2>1 DEF Submit, Claim, ClaimIsTaken, ReadStanding, SetDisplayName, CallSubmit,
       RunScript, AddGame, AddBucket, Goto, Answer, Pipelined
<1>4. ASSUME NEW p \in Req, Delete(p) PROVE Same \/ Delete(d)
  BY <1>4, <1>a DEF Delete, ListBuckets, RemoveFromBoard, DropName, Goto, Answer, Pipelined
<1>5. ASSUME NEW p \in Req, GiveUp(p) \/ Lose(p) PROVE Same \/ GiveUp(d) \/ Lose(d)
  BY <1>5, <1>a DEF GiveUp, Lose
<1>6. CASE ClockTick \/ UNCHANGED vars
  BY <1>6 DEF ClockTick, vars, request
<1> QED
  BY <1>1, <1>2, <1>3, <1>4, <1>5, <1>6 DEF Next, Arrive, Serve

LEMMA NextErasing ==
    Control /\ TypeOK /\ Bookkeeping /\ Origin /\ Erasing /\ [Next]_vars => Erasing'
<1> SUFFICES ASSUME Control, TypeOK, Bookkeeping, Origin, Erasing, [Next]_vars PROVE Erasing'
  OBVIOUS
<1>a. job' = job /\ Deletions' = Deletions
  BY JobsStay DEF Deletions
<1> SUFFICES ASSUME NEW d \in Deletions, pc'[d] # "idle"
             PROVE  /\ \A p \in before'[d] : pc'[p] = "done"
                    /\ Unfailed(d)' =>
                          /\ pc'[d] = "zrem" => \A b \in Bucket \ todo'[d] : Younger(d, b)'
                          /\ pc'[d] = "hdel" => \A b \in Bucket : Younger(d, b)'
                          /\ reply'[d] \in {"erased", "not_found"} =>
                                (\A b \in Bucket : Younger(d, b)') /\ NameIsYounger(d)'
  BY <1>a DEF Erasing
<1>b. d \in Req /\ job[d].user \in User
  BY Payloads DEF Deletions
<1>c. /\ pc \in [Req -> {"idle", "done"} \cup SubmitSteps \cup DeleteSteps]
      /\ reply \in [Req -> Reply]
      /\ \A p \in Req : pc[p] # "done" => reply[p] \in {"none", "failed"}
      /\ pc[d] \notin SubmitSteps
  BY <1>b DEF Control, Submissions, Deletions
<1>d. /\ todo \in [Req -> SUBSET Bucket]
      /\ before \in [Req -> SUBSET Req]
      /\ zset \in [Bucket -> [User -> Score \cup {NoScore}]]
  BY DEF TypeOK, KeysTypeOK
<1>1. CASE pc[d] = "idle"
  <2>1. ArriveDeletion(d)
    BY <1>1, StepsOfDeletions, <1>b
    DEF Delete, ListBuckets, RemoveFromBoard, DropName, GiveUp, Lose, InFlight
  <2>2. /\ pc'[d] = "smembers" /\ reply'[d] = reply[d]
        /\ before'[d] = {q \in Req : pc[q] = "done"}
        /\ \A p \in Req : pc[p] = "done" => pc'[p] = "done"
    BY <2>1, <1>b, <1>c, <1>d DEF ArriveDeletion, Over
  <2> QED
    BY <1>1, <1>b, <1>c, <2>2
<1>2. CASE pc[d] # "idle"
  <2>1. \A p \in before[d] : pc[p] = "done"
    BY <1>2 DEF Erasing
  <2>2. /\ \A p \in before'[d] : pc'[p] = "done"
        /\ Unfailed(d)' => Unfailed(d)
    BY <1>2, <2>1, YoungerStays
  <2>3. /\ \A b \in Bucket : Younger(d, b) => Younger(d, b)'
        /\ NameIsYounger(d) => NameIsYounger(d)'
    BY <1>2, <2>1, YoungerStays
  <2> SUFFICES ASSUME Unfailed(d)
               PROVE  /\ pc'[d] = "zrem" => \A b \in Bucket \ todo'[d] : Younger(d, b)'
                      /\ pc'[d] = "hdel" => \A b \in Bucket : Younger(d, b)'
                      /\ reply'[d] \in {"erased", "not_found"} =>
                            (\A b \in Bucket : Younger(d, b)') /\ NameIsYounger(d)'
    BY <2>2
  <2>4. /\ pc[d] = "zrem" => \A b \in Bucket \ todo[d] : Younger(d, b)
        /\ pc[d] = "hdel" => \A b \in Bucket : Younger(d, b)
        /\ reply[d] \in {"erased", "not_found"} =>
              (\A b \in Bucket : Younger(d, b)) /\ NameIsYounger(d)
    BY <1>2 DEF Erasing
  <2>5. CASE pc'[d] = pc[d] /\ todo'[d] = todo[d] /\ reply'[d] = reply[d]
    BY <2>3, <2>4, <2>5
  <2>6. CASE ListBuckets(d)
    <3>1. /\ \A b \in Bucket \ buckets : Younger(d, b)
          /\ buckets = {} => NameIsYounger(d)
      BY <2>1, UnlistedIsYounger
    <3>2. buckets = {} \/ (pc'[d] # "hdel" /\ todo'[d] = buckets /\ reply'[d] = reply[d])
      BY <2>6, <1>b, <1>c, <1>d DEF ListBuckets, Goto
    <3>3. pc[d] = "smembers" /\ reply[d] \in {"none", "failed"} /\ (buckets = {} => pc'[d] = "done")
      BY <2>6, <1>b, <1>c DEF ListBuckets, Answer
    <3> QED
      BY <2>3, <3>1, <3>2, <3>3
  <2>7. CASE RemoveFromBoard(d)
    <3>1. PICK b \in todo[d] :
            /\ RemoveMember(b, job[d].user)
            /\ todo' = [todo EXCEPT ![d] = @ \ {b}]
            /\ Pipelined(d, IF todo[d] = {b} THEN "hdel" ELSE "zrem")
      BY <2>7 DEF RemoveFromBoard
    <3>2. b \in Bucket /\ ~ OnBoard(b, job[d].user)'
      BY <3>1, <1>a, <1>b, <1>d DEF RemoveMember, OnBoard
    <3>3. Younger(d, b)'
      BY <3>2 DEF Younger
    <3>4. /\ todo'[d] = todo[d] \ {b}
          /\ pc'[d] = "hdel" => todo[d] = {b}
          /\ pc[d] = "zrem" /\ reply'[d] = reply[d]
      BY <3>1, <2>7, <1>b, <1>c, <1>d DEF RemoveFromBoard, Pipelined
    <3>5. reply'[d] \notin {"erased", "not_found"}
      BY <3>4, <1>b, <1>c
    <3> QED
      BY <2>3, <2>4, <3>3, <3>4, <3>5
  <2>8. CASE DropName(d)
    <3>1. pc[d] = "hdel" /\ job[d].user \notin names' /\ pc'[d] = "done"
      BY <2>8, <1>b, <1>c DEF DropName, RemoveName, Answer
    <3>2. NameIsYounger(d)'
      BY <3>1, <1>a DEF NameIsYounger
    <3> QED
      BY <2>3, <2>4, <3>1, <3>2
  <2>9. CASE GiveUp(d) \/ Lose(d)
    <3>1. /\ reply'[d] \in {"failed", reply[d]}
          /\ pc'[d] \in {pc[d], "done"}
          /\ todo'[d] = todo[d]
      BY <2>9, <1>b, <1>c DEF GiveUp, Lose
    <3> QED
      BY <2>3, <2>4, <3>1
  <2>10. ~ ArriveDeletion(d)
    BY <1>2 DEF ArriveDeletion
  <2> QED
    BY <2>5, <2>6, <2>7, <2>8, <2>9, <2>10, StepsOfDeletions DEF Delete
<1> QED
  BY <1>1, <1>2

(* NothingOlderSurvives: for every instance, whatever a player still has after *)
(* an answered deletion comes from a submission that was not over when the     *)
(* deletion arrived, unless an older one had failed.                           *)
THEOREM DeletionsLeaveNothingOlder == Spec => []NothingOlderSurvives
<1> DEFINE Inv == Control /\ TypeOK /\ FanOut /\ Bookkeeping /\ Origin /\ Erasing
<1>1. Init => Erasing
  BY DEF Init, Erasing, Deletions
<1>2. Init => Inv
  BY <1>1, InitControl, InitTypeOK, InitFanOut, InitBookkeeping, InitOrigin
<1>3. Inv /\ [Next]_vars => Inv'
  BY NextControl, NextTypeOK, NextFanOut, NextBookkeeping, NextOrigin, NextErasing
<1>4. Inv => NothingOlderSurvives
  <2> SUFFICES ASSUME Inv, NEW d \in Deletions, reply[d] \in {"erased", "not_found"}, Unfailed(d)
               PROVE  (\A b \in Bucket : Younger(d, b)) /\ NameIsYounger(d)
    BY DEF NothingOlderSurvives, Unfailed, Younger, NameIsYounger
  <2>1. pc[d] # "idle"
    BY DEF Control, Deletions
  <2> QED
    BY <2>1 DEF Erasing
<1> QED
  BY <1>2, <1>3, <1>4, PTL DEF Spec

------------------------------------------------------------------------------
(* The day before the week                                                     *)

LEMMA DivisionIsMonotone ==
    ASSUME NEW n \in Nat \ {0}, NEW a \in Nat, NEW b \in Nat, a <= b
    PROVE  a \div n <= b \div n
<1>1. a = n * (a \div n) + (a % n) /\ a % n \in 0 .. n - 1 /\ a \div n \in Nat
  OBVIOUS
<1>2. b = n * (b \div n) + (b % n) /\ b % n \in 0 .. n - 1 /\ b \div n \in Nat
  OBVIOUS
<1> DEFINE x == a \div n
           y == b \div n
<1>3. SUFFICES ASSUME y + 1 <= x PROVE FALSE
  BY <1>1, <1>2
<1> HIDE DEF x, y
<1>4. x \in Nat /\ y \in Nat
  BY <1>1, <1>2 DEF x, y
<1>5. n * (y + 1) <= n * x
  BY <1>3, <1>4
<1>6. n * (y + 1) = n * y + n
  BY <1>4
<1>7. n * x <= a /\ b < n * y + n
  BY <1>1, <1>2, <1>4 DEF x, y
<1> QED
  BY <1>4, <1>5, <1>6, <1>7

(* A division is determined by its bounds.                                     *)
LEMMA DivisionIs ==
    ASSUME NEW n \in Nat \ {0}, NEW a \in Nat, NEW k \in Nat, NEW r \in 0 .. n - 1,
           a = n * k + r
    PROVE  a \div n = k
  OBVIOUS

LEMMA DivisionOfDivision ==
    ASSUME NEW m \in Nat \ {0}, NEW n \in Nat \ {0}, NEW a \in Nat
    PROVE  a \div (m * n) = (a \div m) \div n
<1> DEFINE q == a \div m
           r == a % m
           k == q \div n
           t == q % n
<1>1. a = m * q + r /\ r \in 0 .. m - 1 /\ q \in Nat
  OBVIOUS
<1>2. q = n * k + t /\ t \in 0 .. n - 1 /\ k \in Nat
  BY <1>1
<1> HIDE DEF q, r, k, t
<1>3. a = (m * n) * k + (m * t + r)
  BY <1>1, <1>2
<1>4. m * t <= m * (n - 1)
  BY <1>2
<1>5. m * (n - 1) = m * n - m
  OBVIOUS
<1>6. m * t + r \in 0 .. (m * n) - 1
  BY <1>1, <1>2, <1>4, <1>5
<1>7. m * n \in Nat \ {0}
  OBVIOUS
<1> DEFINE N == m * n
           s == m * t + r
<1>8. N \in Nat \ {0} /\ s \in 0 .. N - 1 /\ a = N * k + s
  BY <1>3, <1>6, <1>7
<1> HIDE DEF N, s
<1>9. a \div N = k
  BY <1>2, <1>8, DivisionIs
<1> QED
  BY <1>9 DEF N, k, q

LEMMA SameDaySameWeek ==
    ASSUME NEW at \in Moment, NEW when \in Moment, at \div DayLength = when \div DayLength
    PROVE  WindowSuffix("weekly", at) = WindowSuffix("weekly", when)
<1>1. at \in Nat /\ when \in Nat /\ DayLength \in Nat \ {0} /\ DaysPerWeek \in Nat \ {0}
  BY CalendarAssumption DEF Moment
<1>2. at \div (DayLength * DaysPerWeek) = when \div (DayLength * DaysPerWeek)
  BY <1>1, DivisionOfDivision
<1> QED
  BY <1>2 DEF WindowSuffix

LEMMA SameBucketSameDay ==
    ASSUME NEW at \in Moment, NEW when \in Moment,
           WindowSuffix("daily", at) = WindowSuffix("daily", when)
    PROVE  at \div DayLength = when \div DayLength
<1>1. /\ WindowSuffix("daily", at) = <<"d", at \div DayLength>>
      /\ WindowSuffix("daily", when) = <<"d", when \div DayLength>>
  BY DEF WindowSuffix
<1> QED
  BY <1>1

(* The request has written to no board of a day later than that of moment at.  *)
NoDayAfter(p, at) ==
    \A day \in Moment :
        WindowSuffix("daily", day) \in wrote[p] => day \div DayLength <= at \div DayLength

NoDay(p) == \A day \in Moment : WindowSuffix("daily", day) \notin wrote[p]

(* The fan-out reads the clock of its process for the day before it does for   *)
(* the week.                                                                   *)
InOrder(p) ==
    /\ pc[p] \in {"call", "eval"} /\ win[p] <= 2 => NoDay(p)
    /\ pc[p] \in {"sadd_games", "sadd_buckets"} /\ win[p] = 1 => NoDay(p)
    /\ NoDayAfter(p, Clock(p))
    /\ pc[p] \in {"eval", "sadd_games", "sadd_buckets"} =>
          \E at \in Moment : /\ at <= Clock(p)
                             /\ bucket[p] = WindowSuffix(WindowOrder[win[p]], at)
                             /\ win[p] = 3 => NoDayAfter(p, at)
    /\ (pc[p] \in {"sadd_games", "sadd_buckets"} /\ win[p] = 3) \/ reply[p] = "created" =>
          \E at \in Moment : /\ at <= Clock(p)
                             /\ WindowSuffix("weekly", at) \in wrote[p]
                             /\ NoDayAfter(p, at)

Ordered == \A p \in Req : InOrder(p)

LEMMA OrderedFrame ==
    ASSUME Ordered, NEW p \in Req, InOrder(p)', now' = now,
           \A q \in Req \ {p} : /\ pc'[q] = pc[q]
                                /\ win'[q] = win[q]
                                /\ bucket'[q] = bucket[q]
                                /\ reply'[q] = reply[q]
                                /\ wrote'[q] = wrote[q]
    PROVE  Ordered'
<1>1. ASSUME NEW q \in Req \ {p} PROVE InOrder(q)'
  <2>1. InOrder(q)
    BY DEF Ordered
  <2>2. /\ Clock(q)' = Clock(q)
        /\ NoDay(q)' <=> NoDay(q)
        /\ \A at : NoDayAfter(q, at)' <=> NoDayAfter(q, at)
    BY DEF Clock, NoDay, NoDayAfter
  <2>3. NoDayAfter(q, Clock(q))' <=> NoDayAfter(q, Clock(q))
    BY <2>2 DEF NoDayAfter
  <2> QED
    BY <2>1, <2>2, <2>3 DEF InOrder
<1> QED
  BY <1>1 DEF Ordered

LEMMA NextOrdered ==
    Control /\ TypeOK /\ FanOut /\ Bookkeeping /\ Ordered /\ [Next]_vars => Ordered'
<1> SUFFICES ASSUME Control, TypeOK, FanOut, Bookkeeping, Ordered, [Next]_vars PROVE Ordered'
  OBVIOUS
<1>a. /\ pc \in [Req -> {"idle", "call", "done"} \cup InFlight]
      /\ win \in [Req -> 1 .. 3]
      /\ bucket \in [Req -> Bucket]
      /\ reply \in [Req -> Reply]
      /\ wrote \in [Req -> SUBSET Bucket]
      /\ now \in Time
  BY DEF TypeOK, KeysTypeOK
<1>b. \A p \in Req : InOrder(p)
  BY DEF Ordered
<1>c. \A p \in Req : pc[p] # "done" => reply[p] \in {"none", "failed"}
  BY DEF Control, SubmitSteps, DeleteSteps
<1>d. \A p \in Req : /\ pc[p] \in {"idle", "claim", "hset"} => win[p] = 1
                     /\ pc[p] \in {"idle", "claim", "hset"} => NoDay(p)
  BY DEF FanOut, Bookkeeping, Bookkept, NoDay
<1>e. \A p \in Req : Clock(p) \in Moment
  BY <1>a, ClockTyping
<1> USE DEF InOrder, NoDay, NoDayAfter, Clock
<1>1. ASSUME NEW p \in Req, ArriveSubmission(p) PROVE Ordered'
  BY <1>1, <1>a, <1>b, <1>c, <1>d, OrderedFrame
  DEF ArriveSubmission, Answer, Abandoned, FirstStep, AfterClaim
<1>2. ASSUME NEW p \in Req, Claim(p) PROVE Ordered'
  BY <1>2, <1>a, <1>b, <1>c, <1>d, OrderedFrame DEF Claim, Goto, Abandoned, AfterClaim
<1>3. ASSUME NEW p \in Req, ClaimIsTaken(p) PROVE Ordered'
  BY <1>3, <1>a, <1>b, <1>c, OrderedFrame DEF ClaimIsTaken, Goto, Abandoned
<1>4. ASSUME NEW p \in Req, ReadStanding(p) PROVE Ordered'
  BY <1>4, <1>a, <1>b, <1>c, OrderedFrame DEF ReadStanding, Goto, Answer, Abandoned
<1>5. ASSUME NEW p \in Req, SetDisplayName(p) PROVE Ordered'
  BY <1>5, <1>a, <1>b, <1>c, <1>d, OrderedFrame DEF SetDisplayName, Goto, Abandoned
<1>6. ASSUME NEW p \in Req, CallSubmit(p) PROVE Ordered'
  <2>1. /\ pc[p] = "call" /\ pc' = [pc EXCEPT ![p] = "eval"]
        /\ bucket' = [bucket EXCEPT ![p] = WindowSuffix(WindowOrder[win[p]], Clock(p))]
        /\ UNCHANGED <<now, win, reply, wrote>>
    BY <1>6 DEF CallSubmit
  <2>2. /\ Clock(p) \in Moment /\ Clock(p) <= Clock(p)
        /\ bucket'[p] = WindowSuffix(WindowOrder[win[p]], Clock(p))
        /\ NoDayAfter(p, Clock(p))
    BY <2>1, <1>a, <1>b, <1>e, CalendarAssumption DEF Moment
  <2>3. InOrder(p)'
    BY <2>1, <2>2, <1>a, <1>b, <1>c
  <2> QED
    BY <2>1, <2>3, <1>a, OrderedFrame
<1>7. ASSUME NEW p \in Req, RunScript(p) PROVE Ordered'
  <2>1. /\ pc[p] = "eval" /\ win' = win /\ bucket' = bucket /\ reply' = reply /\ now' = now
        /\ pc' = [pc EXCEPT ![p] = IF Abandoned(p) THEN "done" ELSE "sadd_games"]
        /\ wrote' = [wrote EXCEPT ![p] = @ \cup {bucket[p]}]
    BY <1>7 DEF RunScript, Goto
  <2>2. PICK at \in Moment : /\ at <= Clock(p)
                             /\ bucket[p] = WindowSuffix(WindowOrder[win[p]], at)
                             /\ win[p] = 3 => NoDayAfter(p, at)
    BY <2>1, <1>b
  <2>3. wrote'[p] = wrote[p] \cup {bucket[p]} /\ win[p] \in 1 .. 3
    BY <2>1, <1>a
  <2>4. \A day \in Moment : win[p] # 2 => WindowSuffix("daily", day) # bucket[p]
    BY <2>2, <2>3, SuffixTellsWindow, RollingWindows
  <2>5. \A day \in Moment : win[p] = 2 /\ WindowSuffix("daily", day) = bucket[p] =>
                               day \div DayLength = at \div DayLength
    BY <2>2, SameBucketSameDay, RollingWindows
  <2>6. at \div DayLength <= Clock(p) \div DayLength
    BY <2>2, <1>e, CalendarAssumption, DivisionIsMonotone DEF Moment
  <2>7. /\ win[p] # 2 /\ NoDay(p) => NoDay(p)'
        /\ \A c : win[p] # 2 /\ NoDayAfter(p, c) => NoDayAfter(p, c)'
    BY <2>3, <2>4
  <2>8. NoDayAfter(p, Clock(p))'
    <3>1. \A day \in Moment : WindowSuffix("daily", day) \in wrote'[p] =>
                                 day \div DayLength <= Clock(p) \div DayLength
      BY <2>1, <2>3, <2>4, <2>5, <2>6, <1>b
    <3> QED
      BY <3>1, <2>1
  <2>9. win[p] = 3 => WindowSuffix("weekly", at) \in wrote'[p] /\ NoDayAfter(p, at)'
    BY <2>2, <2>3, <2>7, RollingWindows
  <2>10. Clock(p)' = Clock(p) /\ reply'[p] # "created"
    BY <2>1, <1>c
  <2>11. InOrder(p)'
    BY <2>1, <2>2, <2>3, <2>7, <2>8, <2>9, <2>10, <1>a, <1>b
  <2> QED
    BY <2>1, <2>11, <1>a, OrderedFrame
<1>8. ASSUME NEW p \in Req, AddGame(p) PROVE Ordered'
  BY <1>8, <1>a, <1>b, <1>c, OrderedFrame DEF AddGame, Pipelined
<1>9. ASSUME NEW p \in Req, AddBucket(p) PROVE Ordered'
  BY <1>9, <1>a, <1>b, <1>c, OrderedFrame DEF AddBucket, Goto, Answer, Abandoned
<1>10. ASSUME NEW p \in Req, ArriveDeletion(p) PROVE Ordered'
  BY <1>10, <1>a, <1>b, <1>c, OrderedFrame DEF ArriveDeletion
<1>11. ASSUME NEW p \in Req, ListBuckets(p) PROVE Ordered'
  BY <1>11, <1>a, <1>b, <1>c, OrderedFrame DEF ListBuckets, Goto, Answer, Abandoned
<1>12. ASSUME NEW p \in Req, RemoveFromBoard(p) PROVE Ordered'
  BY <1>12, <1>a, <1>b, <1>c, OrderedFrame DEF RemoveFromBoard, Pipelined
<1>13. ASSUME NEW p \in Req, DropName(p) PROVE Ordered'
  BY <1>13, <1>a, <1>b, <1>c, OrderedFrame DEF DropName, Answer, Abandoned
<1>14. ASSUME NEW p \in Req, GiveUp(p) PROVE Ordered'
  BY <1>14, <1>a, <1>b, <1>c, OrderedFrame DEF GiveUp
<1>15. ASSUME NEW p \in Req, Lose(p) PROVE Ordered'
  BY <1>15, <1>a, <1>b, <1>c, OrderedFrame DEF Lose
<1>16. CASE ClockTick
  <2> SUFFICES ASSUME NEW p \in Req PROVE InOrder(p)'
    BY DEF Ordered
  <2>1. now' = now + 1 /\ UNCHANGED <<pc, win, bucket, reply, wrote>>
    BY <1>16 DEF ClockTick, Tick, request
  <2>2. now' \in Time
    BY <1>16, <1>a, CalendarAssumption DEF ClockTick, Tick, Time
  <2>3. Clock(p)' \in Moment /\ Clock(p) <= Clock(p)'
    <3>1. Ahead[p] \in 0 .. MaxSkew
      BY ClockAssumption
    <3> QED
      BY <3>1, <2>1, <2>2, <1>a, CalendarAssumption DEF Moment, Time
  <2>4. Clock(p) \div DayLength <= Clock(p)' \div DayLength
    BY <2>3, <1>e, CalendarAssumption, DivisionIsMonotone DEF Moment
  <2>5. NoDayAfter(p, Clock(p))'
    <3>1. ASSUME NEW day \in Moment, WindowSuffix("daily", day) \in wrote[p]
          PROVE  day \div DayLength <= Clock(p)' \div DayLength
      <4>1. day \div DayLength <= Clock(p) \div DayLength
        BY <3>1, <1>b
      <4>2. /\ day \div DayLength \in Int
            /\ Clock(p) \div DayLength \in Int
            /\ Clock(p)' \div DayLength \in Int
        BY <2>3, <1>e, CalendarAssumption DEF Moment
      <4> HIDE DEF Clock
      <4> QED
        BY <4>1, <4>2, <2>4
    <3> QED
      BY <3>1, <2>1
  <2>6. \A at \in Moment : at <= Clock(p) => at <= Clock(p)'
    BY <2>3, <1>e, CalendarAssumption DEF Moment
  <2>7. /\ NoDay(p) => NoDay(p)'
        /\ \A at : NoDayAfter(p, at) => NoDayAfter(p, at)'
    BY <2>1
  <2> HIDE DEF NoDay, NoDayAfter, Clock
  <2> QED
    BY <2>1, <2>5, <2>6, <2>7, <1>b
<1>17. CASE UNCHANGED vars
  BY <1>17, <1>b DEF vars, keys, request, Ordered
<1> QED
  BY <1>1, <1>2, <1>3, <1>4, <1>5, <1>6, <1>7, <1>8, <1>9, <1>10, <1>11, <1>12,
     <1>13, <1>14, <1>15, <1>16, <1>17
  DEF Next, Arrive, Serve, Submit, Delete

LEMMA InitOrdered == Init => Ordered
BY DEF Init, Ordered, InOrder, NoDay, NoDayAfter

(* RollingBoardsAgree: for every instance, a player on today's board is on     *)
(* this week's board, at least as good, once every submission was answered.    *)
THEOREM TodayIsInThisWeek == Spec => []RollingBoardsAgree
<1> DEFINE Inv == Control /\ TypeOK /\ FanOut /\ Bookkeeping /\ Origin /\ Ordered
<1>1. Init => Inv
  BY InitControl, InitTypeOK, InitFanOut, InitBookkeeping, InitOrigin, InitOrdered
<1>2. Inv /\ [Next]_vars => Inv'
  BY NextControl, NextTypeOK, NextFanOut, NextBookkeeping, NextOrigin, NextOrdered
<1>3. Inv /\ LandedScoresStand => RollingBoardsAgree
  <2> SUFFICES ASSUME Inv, LandedScoresStand, NEW q \in Req, NEW u \in User,
                      Untargeted(u), Settled(u),
                      \A p \in Submissions : job[p].user = u => Ahead[p] <= Ahead[q],
                      OnBoard(WindowSuffix("daily", Clock(q)), u)
               PROVE  AtLeast(WindowSuffix("weekly", Clock(q)), u,
                              zset[WindowSuffix("daily", Clock(q))][u])
    BY DEF RollingBoardsAgree
  <2> DEFINE today == WindowSuffix("daily", Clock(q))
             thisWeek == WindowSuffix("weekly", Clock(q))
  <2>1. now \in Time /\ Clock(q) \in Moment
    BY ClockTyping DEF TypeOK, KeysTypeOK
  <2>2. today \in Bucket /\ thisWeek \in Bucket
    BY <2>1 DEF Bucket, Window
  <2>3. PICK p \in Submissions : /\ job[p].user = u
                                 /\ today \in wrote[p]
                                 /\ job[p].score = zset[today][u]
    BY <2>2 DEF Origin
  <2>4. p \in Req /\ Bookkept(p) /\ InOrder(p)
    BY DEF Submissions, Bookkeeping, Ordered
(* The submission was answered, and nothing but 201 follows a written board.   *)
  <2>5. reply[p] = "created"
    BY <2>3, <2>4 DEF Settled, Bookkept
  <2>6. PICK at \in Moment : /\ at <= Clock(p)
                             /\ WindowSuffix("weekly", at) \in wrote[p]
                             /\ NoDayAfter(p, at)
    BY <2>4, <2>5 DEF InOrder
  <2>7. at <= Clock(q)
    <3>1. Ahead[p] \in 0 .. MaxSkew /\ Ahead[q] \in 0 .. MaxSkew /\ Ahead[p] <= Ahead[q]
      BY <2>3, <2>4, ClockAssumption
    <3> QED
      BY <3>1, <2>1, <2>6, CalendarAssumption DEF Clock, Time, Moment
  <2>8. at \div DayLength = Clock(q) \div DayLength
    <3>1. Clock(q) \div DayLength <= at \div DayLength
      BY <2>1, <2>3, <2>6 DEF NoDayAfter
    <3>2. at \div DayLength <= Clock(q) \div DayLength
      BY <2>1, <2>7, CalendarAssumption, DivisionIsMonotone DEF Moment
    <3>3. at \div DayLength \in Int /\ Clock(q) \div DayLength \in Int
      BY <2>1, CalendarAssumption DEF Moment
    <3> QED
      BY <3>1, <3>2, <3>3
  <2>9. thisWeek \in wrote[p]
    BY <2>1, <2>6, <2>8, SameDaySameWeek
  <2>10. \E window \in Window, r \in Req : thisWeek = WindowSuffix(window, Clock(r))
    BY DEF Window
  <2> QED
    BY <2>2, <2>3, <2>9, <2>10 DEF LandedScoresStand
<1>4. Spec => []Inv
  BY <1>1, <1>2, PTL DEF Spec
<1> QED
  BY <1>3, <1>4, LandedScoresAreKept, PTL
=============================================================================
