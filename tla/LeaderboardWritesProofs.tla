----------------------- MODULE LeaderboardWritesProofs -----------------------
(* Proofs about LeaderboardWrites, for every set of users, keys, requests and  *)
(* jobs, every calendar and every retention.                                   *)
EXTENDS LeaderboardWrites, TLAPS

LEMMA BucketTyping ==
    /\ AllTimeBucket \in Bucket
    /\ \A i \in 1 .. 3, at \in Moment : WindowSuffix(WindowOrder[i], at) \in Bucket
    /\ \A i \in 1 .. 3 : WindowOrder[i] \in Window
    /\ \A i \in 1 .. 3 : TtlArgument(TtlFor(WindowOrder[i])) \in Nat
<1>1. 0 \in Moment
  BY CalendarAssumption DEF Moment
<1>2. \A i \in 1 .. 3 : WindowOrder[i] \in Window
  BY DEF WindowOrder, Window
<1>3. AllTimeBucket = WindowSuffix("all_time", 0)
  BY DEF WindowSuffix
<1>4. "all_time" \in Window
  BY DEF Window
<1>5. \A window \in Window, at \in Moment : WindowSuffix(window, at) \in Bucket
  BY DEF Bucket
<1>6. \A i \in 1 .. 3 : TtlArgument(TtlFor(WindowOrder[i])) \in Nat
  BY <1>2, RetentionAssumption DEF TtlArgument, TtlFor, NoTtl, Window
<1> QED
  BY <1>1, <1>2, <1>3, <1>4, <1>5, <1>6

(* Every clock shows a moment, ahead of now by the skew at most.               *)
LEMMA ClockTyping ==
    ASSUME now \in Time, NEW p \in Req
    PROVE  Clock(p) \in Moment /\ now <= Clock(p) /\ Clock(p) <= now + MaxSkew
<1>1. Ahead[p] \in 0 .. MaxSkew
  BY ClockAssumption
<1> QED
  BY <1>1, CalendarAssumption DEF Clock, Moment, Time

(* Which steps belong to which kind of request.  No score reaches a command    *)
(* before submit_score validated it, a key is only claimed when there is one,  *)
(* and a request that still runs has no answer other than its client's 503.    *)
SubmitSteps == {"claim", "standings", "hset", "call", "eval", "sadd_games", "sadd_buckets"}

DeleteSteps == {"smembers", "zrem", "hdel"}

Control ==
    /\ job \in [Req -> Job]
    /\ pc \in [Req -> {"idle", "done"} \cup SubmitSteps \cup DeleteSteps]
    /\ \A p \in Req : pc[p] \in SubmitSteps => p \in Submissions /\ ValidScore(job[p].score)
    /\ \A p \in Req : pc[p] = "claim" => job[p].key # NoKey
    /\ \A p \in Req : pc[p] = "hset" => job[p].named
    /\ \A p \in Req : pc[p] \in DeleteSteps => p \in Deletions
    /\ reply \in [Req -> Reply]
    /\ \A p \in Req : pc[p] # "done" => reply[p] \in {"none", "failed"}
    /\ \A p \in Req : pc[p] \in {"idle", "call"} => reply[p] = "none"
    /\ \A p \in Req : pc[p] = "done" => reply[p] # "none"
    /\ \A p \in Req : reply[p] \in {"erased", "not_found"} => p \in Deletions

LEMMA InitControl == Init => Control
  BY DEF Init, Control, SubmitSteps, DeleteSteps, Reply

LEMMA NextControl == Control /\ [Next]_vars => Control'
<1> SUFFICES ASSUME Control, [Next]_vars PROVE Control'
  OBVIOUS
<1> USE DEF Control, SubmitSteps, DeleteSteps, Submissions, Deletions, Reply, Abandoned, InFlight
<1>1. ASSUME NEW p \in Req, ArriveSubmission(p) PROVE Control'
  BY <1>1 DEF ArriveSubmission, Answer, FirstStep, AfterClaim
<1>2. ASSUME NEW p \in Req, Claim(p) PROVE Control'
  BY <1>2 DEF Claim, Goto, AfterClaim
<1>3. ASSUME NEW p \in Req, ClaimIsTaken(p) PROVE Control'
  BY <1>3 DEF ClaimIsTaken, Goto
<1>4. ASSUME NEW p \in Req, ReadStanding(p) PROVE Control'
  BY <1>4 DEF ReadStanding, Goto, Answer
<1>5. ASSUME NEW p \in Req, SetDisplayName(p) PROVE Control'
  BY <1>5 DEF SetDisplayName, Goto
<1>6. ASSUME NEW p \in Req, CallSubmit(p) PROVE Control'
  BY <1>6 DEF CallSubmit
<1>7. ASSUME NEW p \in Req, RunScript(p) PROVE Control'
  BY <1>7 DEF RunScript, Goto
<1>8. ASSUME NEW p \in Req, AddGame(p) PROVE Control'
  BY <1>8 DEF AddGame, Pipelined
<1>9. ASSUME NEW p \in Req, AddBucket(p) PROVE Control'
  BY <1>9 DEF AddBucket, Goto, Answer
<1>10. ASSUME NEW p \in Req, ArriveDeletion(p) PROVE Control'
  BY <1>10 DEF ArriveDeletion
<1>11. ASSUME NEW p \in Req, ListBuckets(p) PROVE Control'
  BY <1>11 DEF ListBuckets, Goto, Answer
<1>12. ASSUME NEW p \in Req, RemoveFromBoard(p) PROVE Control'
  BY <1>12 DEF RemoveFromBoard, Pipelined
<1>13. ASSUME NEW p \in Req, DropName(p) PROVE Control'
  BY <1>13 DEF DropName, Answer
<1>14. ASSUME NEW p \in Req, GiveUp(p) PROVE Control'
  BY <1>14 DEF GiveUp
<1>15. ASSUME NEW p \in Req, Lose(p) PROVE Control'
  BY <1>15 DEF Lose
<1>16. CASE ClockTick
  BY <1>16 DEF ClockTick, request
<1>17. CASE UNCHANGED vars
  BY <1>17 DEF vars, request
<1> QED
  BY <1>1, <1>2, <1>3, <1>4, <1>5, <1>6, <1>7, <1>8, <1>9, <1>10, <1>11, <1>12,
     <1>13, <1>14, <1>15, <1>16, <1>17
  DEF Next, Arrive, Serve, Submit, Delete

LEMMA Payloads ==
    ASSUME Control, NEW p \in Req
    PROVE  /\ p \in Submissions => /\ job[p].user \in User
                                   /\ job[p].score \in Int
                                   /\ job[p].key \in Key \cup {NoKey}
           /\ p \in Deletions => job[p].user \in User
           /\ pc[p] \in SubmitSteps => job[p].score \in Score
           /\ pc[p] = "claim" => job[p].key \in Key
<1>1. job[p] \in Submission \cup Deletion
  BY JobAssumption DEF Control
<1>2. p \in Submissions => job[p] \in Submission
  BY <1>1 DEF Submissions, Submission, Deletion
<1>3. p \in Deletions => job[p] \in Deletion
  BY <1>1 DEF Deletions, Submission, Deletion
<1>4. pc[p] \in SubmitSteps => job[p].score \in Score
  BY <1>2, ScoreAssumption DEF Control, Submission, ValidScore, Score
<1>5. pc[p] = "claim" => job[p].key \in Key
  BY <1>2 DEF Control, Submission, SubmitSteps
<1> QED
  BY <1>2, <1>3, <1>4, <1>5 DEF Submission, Deletion

(* The variables keep their types: every score on a board is within the        *)
(* configured limits, every registered bucket is a bucket of the calendar.     *)
LEMMA InitTypeOK == Init => TypeOK
<1> SUFFICES ASSUME Init PROVE TypeOK
  OBVIOUS
<1>1. KeysTypeOK
  BY CalendarAssumption DEF Init, KeysInit, KeysTypeOK, EmptyBoard, Time
<1>2. bucket \in [Req -> Bucket]
  BY BucketTyping DEF Init
<1> QED
  BY <1>1, <1>2 DEF Init, TypeOK, Reply, NotClaimed

(* Every command keeps the types of the keys.                                  *)
LEMMA BestTyping ==
    ASSUME NEW previous \in Score \cup {NoScore}, NEW value \in Score
    PROVE  Best(previous, value) \in Score
  BY DEF Best

LEMMA ScriptTyping ==
    ASSUME KeysTypeOK, NEW b \in Bucket, NEW u \in User, NEW value \in Score,
           NEW ttl \in Nat, SubmitScript(b, u, value, ttl), now' = now
    PROVE  KeysTypeOK'
<1>1. now \in Nat
  BY CalendarAssumption DEF KeysTypeOK, Time
<1>2. zset[b][u] \in Score \cup {NoScore}
  BY DEF KeysTypeOK
<1>3. Best(zset[b][u], value) \in Score
  BY <1>2, BestTyping
<1>4. zset' \in [Bucket -> [User -> Score \cup {NoScore}]]
  BY <1>3 DEF KeysTypeOK, SubmitScript
<1>5. deadline' \in [Bucket -> Nat]
  BY <1>1 DEF KeysTypeOK, SubmitScript
<1> QED
  BY <1>4, <1>5 DEF KeysTypeOK, SubmitScript

LEMMA RemoveTyping ==
    ASSUME KeysTypeOK, NEW b \in Bucket, NEW u \in User, RemoveMember(b, u), now' = now
    PROVE  KeysTypeOK'
<1>1. zset' \in [Bucket -> [User -> Score \cup {NoScore}]]
  BY DEF KeysTypeOK, RemoveMember
<1>2. deadline' \in [Bucket -> Nat]
  BY DEF KeysTypeOK, RemoveMember
<1> QED
  BY <1>1, <1>2 DEF KeysTypeOK, RemoveMember

LEMMA TickTyping == KeysTypeOK /\ Tick => KeysTypeOK'
  BY CalendarAssumption DEF KeysTypeOK, Tick, Time, EmptyBoard

LEMMA NextTypeOK == Control /\ TypeOK /\ [Next]_vars => TypeOK'
<1> SUFFICES ASSUME Control, TypeOK, [Next]_vars PROVE TypeOK'
  OBVIOUS
<1> USE DEF TypeOK, keys, request
<1>a. now \in Nat /\ now \in Time
  BY CalendarAssumption DEF KeysTypeOK, Time
<1>1. ASSUME NEW p \in Req, ArriveSubmission(p) PROVE TypeOK'
  BY <1>1 DEF ArriveSubmission, Answer, FirstStep, AfterClaim, InFlight, Reply, KeysTypeOK
<1>2. ASSUME NEW p \in Req, Claim(p) PROVE TypeOK'
  <2>1. job[p].key \in Key
    BY <1>2, Payloads DEF Claim
  <2>2. now + IdemTtl \in Nat
    BY <1>a, IdemAssumption
  <2>3. idem' \in [Key -> Nat]
    BY <1>2, <2>1, <2>2 DEF Claim, SetClaim, KeysTypeOK
  <2>4. KeysTypeOK'
    BY <1>2, <2>3 DEF Claim, SetClaim, KeysTypeOK
  <2> QED
    BY <1>2, <1>a, <2>4 DEF Claim, Goto, AfterClaim, InFlight
<1>3. ASSUME NEW p \in Req, ClaimIsTaken(p) PROVE TypeOK'
  BY <1>3 DEF ClaimIsTaken, Goto, InFlight, KeysTypeOK
<1>4. ASSUME NEW p \in Req, ReadStanding(p) PROVE TypeOK'
  <2>1. win' \in [Req -> 1 .. 3]
    BY <1>4 DEF ReadStanding
  <2> QED
    BY <1>4, <2>1 DEF ReadStanding, Goto, Answer, InFlight, Reply, KeysTypeOK
<1>5. ASSUME NEW p \in Req, SetDisplayName(p) PROVE TypeOK'
  <2>1. job[p].user \in User
    BY <1>5, Payloads DEF SetDisplayName, Control, SubmitSteps
  <2> QED
    BY <1>5, <2>1 DEF SetDisplayName, SetName, Goto, InFlight, KeysTypeOK
<1>6. ASSUME NEW p \in Req, CallSubmit(p) PROVE TypeOK'
  BY <1>6, ClockTyping, BucketTyping DEF CallSubmit, InFlight, KeysTypeOK
<1>7. ASSUME NEW p \in Req, RunScript(p) PROVE TypeOK'
  <2>1. job[p].user \in User /\ job[p].score \in Score
    BY <1>7, Payloads DEF RunScript, Control, SubmitSteps
  <2>2. bucket[p] \in Bucket
    OBVIOUS
  <2>3. TtlArgument(TtlFor(WindowOrder[win[p]])) \in Nat
    BY BucketTyping
  <2>4. KeysTypeOK'
    BY <1>7, <2>1, <2>2, <2>3, ScriptTyping DEF RunScript
  <2> QED
    BY <1>7, <2>4 DEF RunScript, Goto, InFlight
<1>8. ASSUME NEW p \in Req, AddGame(p) PROVE TypeOK'
  BY <1>8 DEF AddGame, RegisterGame, Pipelined, InFlight, KeysTypeOK
<1>9. ASSUME NEW p \in Req, AddBucket(p) PROVE TypeOK'
  <2>1. win' \in [Req -> 1 .. 3]
    BY <1>9 DEF AddBucket
  <2>2. KeysTypeOK'
    BY <1>9 DEF AddBucket, RegisterBucket, KeysTypeOK
  <2> QED
    BY <1>9, <2>1, <2>2 DEF AddBucket, Goto, Answer, InFlight, Reply
<1>10. ASSUME NEW p \in Req, ArriveDeletion(p) PROVE TypeOK'
  BY <1>10 DEF ArriveDeletion, InFlight, KeysTypeOK
<1>11. ASSUME NEW p \in Req, ListBuckets(p) PROVE TypeOK'
  <2>1. KeysTypeOK' /\ buckets \subseteq Bucket
    BY <1>11 DEF ListBuckets, KeysTypeOK
  <2>2. CASE buckets = {}
    BY <1>11, <2>1, <2>2 DEF ListBuckets, Answer, Reply
  <2>3. CASE buckets # {}
    <3>1. todo' \in [Req -> SUBSET Bucket] /\ UNCHANGED reply
      BY <1>11, <2>1, <2>3 DEF ListBuckets
    <3>2. pc' \in [Req -> {"idle", "call", "done"} \cup InFlight]
      BY <1>11, <2>3 DEF ListBuckets, Goto, InFlight
    <3> QED
      BY <1>11, <2>1, <3>1, <3>2 DEF ListBuckets
  <2> QED
    BY <2>2, <2>3
<1>12. ASSUME NEW p \in Req, RemoveFromBoard(p) PROVE TypeOK'
  <2>1. job[p].user \in User
    BY <1>12, Payloads DEF RemoveFromBoard, Control, DeleteSteps
  <2>2. PICK b \in todo[p] :
          /\ RemoveMember(b, job[p].user)
          /\ removed' = [removed EXCEPT ![p] =
                           IF OnBoard(b, job[p].user) THEN @ \cup {b} ELSE @]
          /\ todo' = [todo EXCEPT ![p] = @ \ {b}]
          /\ Pipelined(p, IF todo[p] = {b} THEN "hdel" ELSE "zrem")
    BY <1>12 DEF RemoveFromBoard
  <2>3. b \in Bucket
    OBVIOUS
  <2>4. KeysTypeOK'
    BY <1>12, <2>1, <2>2, <2>3, RemoveTyping DEF RemoveFromBoard
  <2> QED
    BY <1>12, <2>2, <2>3, <2>4 DEF RemoveFromBoard, Pipelined, InFlight
<1>13. ASSUME NEW p \in Req, DropName(p) PROVE TypeOK'
  BY <1>13 DEF DropName, RemoveName, Answer, Reply, InFlight, KeysTypeOK
<1>14. ASSUME NEW p \in Req, GiveUp(p) PROVE TypeOK'
  BY <1>14 DEF GiveUp, InFlight, Reply, KeysTypeOK
<1>15. ASSUME NEW p \in Req, Lose(p) PROVE TypeOK'
  BY <1>15 DEF Lose, InFlight, KeysTypeOK
<1>16. CASE ClockTick
  BY <1>16, TickTyping DEF ClockTick, Time, KeysTypeOK, Tick
<1>17. CASE UNCHANGED vars
  BY <1>17 DEF vars, KeysTypeOK
<1> QED
  BY <1>1, <1>2, <1>3, <1>4, <1>5, <1>6, <1>7, <1>8, <1>9, <1>10, <1>11, <1>12,
     <1>13, <1>14, <1>15, <1>16, <1>17
  DEF Next, Arrive, Serve, Submit, Delete

THEOREM TypeCorrectness == Spec => []TypeOK
<1>1. Init => Control /\ TypeOK
  BY InitControl, InitTypeOK
<1>2. Control /\ TypeOK /\ [Next]_vars => (Control /\ TypeOK)'
  BY NextControl, NextTypeOK
<1> QED
  BY <1>1, <1>2, PTL DEF Spec

------------------------------------------------------------------------------
(* The all-time board                                                          *)

LEMMA BestIsBetter ==
    ASSUME NEW previous \in Score \cup {NoScore}, NEW value \in Score
    PROVE  /\ Best(previous, value) # NoScore
           /\ Best(previous, value) >= value
           /\ previous # NoScore => Best(previous, value) >= previous
           /\ Best(previous, value) \in {previous, value}
  BY ScoreAssumption DEF Best, Score

(* A suffix tells its window.                                                  *)
LEMMA SuffixTellsWindow ==
    \A i, j \in 1 .. 3, at, when \in Moment :
        WindowSuffix(WindowOrder[i], at) = WindowSuffix(WindowOrder[j], when) => i = j
<1>1. \A at : /\ WindowSuffix("all_time", at) = <<"all", 0>>
              /\ WindowSuffix("daily", at) = <<"d", at \div DayLength>>
              /\ WindowSuffix("weekly", at) = <<"w", at \div (DayLength * DaysPerWeek)>>
  BY DEF WindowSuffix, AllTimeBucket
<1>2. \A at, when \in Moment :
        /\ WindowSuffix("all_time", at)[1] = "all"
        /\ WindowSuffix("daily", at)[1] = "d"
        /\ WindowSuffix("weekly", at)[1] = "w"
  BY <1>1
<1>3. WindowOrder[1] = "all_time" /\ WindowOrder[2] = "daily" /\ WindowOrder[3] = "weekly"
  BY DEF WindowOrder
<1> QED
  BY <1>2, <1>3

LEMMA AllTimeIsFirst ==
    /\ \A at : WindowSuffix(WindowOrder[1], at) = AllTimeBucket
    /\ \A i \in 2 .. 3, at \in Moment : WindowSuffix(WindowOrder[i], at) # AllTimeBucket
<1>1. \A at : WindowSuffix(WindowOrder[1], at) = AllTimeBucket
  BY DEF WindowSuffix, WindowOrder
<1>2. 0 \in Moment
  BY CalendarAssumption DEF Moment
<1> QED
  BY <1>1, <1>2, SuffixTellsWindow

(* The fan-out visits the windows in order, and names each bucket from a clock *)
(* it read no later than now, and that is ahead of now by the skew at most.    *)
Named(p) ==
    \E at \in Moment : at <= now + MaxSkew /\ bucket[p] = WindowSuffix(WindowOrder[win[p]], at)

FanOut ==
    \A p \in Req :
        /\ pc[p] \in {"idle", "claim", "hset"} => win[p] = 1
        /\ pc[p] \in {"call", "eval"} /\ win[p] > 1 => AllTimeBucket \in wrote[p]
        /\ pc[p] \in {"sadd_games", "sadd_buckets"} => AllTimeBucket \in wrote[p]
        /\ pc[p] \in {"eval", "sadd_games", "sadd_buckets"} => Named(p)

LEMMA InitFanOut == Init => FanOut
  BY DEF Init, FanOut

LEMMA NextFanOut == Control /\ TypeOK /\ FanOut /\ [Next]_vars => FanOut'
<1> SUFFICES ASSUME Control, TypeOK, FanOut, [Next]_vars PROVE FanOut'
  OBVIOUS
<1> USE DEF FanOut, Named, TypeOK
<1>a. now \in Time /\ now \in Nat
  BY CalendarAssumption DEF KeysTypeOK, Time
<1>1. ASSUME NEW p \in Req, ArriveSubmission(p) PROVE FanOut'
  BY <1>1 DEF ArriveSubmission, Answer, FirstStep, AfterClaim
<1>2. ASSUME NEW p \in Req, Claim(p) PROVE FanOut'
  BY <1>2 DEF Claim, Goto, AfterClaim
<1>3. ASSUME NEW p \in Req, ClaimIsTaken(p) PROVE FanOut'
  BY <1>3 DEF ClaimIsTaken, Goto
<1>4. ASSUME NEW p \in Req, ReadStanding(p) PROVE FanOut'
  BY <1>4 DEF ReadStanding, Goto, Answer
<1>5. ASSUME NEW p \in Req, SetDisplayName(p) PROVE FanOut'
  BY <1>5 DEF SetDisplayName, Goto
<1>6. ASSUME NEW p \in Req, CallSubmit(p) PROVE FanOut'
  BY <1>6, ClockTyping DEF CallSubmit, KeysTypeOK
<1>7. ASSUME NEW p \in Req, RunScript(p) PROVE FanOut'
  <2>1. win[p] = 1 => bucket[p] = AllTimeBucket
    BY <1>7, AllTimeIsFirst DEF RunScript
  <2>2. AllTimeBucket \in wrote'[p]
    BY <1>7, <2>1 DEF RunScript
  <2> QED
    BY <1>7, <2>2 DEF RunScript, Goto
<1>8. ASSUME NEW p \in Req, AddGame(p) PROVE FanOut'
  BY <1>8 DEF AddGame, Pipelined
<1>9. ASSUME NEW p \in Req, AddBucket(p) PROVE FanOut'
  BY <1>9 DEF AddBucket, Goto, Answer
<1>10. ASSUME NEW p \in Req, ArriveDeletion(p) PROVE FanOut'
  BY <1>10 DEF ArriveDeletion
<1>11. ASSUME NEW p \in Req, ListBuckets(p) PROVE FanOut'
  BY <1>11 DEF ListBuckets, Goto, Answer
<1>12. ASSUME NEW p \in Req, RemoveFromBoard(p) PROVE FanOut'
  BY <1>12 DEF RemoveFromBoard, Pipelined
<1>13. ASSUME NEW p \in Req, DropName(p) PROVE FanOut'
  BY <1>13 DEF DropName, Answer
<1>14. ASSUME NEW p \in Req, GiveUp(p) PROVE FanOut'
  BY <1>14 DEF GiveUp
<1>15. ASSUME NEW p \in Req, Lose(p) PROVE FanOut'
  BY <1>15 DEF Lose
<1>16. CASE ClockTick
  <2>1. now' = now + 1
    BY <1>16 DEF ClockTick, Tick
  <2> QED
    <3>1. now + MaxSkew <= now' + MaxSkew /\ \A at \in Moment : at \in Nat
      BY <2>1, <1>a, CalendarAssumption DEF Moment
    <3>2. now + MaxSkew \in Nat /\ now' + MaxSkew \in Nat
      BY <2>1, <1>a, CalendarAssumption
    <3>3. \A at \in Moment : at <= now + MaxSkew => at <= now' + MaxSkew
      BY <3>1, <3>2
    <3> QED
      BY <1>16, <3>3 DEF ClockTick, request
<1>17. CASE UNCHANGED vars
  BY <1>17 DEF vars, request
<1> QED
  BY <1>1, <1>2, <1>3, <1>4, <1>5, <1>6, <1>7, <1>8, <1>9, <1>10, <1>11, <1>12,
     <1>13, <1>14, <1>15, <1>16, <1>17
  DEF Next, Arrive, Serve, Submit, Delete

(* The strengthening of AllTimeDominates: the board has no TTL, and the score  *)
(* of every submission that reached it still stands there.                     *)
AllTimeStands ==
    /\ deadline[AllTimeBucket] = 0
    /\ \A p \in Submissions :
          AllTimeBucket \in wrote[p] /\ Untargeted(job[p].user) =>
              AtLeast(AllTimeBucket, job[p].user, job[p].score)

AllTimeInv == AllTimeStands /\ AllTimeDominates

LEMMA InitAllTime == Init => AllTimeInv
<1> SUFFICES ASSUME Init PROVE AllTimeInv
  OBVIOUS
<1>1. deadline[AllTimeBucket] = 0
  BY BucketTyping DEF Init, KeysInit
<1>2. \A b \in Bucket, u \in User : ~ OnBoard(b, u)
  BY DEF Init, KeysInit, EmptyBoard, OnBoard
<1>3. \A p \in Submissions : wrote[p] = {}
  BY DEF Init, Submissions
<1> QED
  BY <1>1, <1>2, <1>3 DEF AllTimeInv, AllTimeStands, AllTimeDominates

LEMMA UntargetedBefore ==
    ASSUME Control, [Next]_vars, NEW u, Untargeted(u)'
    PROVE  Untargeted(u)
<1> USE DEF Untargeted, Control, Deletions
<1>1. ASSUME NEW p \in Req, ArriveSubmission(p) PROVE Untargeted(u)
  BY <1>1 DEF ArriveSubmission, Answer, FirstStep, AfterClaim
<1>2. ASSUME NEW p \in Req, Claim(p) PROVE Untargeted(u)
  BY <1>2 DEF Claim, Goto, AfterClaim
<1>3. ASSUME NEW p \in Req, ClaimIsTaken(p) PROVE Untargeted(u)
  BY <1>3 DEF ClaimIsTaken, Goto
<1>4. ASSUME NEW p \in Req, ReadStanding(p) PROVE Untargeted(u)
  BY <1>4 DEF ReadStanding, Goto, Answer
<1>5. ASSUME NEW p \in Req, SetDisplayName(p) PROVE Untargeted(u)
  BY <1>5 DEF SetDisplayName, Goto
<1>6. ASSUME NEW p \in Req, CallSubmit(p) PROVE Untargeted(u)
  BY <1>6 DEF CallSubmit
<1>7. ASSUME NEW p \in Req, RunScript(p) PROVE Untargeted(u)
  BY <1>7 DEF RunScript, Goto
<1>8. ASSUME NEW p \in Req, AddGame(p) PROVE Untargeted(u)
  BY <1>8 DEF AddGame, Pipelined
<1>9. ASSUME NEW p \in Req, AddBucket(p) PROVE Untargeted(u)
  BY <1>9 DEF AddBucket, Goto, Answer
<1>10. ASSUME NEW p \in Req, ArriveDeletion(p) PROVE Untargeted(u)
  BY <1>10 DEF ArriveDeletion
<1>11. ASSUME NEW p \in Req, ListBuckets(p) PROVE Untargeted(u)
  BY <1>11 DEF ListBuckets, Goto, Answer
<1>12. ASSUME NEW p \in Req, RemoveFromBoard(p) PROVE Untargeted(u)
  BY <1>12 DEF RemoveFromBoard, Pipelined
<1>13. ASSUME NEW p \in Req, DropName(p) PROVE Untargeted(u)
  BY <1>13 DEF DropName, Answer
<1>14. ASSUME NEW p \in Req, GiveUp(p) PROVE Untargeted(u)
  BY <1>14 DEF GiveUp
<1>15. ASSUME NEW p \in Req, Lose(p) PROVE Untargeted(u)
  BY <1>15 DEF Lose
<1>16. CASE ClockTick
  BY <1>16 DEF ClockTick, request
<1>17. CASE UNCHANGED vars
  BY <1>17 DEF vars, request
<1> QED
  BY <1>1, <1>2, <1>3, <1>4, <1>5, <1>6, <1>7, <1>8, <1>9, <1>10, <1>11, <1>12,
     <1>13, <1>14, <1>15, <1>16, <1>17
  DEF Next, Arrive, Serve, Submit, Delete

(* Nothing that leaves the boards, their TTLs and the observations alone can   *)
(* break the invariant.                                                        *)
LEMMA AllTimeFrame ==
    ASSUME Control, [Next]_vars, AllTimeInv,
           UNCHANGED <<zset, deadline, job, wrote>>
    PROVE  AllTimeInv'
  BY UntargetedBefore
  DEF AllTimeInv, AllTimeStands, AllTimeDominates, AtLeast, OnBoard, Submissions

LEMMA NextAllTime ==
    Control /\ TypeOK /\ FanOut /\ AllTimeInv /\ [Next]_vars => AllTimeInv'
<1> SUFFICES ASSUME Control, TypeOK, FanOut, AllTimeInv, [Next]_vars PROVE AllTimeInv'
  OBVIOUS
<1>a. now \in Time /\ now \in Nat
  BY CalendarAssumption DEF TypeOK, KeysTypeOK, Time
<1>b. /\ zset \in [Bucket -> [User -> Score \cup {NoScore}]]
      /\ deadline \in [Bucket -> Nat]
      /\ AllTimeBucket \in Bucket
  BY BucketTyping DEF TypeOK, KeysTypeOK
<1>c. Score \subseteq Int /\ NoScore \notin Score
  BY ScoreAssumption DEF Score
<1>d. \A u : Untargeted(u)' => Untargeted(u)
  BY UntargetedBefore
<1>1. ASSUME NEW p \in Req, ArriveSubmission(p) PROVE AllTimeInv'
  BY <1>1, AllTimeFrame DEF ArriveSubmission, keys
<1>2. ASSUME NEW p \in Req, Claim(p) PROVE AllTimeInv'
  BY <1>2, AllTimeFrame DEF Claim, SetClaim, keys
<1>3. ASSUME NEW p \in Req, ClaimIsTaken(p) PROVE AllTimeInv'
  BY <1>3, AllTimeFrame DEF ClaimIsTaken, keys
<1>4. ASSUME NEW p \in Req, ReadStanding(p) PROVE AllTimeInv'
  BY <1>4, AllTimeFrame DEF ReadStanding, keys
<1>5. ASSUME NEW p \in Req, SetDisplayName(p) PROVE AllTimeInv'
  BY <1>5, AllTimeFrame DEF SetDisplayName, SetName, keys
<1>6. ASSUME NEW p \in Req, CallSubmit(p) PROVE AllTimeInv'
  BY <1>6, AllTimeFrame DEF CallSubmit, keys
<1>7. ASSUME NEW p \in Req, RunScript(p) PROVE AllTimeInv'
  <2> DEFINE b == bucket[p]
             u == job[p].user
             value == job[p].score
  <2>1. u \in User /\ value \in Score /\ p \in Submissions /\ b \in Bucket
    BY <1>7, Payloads DEF RunScript, Control, SubmitSteps, TypeOK
  <2>2. /\ zset' = [zset EXCEPT ![b][u] = Best(@, value)]
        /\ wrote' = [wrote EXCEPT ![p] = @ \cup {b}]
        /\ job' = job
    BY <1>7 DEF RunScript, SubmitScript
  <2>3. /\ zset'[b][u] = Best(zset[b][u], value)
        /\ \A c \in Bucket, v \in User : <<c, v>> # <<b, u>> => zset'[c][v] = zset[c][v]
    BY <2>1, <2>2, <1>b
  <2>4. /\ Best(zset[b][u], value) # NoScore
        /\ Best(zset[b][u], value) >= value
        /\ zset[b][u] # NoScore => Best(zset[b][u], value) >= zset[b][u]
        /\ Best(zset[b][u], value) \in {zset[b][u], value}
    BY <2>1, <1>b, BestIsBetter
  <2>a. \A v \in User : zset[AllTimeBucket][v] # NoScore =>
          /\ zset'[AllTimeBucket][v] # NoScore
          /\ zset[AllTimeBucket][v] \in Int
          /\ zset'[AllTimeBucket][v] \in Int
          /\ zset'[AllTimeBucket][v] >= zset[AllTimeBucket][v]
    <3>1. \A v \in User : zset[AllTimeBucket][v] # NoScore => zset[AllTimeBucket][v] \in Int
      BY <1>b, <1>c
    <3>2. CASE b = AllTimeBucket
      <4>1. \A v \in User : v # u => zset'[AllTimeBucket][v] = zset[AllTimeBucket][v]
        BY <3>2, <2>3, <1>b
      <4>2. zset[b][u] # NoScore => Best(zset[b][u], value) \in Int
        BY <3>1, <3>2, <2>1, <2>4, <1>c
      <4> QED
        BY <3>1, <3>2, <4>1, <4>2, <2>3, <2>4
    <3>3. CASE b # AllTimeBucket
      <4>1. \A v \in User : zset'[AllTimeBucket][v] = zset[AllTimeBucket][v]
        BY <3>3, <2>3, <1>b
      <4> QED
        BY <3>1, <4>1
    <3> QED
      BY <3>2, <3>3
  <2>5. b # AllTimeBucket => AllTimeBucket \in wrote[p]
    BY <1>7, <1>a, AllTimeIsFirst DEF RunScript, FanOut, Named, TypeOK
  <2>6. deadline'[AllTimeBucket] = 0
    <3>1. CASE b = AllTimeBucket
      <4>1. win[p] = 1
        BY <1>7, <3>1, AllTimeIsFirst DEF RunScript, FanOut, Named, TypeOK
      <4>2. TtlArgument(TtlFor(WindowOrder[win[p]])) = 0
        BY <4>1 DEF TtlArgument, TtlFor, WindowOrder, NoTtl
      <4> QED
        BY <1>7, <3>1, <4>2, <1>b DEF RunScript, SubmitScript, AllTimeInv, AllTimeStands
    <3>2. CASE b # AllTimeBucket
      BY <1>7, <3>2, <1>b DEF RunScript, SubmitScript, AllTimeInv, AllTimeStands
    <3> QED
      BY <3>1, <3>2
  <2>7. ASSUME NEW q \in Submissions, AllTimeBucket \in wrote'[q], Untargeted(job[q].user)
        PROVE  AtLeast(AllTimeBucket, job[q].user, job[q].score)'
    <3>1. job[q].user \in User /\ job[q].score \in Int
      BY Payloads DEF Submissions
    <3>2. CASE AllTimeBucket \in wrote[q]
      <4>1. AtLeast(AllTimeBucket, job[q].user, job[q].score)
        BY <3>2, <2>7 DEF AllTimeInv, AllTimeStands
      <4> QED
        BY <4>1, <3>1, <2>a, <2>2 DEF AtLeast, OnBoard
    <3>3. CASE AllTimeBucket \notin wrote[q]
      <4>1. q = p /\ b = AllTimeBucket
        BY <2>2, <2>7, <3>3 DEF TypeOK, Submissions
      <4> QED
        BY <4>1, <2>2, <2>3, <2>4 DEF AtLeast, OnBoard
    <3> QED
      BY <3>2, <3>3
  <2>8. ASSUME NEW v \in User, NEW c \in Bucket, Untargeted(v), zset'[c][v] # NoScore
        PROVE  AtLeast(AllTimeBucket, v, zset[c][v])'
    <3>1. CASE <<c, v>> # <<b, u>>
      <4>1. zset'[c][v] = zset[c][v]
        BY <2>3, <3>1
      <4>2. AtLeast(AllTimeBucket, v, zset[c][v])
        BY <4>1, <2>8 DEF AllTimeInv, AllTimeDominates, OnBoard
      <4> QED
        <5>1. zset[c][v] \in Int
          BY <4>1, <2>8, <1>b, <1>c
        <5>2. zset'[AllTimeBucket][v] >= zset'[c][v] /\ zset'[AllTimeBucket][v] # NoScore
          BY <5>1, <4>1, <4>2, <2>8, <2>a DEF AtLeast, OnBoard
        <5> QED
          BY <5>2 DEF AtLeast, OnBoard
    <3>2. CASE c = b /\ v = u /\ b = AllTimeBucket
      BY <3>2, <2>1, <2>3, <2>4, <1>b, <1>c DEF AtLeast, OnBoard
    <3>3. CASE c = b /\ v = u /\ b # AllTimeBucket
      <4>1. AtLeast(AllTimeBucket, u, value)
        BY <3>3, <2>1, <2>5, <2>8 DEF AllTimeInv, AllTimeStands
      <4>2. zset[b][u] # NoScore => AtLeast(AllTimeBucket, u, zset[b][u])
        BY <3>3, <2>1, <2>8 DEF AllTimeInv, AllTimeDominates, OnBoard
      <4>3. zset'[AllTimeBucket][u] = zset[AllTimeBucket][u]
        BY <3>3, <2>1, <2>3, <1>b
      <4> QED
        BY <3>3, <4>1, <4>2, <4>3, <2>3, <2>4 DEF AtLeast, OnBoard
    <3> QED
      BY <3>1, <3>2, <3>3
  <2> QED
    BY <2>2, <2>6, <2>7, <2>8, <1>d
    DEF AllTimeInv, AllTimeStands, AllTimeDominates, OnBoard, Submissions, AtLeast
<1>8. ASSUME NEW p \in Req, AddGame(p) PROVE AllTimeInv'
  BY <1>8, AllTimeFrame DEF AddGame, RegisterGame, keys
<1>9. ASSUME NEW p \in Req, AddBucket(p) PROVE AllTimeInv'
  BY <1>9, AllTimeFrame DEF AddBucket, RegisterBucket, keys
<1>10. ASSUME NEW p \in Req, ArriveDeletion(p) PROVE AllTimeInv'
  BY <1>10, AllTimeFrame DEF ArriveDeletion, keys
<1>11. ASSUME NEW p \in Req, ListBuckets(p) PROVE AllTimeInv'
  BY <1>11, AllTimeFrame DEF ListBuckets, keys
<1>12. ASSUME NEW p \in Req, RemoveFromBoard(p) PROVE AllTimeInv'
  <2>1. PICK b \in todo[p] : RemoveMember(b, job[p].user)
    BY <1>12 DEF RemoveFromBoard
  <2>2. b \in Bucket /\ p \in Deletions /\ job[p].user \in User
    BY <1>12, <2>1, Payloads DEF RemoveFromBoard, Control, DeleteSteps, TypeOK
  <2>3. ~ Untargeted(job[p].user)
    BY <1>12, <2>2 DEF RemoveFromBoard, Untargeted
  <2>4. \A c \in Bucket, v \in User : v # job[p].user => zset'[c][v] = zset[c][v]
    BY <2>1, <2>2, <1>b DEF RemoveMember
  <2>5. deadline'[AllTimeBucket] = 0
    BY <2>1, <2>2, <1>b DEF RemoveMember, AllTimeInv, AllTimeStands
  <2>6. job' = job /\ wrote' = wrote
    BY <1>12 DEF RemoveFromBoard
  <2>7. \A q \in Submissions : job[q].user \in User
    BY Payloads DEF Submissions
  <2> QED
    BY <2>3, <2>4, <2>5, <2>6, <2>7, <1>b, <1>d
    DEF AllTimeInv, AllTimeStands, AllTimeDominates, OnBoard, Submissions, AtLeast
<1>13. ASSUME NEW p \in Req, DropName(p) PROVE AllTimeInv'
  BY <1>13, AllTimeFrame DEF DropName, RemoveName, keys
<1>14. ASSUME NEW p \in Req, GiveUp(p) PROVE AllTimeInv'
  BY <1>14, AllTimeFrame DEF GiveUp, keys
<1>15. ASSUME NEW p \in Req, Lose(p) PROVE AllTimeInv'
  BY <1>15, AllTimeFrame DEF Lose, keys
<1>16. CASE ClockTick
  <2>1. /\ zset'[AllTimeBucket] = zset[AllTimeBucket]
        /\ deadline'[AllTimeBucket] = 0
    BY <1>16, <1>b DEF ClockTick, Tick, Lapsed, AllTimeInv, AllTimeStands
  <2>2. \A c \in Bucket, v \in User : zset'[c][v] # NoScore => zset'[c][v] = zset[c][v]
    BY <1>16, <1>b DEF ClockTick, Tick, EmptyBoard
  <2>3. job' = job /\ wrote' = wrote
    BY <1>16 DEF ClockTick, request
  <2> QED
    BY <2>1, <2>2, <2>3, <1>b, <1>d
    DEF AllTimeInv, AllTimeStands, AllTimeDominates, OnBoard, Submissions, AtLeast
<1>17. CASE UNCHANGED vars
  BY <1>17, AllTimeFrame DEF vars, keys, request
<1> QED
  BY <1>1, <1>2, <1>3, <1>4, <1>5, <1>6, <1>7, <1>8, <1>9, <1>10, <1>11, <1>12,
     <1>13, <1>14, <1>15, <1>16, <1>17
  DEF Next, Arrive, Serve, Submit, Delete

(* AllTimeDominates: for every instance, no failure, race, expiry or late      *)
(* command leaves a player better placed on a rolling board of submit_score's  *)
(* fan-out than on the all-time board.                                         *)
THEOREM AllTimeBoardDominates == Spec => []AllTimeDominates
<1> DEFINE Inv == Control /\ TypeOK /\ FanOut /\ AllTimeInv
<1>1. Init => Inv
  BY InitControl, InitTypeOK, InitFanOut, InitAllTime
<1>2. Inv /\ [Next]_vars => Inv'
  BY NextControl, NextTypeOK, NextFanOut, NextAllTime
<1>3. Inv => AllTimeDominates
  BY DEF AllTimeInv
<1> QED
  BY <1>1, <1>2, <1>3, PTL DEF Spec

------------------------------------------------------------------------------
(* The registry of buckets                                                     *)

LEMMA NextRegistry ==
    Control /\ TypeOK /\ UnregisteredBoardIsPending /\ [Next]_vars
        => UnregisteredBoardIsPending'
<1> SUFFICES ASSUME Control, TypeOK, UnregisteredBoardIsPending, [Next]_vars
             PROVE  UnregisteredBoardIsPending'
  OBVIOUS
<1> DEFINE Pending(p, b) ==
             /\ bucket[p] = b
             /\ b \in wrote[p]
             /\ pc[p] \in {"sadd_games", "sadd_buckets"} \/ Abandoned(p)
<1>a. /\ zset \in [Bucket -> [User -> Score \cup {NoScore}]]
      /\ buckets \subseteq Bucket
  BY DEF TypeOK, KeysTypeOK
<1>b. job' = job
  BY DEF Next, Arrive, Serve, Submit, Delete, ClockTick, vars, ArriveSubmission, Claim,
         ClaimIsTaken, ReadStanding, SetDisplayName, CallSubmit, RunScript, AddGame, AddBucket,
         ArriveDeletion, ListBuckets, RemoveFromBoard, DropName, GiveUp, Lose
(* It is enough that no board gains a player and no pending board is let go.   *)
<1>c. ASSUME \A b \in Bucket : Populated(b)' /\ b \notin buckets' => Populated(b) /\ b \notin buckets,
             \A q \in Submissions, b \in Bucket :
                 b \notin buckets' /\ Pending(q, b) => Pending(q, b)'
      PROVE  UnregisteredBoardIsPending'
  BY <1>b, <1>c DEF UnregisteredBoardIsPending, Submissions
<1> USE DEF Pending, Populated, OnBoard, Abandoned, TypeOK, Submissions
<1>1. ASSUME NEW p \in Req, ArriveSubmission(p) PROVE UnregisteredBoardIsPending'
  BY <1>1, <1>a, <1>c DEF ArriveSubmission, Answer, FirstStep, AfterClaim, keys, Control, SubmitSteps, DeleteSteps
<1>2. ASSUME NEW p \in Req, Claim(p) PROVE UnregisteredBoardIsPending'
  BY <1>2, <1>a, <1>c DEF Claim, Goto, AfterClaim, SetClaim, keys, Control, SubmitSteps, DeleteSteps
<1>3. ASSUME NEW p \in Req, ClaimIsTaken(p) PROVE UnregisteredBoardIsPending'
  BY <1>3, <1>a, <1>c DEF ClaimIsTaken, Goto, keys, Control, SubmitSteps, DeleteSteps
<1>4. ASSUME NEW p \in Req, ReadStanding(p) PROVE UnregisteredBoardIsPending'
  BY <1>4, <1>a, <1>c DEF ReadStanding, Goto, Answer, keys, Control, SubmitSteps, DeleteSteps
<1>5. ASSUME NEW p \in Req, SetDisplayName(p) PROVE UnregisteredBoardIsPending'
  BY <1>5, <1>a, <1>c DEF SetDisplayName, Goto, SetName, keys, Control, SubmitSteps, DeleteSteps
<1>6. ASSUME NEW p \in Req, CallSubmit(p) PROVE UnregisteredBoardIsPending'
  BY <1>6, <1>a, <1>c DEF CallSubmit, keys, Control, SubmitSteps, DeleteSteps
<1>7. ASSUME NEW p \in Req, RunScript(p) PROVE UnregisteredBoardIsPending'
  <2>1. p \in Submissions
    BY <1>7 DEF RunScript, Control, SubmitSteps
  <2>2. \A c \in Bucket, v \in User : c # bucket[p] => zset'[c][v] = zset[c][v]
    BY <1>7, <1>a DEF RunScript, SubmitScript
  <2>3. \A b \in Bucket : b = bucket[p] => Pending(p, b)'
    BY <1>7 DEF RunScript, Goto
  <2>4. \A q \in Submissions, b \in Bucket : Pending(q, b) => Pending(q, b)'
    BY <1>7, <2>3 DEF RunScript, Goto
  <2>5. buckets' = buckets
    BY <1>7 DEF RunScript, SubmitScript
  <2>6. ASSUME NEW b \in Bucket, Populated(b)', b \notin buckets'
        PROVE  \E q \in Submissions : Pending(q, b)'
    <3>1. CASE b = bucket[p]
      BY <3>1, <2>1, <2>3
    <3>2. CASE b # bucket[p]
      <4>1. Populated(b) /\ b \notin buckets
        BY <3>2, <2>2, <2>5, <2>6
      <4>2. PICK q \in Submissions : Pending(q, b)
        BY <4>1 DEF UnregisteredBoardIsPending
      <4> QED
        BY <4>2, <2>4
    <3> QED
      BY <3>1, <3>2
  <2> QED
    BY <2>6, <1>b DEF UnregisteredBoardIsPending
<1>8. ASSUME NEW p \in Req, AddGame(p) PROVE UnregisteredBoardIsPending'
  BY <1>8, <1>a, <1>c DEF AddGame, Pipelined, RegisterGame, keys, Control, SubmitSteps, DeleteSteps
<1>9. ASSUME NEW p \in Req, AddBucket(p) PROVE UnregisteredBoardIsPending'
  BY <1>9, <1>a, <1>c DEF AddBucket, Goto, Answer, RegisterBucket, keys, Control, SubmitSteps, DeleteSteps
<1>10. ASSUME NEW p \in Req, ArriveDeletion(p) PROVE UnregisteredBoardIsPending'
  BY <1>10, <1>a, <1>c DEF ArriveDeletion, keys, Control, SubmitSteps, DeleteSteps
<1>11. ASSUME NEW p \in Req, ListBuckets(p) PROVE UnregisteredBoardIsPending'
  BY <1>11, <1>a, <1>c DEF ListBuckets, Goto, Answer, keys, Control, SubmitSteps, DeleteSteps
<1>12. ASSUME NEW p \in Req, RemoveFromBoard(p) PROVE UnregisteredBoardIsPending'
  <2>1. PICK c \in todo[p] : RemoveMember(c, job[p].user)
    BY <1>12 DEF RemoveFromBoard
  <2>2. /\ \A b \in Bucket, v \in User : zset'[b][v] # NoScore => zset[b][v] # NoScore
        /\ buckets' = buckets
    BY <2>1, <1>a DEF RemoveMember
  <2>3. \A q \in Submissions, b \in Bucket : Pending(q, b) => Pending(q, b)'
    BY <1>12 DEF RemoveFromBoard, Pipelined
  <2> QED
    BY <2>2, <2>3, <1>c
<1>13. ASSUME NEW p \in Req, DropName(p) PROVE UnregisteredBoardIsPending'
  BY <1>13, <1>a, <1>c DEF DropName, Answer, RemoveName, keys, Control, SubmitSteps, DeleteSteps
<1>14. ASSUME NEW p \in Req, GiveUp(p) PROVE UnregisteredBoardIsPending'
  BY <1>14, <1>a, <1>c DEF GiveUp, keys, Control, SubmitSteps, DeleteSteps
<1>15. ASSUME NEW p \in Req, Lose(p) PROVE UnregisteredBoardIsPending'
  BY <1>15, <1>a, <1>c DEF Lose, keys, Control, SubmitSteps, DeleteSteps
<1>16. CASE ClockTick
  BY <1>16, <1>a, <1>c DEF ClockTick, Tick, EmptyBoard, request
<1>17. CASE UNCHANGED vars
  BY <1>17, <1>a, <1>c DEF vars, keys, request
<1> QED
  BY <1>1, <1>2, <1>3, <1>4, <1>5, <1>6, <1>7, <1>8, <1>9, <1>10, <1>11, <1>12,
     <1>13, <1>14, <1>15, <1>16, <1>17
  DEF Next, Arrive, Serve, Submit, Delete

(* UnregisteredBoardIsPending: for every instance, a populated board is        *)
(* missing from the registry only while, or because, one submission has run    *)
(* its script on that board and not registered it.                             *)
THEOREM RegistryLagsByOneCommand == Spec => []UnregisteredBoardIsPending
<1> DEFINE Inv == Control /\ TypeOK /\ UnregisteredBoardIsPending
<1>1. Init => UnregisteredBoardIsPending
  BY DEF Init, KeysInit, EmptyBoard, UnregisteredBoardIsPending, Populated, OnBoard
<1>2. Init => Inv
  BY <1>1, InitControl, InitTypeOK
<1>3. Inv /\ [Next]_vars => Inv'
  BY NextControl, NextTypeOK, NextRegistry
<1> QED
  BY <1>2, <1>3, PTL DEF Spec

------------------------------------------------------------------------------
(* Idempotency keys                                                            *)

(* A claim is either still held, by exactly this request, or has lapsed; and a *)
(* submission with a key passes the claim before it does anything else.        *)
Claimed(p) == claimedAt[p] # NotClaimed

ClaimInv ==
    /\ \A p \in Req : Claimed(p) =>
          /\ p \in Submissions
          /\ job[p].key \in Key
          /\ claimedAt[p] <= now
          /\ \/ claimedAt[p] + IdemTtl <= now
             \/ idem[job[p].key] = claimedAt[p] + IdemTtl
    /\ \A p, q \in Req :
          p # q /\ Claimed(p) /\ Claimed(q) /\ job[p].key = job[q].key =>
              \/ claimedAt[p] + IdemTtl <= claimedAt[q]
              \/ claimedAt[q] + IdemTtl <= claimedAt[p]
    /\ \A p \in Submissions :
          /\ job[p].key # NoKey
          /\ wrote[p] # {} \/ pc[p] \in SubmitSteps \ {"claim", "standings"}
          => Claimed(p)

LEMMA NextClaimInv == Control /\ TypeOK /\ ClaimInv /\ [Next]_vars => ClaimInv'
<1> SUFFICES ASSUME Control, TypeOK, ClaimInv, [Next]_vars PROVE ClaimInv'
  OBVIOUS
<1>a. now \in Nat /\ IdemTtl \in Nat /\ IdemTtl > 0 /\ idem \in [Key -> Nat]
  BY CalendarAssumption, IdemAssumption DEF TypeOK, KeysTypeOK, Time
<1>b. claimedAt \in [Req -> Int] /\ pc \in [Req -> {"idle", "done"} \cup SubmitSteps \cup DeleteSteps]
  BY CalendarAssumption DEF TypeOK, Time, NotClaimed, Control
<1>d. wrote \in [Req -> SUBSET Bucket]
  BY DEF TypeOK
(* Without a claim or a tick, only the steps of one submission move.           *)
<1>c. ASSUME UNCHANGED <<now, idem, job, claimedAt>>,
             \A p \in Submissions :
                 /\ job[p].key # NoKey
                 /\ wrote'[p] # {} \/ pc'[p] \in SubmitSteps \ {"claim", "standings"}
                 => wrote[p] # {} \/ pc[p] \in SubmitSteps \ {"claim", "standings"}
      PROVE  ClaimInv'
  BY <1>c DEF ClaimInv, Claimed, Submissions
<1> USE DEF SubmitSteps, DeleteSteps
<1>1. ASSUME NEW p \in Req, ArriveSubmission(p) PROVE ClaimInv'
  BY <1>1, <1>b, <1>c, <1>d DEF ArriveSubmission, Answer, FirstStep, AfterClaim, keys, Submissions, Control
<1>2. ASSUME NEW p \in Req, Claim(p) PROVE ClaimInv'
  <2> DEFINE k == job[p].key
  <2>1. k \in Key /\ p \in Submissions
    BY <1>2, Payloads DEF Claim, Control
  <2>2. /\ idem[k] = 0
        /\ idem' = [idem EXCEPT ![k] = now + IdemTtl]
        /\ claimedAt' = [claimedAt EXCEPT ![p] = now]
        /\ UNCHANGED <<now, job, wrote>>
    BY <1>2 DEF Claim, ClaimIsFree, SetClaim
  <2>3. \A q \in Req : q # p => pc'[q] = pc[q]
    BY <1>2, <1>b DEF Claim, Goto
(* The key was free, so every earlier claim of it has lapsed.                  *)
  <2>4. ASSUME NEW q \in Req, Claimed(q), job[q].key = k
        PROVE  claimedAt[q] + IdemTtl <= now
    BY <2>1, <2>2, <2>4, <1>a, <1>b DEF ClaimInv, Claimed, NotClaimed, TypeOK, Time
  <2>5. Claimed(p)'
    BY <2>2, <1>a, <1>b DEF Claimed, NotClaimed
  <2>6. \A q \in Req : q # p => claimedAt'[q] = claimedAt[q]
    BY <2>2, <1>b
  <2>7. claimedAt'[p] = now /\ idem'[k] = now + IdemTtl
    BY <2>1, <2>2, <1>a, <1>b
  <2>8. ASSUME NEW q \in Req, Claimed(q)'
        PROVE  /\ q \in Submissions
               /\ job[q].key \in Key
               /\ claimedAt'[q] <= now
               /\ \/ claimedAt'[q] + IdemTtl <= now
                  \/ idem'[job[q].key] = claimedAt'[q] + IdemTtl
    <3>1. CASE q = p
      BY <3>1, <2>1, <2>7, <1>a
    <3>2. CASE q # p
      <4>1. Claimed(q) /\ claimedAt'[q] = claimedAt[q]
        BY <3>2, <2>6, <2>8 DEF Claimed
      <4>2. CASE job[q].key = k
        BY <4>1, <4>2, <2>4 DEF ClaimInv
      <4>3. CASE job[q].key # k
        BY <4>1, <4>3, <2>2, <1>a DEF ClaimInv
      <4> QED
        BY <4>2, <4>3
    <3> QED
      BY <3>1, <3>2
  <2>9. ASSUME NEW q \in Req, NEW r \in Req, q # r, Claimed(q)', Claimed(r)',
               job[q].key = job[r].key
        PROVE  \/ claimedAt'[q] + IdemTtl <= claimedAt'[r]
               \/ claimedAt'[r] + IdemTtl <= claimedAt'[q]
    BY <2>4, <2>6, <2>7, <2>9 DEF ClaimInv, Claimed
  <2>10. ASSUME NEW q \in Submissions, job[q].key # NoKey,
                wrote'[q] # {} \/ pc'[q] \in SubmitSteps \ {"claim", "standings"}
         PROVE  Claimed(q)'
    BY <2>2, <2>3, <2>5, <2>6, <2>10 DEF ClaimInv, Claimed, Submissions
  <2> QED
    BY <2>2, <2>8, <2>9, <2>10 DEF ClaimInv, Submissions
<1>3. ASSUME NEW p \in Req, ClaimIsTaken(p) PROVE ClaimInv'
  BY <1>3, <1>b, <1>c, <1>d DEF ClaimIsTaken, Goto, keys, Submissions, Control
<1>4. ASSUME NEW p \in Req, ReadStanding(p) PROVE ClaimInv'
  BY <1>4, <1>b, <1>c, <1>d DEF ReadStanding, Goto, Answer, keys, Submissions, Control
<1>5. ASSUME NEW p \in Req, SetDisplayName(p) PROVE ClaimInv'
  BY <1>5, <1>b, <1>c, <1>d DEF SetDisplayName, Goto, SetName
<1>6. ASSUME NEW p \in Req, CallSubmit(p) PROVE ClaimInv'
  BY <1>6, <1>b, <1>c, <1>d DEF CallSubmit, keys, Submissions, Control
<1>7. ASSUME NEW p \in Req, RunScript(p) PROVE ClaimInv'
  BY <1>7, <1>b, <1>c, <1>d DEF RunScript, Goto, SubmitScript, keys, Submissions, Control
<1>8. ASSUME NEW p \in Req, AddGame(p) PROVE ClaimInv'
  BY <1>8, <1>b, <1>c, <1>d DEF AddGame, Pipelined, RegisterGame, keys, Submissions, Control
<1>9. ASSUME NEW p \in Req, AddBucket(p) PROVE ClaimInv'
  BY <1>9, <1>b, <1>c, <1>d DEF AddBucket, Goto, Answer, RegisterBucket, keys, Submissions, Control
<1>10. ASSUME NEW p \in Req, ArriveDeletion(p) PROVE ClaimInv'
  BY <1>10, <1>b, <1>c, <1>d DEF ArriveDeletion, keys, Submissions, Control
<1>11. ASSUME NEW p \in Req, ListBuckets(p) PROVE ClaimInv'
  BY <1>11, <1>b, <1>c, <1>d DEF ListBuckets, Goto, Answer, keys, Submissions, Control
<1>12. ASSUME NEW p \in Req, RemoveFromBoard(p) PROVE ClaimInv'
  BY <1>12, <1>b, <1>c, <1>d DEF RemoveFromBoard, Pipelined, RemoveMember, keys, Submissions, Control
<1>13. ASSUME NEW p \in Req, DropName(p) PROVE ClaimInv'
  BY <1>13, <1>b, <1>c, <1>d DEF DropName, Answer, RemoveName, keys, Submissions, Control
<1>14. ASSUME NEW p \in Req, GiveUp(p) PROVE ClaimInv'
  BY <1>14, <1>b, <1>c, <1>d DEF GiveUp, keys, Submissions, Control
<1>15. ASSUME NEW p \in Req, Lose(p) PROVE ClaimInv'
  BY <1>15, <1>b, <1>c, <1>d DEF Lose, keys, Submissions, Control
<1>16. CASE ClockTick
  <2>1. /\ now' = now + 1
        /\ UNCHANGED <<job, pc, claimedAt, wrote>>
        /\ \A k \in Key : idem'[k] = IF Lapsed(idem[k]) THEN 0 ELSE idem[k]
    BY <1>16 DEF ClockTick, Tick, request
  <2>2. ASSUME NEW p \in Req, Claimed(p)
        PROVE  /\ claimedAt[p] <= now'
               /\ \/ claimedAt[p] + IdemTtl <= now'
                  \/ idem'[job[p].key] = claimedAt[p] + IdemTtl
    BY <2>1, <2>2, <1>a, <1>b DEF ClaimInv, Lapsed
  <2> QED
    BY <2>1, <2>2 DEF ClaimInv, Claimed, Submissions
<1>17. CASE UNCHANGED vars
  BY <1>17, <1>c DEF vars, keys, request
<1> QED
  BY <1>1, <1>2, <1>3, <1>4, <1>5, <1>6, <1>7, <1>8, <1>9, <1>10, <1>11, <1>12,
     <1>13, <1>14, <1>15, <1>16, <1>17
  DEF Next, Arrive, Serve, Submit, Delete

(* OneWriterPerKey: for every instance, two submissions under one key both     *)
(* write only if the second took the key after the first one's claim lapsed.   *)
THEOREM KeysAdmitOneWriter == Spec => []OneWriterPerKey
<1> DEFINE Inv == Control /\ TypeOK /\ ClaimInv
<1>1. Init => ClaimInv
  BY DEF Init, ClaimInv, Claimed, SubmitSteps, Submissions
<1>2. Init => Inv
  BY <1>1, InitControl, InitTypeOK
<1>3. Inv /\ [Next]_vars => Inv'
  BY NextControl, NextTypeOK, NextClaimInv
<1>4. Inv => OneWriterPerKey
  BY DEF ClaimInv, OneWriterPerKey, Submissions
<1> QED
  BY <1>2, <1>3, <1>4, PTL DEF Spec

------------------------------------------------------------------------------
(* The write side implements BestScores, for every instance: each step of a    *)
(* request, of Redis or of the clock is a step of BestScores or leaves its     *)
(* three variables alone.                                                      *)

submittedBar == {<<job[p].user, job[p].score>> : p \in Accepted}

leavingBar == {job[p].user : p \in {q \in Deletions : pc[q] # "idle"}}

LEMMA InitBestScores == Init => Promise!Init
<1> SUFFICES ASSUME Init PROVE Promise!Init
  OBVIOUS
<1>1. Accepted = {} /\ {q \in Deletions : pc[q] # "idle"} = {}
  BY DEF Init, Accepted, Submissions, Deletions
<1> QED
  BY <1>1 DEF Init, KeysInit, EmptyBoard, Promise!Init, Promise!Empty

LEMMA NextBestScores ==
    Control /\ TypeOK /\ AllTimeInv /\ [Next]_vars => [Promise!Next]_(Promise!vars)
<1> SUFFICES ASSUME Control, TypeOK, AllTimeInv, [Next]_vars
             PROVE  [Promise!Next]_(Promise!vars)
  OBVIOUS
<1>a. zset \in [Bucket -> [User -> Score \cup {NoScore}]]
  BY DEF TypeOK, KeysTypeOK
<1>b. pc \in [Req -> {"idle", "done"} \cup SubmitSteps \cup DeleteSteps] /\ reply \in [Req -> Reply]
  BY DEF Control
(* A step of a request that had arrived changes neither set of requests.       *)
<1>c. ASSUME NEW p \in Req, pc[p] # "idle", pc'[p] # "idle", job' = job,
             reply[p] = "rejected" <=> reply'[p] = "rejected",
             \A q \in Req : q # p => pc'[q] = pc[q] /\ reply'[q] = reply[q]
      PROVE  UNCHANGED <<submittedBar, leavingBar>>
  <2>1. Accepted' = Accepted
    BY <1>c DEF Accepted, Submissions
  <2>2. {q \in Deletions : pc[q] # "idle"}' = {q \in Deletions : pc[q] # "idle"}
    BY <1>c DEF Deletions
  <2> QED
    BY <2>1, <2>2, <1>c DEF submittedBar, leavingBar
<1>d. ASSUME UNCHANGED <<submittedBar, leavingBar>>, zset' = zset
      PROVE  [Promise!Next]_(Promise!vars)
  BY <1>d DEF submittedBar, leavingBar, Promise!vars
<1>e. \A p \in Req : pc[p] # "done" => reply[p] # "rejected"
  BY DEF Control
<1>1. ASSUME NEW p \in Req, ArriveSubmission(p) PROVE [Promise!Next]_(Promise!vars)
  <2>1. job' = job /\ zset' = zset /\ p \in Submissions /\ p \in Req
    BY <1>1 DEF ArriveSubmission, keys, Submissions
  <2>2. leavingBar' = leavingBar
    <3>1. {q \in Deletions : pc[q] # "idle"}' = {q \in Deletions : pc[q] # "idle"}
      BY <1>1, <2>1, <1>b DEF ArriveSubmission, Answer, Deletions, Submissions
    <3> QED
      BY <3>1, <2>1 DEF leavingBar
  <2>3. CASE ValidScore(job[p].score)
    <3>1. /\ pc' = [pc EXCEPT ![p] = FirstStep(job[p])]
          /\ reply' = reply
          /\ reply[p] = "none"
          /\ FirstStep(job[p]) # "idle"
      BY <1>1, <2>3 DEF ArriveSubmission, FirstStep, AfterClaim, Control
    <3>2. Accepted' = Accepted \cup {p}
      BY <3>1, <2>1, <1>b DEF Accepted, Submissions
    <3>3. submittedBar' = submittedBar \cup {<<job[p].user, job[p].score>>}
      BY <3>2, <2>1 DEF submittedBar
    <3>4. job[p].user \in User /\ job[p].score \in Score
      BY <2>1, <2>3, Payloads, ScoreAssumption DEF ValidScore, Score
    <3>5. \E u \in User, score \in Score : Promise!Accept(u, score)
      BY <3>3, <3>4, <2>1, <2>2 DEF Promise!Accept, submittedBar, leavingBar
    <3> QED
      BY <3>5 DEF Promise!Next
  <2>4. CASE ~ ValidScore(job[p].score)
    <3>1. reply[p] = "none" /\ pc[p] = "idle"
      BY <1>1 DEF ArriveSubmission, Control
    <3>2. pc' = [pc EXCEPT ![p] = "done"] /\ reply' = [reply EXCEPT ![p] = "rejected"]
      BY <1>1, <2>4, <3>1, <1>b DEF ArriveSubmission, Answer, Abandoned
    <3>3. Accepted' = Accepted
      BY <3>1, <3>2, <2>1, <1>b DEF Accepted, Submissions
    <3> QED
      BY <3>3, <2>1, <2>2, <1>d DEF submittedBar
  <2> QED
    BY <2>3, <2>4
<1>2. ASSUME NEW p \in Req, Claim(p) PROVE [Promise!Next]_(Promise!vars)
  <2>1. UNCHANGED <<submittedBar, leavingBar>>
    BY <1>2, <1>b, <1>c, <1>e DEF Claim, Goto, AfterClaim, SubmitSteps, DeleteSteps, Abandoned
  <2> QED
    BY <1>2, <2>1, <1>d DEF Claim, Goto, AfterClaim, SetClaim, keys
<1>3. ASSUME NEW p \in Req, ClaimIsTaken(p) PROVE [Promise!Next]_(Promise!vars)
  <2>1. UNCHANGED <<submittedBar, leavingBar>>
    BY <1>3, <1>b, <1>c, <1>e DEF ClaimIsTaken, Goto, SubmitSteps, DeleteSteps, Abandoned
  <2> QED
    BY <1>3, <2>1, <1>d DEF ClaimIsTaken, Goto, keys
<1>4. ASSUME NEW p \in Req, ReadStanding(p) PROVE [Promise!Next]_(Promise!vars)
  <2>1. UNCHANGED <<submittedBar, leavingBar>>
    BY <1>4, <1>b, <1>c, <1>e DEF ReadStanding, Goto, Answer, SubmitSteps, DeleteSteps, Abandoned
  <2> QED
    BY <1>4, <2>1, <1>d DEF ReadStanding, Goto, Answer, keys
<1>5. ASSUME NEW p \in Req, SetDisplayName(p) PROVE [Promise!Next]_(Promise!vars)
  <2>1. UNCHANGED <<submittedBar, leavingBar>>
    BY <1>5, <1>b, <1>c, <1>e DEF SetDisplayName, Goto, SubmitSteps, DeleteSteps, Abandoned
  <2> QED
    BY <1>5, <2>1, <1>d DEF SetDisplayName, Goto, SetName, keys
<1>6. ASSUME NEW p \in Req, CallSubmit(p) PROVE [Promise!Next]_(Promise!vars)
  <2>1. UNCHANGED <<submittedBar, leavingBar>>
    BY <1>6, <1>b, <1>c, <1>e DEF CallSubmit, SubmitSteps, DeleteSteps, Abandoned
  <2> QED
    BY <1>6, <2>1, <1>d DEF CallSubmit, keys
<1>7. ASSUME NEW p \in Req, RunScript(p) PROVE [Promise!Next]_(Promise!vars)
  <2> DEFINE b == bucket[p]
             u == job[p].user
             value == job[p].score
  <2>1. u \in User /\ value \in Score /\ p \in Submissions /\ b \in Bucket
    BY <1>7, Payloads DEF RunScript, Control, SubmitSteps, TypeOK
  <2>2. UNCHANGED <<submittedBar, leavingBar>>
    BY <1>7, <1>b, <1>c, <1>e DEF RunScript, Goto, SubmitSteps, DeleteSteps, Abandoned
  <2>3. zset' = [zset EXCEPT ![b][u] = Best(zset[b][u], value)]
    BY <1>7 DEF RunScript, SubmitScript
  <2>4. CASE zset[b][u] = NoScore \/ zset[b][u] < value
    <3>1. zset' = [zset EXCEPT ![b][u] = value]
      BY <2>3, <2>4 DEF Best
    <3>2. <<u, value>> \in submittedBar
      BY <1>7, <2>1, <1>e DEF RunScript, Accepted, submittedBar
    <3>3. Promise!Land(b, u, value)
      BY <3>1, <3>2, <2>2, <2>4 DEF Promise!Land, submittedBar, leavingBar
    <3> QED
      BY <3>3, <2>1 DEF Promise!Next
  <2>5. CASE ~ (zset[b][u] = NoScore \/ zset[b][u] < value)
    <3>1. zset' = [zset EXCEPT ![b][u] = zset[b][u]]
      BY <2>3, <2>5 DEF Best
    <3>2. zset' = zset
      BY <3>1, <2>1, <1>a
    <3> QED
      BY <3>2, <2>2, <1>d
  <2> QED
    BY <2>4, <2>5
<1>8. ASSUME NEW p \in Req, AddGame(p) PROVE [Promise!Next]_(Promise!vars)
  <2>1. UNCHANGED <<submittedBar, leavingBar>>
    BY <1>8, <1>b, <1>c, <1>e DEF AddGame, Pipelined, SubmitSteps, DeleteSteps, Abandoned
  <2> QED
    BY <1>8, <2>1, <1>d DEF AddGame, Pipelined, RegisterGame, keys
<1>9. ASSUME NEW p \in Req, AddBucket(p) PROVE [Promise!Next]_(Promise!vars)
  <2>1. UNCHANGED <<submittedBar, leavingBar>>
    BY <1>9, <1>b, <1>c, <1>e DEF AddBucket, Goto, Answer, SubmitSteps, DeleteSteps, Abandoned
  <2> QED
    BY <1>9, <2>1, <1>d DEF AddBucket, Goto, Answer, RegisterBucket, keys
<1>10. ASSUME NEW p \in Req, ArriveDeletion(p) PROVE [Promise!Next]_(Promise!vars)
  <2>1. /\ job' = job /\ zset' = zset /\ reply' = reply /\ p \in Deletions
        /\ pc[p] = "idle" /\ pc' = [pc EXCEPT ![p] = "smembers"]
    BY <1>10 DEF ArriveDeletion, keys
  <2>2. submittedBar' = submittedBar
    <3>1. Accepted' = Accepted
      BY <2>1, <1>b DEF Accepted, Submissions, Deletions
    <3> QED
      BY <3>1, <2>1 DEF submittedBar
  <2>3. {q \in Deletions : pc[q] # "idle"}' = {q \in Deletions : pc[q] # "idle"} \cup {p}
    BY <2>1, <1>b DEF Deletions
  <2>4. leavingBar' = leavingBar \cup {job[p].user}
    BY <2>3, <2>1 DEF leavingBar
  <2>5. job[p].user \in User
    BY <2>1, Payloads
  <2>6. \E u \in User : Promise!AskErase(u)
    BY <2>1, <2>2, <2>4, <2>5 DEF Promise!AskErase, submittedBar, leavingBar
  <2> QED
    BY <2>6 DEF Promise!Next
<1>11. ASSUME NEW p \in Req, ListBuckets(p) PROVE [Promise!Next]_(Promise!vars)
  <2>1. UNCHANGED <<submittedBar, leavingBar>>
    BY <1>11, <1>b, <1>c, <1>e DEF ListBuckets, Goto, Answer, SubmitSteps, DeleteSteps, Abandoned
  <2> QED
    BY <1>11, <2>1, <1>d DEF ListBuckets, Goto, Answer, keys
<1>12. ASSUME NEW p \in Req, RemoveFromBoard(p) PROVE [Promise!Next]_(Promise!vars)
  <2>1. PICK b \in todo[p] : RemoveMember(b, job[p].user)
    BY <1>12 DEF RemoveFromBoard
  <2>2. b \in Bucket /\ p \in Deletions /\ job[p].user \in User /\ pc[p] # "idle"
    BY <1>12, <2>1, Payloads DEF RemoveFromBoard, Control, DeleteSteps, TypeOK
  <2>3. UNCHANGED <<submittedBar, leavingBar>>
    BY <1>12, <1>b, <1>c, <1>e DEF RemoveFromBoard, Pipelined
  <2>4. job[p].user \in leavingBar
    BY <2>2 DEF leavingBar
  <2>5. Promise!Erase(b, job[p].user)
    BY <2>1, <2>3, <2>4 DEF Promise!Erase, RemoveMember, submittedBar, leavingBar
  <2> QED
    BY <2>2, <2>5 DEF Promise!Next
<1>13. ASSUME NEW p \in Req, DropName(p) PROVE [Promise!Next]_(Promise!vars)
  <2>1. UNCHANGED <<submittedBar, leavingBar>>
    BY <1>13, <1>b, <1>c, <1>e DEF DropName, Answer, SubmitSteps, DeleteSteps, Abandoned
  <2> QED
    BY <1>13, <2>1, <1>d DEF DropName, Answer, RemoveName, keys
<1>14. ASSUME NEW p \in Req, GiveUp(p) PROVE [Promise!Next]_(Promise!vars)
  <2>1. UNCHANGED <<submittedBar, leavingBar>>
    BY <1>14, <1>b, <1>c, <1>e DEF GiveUp, SubmitSteps, DeleteSteps, Abandoned, InFlight
  <2> QED
    BY <1>14, <2>1, <1>d DEF GiveUp, keys
<1>15. ASSUME NEW p \in Req, Lose(p) PROVE [Promise!Next]_(Promise!vars)
  <2>1. UNCHANGED <<submittedBar, leavingBar>>
    BY <1>15, <1>b, <1>c, <1>e DEF Lose, SubmitSteps, DeleteSteps, Abandoned, InFlight
  <2> QED
    BY <1>15, <2>1, <1>d DEF Lose, keys
<1>16. CASE ClockTick
  <2> DEFINE boards == {b \in Bucket : Lapsed(deadline[b])}
  <2>1. UNCHANGED <<submittedBar, leavingBar>>
    BY <1>16 DEF ClockTick, request, submittedBar, leavingBar, Accepted, Submissions, Deletions
  <2>2. boards \in SUBSET (Bucket \ {AllTimeBucket})
    BY DEF Lapsed, AllTimeInv, AllTimeStands
  <2>3. zset' = [b \in Bucket |-> IF b \in boards THEN EmptyBoard ELSE zset[b]]
    BY <1>16 DEF ClockTick, Tick
  <2>4. Promise!Lapse(boards)
    BY <2>1, <2>3 DEF Promise!Lapse, Promise!Empty, EmptyBoard, submittedBar, leavingBar
  <2> QED
    BY <2>2, <2>4 DEF Promise!Next
<1>17. CASE UNCHANGED vars
  <2>1. UNCHANGED <<submittedBar, leavingBar>>
    BY <1>17 DEF vars, request, submittedBar, leavingBar, Accepted, Submissions, Deletions
  <2> QED
    BY <1>17, <2>1, <1>d DEF vars, keys
<1> QED
  BY <1>1, <1>2, <1>3, <1>4, <1>5, <1>6, <1>7, <1>8, <1>9, <1>10, <1>11, <1>12,
     <1>13, <1>14, <1>15, <1>16, <1>17
  DEF Next, Arrive, Serve, Submit, Delete

(* KeepsBestScores: the service's write path, with its concurrency, failures   *)
(* and expiries, implements BestScores.                                        *)
THEOREM ImplementsBestScores == Spec => KeepsBestScores
<1> DEFINE Inv == Control /\ TypeOK /\ FanOut /\ AllTimeInv
<1>1. Init => Inv /\ Promise!Init
  BY InitControl, InitTypeOK, InitFanOut, InitAllTime, InitBestScores
<1>2. Inv /\ [Next]_vars => Inv'
  BY NextControl, NextTypeOK, NextFanOut, NextAllTime
<1>3. Inv /\ [Next]_vars => [Promise!Next]_(Promise!vars)
  BY NextBestScores
<1> QED
  BY <1>1, <1>2, <1>3, PTL DEF Spec, KeepsBestScores, Promise!Spec
==============================================================================
