-------------------------- MODULE LeaderboardWrites --------------------------
(* The write side of the service: POST .../scores and DELETE .../users, from   *)
(* their handlers in app/service.py down to the commands app/store/redis_store *)
(* sends.  Requests run concurrently, in any number of API processes; between  *)
(* two awaited calls of one request any other request, and the clock, may      *)
(* move.  A command is in flight until Redis executes it.  The client of a     *)
(* command may give up first (socket timeout, lost connection, full pool,      *)
(* crashed process), which ends the request; a command it had sent may then    *)
(* still be executed, later than anything else, or never.                      *)
EXTENDS RedisKeys

CONSTANTS Req,       \* requests a behaviour serves, each once
          Job,       \* what a request may ask for
          NoKey,     \* payload.idempotency_key absent or empty
          IdemTtl,   \* settings.idempotency_ttl_seconds, in ticks
          Ahead      \* how far ahead of the slowest clock the clock of the API
                     \* process is that serves the request

Submission == [op : {"submit"}, user : User, score : Int,
               key : Key \cup {NoKey}, named : BOOLEAN]

Deletion == [op : {"delete"}, user : User]

ASSUME JobAssumption == Job \subseteq Submission \cup Deletion

ASSUME IdemAssumption == IdemTtl \in Nat \ {0} /\ NoKey \notin Key

(* Each API process reads its own clock.  Redis only ever counts relative      *)
(* times, so now may be the slowest clock among the processes.                 *)
ASSUME ClockAssumption == Ahead \in [Req -> 0 .. MaxSkew]

(* No setting is validated against the length of its window, so this is an     *)
(* assumption on the deployment: retention covers the window, and the skew.    *)
ASSUME CoverAssumption ==
    /\ DayLength + MaxSkew <= DailyTtl
    /\ DayLength * DaysPerWeek + MaxSkew <= WeeklyTtl

VARIABLES
    job,        \* the request's payload
    pc,         \* where its handler is: "call" is client side, the other
                \* steps wait for the command of that name
    win,        \* position in WindowOrder of the loop over the windows
    bucket,     \* the bucket that loop last named
    todo,       \* the boards whose ZREM is still to be executed
    removed,    \* the boards whose ZREM removed the player
    reply,      \* "none" until the request is answered
    claimedAt,  \* observed: when the request took its key, NotClaimed if never
    wrote,      \* observed: the buckets its score has landed in
    before      \* observed: the requests over when a deletion arrived

request == <<pc, win, bucket, todo, removed, reply, claimedAt, wrote, before>>

vars == <<now, keys, job, request>>

InFlight == {"claim", "hset", "eval", "sadd_games", "sadd_buckets",
             "standings", "smembers", "zrem", "hdel"}

Reply == {"none", "created", "replayed", "rejected", "erased", "not_found", "failed"}

NotClaimed == -1

Submissions == {p \in Req : job[p].op = "submit"}

Deletions == {p \in Req : job[p].op = "delete"}

TypeOK ==
    /\ KeysTypeOK
    /\ job \in [Req -> Job]
    /\ pc \in [Req -> {"idle", "call", "done"} \cup InFlight]
    /\ win \in [Req -> 1 .. 3]
    /\ bucket \in [Req -> Bucket]
    /\ todo \in [Req -> SUBSET Bucket]
    /\ removed \in [Req -> SUBSET Bucket]
    /\ reply \in [Req -> Reply]
    /\ claimedAt \in [Req -> Time \cup {NotClaimed}]
    /\ wrote \in [Req -> SUBSET Bucket]
    /\ before \in [Req -> SUBSET Req]

Init ==
    /\ KeysInit
    /\ job \in [Req -> Job]
    /\ pc = [p \in Req |-> "idle"]
    /\ win = [p \in Req |-> 1]
    /\ bucket = [p \in Req |-> AllTimeBucket]
    /\ todo = [p \in Req |-> {}]
    /\ removed = [p \in Req |-> {}]
    /\ reply = [p \in Req |-> "none"]
    /\ claimedAt = [p \in Req |-> NotClaimed]
    /\ wrote = [p \in Req |-> {}]
    /\ before = [p \in Req |-> {}]

------------------------------------------------------------------------------
(* Where a handler goes.                                                       *)

Abandoned(p) == reply[p] = "failed"

(* A handler nobody runs any more takes no further step of its own.            *)
Goto(p, step) ==
    pc' = [pc EXCEPT ![p] = IF Abandoned(p) THEN "done" ELSE step]

Answer(p, answer) ==
    /\ pc' = [pc EXCEPT ![p] = "done"]
    /\ reply' = [reply EXCEPT ![p] = IF Abandoned(p) THEN @ ELSE answer]

(* The next command of a pipeline was sent with this one.                      *)
Pipelined(p, step) == pc' = [pc EXCEPT ![p] = step]

(* Mutated form of ValidScore: the upper limit is not checked.                 *)
NotTooLow(score) == MinScore <= score

ValidScore(score) == MinScore <= score /\ score <= MaxScore

AfterClaim(j) == IF j.named THEN "hset" ELSE "call"

FirstStep(j) == IF j.key # NoKey THEN "claim" ELSE AfterClaim(j)

------------------------------------------------------------------------------
(* submit_score                                                                *)

ArriveSubmission(p) ==
    /\ pc[p] = "idle"
    /\ p \in Submissions
    /\ IF ValidScore(job[p].score)
         THEN /\ pc' = [pc EXCEPT ![p] = FirstStep(job[p])]
              /\ UNCHANGED reply
         ELSE Answer(p, "rejected")
    /\ UNCHANGED <<now, keys, job, win, bucket, todo, removed, claimedAt, wrote, before>>

Claim(p) ==
    /\ pc[p] = "claim"
    /\ ClaimIsFree(job[p].key)
    /\ SetClaim(job[p].key, IdemTtl)
    /\ claimedAt' = [claimedAt EXCEPT ![p] = now]
    /\ Goto(p, AfterClaim(job[p]))
    /\ UNCHANGED <<now, job, win, bucket, todo, removed, reply, wrote, before>>

ClaimIsTaken(p) ==
    /\ pc[p] = "claim"
    /\ ~ ClaimIsFree(job[p].key)
    /\ Goto(p, "standings")
    /\ UNCHANGED <<now, keys, job, win, bucket, todo, removed, reply, claimedAt, wrote, before>>

(* _current_standings: one get_entry per window, which changes nothing.  Which *)
(* bucket each one reads is left out, like what it finds there.                *)
ReadStanding(p) ==
    /\ pc[p] = "standings"
    /\ IF win[p] < 3
         THEN /\ win' = [win EXCEPT ![p] = @ + 1]
              /\ Goto(p, "standings")
              /\ UNCHANGED reply
         ELSE /\ Answer(p, "replayed")
              /\ UNCHANGED win
    /\ UNCHANGED <<now, keys, job, bucket, todo, removed, claimedAt, wrote, before>>

SetDisplayName(p) ==
    /\ pc[p] = "hset"
    /\ SetName(job[p].user)
    /\ Goto(p, "call")
    /\ UNCHANGED <<now, job, win, bucket, todo, removed, reply, claimedAt, wrote, before>>

(* The clock of the process that serves request p.                             *)
Clock(p) == now + Ahead[p]

(* self._bucket(window): the clock is read here, before the call is sent.      *)
CallSubmit(p) ==
    /\ pc[p] = "call"
    /\ bucket' = [bucket EXCEPT ![p] = WindowSuffix(WindowOrder[win[p]], Clock(p))]
    /\ pc' = [pc EXCEPT ![p] = "eval"]
    /\ UNCHANGED <<now, keys, job, win, todo, removed, reply, claimedAt, wrote, before>>

RunScript(p) ==
    /\ pc[p] = "eval"
    /\ SubmitScript(bucket[p], job[p].user, job[p].score,
                    TtlArgument(TtlFor(WindowOrder[win[p]])))
    /\ wrote' = [wrote EXCEPT ![p] = @ \cup {bucket[p]}]
    /\ Goto(p, "sadd_games")
    /\ UNCHANGED <<now, job, win, bucket, todo, removed, reply, claimedAt, before>>

AddGame(p) ==
    /\ pc[p] = "sadd_games"
    /\ RegisterGame
    /\ Pipelined(p, "sadd_buckets")
    /\ UNCHANGED <<now, job, win, bucket, todo, removed, reply, claimedAt, wrote, before>>

AddBucket(p) ==
    /\ pc[p] = "sadd_buckets"
    /\ RegisterBucket(bucket[p])
    /\ IF win[p] < 3
         THEN /\ win' = [win EXCEPT ![p] = @ + 1]
              /\ Goto(p, "call")
              /\ UNCHANGED reply
         ELSE /\ Answer(p, "created")
              /\ UNCHANGED win
    /\ UNCHANGED <<now, job, bucket, todo, removed, claimedAt, wrote, before>>

------------------------------------------------------------------------------
(* delete_user                                                                 *)

Over(p) == pc[p] = "done"

ArriveDeletion(p) ==
    /\ pc[p] = "idle"
    /\ p \in Deletions
    /\ before' = [before EXCEPT ![p] = {q \in Req : Over(q)}]
    /\ pc' = [pc EXCEPT ![p] = "smembers"]
    /\ UNCHANGED <<now, keys, job, win, bucket, todo, removed, reply, claimedAt, wrote>>

ListBuckets(p) ==
    /\ pc[p] = "smembers"
    /\ IF buckets = {}
         THEN /\ Answer(p, "not_found")
              /\ UNCHANGED todo
         ELSE /\ todo' = [todo EXCEPT ![p] = buckets]
              /\ Goto(p, "zrem")
              /\ UNCHANGED reply
    /\ UNCHANGED <<now, keys, job, win, bucket, removed, claimedAt, wrote, before>>

RemoveFromBoard(p) ==
    /\ pc[p] = "zrem"
    /\ \E b \in todo[p] :
         /\ RemoveMember(b, job[p].user)
         /\ removed' = [removed EXCEPT ![p] = IF OnBoard(b, job[p].user) THEN @ \cup {b} ELSE @]
         /\ todo' = [todo EXCEPT ![p] = @ \ {b}]
         /\ Pipelined(p, IF todo[p] = {b} THEN "hdel" ELSE "zrem")
    /\ UNCHANGED <<now, job, win, bucket, reply, claimedAt, wrote, before>>

DropName(p) ==
    /\ pc[p] = "hdel"
    /\ RemoveName(job[p].user)
    /\ Answer(p, IF removed[p] = {} THEN "not_found" ELSE "erased")
    /\ UNCHANGED <<now, job, win, bucket, todo, removed, claimedAt, wrote, before>>

------------------------------------------------------------------------------
(* Failures                                                                    *)

(* Mutated form of GiveUp: a client without a socket timeout.                  *)
GiveUpUnsent(p) ==
    /\ pc[p] = "call"
    /\ reply' = [reply EXCEPT ![p] = "failed"]
    /\ pc' = [pc EXCEPT ![p] = "done"]
    /\ UNCHANGED <<now, keys, job, win, bucket, todo, removed, claimedAt, wrote, before>>

(* StoreUnavailableError, or the end of the process: the request is over for   *)
(* its client.  Only a command that was sent can still have an effect.         *)
GiveUp(p) ==
    /\ pc[p] \notin {"idle", "done"}
    /\ ~ Abandoned(p)
    /\ reply' = [reply EXCEPT ![p] = "failed"]
    /\ pc' = [pc EXCEPT ![p] = IF @ \in InFlight THEN @ ELSE "done"]
    /\ UNCHANGED <<now, keys, job, win, bucket, todo, removed, claimedAt, wrote, before>>

(* A command of an abandoned request never reaches Redis.                      *)
Lose(p) ==
    /\ Abandoned(p)
    /\ pc[p] \in InFlight
    /\ pc' = [pc EXCEPT ![p] = "done"]
    /\ UNCHANGED <<now, keys, job, win, bucket, todo, removed, reply, claimedAt, wrote, before>>

ClockTick == Tick /\ UNCHANGED <<job, request>>

Submit(p) ==
    \/ Claim(p) \/ ClaimIsTaken(p) \/ ReadStanding(p)
    \/ SetDisplayName(p) \/ CallSubmit(p) \/ RunScript(p)
    \/ AddGame(p) \/ AddBucket(p)

Delete(p) == ListBuckets(p) \/ RemoveFromBoard(p) \/ DropName(p)

Serve(p) == Submit(p) \/ Delete(p) \/ GiveUp(p) \/ Lose(p)

Arrive(p) == ArriveSubmission(p) \/ ArriveDeletion(p)

Next == ClockTick \/ \E p \in Req : Arrive(p) \/ Serve(p)

Spec == Init /\ [][Next]_vars

(* The event loop runs every handler that can go on, the socket timeout ends   *)
(* every wait, and the connection of a request that gave up is closed.  Redis  *)
(* need not execute anything.                                                  *)
Unwait(p) == CallSubmit(p) \/ GiveUp(p) \/ Lose(p)

FairSpec == Spec /\ \A p \in Req : WF_vars(Unwait(p))

------------------------------------------------------------------------------
(* Properties                                                                  *)

(* No erasure of the user has been asked for yet.                              *)
Untargeted(u) == \A p \in Deletions : job[p].user = u => pc[p] = "idle"

(* Every submission for the user that arrived was answered, none with a 503.   *)
Settled(u) ==
    \A p \in Submissions :
        job[p].user = u => pc[p] = "idle" \/ reply[p] \in {"created", "replayed", "rejected"}

AtLeast(b, u, score) == OnBoard(b, u) /\ zset[b][u] >= score

(* The all-time board holds every player of every rolling board, with a score  *)
(* at least as good, whatever happens to the fan-out in submit_score: the loop *)
(* writes it first, so a request that fails or is overtaken half way leaves no *)
(* player on today's board who is missing from, or worse on, the all-time one. *)
AllTimeDominates ==
    \A u \in User, b \in Bucket :
        Untargeted(u) /\ OnBoard(b, u) => AtLeast(AllTimeBucket, u, zset[b][u])

(* A score whose script ran stands, or a better one does, on every board it    *)
(* was written to for as long as that board is the current one of its window   *)
(* by the clock of any process, whatever other submissions, expiries and late  *)
(* commands come between, and however far that clock lags the writer's.        *)
LandedScoresStand ==
    \A p \in Submissions, b \in Bucket :
        /\ b \in wrote[p]
        /\ Untargeted(job[p].user)
        /\ \E window \in Window, q \in Req : b = WindowSuffix(window, Clock(q))
        => AtLeast(b, job[p].user, job[p].score)

(* A player on today's board is on this week's board, at least as good, once   *)
(* every submission was answered: the fan-out names the daily bucket before    *)
(* the weekly one, so midnight can fall between the two only one way round.    *)
(* With clocks apart it takes a reader whose clock no writer was ahead of: a   *)
(* process ahead of the reader's may already count to next week.               *)
RollingBoardsAgree ==
    \A q \in Req, u \in User :
        LET today == WindowSuffix("daily", Clock(q))
            thisWeek == WindowSuffix("weekly", Clock(q))
        IN  /\ Untargeted(u)
            /\ Settled(u)
            /\ \A p \in Submissions : job[p].user = u => Ahead[p] <= Ahead[q]
            /\ OnBoard(today, u)
            => AtLeast(thisWeek, u, zset[today][u])

(* A 201 that is not marked deduplicated means that the score landed in one    *)
(* bucket of each window, that all three are in the registry a cascade delete  *)
(* walks, and that the game is listed.  A replay is answered 201 as well, with *)
(* reply "replayed" here, and wrote nothing (ReplayMeansApplied below).        *)
CreatedIsOnEveryBoard ==
    \A p \in Req :
        reply[p] = "created" =>
            /\ \A window \in Window :
                  \E at \in Moment : WindowSuffix(window, at) \in wrote[p]
            /\ wrote[p] \subseteq buckets
            /\ Game \in games

(* A board with players that the registry does not name is only ever the one   *)
(* some request is still registering or failed on: the bookkeeping left out of *)
(* the script's atomic section lags by one command, never by a whole fan-out.  *)
UnregisteredBoardIsPending ==
    \A b \in Bucket :
        b \notin buckets /\ Populated(b) =>
            \E p \in Submissions :
                /\ bucket[p] = b
                /\ b \in wrote[p]
                /\ pc[p] \in {"sadd_games", "sadd_buckets"} \/ Abandoned(p)

(* Two submissions under one key both write only when the first one's claim    *)
(* had lapsed before the second one took the key, however they interleave.     *)
OneWriterPerKey ==
    \A p, q \in Submissions :
        /\ p # q
        /\ job[p].key = job[q].key
        /\ job[p].key # NoKey
        /\ wrote[p] # {}
        /\ wrote[q] # {}
        => \/ claimedAt[p] + IdemTtl <= claimedAt[q]
           \/ claimedAt[q] + IdemTtl <= claimedAt[p]

(* A rolling board that holds anybody carries a TTL, within the retention of   *)
(* its window, and the all-time board never does: the script restarts the TTL  *)
(* with each write, and a removal takes it along only with the last member, so *)
(* no order of writes and removals loses or extends it.                        *)
RollingBoardsExpire ==
    /\ deadline[AllTimeBucket] = 0
    /\ \A window \in {"daily", "weekly"}, at \in Moment :
          LET b == WindowSuffix(window, at)
          IN  Populated(b) => now < deadline[b] /\ deadline[b] <= now + TtlFor(window)

(* The submissions for the player of deletion d that were not over when d      *)
(* arrived: running beside it, or later.                                       *)
Overlapping(d) ==
    {p \in Submissions \ before[d] : job[p].user = job[d].user /\ pc[p] # "idle"}

(* After a deletion is answered, with 204 or with 404, a score or a name the   *)
(* player still has was put there by a submission that was not over when the   *)
(* deletion arrived: a submission may slip a board past SMEMBERS, run between  *)
(* two ZREMs or follow late, but nothing older survives, also when an earlier  *)
(* deletion stopped half way.  Provided that no older submission for the       *)
(* player was answered 503.                                                    *)
NothingOlderSurvives ==
    \A d \in Deletions :
        /\ reply[d] \in {"erased", "not_found"}
        /\ \A p \in Submissions \cap before[d] : job[p].user = job[d].user => ~ Abandoned(p)
        => /\ \A b \in Bucket :
                 OnBoard(b, job[d].user) =>
                    \E p \in Overlapping(d) : b \in wrote[p] /\ zset[b][job[d].user] = job[p].score
           /\ job[d].user \in names => \E p \in Overlapping(d) : job[p].named

(* The write side implements BestScores: requests in any order, failures and   *)
(* late commands included, only ever improve a standing score, remove one on   *)
(* request, or let a whole rolling board lapse.                                *)
Accepted ==
    {p \in Submissions : pc[p] # "idle" /\ reply[p] # "rejected"}

Promise == INSTANCE BestScores WITH
    Board <- Bucket,
    Permanent <- {AllTimeBucket},
    best <- zset,
    submitted <- {<<job[p].user, job[p].score>> : p \in Accepted},
    leaving <- {job[p].user : p \in {q \in Deletions : pc[q] # "idle"}}

KeepsBestScores == Promise!Spec

(* Every request that arrives is answered, and leaves nothing in flight: none  *)
(* stays for ever between its arrival and its answer.                          *)
EveryRequestSettles ==
    \A p \in Req : []<>(pc[p] = "idle" \/ (pc[p] = "done" /\ reply[p] # "none"))

------------------------------------------------------------------------------
(* What the documentation says, which the runs refute                          *)

(* app/service.py:105, "A replay of a submission already applied under this    *)
(* key": a request answered as a replay has a submission that reached every    *)
(* board, at the latest once no request is running any more.                   *)
ReplayMeansApplied ==
    (\A q \in Req : pc[q] \in {"idle", "done"}) =>
        \A p \in Submissions :
            reply[p] = "replayed" =>
                \E q \in Submissions :
                    /\ job[q].key = job[p].key
                    /\ \A window \in Window :
                          \E at \in Moment : WindowSuffix(window, at) \in wrote[q]

(* app/api/routes.py:127, "Removes the player from every board of the game":   *)
(* after a 204 the player is on no board, when every submission for the player *)
(* was over before the deletion arrived.                                       *)
EraseRemovesFromEveryBoard ==
    \A d \in Deletions :
        /\ reply[d] = "erased"
        /\ \A p \in Submissions :
              job[p].user = job[d].user /\ pc[p] # "idle" => p \in before[d]
        => \A b \in Bucket : ~ OnBoard(b, job[d].user)

(* app/core/windows.py:5, "Rolling windows carry a TTL so storage is bounded": *)
(* what Redis keeps of a rolling window goes when its board does.              *)
RegistryLapsesWithBoards ==
    (\A p \in Req : pc[p] \in {"idle", "done"}) /\ Deletions = {} =>
        \A b \in buckets : Populated(b)
==============================================================================
