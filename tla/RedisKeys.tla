------------------------------ MODULE RedisKeys ------------------------------
(* The keys app/store/redis_store.py keeps in Redis for one game, and the      *)
(* commands it sends, each of which the server executes atomically.            *)
(*                                                                             *)
(*   lb:{game}:board:<bucket>   zset[bucket]   user -> score                   *)
(*      and the TTL of that key deadline[bucket], 0 when it has none           *)
(*   lb:{game}:idem:<key>       idem[key]      when the claim lapses, 0 absent *)
(*   lb:{game}:names            names          users with a display name       *)
(*   lb:{game}:buckets          buckets        the registry for cascades       *)
(*   lb:games                   games          the games ever registered        *)
(*                                                                             *)
(* Redis deletes a sorted set, with its TTL, when its last member goes, so an  *)
(* empty board and an absent one are the same state.  The text of a display    *)
(* name is not kept: only whether a user has one.                              *)
EXTENDS Windows, FiniteSets

CONSTANTS Game,                 \* the game these keys belong to
          User, Key,
          MinScore, MaxScore,   \* settings.min_score, settings.max_score
          NoScore               \* what ZSCORE answers for an absent member

ASSUME ScoreAssumption ==
    /\ MinScore \in Int
    /\ MaxScore \in Int
    /\ NoScore \notin Int

VARIABLES now, zset, deadline, idem, names, buckets, games

keys == <<zset, deadline, idem, names, buckets, games>>

Score == MinScore .. MaxScore

EmptyBoard == [u \in User |-> NoScore]

OnBoard(b, u) == zset[b][u] # NoScore

Populated(b) == \E u \in User : OnBoard(b, u)

KeysTypeOK ==
    /\ now \in Time
    /\ zset \in [Bucket -> [User -> Score \cup {NoScore}]]
    /\ deadline \in [Bucket -> Nat]
    /\ idem \in [Key -> Nat]
    /\ names \in SUBSET User
    /\ buckets \in SUBSET Bucket
    /\ games \in SUBSET {Game}

KeysInit ==
    /\ now = 0
    /\ zset = [b \in Bucket |-> EmptyBoard]
    /\ deadline = [b \in Bucket |-> 0]
    /\ idem = [k \in Key |-> 0]
    /\ names = {}
    /\ buckets = {}
    /\ games = {}

(* Mutated form of Best: the last write wins.                                  *)
LastWrite(previous, value) == value

(* _SUBMIT_LUA: keep the better of the stored and the submitted score, then    *)
(* restart the retention of the board when the ttl argument is positive.       *)
Best(previous, value) ==
    IF previous = NoScore \/ previous < value THEN value ELSE previous

(* Mutated form of TtlArgument: no TTL becomes a default one.                  *)
DefaultTtl(ttl) == IF ttl = NoTtl THEN WeeklyTtl ELSE ttl

(* The ttl argument of the script: `ttl_seconds or 0`.                         *)
TtlArgument(ttl) == IF ttl = NoTtl THEN 0 ELSE ttl

SubmitScript(b, u, value, ttl) ==
    /\ zset' = [zset EXCEPT ![b][u] = Best(@, value)]
    /\ deadline' = [deadline EXCEPT ![b] = IF ttl > 0 THEN now + ttl ELSE @]
    /\ UNCHANGED <<idem, names, buckets, games>>

(* Mutated form of ClaimIsFree: SET without NX.                                *)
AlwaysFree(k) == TRUE

(* SET key 1 NX EX ttl, when the key is free.                                  *)
ClaimIsFree(k) == idem[k] = 0

SetClaim(k, ttl) ==
    /\ idem' = [idem EXCEPT ![k] = now + ttl]
    /\ UNCHANGED <<zset, deadline, names, buckets, games>>

SetName(u) ==
    /\ names' = names \cup {u}
    /\ UNCHANGED <<zset, deadline, idem, buckets, games>>

RegisterGame ==
    /\ games' = games \cup {Game}
    /\ UNCHANGED <<zset, deadline, idem, names, buckets>>

(* Mutated forms of RegisterBucket: only the first bucket, and none.           *)
RegisterFirstBucket(b) ==
    /\ buckets' = IF buckets = {} THEN {b} ELSE buckets
    /\ UNCHANGED <<zset, deadline, idem, names, games>>

RegisterNoBucket(b) == UNCHANGED keys

RegisterBucket(b) ==
    /\ buckets' = buckets \cup {b}
    /\ UNCHANGED <<zset, deadline, idem, names, games>>

(* Mutated form of RemoveMember: DEL takes every other player along.           *)
RemoveBoard(b, u) ==
    /\ zset' = [zset EXCEPT ![b] = EmptyBoard]
    /\ deadline' = [deadline EXCEPT ![b] = 0]
    /\ UNCHANGED <<idem, names, buckets, games>>

(* ZREM, which takes the TTL along when it removes the last member.            *)
RemoveMember(b, u) ==
    /\ zset' = [zset EXCEPT ![b][u] = NoScore]
    /\ deadline' = [deadline EXCEPT ![b] =
                      IF \E v \in User \ {u} : OnBoard(b, v) THEN @ ELSE 0]
    /\ UNCHANGED <<idem, names, buckets, games>>

RemoveName(u) ==
    /\ names' = names \ {u}
    /\ UNCHANGED <<zset, deadline, idem, buckets, games>>

(* Time passes.  A key whose deadline is reached is no longer visible to any   *)
(* command, which is what removing it at that tick says.                       *)
Lapsed(d) == d # 0 /\ d <= now + 1

Tick ==
    /\ now < MaxTime
    /\ now' = now + 1
    /\ zset' = [b \in Bucket |-> IF Lapsed(deadline[b]) THEN EmptyBoard ELSE zset[b]]
    /\ deadline' = [b \in Bucket |-> IF Lapsed(deadline[b]) THEN 0 ELSE deadline[b]]
    /\ idem' = [k \in Key |-> IF Lapsed(idem[k]) THEN 0 ELSE idem[k]]
    /\ UNCHANGED <<names, buckets, games>>
==============================================================================
