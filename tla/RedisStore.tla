----------------------------- MODULE RedisStore ------------------------------
(* app/store/redis_store.py behind the storage port, as one client sees it     *)
(* that nobody disturbs: each operation one step, with all its commands, and   *)
(* with what it answers.  LeaderboardWrites and RedisReads take the same       *)
(* operations apart, command by command.                                       *)
EXTENDS RedisKeys, Sequences

INSTANCE Ranking

CONSTANTS IdemTtl,    \* settings.idempotency_ttl_seconds, in ticks
          LuaExact    \* the least size of a score Lua does not print exactly

VARIABLE answer       \* what the last operation returned

BoardOf(window) == WindowSuffix(window, now)

Rows(b) == RowsOf(zset[b])

------------------------------------------------------------------------------
(* Writes                                                                      *)

(* Lua prints a number with 14 significant digits: `..` and tostring round the *)
(* scores from LuaExact on to tens (the hundreds and more beyond are not used), *)
(* and those from -LuaExact down alike, their sign apart.                      *)
ToTens(size) ==
    LET ones == size % 10
        down == size - ones
    IN  IF ones < 5 \/ (ones = 5 /\ (down \div 10) % 2 = 0) THEN down ELSE down + 10

LuaText(score) ==
    CASE score >= LuaExact  -> ToTens(score)
      [] score <= -LuaExact -> -ToTens(-score)
      [] OTHER              -> score

(* ZADD gets the number itself, ZCOUNT and the caller get its text.            *)
Submit(window, u, score) ==
    LET b == BoardOf(window)
        ttl == TtlArgument(TtlFor(window))
        previous == zset[b][u]
        standing == Best(previous, score)
    IN  /\ zset' = [zset EXCEPT ![b][u] = standing]
        /\ deadline' = [deadline EXCEPT ![b] = IF ttl > 0 THEN now + ttl ELSE @]
        /\ games' = games \cup {Game}
        /\ buckets' = buckets \cup {b}
        /\ answer' = [op |-> "submit", score |-> LuaText(standing),
                      previous |-> IF previous = NoScore THEN NoScore ELSE LuaText(previous),
                      rank |-> CountAbove(RowsOf(zset'[b]), LuaText(standing)) + 1,
                      updated |-> previous # standing]
        /\ UNCHANGED <<now, idem, names>>

SetDisplayName(u) ==
    /\ SetName(u)
    /\ answer' = [op |-> "name"]
    /\ UNCHANGED now

(* Mutated form of Touched: every registered board counts.                     *)
AllRegistered(u) == buckets

Touched(u) == {b \in buckets : OnBoard(b, u)}

(* Without a registered board there is nothing to do, and the name stays.      *)
RemovePlayer(u) ==
    LET emptied == {b \in Touched(u) : \A v \in User \ {u} : ~ OnBoard(b, v)}
    IN  /\ zset' = [b \in Bucket |->
                      IF b \in buckets THEN [zset[b] EXCEPT ![u] = NoScore] ELSE zset[b]]
        /\ deadline' = [b \in Bucket |-> IF b \in emptied THEN 0 ELSE deadline[b]]
        /\ names' = IF buckets = {} THEN names ELSE names \ {u}
        /\ answer' = [op |-> "remove", touched |-> Cardinality(Touched(u))]
        /\ UNCHANGED <<now, idem, buckets, games>>

ClaimIdempotencyKey(k) ==
    /\ IF ClaimIsFree(k) THEN SetClaim(k, IdemTtl) ELSE UNCHANGED keys
    /\ answer' = [op |-> "claim", fresh |-> ClaimIsFree(k)]
    /\ UNCHANGED now

------------------------------------------------------------------------------
(* Reads                                                                       *)

ReadOf(result) == answer' = result /\ UNCHANGED <<now, keys>>

(* The rows of one ZREVRANGE, the rank of the first one from ZCOUNT.           *)
Ranked(b, rows, start) ==
    Decorate(RankPage(rows, start, CountAbove(Rows(b), rows[1][2]) + 1), names)

Top(window, limit, offset) ==
    LET b == BoardOf(window)
        rows == Slice(Rows(b), offset, offset + limit)
    IN  ReadOf([op |-> "top", total |-> Cardinality(Rows(b)),
                entries |-> IF rows = <<>> THEN <<>> ELSE Ranked(b, rows, offset)])

GetEntry(window, u) ==
    LET b == BoardOf(window)
    IN  ReadOf(IF ~ OnBoard(b, u) THEN [op |-> "absent"]
               ELSE [op |-> "entry", entry |-> Ranked(b, <<<<u, zset[b][u]>>>>, 0)[1]])

(* Mutated form of StripStop: ZREVRANGE taken to exclude its stop.             *)
StripStopExclusive(index, radius) == index + radius

(* One past the inclusive stop of ZREVRANGE.                                   *)
StripStop(index, radius) == index + radius + 1

Context(window, u, radius) ==
    LET b == BoardOf(window)
        index == PlaceOf(Rows(b), <<u, zset[b][u]>>)
        start == Greatest(0, index - radius)
        entries == Ranked(b, Slice(Rows(b), start, StripStop(index, radius)), start)
        pivot == index - start + 1
    IN  ReadOf(IF ~ OnBoard(b, u) THEN [op |-> "absent"]
               ELSE [op |-> "context", total |-> Cardinality(Rows(b)),
                     above |-> SubSeq(entries, 1, pivot - 1), user |-> entries[pivot],
                     below |-> SubSeq(entries, pivot + 1, Len(entries))])

TotalPlayers(window) == ReadOf([op |-> "total", total |-> Cardinality(Rows(BoardOf(window)))])

ListGames == ReadOf([op |-> "games", games |-> games])

ClockTick == Tick /\ UNCHANGED answer
==============================================================================
