------------------------------ MODULE StorePort ------------------------------
(* The storage port of app/store/base.py: what every leaderboard backend owes  *)
(* the service, each operation one step, a board gone at the very tick its     *)
(* retention ends, and each read answered from the boards as they are.         *)
EXTENDS Ranking

CONSTANTS Game, User, Key,
          Board,       \* the boards of all games, each a pair <<game, bucket>>
          NoTtl,       \* ttl_seconds is None
          CalledScore, Ttl, IdemTtl, Limit, Offset, Radius   \* what callers may ask for

VARIABLES now, best, deadline, names, claims, answer

vars == <<now, best, deadline, names, claims, answer>>

Nobody == [u \in User |-> NoScore]

NamesIn(g) == {u \in User : <<g, u>> \in names}

BoardsOf(g) == {b \in Board : b[1] = g}

Init ==
    /\ now = 0
    /\ best = [b \in Board |-> Nobody]
    /\ deadline = [b \in Board |-> 0]
    /\ names = {}
    /\ claims = [k \in Game \X Key |-> 0]
    /\ answer = [op |-> "none"]

(* The better of old and new stands, and the board is retained for ttl more.   *)
Submit(b, u, score, ttl) ==
    LET previous == best[b][u]
        standing == IF previous = NoScore THEN score ELSE Greatest(previous, score)
    IN  /\ best' = [best EXCEPT ![b][u] = standing]
        /\ deadline' = [deadline EXCEPT ![b] = IF ttl = NoTtl THEN @ ELSE now + ttl]
        /\ answer' = [op |-> "submit", score |-> standing, previous |-> previous,
                      rank |-> RankOf(best'[b], standing), updated |-> previous # standing]
        /\ UNCHANGED <<now, names, claims>>

SetDisplayName(g, u) ==
    /\ names' = names \cup {<<g, u>>}
    /\ answer' = [op |-> "name"]
    /\ UNCHANGED <<now, best, deadline, claims>>

(* The number of boards touched may count boards that no longer show.          *)
RemovePlayer(g, u) ==
    /\ best' = [b \in Board |-> IF b[1] = g THEN [best[b] EXCEPT ![u] = NoScore] ELSE best[b]]
    /\ deadline' = [b \in Board |-> IF Members(best'[b]) = {} THEN 0 ELSE deadline[b]]
    /\ names' = names \ {<<g, u>>}
    /\ \E touched \in Cardinality({b \in BoardsOf(g) : u \in Members(best[b])})
                      .. Cardinality(BoardsOf(g)) :
          answer' = [op |-> "remove", touched |-> touched]
    /\ UNCHANGED <<now, claims>>

ClaimIdempotencyKey(g, k, ttl) ==
    LET fresh == claims[<<g, k>>] = 0
    IN  /\ claims' = [claims EXCEPT ![<<g, k>>] = IF fresh THEN now + ttl ELSE @]
        /\ answer' = [op |-> "claim", fresh |-> fresh]
        /\ UNCHANGED <<now, best, deadline, names>>

Read(result) == answer' = result /\ UNCHANGED <<now, best, deadline, names, claims>>

Top(b, limit, offset) == Read(TopOf(best[b], NamesIn(b[1]), limit, offset))

GetEntry(b, u) == Read(EntryOf(best[b], NamesIn(b[1]), u))

Context(b, u, radius) == Read(ContextOf(best[b], NamesIn(b[1]), u, radius))

TotalPlayers(b) == Read([op |-> "total", total |-> Cardinality(Members(best[b]))])

(* Every game with a player is known; a game may be remembered for longer.     *)
ListGames ==
    \E known \in SUBSET Game :
        /\ \A b \in Board : Members(best[b]) # {} => b[1] \in known
        /\ Read([op |-> "games", games |-> known])

Tick ==
    /\ now' = now + 1
    /\ best' = [b \in Board |-> IF deadline[b] # 0 /\ deadline[b] <= now' THEN Nobody ELSE best[b]]
    /\ deadline' = [b \in Board |-> IF deadline[b] <= now' THEN 0 ELSE deadline[b]]
    /\ claims' = [k \in Game \X Key |-> IF claims[k] <= now' THEN 0 ELSE claims[k]]
    /\ UNCHANGED <<names, answer>>

Next ==
    \/ Tick
    \/ ListGames
    \/ \E g \in Game, u \in User : SetDisplayName(g, u) \/ RemovePlayer(g, u)
    \/ \E g \in Game, k \in Key : ClaimIdempotencyKey(g, k, IdemTtl)
    \/ \E b \in Board :
          \/ TotalPlayers(b)
          \/ \E limit \in Limit, offset \in Offset : Top(b, limit, offset)
          \/ \E u \in User :
                \/ \E score \in CalledScore, ttl \in Ttl : Submit(b, u, score, ttl)
                \/ GetEntry(b, u)
                \/ \E radius \in Radius : Context(b, u, radius)

Spec == Init /\ [][Next]_vars
==============================================================================
