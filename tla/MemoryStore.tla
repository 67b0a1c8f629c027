----------------------------- MODULE MemoryStore -----------------------------
(* app/store/memory.py: boards as a score map beside a sorted index over it,   *)
(* dropped lazily, the next time somebody asks for them.  Every operation is   *)
(* one critical section without an await in it, on one event loop, so each is  *)
(* one step.  The service names the bucket of a window as it makes the call.   *)
EXTENDS Windows, Ranking

CONSTANTS Game, User, Key, IdemTtl,
          CalledScore,               \* bound: the scores callers submit
          Limit, Offset, Radius,     \* the page sizes and radii callers use
          CalledWindow,              \* bound: the windows callers use
          Renamed,                   \* bound: the users who submit a display name
          SweepLimit                 \* the 10_000 of claim_idempotency_key

ASSUME StoreAssumption ==
    /\ User \subseteq Int
    /\ IsFiniteSet(User)
    /\ CalledScore \subseteq Int
    /\ NoScore \notin Int
    /\ CalledWindow \subseteq Window
    /\ Renamed \subseteq User
    /\ IdemTtl \in Nat \ {0}
    /\ Limit \subseteq Nat \ {0}
    /\ Offset \subseteq Nat
    /\ Radius \subseteq Nat \ {0}
    /\ SweepLimit \in Nat

VARIABLES
    now,            \* time.time()
    boards,         \* _boards: (game, bucket) -> [scores, order, expires]
    names,          \* _names
    idempotency,    \* _idempotency: (game, key) -> when the claim lapses
    answer          \* what the last operation returned

vars == <<now, boards, names, idempotency, answer>>

Board == Game \X Bucket

(* expires_at is None.                                                         *)
Never == 0

NewBoard == [scores |-> [u \in User |-> NoScore], order |-> {}, expires |-> Never]

TypeOK ==
    /\ now \in Time
    /\ DOMAIN boards \subseteq Board
    /\ \A b \in DOMAIN boards :
          boards[b] \in [scores : [User -> CalledScore \cup {NoScore}],
                         order : SUBSET (User \X CalledScore), expires : Nat]
    /\ names \subseteq Game \X User
    /\ DOMAIN idempotency \subseteq Game \X Key
    /\ \A k \in DOMAIN idempotency : idempotency[k] \in Nat

Init ==
    /\ now = 0
    /\ boards = [b \in {} |-> NewBoard]
    /\ names = {}
    /\ idempotency = [k \in {} |-> 0]
    /\ answer = [op |-> "none"]

BoardAt(g, window) == <<g, WindowSuffix(window, now)>>

NamesIn(g) == {u \in User : <<g, u>> \in names}

------------------------------------------------------------------------------
(* _Board and _board                                                           *)

(* Mutated form of SetScore: the stale row stays in the index.                 *)
AddRow(board, u, score) ==
    [board EXCEPT !.scores[u] = score, !.order = @ \cup {<<u, score>>}]

SetScore(board, u, score) ==
    [board EXCEPT !.scores[u] = score,
                  !.order = (@ \ {<<u, board.scores[u]>>}) \cup {<<u, score>>}]

(* Mutated form of Remove: the score is set to zero, not deleted.              *)
RemoveToZero(board, u) ==
    [board EXCEPT !.scores[u] = 0, !.order = @ \ {<<u, board.scores[u]>>}]

Remove(board, u) ==
    [board EXCEPT !.scores[u] = NoScore, !.order = @ \ {<<u, board.scores[u]>>}]

(* Mutated form of Expired: a board outlives its retention by a tick.          *)
Overdue(b) == boards[b].expires # Never /\ boards[b].expires < now

Expired(b) == boards[b].expires # Never /\ boards[b].expires <= now

(* The boards left once _board has looked up b, and the board it finds there.  *)
Fetched(b) ==
    [c \in {d \in DOMAIN boards : d = b => ~ Expired(d)} |-> boards[c]]

Found(b) == b \in DOMAIN Fetched(b)

------------------------------------------------------------------------------
(* Writes                                                                      *)

Retained(ttl, expires) == IF ttl = NoTtl THEN expires ELSE now + ttl

Submit(g, window, u, score) ==
    LET b == BoardAt(g, window)
        board == IF Found(b) THEN boards[b] ELSE NewBoard
        kept == [board EXCEPT !.expires = Retained(TtlFor(window), @)]
        previous == board.scores[u]
        standing == IF previous = NoScore THEN score ELSE Greatest(previous, score)
        after == IF previous = standing THEN kept ELSE SetScore(kept, u, standing)
    IN  /\ boards' = [c \in DOMAIN boards \cup {b} |-> IF c = b THEN after ELSE boards[c]]
        /\ answer' = [op |-> "submit", score |-> standing, previous |-> previous,
                      rank |-> CountAbove(after.order, standing) + 1,
                      updated |-> previous # standing]
        /\ UNCHANGED <<now, names, idempotency>>

SetDisplayName(g, u) ==
    /\ names' = names \cup {<<g, u>>}
    /\ answer' = [op |-> "name"]
    /\ UNCHANGED <<now, boards, idempotency>>

(* Walks every board of the game, those not yet dropped after expiry included. *)
RemovePlayer(g, u) ==
    LET touched == {b \in DOMAIN boards : b[1] = g /\ boards[b].scores[u] # NoScore}
    IN  /\ boards' = [b \in DOMAIN boards |->
                        IF b \in touched THEN Remove(boards[b], u) ELSE boards[b]]
        /\ names' = names \ {<<g, u>>}
        /\ answer' = [op |-> "remove", touched |-> Cardinality(touched)]
        /\ UNCHANGED <<now, idempotency>>

(* The opportunistic sweep that follows the claim of k.                        *)
Swept(claims, k) ==
    IF Cardinality(DOMAIN claims) > SweepLimit
      THEN [c \in {d \in DOMAIN claims : claims[d] > now} |-> claims[c]]
      ELSE claims

ClaimIdempotencyKey(g, key) ==
    LET k == <<g, key>>
        fresh == ~ (k \in DOMAIN idempotency /\ idempotency[k] > now)
        claimed == [c \in DOMAIN idempotency \cup {k} |->
                       IF c = k THEN now + IdemTtl ELSE idempotency[c]]
    IN  /\ idempotency' = IF fresh THEN Swept(claimed, k) ELSE idempotency
        /\ answer' = [op |-> "claim", fresh |-> fresh]
        /\ UNCHANGED <<now, boards, names>>

------------------------------------------------------------------------------
(* Reads, which drop the board they ask for when it has expired                *)

ReadFrom(b, result) ==
    /\ boards' = Fetched(b)
    /\ answer' = result
    /\ UNCHANGED <<now, names, idempotency>>

(* Mutated form of StripEnd: the exclusive bound taken for an inclusive one.   *)
StripEndInclusive(rows, index, radius) == Least(Cardinality(rows), index + radius)

StripEnd(rows, index, radius) == Least(Cardinality(rows), index + radius + 1)

(* The rank of the first row comes from one count, the others from rank_page.  *)
Ranked(g, rows, page, start) ==
    Decorate(RankPage(page, start, CountAbove(rows, page[1][2]) + 1), NamesIn(g))

Top(g, window, limit, offset) ==
    LET b == BoardAt(g, window)
        rows == IF Found(b) THEN boards[b].order ELSE {}
        size == Cardinality(rows)
    IN  ReadFrom(b, [op |-> "top", total |-> size,
                     entries |-> IF offset >= size THEN <<>>
                                 ELSE Ranked(g, rows, Slice(rows, offset, offset + limit), offset)])

GetEntry(g, window, u) ==
    LET b == BoardAt(g, window)
        board == boards[b]
        score == board.scores[u]
    IN  ReadFrom(b, IF ~ Found(b) THEN [op |-> "absent"]
                    ELSE IF score = NoScore THEN [op |-> "absent"]
                    ELSE [op |-> "entry",
                          entry |-> [user |-> u, score |-> score,
                                     rank |-> CountAbove(board.order, score) + 1,
                                     named |-> u \in NamesIn(g)]])

(* The strip around a player, split at the player's place in it.               *)
Strip(g, rows, u, score, radius) ==
    LET index == PlaceOf(rows, <<u, score>>)
        start == Greatest(0, index - radius)
        entries == Ranked(g, rows, Slice(rows, start, StripEnd(rows, index, radius)), start)
        pivot == index - start + 1
    IN  [op |-> "context", total |-> Cardinality(rows),
         above |-> SubSeq(entries, 1, pivot - 1), user |-> entries[pivot],
         below |-> SubSeq(entries, pivot + 1, Len(entries))]

Context(g, window, u, radius) ==
    LET b == BoardAt(g, window)
        board == boards[b]
    IN  ReadFrom(b, IF ~ Found(b) THEN [op |-> "absent"]
                    ELSE IF board.scores[u] = NoScore THEN [op |-> "absent"]
                    ELSE Strip(g, board.order, u, board.scores[u], radius))

TotalPlayers(g, window) ==
    LET b == BoardAt(g, window)
    IN  ReadFrom(b, [op |-> "total",
                     total |-> IF Found(b) THEN Cardinality(boards[b].order) ELSE 0])

ListGames ==
    /\ answer' = [op |-> "games", games |-> {b[1] : b \in DOMAIN boards}]
    /\ UNCHANGED <<now, boards, names, idempotency>>

ClockTick ==
    /\ now < MaxTime
    /\ now' = now + 1
    /\ UNCHANGED <<boards, names, idempotency, answer>>

Write ==
    \E g \in Game :
        \/ \E u \in User :
              \/ \E window \in CalledWindow, score \in CalledScore : Submit(g, window, u, score)
              \/ RemovePlayer(g, u)
        \/ \E u \in Renamed : SetDisplayName(g, u)
        \/ \E key \in Key : ClaimIdempotencyKey(g, key)

Read ==
    \/ ListGames
    \/ \E g \in Game, window \in CalledWindow :
          \/ TotalPlayers(g, window)
          \/ \E limit \in Limit, offset \in Offset : Top(g, window, limit, offset)
          \/ \E u \in User :
                \/ GetEntry(g, window, u)
                \/ \E radius \in Radius : Context(g, window, u, radius)

Next == Write \/ Read \/ ClockTick

Spec == Init /\ [][Next]_vars

------------------------------------------------------------------------------
(* Properties                                                                  *)

(* The sorted index of a board holds one row per player, with the score the    *)
(* score map has for that player, whatever was improved, removed or re-added:  *)
(* the two are updated by hand, and order.remove raises on a row that is gone. *)
IndexMatchesScores ==
    \A b \in DOMAIN boards : boards[b].order = RowsOf(boards[b].scores)

(* A board as its readers see it: an expired one is no board.                  *)
Shown(b) ==
    IF b \in DOMAIN boards /\ ~ Expired(b) THEN boards[b].scores ELSE NewBoard.scores

Port == INSTANCE StorePort WITH
    Ttl <- {TtlFor(window) : window \in Window},
    best <- [b \in Board |-> Shown(b)],
    deadline <- [b \in Board |-> IF Members(Shown(b)) = {} THEN 0 ELSE boards[b].expires],
    claims <- [k \in Game \X Key |->
                  IF k \in DOMAIN idempotency /\ idempotency[k] > now THEN idempotency[k] ELSE 0]

(* The memory backend implements the storage port: dropping boards and claims  *)
(* late, sweeping claims in bulk, and ranking a page from one count are never  *)
(* visible in an answer.                                                       *)
ImplementsPort == Port!Spec
==============================================================================
