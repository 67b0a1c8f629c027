----------------------------- MODULE RedisReads ------------------------------
(* The reads of app/store/redis_store.py, and of the service above it.  A read *)
(* is several commands, pipelined without a transaction or one await apart, so *)
(* other clients write between any two of them.  Reads leave Redis alone and   *)
(* do not meet each other: one read, and all the writers, is the whole story.  *)
(* A score is a double in Redis, exact for the scores settings.max_score       *)
(* allows by default, so _as_int and _text return what was written.            *)
EXTENDS RedisKeys, Sequences, Functions

INSTANCE Ranking

CONSTANTS Ask,             \* what the read may be asked for
          MaxPageSize,     \* settings.max_page_size
          MaxRadius,       \* settings.max_context_radius
          Renamed          \* bound: the users whose display names others change

TopAsk == [op : {"top"}, window : Window, limit : Int, offset : Int]
EntryAsk == [op : {"entry"}, window : Window, user : User]
ContextAsk == [op : {"context"}, window : Window, user : User, radius : Int]

(* A client that pages through a whole board, one top after the other.         *)
ScanAsk == [op : {"scan"}, window : Window, limit : Nat \ {0}]

ASSUME AskAssumption ==
    Ask \subseteq TopAsk \cup EntryAsk \cup ContextAsk \cup ScanAsk

ASSUME ReadAssumption ==
    /\ User \subseteq Int
    /\ IsFiniteSet(User)
    /\ MaxPageSize \in Nat
    /\ MaxRadius \in Nat
    /\ Renamed \subseteq User

VARIABLES
    ask,       \* the request
    pc,        \* the command awaited
    bucket,    \* the bucket named when the request came in
    rows,      \* rows of ZREVRANGE, or the one row of ZSCORE
    total,     \* of ZCARD
    index,     \* of ZREVRANK, and the place the rows start from
    above,     \* of ZCOUNT
    reply,     \* what the client is told
    atRows,    \* observed: the board when its rows were read
    atCount,   \* observed: the board when the better scores were counted
    quiet,     \* observed: nothing the read looks at was written meanwhile
    stayed,    \* observed: the player was on the board all the while
    seen,      \* observed: the players a scan has shown
    still      \* observed: the players a scan should show

observed == <<quiet, stayed, seen, still>>

read == <<ask, pc, bucket, rows, total, index, above, reply, atRows, atCount>>

vars == <<now, keys, read, observed>>

Steps == {"idle", "page", "card", "score", "place", "size", "strip", "count", "names",
          "scan", "done"}

NoPlace == -1

(* The board the read looks at, and the sorted set Redis keeps for it.         *)
Board == zset[bucket]

Rows == RowsOf(Board)

(* The board the window names at this moment, for the next page of a scan.     *)
BucketNow == WindowSuffix(ask.window, now)

NamedNow == zset[BucketNow]

Outcomes == {"none", "top", "entry", "context", "scanned", "absent", "rejected", "failed", "crashed"}

Outcome(op) == [op |-> op]

TypeOK ==
    /\ KeysTypeOK
    /\ ask \in Ask
    /\ pc \in Steps
    /\ bucket \in Bucket
    /\ Len(rows) <= Cardinality(User)
    /\ \A i \in 1 .. Len(rows) : rows[i] \in User \X Score
    /\ total \in 0 .. Cardinality(User)
    /\ index \in Nat \cup {NoPlace}
    /\ above \in 0 .. Cardinality(User)
    /\ reply.op \in Outcomes
    /\ {atRows, atCount} \subseteq [User -> Score \cup {NoScore}]
    /\ {quiet, stayed} \subseteq BOOLEAN
    /\ seen \cup still \subseteq User

Init ==
    /\ KeysInit
    /\ ask \in Ask
    /\ pc = "idle"
    /\ bucket = AllTimeBucket
    /\ rows = <<>>
    /\ total = 0
    /\ index = 0
    /\ above = 0
    /\ reply = Outcome("none")
    /\ atRows = EmptyBoard
    /\ atCount = EmptyBoard
    /\ quiet = TRUE
    /\ stayed = TRUE
    /\ seen = {}
    /\ still = {}

------------------------------------------------------------------------------
(* The read: validation in the service, then command after command.            *)

ValidAsk ==
    CASE ask.op = "top"     -> 1 <= ask.limit /\ ask.limit <= MaxPageSize /\ 0 <= ask.offset
      [] ask.op = "context" -> 1 <= ask.radius /\ ask.radius <= MaxRadius
      [] OTHER              -> TRUE

FirstCommand ==
    CASE ask.op = "top"     -> "page"
      [] ask.op = "context" -> "place"
      [] ask.op = "entry"   -> "score"
      [] ask.op = "scan"    -> "scan"

Await(command) == pc' = command /\ UNCHANGED reply

Finish(outcome) == pc' = "done" /\ reply' = outcome

AboutPlayer == ask.op \in {"entry", "context"}

Arrive ==
    /\ pc = "idle"
    /\ bucket' = BucketNow
    /\ IF ValidAsk THEN Await(FirstCommand) ELSE Finish(Outcome("rejected"))
    /\ stayed' = (AboutPlayer /\ zset[bucket'][ask.user] # NoScore)
    /\ still' = IF ask.op = "scan" THEN Members(NamedNow) ELSE {}
    /\ UNCHANGED <<now, keys, ask, rows, total, index, above, atRows, atCount, quiet, seen>>

(* One page of a scan, by a top of its own, which names the board anew: the    *)
(* client goes on until a page is short.                                       *)
ReadScanned ==
    /\ pc = "scan"
    /\ bucket' = BucketNow
    /\ LET page == Slice(RowsOf(zset[bucket']), index, index + ask.limit)
       IN  /\ seen' = seen \cup {row[1] : row \in Range(page)}
           /\ IF Len(page) < ask.limit THEN Finish(Outcome("scanned")) ELSE Await("scan")
    /\ index' = index + ask.limit
    /\ UNCHANGED <<now, keys, ask, rows, total, above, atRows, atCount, quiet, stayed, still>>

(* ZREVRANGE and ZCARD of top                                                  *)
ReadPage ==
    /\ pc = "page"
    /\ rows' = Slice(Rows, ask.offset, ask.offset + ask.limit)
    /\ index' = ask.offset
    /\ atRows' = Board
    /\ Await("card")
    /\ UNCHANGED <<now, keys, ask, bucket, total, above, atCount, observed>>

ReadCard ==
    /\ pc = "card"
    /\ total' = Cardinality(Rows)
    /\ IF rows = <<>> THEN Finish([op |-> "top", total |-> total', entries |-> <<>>])
                      ELSE Await("count")
    /\ UNCHANGED <<now, keys, ask, bucket, rows, index, above, atRows, atCount, observed>>

(* Mutated form of ReadScore: nil is not told from a score.                    *)
ReadScoreUnchecked ==
    /\ pc = "score"
    /\ atRows' = Board
    /\ rows' = <<<<ask.user, Board[ask.user]>>>>
    /\ Await("count")
    /\ UNCHANGED <<now, keys, ask, bucket, total, index, above, atCount, observed>>

(* ZSCORE of get_entry                                                         *)
ReadScore ==
    /\ pc = "score"
    /\ atRows' = Board
    /\ IF OnBoard(bucket, ask.user)
         THEN /\ rows' = <<<<ask.user, Board[ask.user]>>>>
              /\ Await("count")
         ELSE /\ Finish(Outcome("absent"))
              /\ UNCHANGED rows
    /\ UNCHANGED <<now, keys, ask, bucket, total, index, above, atCount, observed>>

(* ZREVRANK, ZCARD and ZREVRANGE of context                                    *)
ReadPlace ==
    /\ pc = "place"
    /\ index' = IF OnBoard(bucket, ask.user)
                  THEN PlaceOf(Rows, <<ask.user, Board[ask.user]>>) ELSE NoPlace
    /\ Await("size")
    /\ UNCHANGED <<now, keys, ask, bucket, rows, total, above, atRows, atCount, observed>>

ReadSize ==
    /\ pc = "size"
    /\ total' = Cardinality(Rows)
    /\ IF index = NoPlace THEN Finish(Outcome("absent")) ELSE Await("strip")
    /\ UNCHANGED <<now, keys, ask, bucket, rows, index, above, atRows, atCount, observed>>

StripStart == Greatest(0, index - ask.radius)

ReadStrip ==
    /\ pc = "strip"
    /\ rows' = Slice(Rows, StripStart, index + ask.radius + 1)
    /\ atRows' = Board
    /\ IF rows' = <<>> THEN Finish(Outcome("absent")) ELSE Await("count")
    /\ UNCHANGED <<now, keys, ask, bucket, total, index, above, atCount, observed>>

(* ZCOUNT of the scores above that of the first row                            *)
ReadAbove ==
    /\ pc = "count"
    /\ above' = CountAbove(Rows, rows[1][2])
    /\ atCount' = Board
    /\ Await("names")
    /\ UNCHANGED <<now, keys, ask, bucket, rows, total, index, atRows, observed>>

Entries(start) == Decorate(RankPage(rows, start, above + 1), names)

(* entries[:pivot], entries[pivot], entries[pivot + 1:]; an entries[pivot]     *)
(* beyond the end is an IndexError, answered with status 500.                  *)
Split(entries, pivot) ==
    IF pivot <= Len(entries)
      THEN [op |-> "context", total |-> total, above |-> SubSeq(entries, 1, pivot - 1),
            user |-> entries[pivot], below |-> SubSeq(entries, pivot + 1, Len(entries))]
      ELSE Outcome("crashed")

(* HMGET or HGET, and the answer                                               *)
ReadNames ==
    /\ pc = "names"
    /\ Finish(CASE ask.op = "top" -> [op |-> "top", total |-> total, entries |-> Entries(ask.offset)]
                 [] ask.op = "entry" -> [op |-> "entry", entry |-> Entries(0)[1]]
                 [] ask.op = "context" -> Split(Entries(StripStart), index - StripStart + 1))
    /\ UNCHANGED <<now, keys, ask, bucket, rows, total, index, above, atRows, atCount, observed>>

(* A RedisError on any command ends the read with StoreUnavailableError.       *)
Fail ==
    /\ pc \notin {"idle", "done"}
    /\ Finish(Outcome("failed"))
    /\ UNCHANGED <<now, keys, ask, bucket, rows, total, index, above, atRows, atCount, observed>>

------------------------------------------------------------------------------
(* Everybody else, until the read is over: one command of a submission or of   *)
(* an erasure, or the clock.  A command names its board by a clock up to       *)
(* MaxSkew ahead, or named it long ago and comes late.  A write to a board     *)
(* that the read will not look at makes no difference to it and is left out;   *)
(* and time does not pass for the all-time board, whose name and retention     *)
(* have nothing to do with it.                                                 *)

Nameable == {WindowSuffix(ask.window, at) : at \in {t \in Time : now <= t /\ t <= now + MaxSkew}}

(* The boards the read has yet to look at, or may come to look at.             *)
Watched ==
    CASE pc = "idle" \/ ask.op = "scan" -> Nameable
      [] pc = "names"                   -> {}
      [] OTHER                          -> {bucket}

Write ==
    \/ \E b \in Watched, u \in User :
          \/ \E score \in Score : SubmitScript(b, u, score, TtlArgument(TtlFor(ask.window)))
          \/ RemoveMember(b, u)
    \/ \E u \in Renamed : SetName(u) \/ RemoveName(u)

(* What a scan cannot make up for: a player leaves the board, or midnight      *)
(* turns to a board that does not list everybody of this one as well.          *)
Departure ==
    \/ ~ Members(NamedNow) \subseteq Members(NamedNow')
    \/ BucketNow' # BucketNow /\ \E u \in Members(NamedNow) : NamedNow'[u] < NamedNow[u]

Meanwhile ==
    /\ pc # "done"
    /\ UNCHANGED <<read, seen>>
    /\ (Write /\ UNCHANGED now) \/ (ask.window # "all_time" /\ Tick)
    /\ quiet' = (pc = "idle" \/ (quiet /\ <<zset', names'>> = <<zset, names>>))
    /\ stayed' = (stayed /\ (pc = "idle" \/ ~AboutPlayer \/ zset'[bucket][ask.user] # NoScore))
    /\ still' = IF Departure THEN {} ELSE {u \in still : NamedNow'[u] = NamedNow[u]}

Command ==
    \/ ReadPage \/ ReadCard \/ ReadScore \/ ReadPlace \/ ReadSize \/ ReadStrip
    \/ ReadAbove \/ ReadNames \/ ReadScanned

Next == Arrive \/ Command \/ Fail \/ Meanwhile

Spec == Init /\ [][Next]_vars

------------------------------------------------------------------------------
(* Properties                                                                  *)

Exact ==
    CASE ask.op = "top"     -> TopOf(Board, names, ask.limit, ask.offset)
      [] ask.op = "entry"   -> EntryOf(Board, names, ask.user)
      [] ask.op = "context" -> ContextOf(Board, names, ask.user, ask.radius)

(* A read during which nobody wrote answers exactly what the ranking contract  *)
(* defines, although it is put together from one slice, one count and          *)
(* rank_page: the same answers the storage port gives in one step.             *)
QuietReadsAreExact ==
    quiet /\ reply.op \in {"top", "entry", "context", "absent", "crashed"} =>
        reply = Exact

AnsweredEntries ==
    CASE reply.op = "top" -> Range(reply.entries)
      [] reply.op = "entry" -> {reply.entry}
      [] reply.op = "context" -> Range(reply.above) \cup {reply.user} \cup Range(reply.below)
      [] OTHER -> {}

(* Whatever is written meanwhile, each rank in an answer was the competition   *)
(* rank of its score on the board: on the board the rows were read from, or,   *)
(* for the first row and those tied with it, on the board the better scores    *)
(* were counted on.  rank_page carries the count through the tie and never     *)
(* beyond it.                                                                  *)
EveryRankWasTrueOnce ==
    \A e \in AnsweredEntries :
        e.rank = RankOf(IF e.score = rows[1][2] THEN atCount ELSE atRows, e.score)

(* A client that pages through a board sees every player who was on it when    *)
(* the scan began and whose score then stood, whoever joins or improves        *)
(* between its pages, also by late commands and by processes whose clocks are  *)
(* ahead, as long as nobody leaves: others can push a player onto a later page *)
(* and have the player shown twice, but nobody slips between two pages         *)
(* (app/store/base.py:9, the order within a tie).  Over midnight it holds when *)
(* the new day's board already lists everybody of the old one as well.         *)
NobodyIsSkipped == reply.op = "scanned" => still \subseteq seen

(* A context is about the player asked for as long as the player had the same  *)
(* number of players ahead when the place and when the strip was read: other   *)
(* writes cannot make it fail, miss the player or show somebody else.          *)
SteadyPlayerIsShown ==
    /\ ask.op = "context"
    /\ reply.op \in {"context", "absent", "crashed"}
    /\ ask.user \in Members(atRows)
    /\ Cardinality(Ahead(atRows, ask.user)) = index
    => reply.op = "context" /\ reply.user.user = ask.user

------------------------------------------------------------------------------
(* What the documentation says, which the runs refute                          *)

(* README.md:192, "1-based competition ranking: tied players share the better  *)
(* rank and the next distinct score skips ahead": a better score on a page has *)
(* a better rank.                                                              *)
PageIsRanked ==
    reply.op = "top" =>
        \A e, f \in Range(reply.entries) : e.score > f.score => e.rank < f.rank

(* app/api/routes.py:104, "Returns the player plus the radius players ranked   *)
(* immediately above and below them": the context of a player who is on the    *)
(* board all along is the player's, neither a 404, nor a 500, nor another's.   *)
ContextIsThePlayers ==
    ask.op = "context" /\ stayed /\ reply.op \in {"context", "absent", "crashed"} =>
        reply.op = "context" /\ reply.user.user = ask.user
==============================================================================
