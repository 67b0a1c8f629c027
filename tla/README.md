# Gaming leaderboard API: TLA+ verification project

TLA+ models of the leaderboard service in `src/app`, model-checked with TLC and, where it matters
most, proved with TLAPS. Every definition is translated from the Python and Lua source; the
`map` of `PROJECT.json` gives the lines each one stands for. Paths below are relative to `src/`.

Contents: 1 the system, 2 modules and their correspondence to the code, 3 assumptions, 4 runs and
bounds, 5 fairness and deadlock, 6 proofs, 7 where the code and its documentation disagree,
8 what is not modelled, 9 plan.

## 1. The system

A stateless HTTP service (any number of processes, each one asyncio event loop) keeps per-game
leaderboards in Redis. Each game has one board per *window*: all-time, the current UTC day, the
current ISO week. A submission is fanned out to all three.

| component | source | state | operations |
|---|---|---|---|
| time windows | `app/core/windows.py` | none | bucket of a window at a moment, retention of a window |
| Redis store | `app/store/redis_store.py` | sorted set with TTL per board, claim per idempotency key, hash of names, set of buckets, set of games | `submit` (Lua script, then a pipeline of two `SADD`), `set_display_name`, `claim_idempotency_key`, `remove_player`, `top`, `get_entry`, `context`, `total_players`, `list_games`, `ping` |
| memory store | `app/store/memory.py` | score map and sorted index per board, expiry time, names, claims | the same operations, each one critical section |
| storage port | `app/store/base.py` | none | the contract both stores implement, and `rank_page` |
| service | `app/service.py` | none | `submit_score`, `delete_user`, `top`, `get_user`, `user_context`, `list_games`; validation, order of the calls |
| routes, payloads, errors | `app/api`, `app/models.py`, `app/core/errors.py` | none | which payload reaches the service, which answer the client gets |
| factory, settings | `app/store/factory.py`, `app/core/config.py` | the connection pool of a process | socket timeout, pool limit, limits and retentions |
| health, lifecycle | `app/api/health.py`, `app/main.py`, `.do/app.yaml` | which processes serve, which instances the platform sends requests to | `readyz` with its `PING`, start and stop of a worker |
| metrics, benchmark | `app/core/observability.py`, `scripts/` | counters nobody reads back | none that changes a leaderboard |

**Interaction.** A handler of the service awaits store calls one after another; a store call awaits
one Redis command, or a pipeline opened with `transaction=False`. Redis executes commands one at a
time, so a single command, and the Lua script, is atomic and nothing larger is. All processes meet
only in Redis.

**What is hard.**

* *Interleaving.* Between two awaited calls of one request any other request moves. Submissions
  race with submissions for the same player, under the same idempotency key, and with a deletion of
  the player; reads are put together from two to four commands while others write.
* *Partial failure.* No sequence of commands is undone when one fails: a claim stays claimed, a
  fan-out stops half way, a board is written and not registered.
* *Late commands.* A client that hits the socket timeout does not know whether its command ran. It
  may still run afterwards, behind newer requests.
* *Time.* The clock is read once per window within one submission, so midnight can fall in
  between; boards and claims expire between any two commands; every process has a clock of its own,
  so two processes may name different boards for today.
* *Outages and load.* The pool never waits: with all its connections taken a command fails at once,
  and connections that an outage left silent hold it until the socket timeout. The readiness probe
  takes a connection of that same pool.
* *Pagination.* Each page of a board is a request of its own, so players move between the pages.
* *Two backends.* Redis forgets an expired board by itself, the memory store the next time somebody
  asks; Lua prints a score with 14 digits; a deletion walks a registry in one and all boards in the
  other.
* *Arithmetic of ranks.* A rank on a page is derived from one count and from the row before, over
  ties, page boundaries and both ends of the board.

**What makes each component correct.**

* Writes: a standing score is only replaced by a better one; the all-time board is never behind a
  rolling one; a 201 that is not marked deduplicated means all three boards hold the score and are known
  to a later deletion; one key admits one writer while its claim lives; a deletion leaves nothing behind
  that is older than it; every rolling board that holds anybody expires; every request is answered.
* Reads: without concurrent writes exactly the contract's answer; otherwise each rank
  true of the board at one of the read's commands, and a context about the player it was asked for as long as
  that player's place holds; a scan of all pages shows everybody who stood still; the list of games is complete and counts each game's
  own players.
* Memory store: score map and index agree; lazy expiry and the claim sweep are not observable.
* Both backends: the same calls get the same standings, and the known differences go one way.
* Serving: no exchange waits for ever, an outage takes every instance out of rotation, and each comes
  back once Redis stays up; a pool never exceeds its limit.

The hazards are listed one by one, with the line where each bites and the properties that cover it,
in `PROJECT.json`.

## 2. Modules and their correspondence to the code

```
Windows ── RedisKeys ─┬─ LeaderboardWrites ── MCLeaderboardWrites
   │                  │      └─ INSTANCE BestScores (abstract)
   │                  ├─ RedisReads ── MCRedisReads
   │    Ranking ──────┤   (INSTANCE)
   │       │          └─ RedisStore
   │       ├─ StorePort (abstract)                              GameList ── MCGameList
   └───────┴─ MemoryStore ── Backends ── MCBackends          Serving ── MCServing
                  └─ INSTANCE StorePort   └─ INSTANCE RedisStore

proofs: LeaderboardWritesProofs ── LeaderboardAnswersProofs         ServingProofs
        RankingProofs ─┬─ MemoryStoreProofs ── BackendsProofs
                       ├─ RedisReadsProofs (INSTANCE)
                       └─ GameListProofs (INSTANCE)
```

**Windows** (`app/core/windows.py`). `WindowSuffix(window, at)` is the bucket suffix, reduced to the
pair of prefix and day or week number; `WindowOrder` is the iteration order of the enumeration,
which `submit_score` relies on; `TtlFor` is `ttl_for`, with `NoTtl` for `None`.

**RedisKeys** (`app/store/redis_store.py`, the keys and the write commands). One variable per kind
of key, one operator per command; `SubmitScript` is the Lua script. Expiry is `Tick`: a key whose
deadline is reached is invisible to every later command. Redis drops a sorted set, with its TTL,
when the last member goes, so an empty board and an absent one are one state.

**LeaderboardWrites** (`submit_score` and `delete_user` down to the commands). A request is a record
`job[p]`; `pc[p]` is the command it awaits, and `"call"` the moment at which the handler reads the
clock and sends the next `submit`. There is one action per command, so the model interleaves exactly
where the code awaits:

| code | actions |
|---|---|
| `submit_score`: validation | `ArriveSubmission` |
| `claim_idempotency_key` (`SET NX EX`) | `Claim`, `ClaimIsTaken` |
| `_current_standings` for a replay | `ReadStanding`, once per window |
| `set_display_name` | `SetDisplayName` |
| the loop over the windows: `self._bucket(window)`, script, pipeline of two `SADD` | `CallSubmit`, `RunScript`, `AddGame`, `AddBucket` |
| `delete_user` / `remove_player`: `SMEMBERS`, pipeline of `ZREM`s and `HDEL` | `ArriveDeletion`, `ListBuckets`, `RemoveFromBoard`, `DropName` |
| `StoreUnavailableError`, a lost client or a killed process | `GiveUp`, `Lose` |

`GiveUp` answers 503 and may happen at every wait. A command that was in flight can then still be
executed at any later moment (the same action, with the handler gone) or be lost (`Lose`). A
non-transactional pipeline sends all its commands at once, so after `GiveUp` the rest of the same
pipeline may still run; nothing beyond it does. `claimedAt`, `wrote` and `before` only observe.

The process that serves request `p` has a clock `Clock(p) == now + Ahead[p]`, up to `MaxSkew` ahead of the
slowest one. The buckets of a submission are named from that clock; `ReadStanding` names none, since the
standings of a replay are read and change nothing. Deadlines are counted by Redis, which is only ever
told durations, so `now` may be taken as the slowest clock. The routes answer a replay with 201 as well,
marked deduplicated: the model's reply `"created"` is a 201 that is not, `"replayed"` one that is.

**BestScores** is the abstract specification of the write side: scores are accepted, land if they
are better, are erased on request, or lapse with a whole rolling board. `KeepsBestScores` states
that `LeaderboardWrites` implements it.

**Ranking** holds the contract of ranks and listings as plain definitions (`RankOf`, `Listing`,
`TopOf`, `ContextOf`), and beside them what the code computes: the slice, the count of better
scores, and `RankPage`, the loop of `rank_page` as a recursive function.

**StorePort** (`app/store/base.py`) is the abstract storage port: each operation one step, answered
by the contract's definitions, every board gone at the tick its retention ends.

**MemoryStore** (`app/store/memory.py`): all operations, with `_Board`'s score map and index, the
lazy drop in `_board`, and the sweep of claims. No operation awaits inside its lock, so each is one
step. `ImplementsPort` maps it to `StorePort` by showing an expired board as no board.

**RedisStore** (`app/store/redis_store.py` behind the port): every operation again, this time in one
step and with what it answers, as a client sees it that nobody disturbs. `LuaText` is the number
format of `_SUBMIT_LUA` (`..` and `tostring` keep 14 digits): the score `ZADD` stores is exact, the bound
of `ZCOUNT` and the returned scores are not.

**Backends** puts `MemoryStore` and `RedisStore` side by side: each step makes one call on both at the
same moment, as the shared conformance suite does one call after the other, and the clock ticks for
both. `StandingsAgree` compares the answers, `BackendsDifferOneWay` bounds the differences.

**RedisReads** (`top`, `get_entry` and `context` of `redis_store.py`, and the validation above them in
`service.py`): one read, command by command, and all writers beside it as `Meanwhile`. Reads change
nothing, so two reads cannot influence each other, and one read with arbitrary writers is the general
case. A writer is one command of a submission or an erasure at any of the boards the read has yet to
look at (`Watched`): the board it named, whatever day it is by now, so that late scripts and the `ZREM`s
over every registered bucket are among them; and for a scan, or a read that has not begun, every board
that some process names today, with its clock up to `MaxSkew` ahead. Commands at other boards, or at a
board the read is finished with, cannot be told from none. `Split` models `entries[pivot]`, the
`IndexError` included. A scan (`ReadScanned`) is a client that asks for page after page until one is short;
the handler names the board anew for each page, so midnight may fall between two of them. `atRows` and
`atCount` observe the board at the command that read the rows and at the one that counted.

**GameList** (`list_games` and `total_players`, `GET /games`): the set of games is read once, and then one
`ZCARD` per game, in the order of the ids, while players join, leave and games are registered beside
it. A board is its number of players, which is all that is read of it; a game is registered
only after some script has written its board.

**Serving** (`app/main.py`, `app/store/factory.py`, `app/core/errors.py`, `app/api/health.py`, `.do/app.yaml`): what
surrounds the handlers. An exchange is a client's request or the probe of an instance; it is handled
by a worker `at[e]`, needs `left[e]` more commands, and `wait[e]` is the connection it holds.

| code | actions |
|---|---|
| a request that reaches the store, routed to an instance in rotation | `Route` |
| `readyz`, and the platform's judgement of it | `Probe`, `Judge` |
| a command: a connection from the pool, or `ConnectionError` at once | `Send` |
| its answer; 503 through the handler for `RedisError` | `Reply`, `Finish` |
| `socket_timeout`, `socket_connect_timeout` | `Timeout` |
| `lifespan`: `build_store` without a connection; `store.close()` | `Start`, `Crash` |
| Redis itself | `GoDown`, `ComeUp` |

`up` means that Redis answers within the socket timeout: a slow server is one that is down. `"dead"`
is a wait whose answer was lost in an outage and which only the timeout ends.

## 3. Assumptions

All are named `ASSUME`s, evaluated by TLC in every run and cited by the proofs that need them.

* `CalendarAssumption`, `RetentionAssumption`: lengths of a day and a week, and the retentions, are
  positive. A retention of 0 would mean "never expire" in Redis and "expire now" in memory.
* `CoverAssumption` (`LeaderboardWrites`): each retention is at least as long as its window and the skew of
  the clocks. No code validates it; the defaults (8 days, 35 days) satisfy it. Only
  `LandedScoresStand` and `RollingBoardsAgree` depend on it.
* `ClockAssumption`: the clock of a process is between 0 and `MaxSkew` ahead of the slowest one, and the
  difference does not change while a behaviour lasts (no step of a clock by NTP).
* `ScoreAssumption`: score limits are integers. Redis keeps doubles, which are exact up to 2^53.
* `BackendsAssumption`: the two stores are compared on one game (the keys of two games have no part in
  common but `lb:games`), with scores in range. `LuaExact` stands for 10^14,
  scaled down: a score of that size, of either sign, has its last digit rounded by `LuaText`.
* `GameAssumption`: game ids are numbers, of which only the order is looked at.
* `ServingAssumption`: each worker belongs to one instance, pool and threshold are positive, requests
  and instances are finitely many.
* `ReadAssumption`, `StoreAssumption`: there are finitely many user ids, since `app/models.py:21` bounds
  their length and alphabet, and only their order is looked at, so they are integers; port calls are
  made with positive page sizes and radii and with offsets that are not negative, as the routes check.
* `IdemAssumption`, `JobAssumption`, `AskAssumption`: types of the remaining constants.
* The Redis pool is built without retries, so a command is sent once.

## 4. Runs, and why the bounds are enough

| bound | what it limits |
|---|---|
| `MaxTime`, `MaxSkew`, `Ahead` | the clock, and how far ahead each process is |
| `Req`, `Job` | the requests of a behaviour, each served once, and what they may ask for |
| `Ask`, `Renamed` | what a read asks for, and whose names change beside it |
| `CalledScore`, `CalledWindow`, `Limit`, `Offset`, `Radius` | the arguments of port calls |
| `SweepLimit`, `LuaExact` | the 10,000 claims before a sweep, and the 10^14 of Lua's format, scaled down |
| `MaxPlayers` | the players of a game in `GameList` |
| `Client`, `PoolSize`, `MaxCommands`, `MaxCrashes`, `FailureThreshold` | the load, the pool, the commands of a request, and the stops of workers |

A tick is the unit of time; days are one or two ticks, so boundaries are crossed in every run with a
clock.

| run | question | instance |
|---|---|---|
| `MCClock` | Do landed scores, rolling boards, TTLs and keys survive midnight, week ends and expiry between any two commands, with clocks that differ, does the write side implement `BestScores` meanwhile, and is every request answered? | two requests about one player: a score under a key, a better one without, one out of range, an erasure; under `FairSpec`; the second process a tick ahead; four moments, days of one tick, weeks of two days, retentions that end within the run |
| `MCErase` | What can be left after a deletion, is the all-time board ever behind, what does the registry miss, and does the write side implement `BestScores`? | three requests, each a submission for either player or a deletion of the first |
| `MCBackends` | Does the memory store implement the port, and do the two backends answer alike? | three players, an exact score and a negative one Lua rounds, a board and claims that expire, every operation, a sweep beyond one claim |
| `MCReads` | What can a read be told while others write, and does a client that pages through a board see everybody? | three players, two scores, a page from the second place, entry and context of the player in the middle, three refused requests; weekly boards that lapse under a read and are written late after the next one has begun; a scan of a daily board player by player, midnight between two pages; writers with clocks a tick ahead and late ones |
| `MCGames` | Is the list of games complete, and are its counts true? | three games of up to two players |
| `MCServing` | Do instances leave and rejoin the rotation through an outage, a crash and load, and does every exchange end? | two instances of two and one workers, pools of one connection, two clients with up to two commands each, two probes |
| `MCReplayMeansApplied`, `MCEraseRemovesFromEveryBoard`, `MCRegistryLapsesWithBoards`, `MCPageIsRanked`, `MCContextIsThePlayers`, `MCBackendsAgree` | Statements of the documentation the code does not keep (section 7) | the smallest instances that show it |

Two requests already meet in every pair of commands; the third one adds a late command of an
abandoned request behind two newer ones. Two scores in range suffice for "better" and "worse", and three
players for a tie with somebody above or below it. A pool of one connection is the least that is full and the least that an outage blocks; two clients are
enough to starve a probe, and two workers behind one instance are enough for a probe to meet a
healthy one. In `GameList` three games are the least with one before and one after the game being counted.
Requests are interchangeable, so `MCErase` uses symmetry over `Req`;
`MCClock`, whose requests have different clocks and are followed to their end, does not.
What the bounds leave open for the safety properties is closed by the proofs of section 6.

What the properties say, run by run:

* `AllTimeDominates`: whoever is on a rolling board is on the all-time board at least as well, at every
  moment, because the fan-out writes all-time first. In `MCErase` a player submits one score only, so "at
  least as well" rests on the theorem.
* `CreatedIsOnEveryBoard`: a 201 that is not deduplicated implies a landed score in one bucket of each
  window, all registered. A replay's 201 promises nothing of the kind (`MCReplayMeansApplied`).
* `UnregisteredBoardIsPending`: a populated board missing from the registry belongs to a request
  exactly between its script and its `SADD`, or one that failed there.
* `LandedScoresStand`: no race, expiry or late command takes a landed score from a current board.
* `RollingBoardsAgree`: today's players are on this week's board, at least as well, once their
  submissions are answered. It depends on naming the day before the week, and with clocks apart it
  holds for readers whose clock no writer was ahead of.
* `RollingBoardsExpire`: populated rolling boards have a TTL within their retention, the all-time
  board none, and no score of a submission or removal of a deletion changes that.
* `OneWriterPerKey`: two submissions under one key both write only if the first claim had lapsed.
* `NothingOlderSurvives`: what a player still has after a deletion was answered, a score or a name, was put
  there by a submission that was not over when the deletion arrived. So a submission that runs between
  `SMEMBERS` and the `ZREM`s, between two `ZREM`s, or behind them may leave its own score and no
  older one, and a deletion completes what an earlier one left half done. Submissions that were answered
  503 before are excepted: that they may leave a score is the refuted `EraseRemovesFromEveryBoard`.
* `KeepsBestScores`: refinement of `BestScores`.
* `EveryRequestSettles`: every request that arrives is answered and leaves nothing in flight, also when
  Redis executes nothing any more.
* `IndexMatchesScores`: score map and index of the memory store hold the same rows.
* `ImplementsPort`: refinement of `StorePort` by `MemoryStore`.
* `StandingsAgree`: after the same calls at the same moments both backends give the same standings,
  pages, strips, counts and claims; for a submission, as long as Lua prints its scores, new and previous.
* `BackendsDifferOneWay`: only Redis keeps a name too long, only memory counts expired boards in a
  deletion, only Redis lists a game whose boards are gone; and of a submission Redis reports a better rank
  than memory only with a score rounded up, and a worse one only with a score rounded down.
* `EveryExchangeEnds`: no exchange waits for ever, through an outage, a full pool or a crash of its worker.
* `ComesBack`: once Redis stays up every instance is in rotation again and again, whatever the load.
* `DownMeansOut`: while Redis stays away no instance remains in rotation.
* `QuietReadsAreExact`: a read nobody interferes with answers the contract exactly.
* `EveryRankWasTrueOnce`: each rank is the competition rank of its score on the board at the moment of the
  `ZCOUNT`, for the first row and its ties, and otherwise on the board the rows were read from. It fails
  when the count includes ties, or when `rank_page` carries the count too far.
* `SteadyPlayerIsShown`: a context is the player's when as many players are ahead at the second
  command as at the first.
* `NobodyIsSkipped`: a scan shows every player who was there when it began and whose score stood, as long
  as nobody leaves the board meanwhile. Over midnight the scan goes on at its offset on another
  board, which processes whose clocks are ahead may have filled already. The property then holds for
  those who are on the new board with the same score, provided the new board lists everybody of the old
  one at least as well; otherwise players in front may be missing and others slip below the offset
  (`Departure`).
* `EveryGameIsListed`: the list has every game registered when the request came in, none that is not
  registered, each once and in order.
* `TotalsWereTrue`: each total is a number of players its own game had during the request.

Each property has a mutant of the code in `PROJECT.json` that breaks it: a definition named
`Mutated form of ...` in the module, used by nothing else.

## 5. Fairness and deadlock

Safety needs no fairness; `MCClock` checks it under `FairSpec`, whose fairness removes no finite behaviour,
because it checks a liveness property as well. `FairSpec` adds weak fairness of `Unwait(p)` for each request: a handler
that can go on is run by the event loop (`CallSubmit`), the socket timeout that `app/store/factory.py`
sets ends a wait (`GiveUp`), and the connection of a request that gave up is closed (`Lose`). The steps
in which Redis executes a command have no fairness, so `EveryRequestSettles` rests on the timeout: its
mutant is a client without one. Nothing is assumed of the clock or of arrivals.

`Serving` assumes weak fairness of `Serve(e)` (a handler runs; Redis answers while it is up; the socket
timeout ends the rest), of `Probe(i)` (the platform probes at `period_seconds`) and of `Start(w)` (it
restarts what stopped). Clients need not come, Redis need not come back: `ComesBack` and `DownMeansOut`
are conditional on it. `ComesBack` says "again and again" and not "for good", since load may fill the pool
at each probe in turn.

Deadlock is checked in `MCServing`, where somebody can always move. Elsewhere it is off: requests are
served once, the clock is bounded and a read ends, so every behaviour may stop. `EveryRequestSettles`
and `EveryExchangeEnds` cover what deadlock checking would be for.

## 6. Proofs

For all values of the constants that satisfy section 3:

| theorem | module | states |
|---|---|---|
| `TypeCorrectness` | `LeaderboardWritesProofs` | `Spec => []TypeOK` |
| `AllTimeBoardDominates` | `LeaderboardWritesProofs` | `Spec => []AllTimeDominates` |
| `RegistryLagsByOneCommand` | `LeaderboardWritesProofs` | `Spec => []UnregisteredBoardIsPending` |
| `KeysAdmitOneWriter` | `LeaderboardWritesProofs` | `Spec => []OneWriterPerKey` |
| `ImplementsBestScores` | `LeaderboardWritesProofs` | `Spec => KeepsBestScores` |
| `RollingBoardsLapse` | `LeaderboardAnswersProofs` | `Spec => []RollingBoardsExpire` |
| `LandedScoresAreKept` | `LeaderboardAnswersProofs` | `Spec => []LandedScoresStand` |
| `CreatedReachesEveryBoard` | `LeaderboardAnswersProofs` | `Spec => []CreatedIsOnEveryBoard` |
| `DeletionsLeaveNothingOlder` | `LeaderboardAnswersProofs` | `Spec => []NothingOlderSurvives` |
| `TodayIsInThisWeek` | `LeaderboardAnswersProofs` | `Spec => []RollingBoardsAgree` |
| `IndexStaysInStep`, `StoreTypeCorrectness` | `MemoryStoreProofs` | `Spec => []IndexMatchesScores`, `Spec => []TypeOK` |
| `ImplementsStoragePort` | `MemoryStoreProofs` | `Spec => ImplementsPort` |
| `SameStandings` | `BackendsProofs` | `BothSpec => []StandingsAgree` |
| `DifferencesAreOneWay` | `BackendsProofs` | `BothSpec => []BackendsDifferOneWay` |
| `MemoryKeepsItsPromise` | `BackendsProofs` | `BothSpec => ImplementsPort /\ []TypeOK /\ []IndexMatchesScores` |
| `AnsweredIsListed`, `StripIsContext` | `RankingProofs` | slice, count and `RankPage` give the contract's page and context |
| `ReadTypeCorrectness` | `RedisReadsProofs` | `Spec => []TypeOK` |
| `QuietReadsAnswerTheContract` | `RedisReadsProofs` | `Spec => []QuietReadsAreExact` |
| `RanksWereTrueOnce` | `RedisReadsProofs` | `Spec => []EveryRankWasTrueOnce` |
| `SteadyContextIsThePlayers` | `RedisReadsProofs` | `Spec => []SteadyPlayerIsShown` |
| `ScansSkipNobody` | `RedisReadsProofs` | `Spec => []NobodyIsSkipped` |
| `GamesAreListed`, `TotalsAreOfTheirGame` | `GameListProofs` | `Spec => []EveryGameIsListed`, `Spec => []TotalsWereTrue` |
| `PoolStaysWithinItsLimit` | `ServingProofs` | `Spec => []TypeOK`, the pool limit included |

Every safety property a passing run checks, and both refinements, are proved.

**The inductive invariant of the write side** is built in layers, each preserved by a lemma
`Next...` that uses the ones before it:

1. `Control`: which steps a submission and a deletion can be at. `TypeOK` needs it, since only a
   submission has a score and a key.
2. `TypeOK`.
3. `FanOut`: the bucket a submission is about to write belongs to the window of its loop, and the
   all-time board is in `wrote` before any later window is reached. This is what makes the order
   of the loop visible to the invariant.
4. `AllTimeInv`: the all-time board has no TTL and holds every score written to it by requests for
   players nobody is deleting. Neither this nor `AllTimeDominates` is inductive alone: a rolling
   script raises its board to a submitted score, and only `FanOut` and the first half say that the
   all-time board already has it.
5. `UnregisteredBoardIsPending` is inductive over 1 and 2; `ClaimInv` adds to `OneWriterPerKey` that a
   claim is still held or has lapsed, and that no step of a keyed submission precedes its claim.
6. `Expiring` gives the deadline of each populated rolling board; `LandedScoresStand` needs in
   addition that a landed score's deadline lies beyond the end of its bucket, which is where
   `CoverAssumption` and the arithmetic of `SameSpan` come in.
7. `Bookkeeping` says which windows a submission has written to and what of that is registered, at each
   step; at its end that is `CreatedIsOnEveryBoard`.
8. `Origin`: every standing is a score some submission wrote to that very board, and every name was set
   by some submission. With it `Erasing` can say what a deletion has still to remove: on the boards it has
   not listed, and on those it has gone through, nothing is older than the deletion, and after its
   last command no name is. A board that is not listed is not registered, so an earlier submission that wrote
   it would not be over (`UnlistedIsYounger`); and what is younger stays so, because only a running
   submission for the player changes a standing or sets the name (`OnlySubmissionsAdd`, `YoungerStays`).
   The bookkeeping of 7 enters here: a submission that is over, and was not answered 503, has registered
   all it wrote.
9. `Ordered`: a request that has written to a day has then named its week from a clock no earlier, so
   the week it names is that day's or a later one. A day lies within one week (`SameDaySameWeek`), and
   `LandedScoresStand` carries what was written there to the moment of the question.

The refinement theorem maps each step to `Land`, `Erase`, `Lapse`, `Accept`, `AskErase` or a stutter;
the worst case is a script whose score is not better, which must leave the abstract board unchanged.

**Ranks and pages** (`RankingProofs`). The contract lists a board in one go; the code cuts a slice out of
an ordered index, counts the scores above its first row and lets `rank_page` walk down. That the two
agree on boards and pages of any length is shown without induction over the data, from one fact:
a nonempty set of naturals has a least element (`LeastElement`, from the well-foundedness of strict
inclusion on finite sets, which the library states without an operator parameter).

1. `EveryPlaceIsTaken`: the rows of an index are in a total order, so counting the rows before each one
   is a bijection onto `0 .. size - 1`, and the `CHOOSE` of `Slice` and of `Listing` finds one row.
2. `RankPageRanks`: the function that gives each row the rank of the first row of its tie satisfies the
   recursion of `RankPage`, and no other does: at the least index where two solutions differ, both
   take the value from the index before or from none. So the `CHOOSE` behind the recursion is that function.
3. `TieOpener`, `PageRanks`: where the score changes within a page, everybody with a better score is
   listed before, so the absolute position the code takes is the competition rank.
4. `AnsweredIsListed`, `StripIsContext`: hence a page is a cut of `Listing`, and a strip split at the
   player's place is `ContextOf`, at both ends of the board and for ties across the ends of the page.

**Reads among writers** (`RedisReadsProofs`). No property about an answer is inductive, since an answer
is built from what earlier commands left behind. `Inductive` is the conjunction of

* `Control`: which command belongs to which request, and no answer before the last command;
* `TypeOK`;
* `RowsAtHand`: the rows a read holds are the slice, or the one row, of `atRows`, the board as it was
  when they were read, and are not empty when their first row is counted; the count it holds is that of
  `atCount`. With `PageRanks` this gives `EveryRankWasTrueOnce`, and with the place of the player
  `SteadyPlayerIsShown`;
* `UpToDate`: while nobody has written, the board, the place, the size and the count a read holds are those
  Redis holds. With `AnsweredIsListed` and `StripIsContext` this gives `QuietReadsAreExact`, the absence of
  an empty strip and of the `IndexError` included;
* `Scanning`: whoever a scan still owes is on the board it will ask for next, and was shown if listed
  before the place it has come to. It is kept because a standing player never comes to be listed
  earlier while nobody leaves (`AheadGrows`), at midnight included: a board that lists everybody of the
  one before at least as well has as many players ahead of the standing one. This gives `NobodyIsSkipped`.

The properties of answers are then properties of the last step alone: each is shown for the command that answers, and
afterwards the read is over (`DoneIsOver`).

**The memory store**: `StoreInv` is `InStep` for every board, that is its type and
`order = RowsOf(scores)`, with the types of names and claims. `SetScoreInStep` and `RemoveInStep`
are the two places where the code updates both structures by hand. The refinement of `StorePort` also
needs `AllTimeKept`: the all-time board of a game never has an expiry. A submission without a TTL
leaves the expiry of the board as it finds it, and only this says that it finds none, so that the board
is not shown today and gone tomorrow. A read drops a board that nobody was shown (`ReadIsUnseen`), a
sweep only claims that have lapsed (`ClaimOnMemory`), a tick of the clock is `Tick` of the port because an
expired board shows as no board (`TickImplements`); pages and contexts are those of the port by the
theorems about ranks, and the boards a deletion counts lie between those that show the player and all
boards of the game (`TouchedIsBounded`, which needs the buckets to be finitely many).

**The two backends**: `Same` relates their states: the sorted set of a bucket is what the memory board
shows (`SameScores`), populated boards have equal deadlines (`SameDeadlines`; an emptied board in memory
may keep one that nobody can observe), a claim is held in one exactly while it is in the other, and
every populated board is registered. Each call preserves `Same`, a tick included, at which Redis drops
the key in the step in which the memory board becomes expired. From `Same` the answers follow: both cut
the same slice out of the same rows and take the first rank from the same count, so the answers agree, whatever
`RankPage` makes of them. The place of a player on the board is less than its size (`PlaceIsInRange`),
which keeps the pivot of a context inside its strip. For a submission
Lua rounds, the number of scores above a bound falls as the bound rises (`CountsGoDown`), so rank and score
go off the same way (`ReportsGoTogether`). For a deletion the boards Redis goes through inject
into those in memory. With `ImplementsStoragePort` the two say that Redis too answers the contract from the
boards as they stand, up to names and the last digit of long scores.

**The list of games**: `Counting` says that each game the request must list is on the list or still to be
counted, that those still to be counted come after all those listed, and that each total was a number its
game had. Sorting takes the least game that is left, so `CountPlayers` appends at the right place
(`CountPlayersKeeps`); everybody else only lengthens the set of games and what a game has had (`OthersKeep`).

**Pools**: `ServingInv` adds to the type that an exchange holds a connection only while a worker handles
it, and is handled only while it has commands left; `Send` is the one step that takes a connection,
every other gives back or keeps what is held (`BoundKept`).

**Only model-checked**: `EveryRequestSettles`, `EveryExchangeEnds`, `ComesBack` and `DownMeansOut`. They are liveness
under weak fairness, and `ENABLED` is out of the prover's reach. The refuted statements of section 7
are counterexamples, which only TLC can give.

## 7. Where the code and its documentation disagree

Each is a run expected to find a violation, and a finding in `PROJECT.json` quotes the line.

* `MCReplayMeansApplied`: a first attempt claims its key and then fails; its retry is answered as a
  replay "of a submission already applied" although nothing was written. The key is never released
  before its TTL.
* `MCEraseRemovesFromEveryBoard`: a deletion answered 204 leaves the player on a board whose `SADD`
  to the registry was lost.
* `MCRegistryLapsesWithBoards`: the registry of buckets keeps every past day and week.
* `MCPageIsRanked`: a page gives a better score no better rank than the score below it when the first
  row is overtaken between `ZREVRANGE` and `ZCOUNT`: after one overtaker both are ranked 2.
* `MCContextIsThePlayers`: a context of a player who never left the board is somebody else's, a 404 or
  a 500, when others come or leave between `ZREVRANK` and `ZREVRANGE`.
* `MCBackendsAgree`: the two backends are "held to the same conformance suite, so they cannot diverge";
  a name set before the first board survives a deletion in Redis and not in memory.

Observed and not counted as disagreements:

* The only player of a board improves between `ZSCORE` and `ZCOUNT` of `get_entry` and is told rank 2, because
  the player's own new score is counted. `EveryRankWasTrueOnce` says what does hold: 2 is the rank of the old
  score on the board at the count.
* "The player's score after applying the submission" is Lua's text of it, which has 14 digits. It takes a
  `max_score` of more than 10^14, which the settings allow and the defaults do not reach
  (`BackendsDifferOneWay`).
* `readyz` answers 503 also when the pool of its worker is full although Redis is reachable. README.md:327
  and `.do/app.yaml` speak of an unreachable store only; three such probes in a row take an instance
  out of rotation by load alone. `ComesBack` shows that it returns.
* The memory store keeps past boards nobody asks for, and its `remove_player` counts expired boards where
  Redis answers 404 (`BackendsDifferOneWay`).
* A retention of 0 means "never expire" in Redis and "expire now" in memory; `RetentionAssumption`
  excludes it.
* Errors no handler expects are answered outside the middleware that adds `X-Request-ID`
  (README.md:229), and `/metrics` counts per worker process. Neither touches a leaderboard.

## 8. What is not modelled

* Parsing, serialisation, problem+json texts, log lines and metrics: no state depends on them. The text
  of a display name: only whether there is one. `healthz`: it looks at no state.
* Redis losing acknowledged writes when it restarts: its persistence is configured outside the
  service. `GoDown` in `Serving` loses answers; in `LeaderboardWrites` commands are lost or late.
* Clocks that step, and skew that changes within a behaviour.
* Scores beyond 2^53, where a double is not exact; no default allows them.
* Connections that went stale in a pool while nobody used them: redis-py replaces them in ways the
  service does not control.
* The benchmark script, a load generator outside the service.

Three listed hazards have no property. That a worker starts without Redis (`app/main.py:49`) is the missing
condition of `Start`, which a property could only repeat. Past boards the memory store keeps (`app/store/memory.py:131`) are
never visible, which `ImplementsPort` shows, and the store is for tests. Settings that are zero or
shorter than their window (`app/core/config.py:47`) are excluded by named assumptions, because the code
does not validate them and the properties are false without them.

## 9. What is left

* `RedisStore` against `StorePort` directly: with names forgotten and scores below Lua's limit it implements
  the port. `SameStandings` and `ImplementsStoragePort` say so call by call; a refinement of its own
  would need a port that lets a name outlive a deletion.
* What liveness rests on: that a handler at a wait can always move, and that a held connection is always given
  back, as invariants that name the step, in place of `ENABLED`.
* Clocks that step during a submission: `RollingBoardsAgree` would need a new side condition.
* Two games at a time in `Backends`: the registry `lb:games` is the only key they share.
