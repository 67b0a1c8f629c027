------------------------------- MODULE Backends ------------------------------
(* The two backends behind the storage port, side by side: every call is made  *)
(* on app/store/memory.py and on app/store/redis_store.py at the same moment,  *)
(* as the shared conformance suite does with one call after the other.         *)
EXTENDS MemoryStore

CONSTANTS MinScore, MaxScore,   \* settings.min_score, settings.max_score
          LuaExact              \* the least size of a score Lua does not print exactly

(* RedisKeys are the keys of one game, so one game is what both are asked for. *)
ASSUME BackendsAssumption ==
    /\ \E g \in Game : Game = {g}
    /\ CalledScore \subseteq MinScore .. MaxScore
    /\ LuaExact \in Nat \ {0}

VARIABLES zset, deadline, idem, redisNames, buckets, games,   \* see RedisKeys
          redisAnswer                                         \* what Redis answered

redisVars == <<zset, deadline, idem, redisNames, buckets, games, redisAnswer>>

TheGame == CHOOSE g \in Game : TRUE

Red == INSTANCE RedisStore WITH
    Game <- TheGame, names <- redisNames, answer <- redisAnswer

BothInit ==
    /\ Init
    /\ Red!KeysInit
    /\ redisAnswer = [op |-> "none"]

BothWrite ==
    \/ \E u \in User :
          \/ \E window \in CalledWindow, score \in CalledScore :
                Submit(TheGame, window, u, score) /\ Red!Submit(window, u, score)
          \/ RemovePlayer(TheGame, u) /\ Red!RemovePlayer(u)
    \/ \E u \in Renamed : SetDisplayName(TheGame, u) /\ Red!SetDisplayName(u)
    \/ \E k \in Key : ClaimIdempotencyKey(TheGame, k) /\ Red!ClaimIdempotencyKey(k)

BothRead ==
    \/ ListGames /\ Red!ListGames
    \/ \E window \in CalledWindow :
          \/ TotalPlayers(TheGame, window) /\ Red!TotalPlayers(window)
          \/ \E limit \in Limit, offset \in Offset :
                Top(TheGame, window, limit, offset) /\ Red!Top(window, limit, offset)
          \/ \E u \in User :
                \/ GetEntry(TheGame, window, u) /\ Red!GetEntry(window, u)
                \/ \E radius \in Radius :
                      Context(TheGame, window, u, radius) /\ Red!Context(window, u, radius)

BothNext == BothWrite \/ BothRead \/ (ClockTick /\ Red!ClockTick)

BothSpec == BothInit /\ [][BothNext]_<<vars, redisVars>>

------------------------------------------------------------------------------
(* Properties                                                                  *)

Unnamed(entry) == [entry EXCEPT !.named = FALSE]

(* An answer without its display names.                                        *)
Nameless(a) ==
    CASE a.op = "top" -> [a EXCEPT !.entries = [i \in DOMAIN @ |-> Unnamed(@[i])]]
      [] a.op = "entry" -> [a EXCEPT !.entry = Unnamed(@)]
      [] a.op = "context" -> [a EXCEPT !.user = Unnamed(@),
                                       !.above = [i \in DOMAIN @ |-> Unnamed(@[i])],
                                       !.below = [i \in DOMAIN @ |-> Unnamed(@[i])]]
      [] OTHER -> a

(* A submission that reports a score, new or previous, which Lua rounds.       *)
RoundedReport(a) ==
    /\ a.op = "submit"
    /\ \E score \in {a.score, a.previous} \ {NoScore} :
          score >= LuaExact \/ score <= -LuaExact

(* The backends agree on every standing, page, context, count and claim, after *)
(* the same calls at the same moments, ties, expiries and re-created boards    *)
(* included; on what a submission reports, as long as Lua prints the scores.   *)
StandingsAgree ==
    \/ answer.op \in {"remove", "games"}
    \/ RoundedReport(answer)
    \/ Nameless(answer) = Nameless(redisAnswer)

(* Where the backends differ, they differ one way: only Redis keeps the name   *)
(* of a player erased before the first board was registered, only the memory   *)
(* store counts boards that have expired among those a deletion touched, and   *)
(* only Redis lists a game whose boards are gone.  The rank Redis reports of a *)
(* submission is off in the direction of the score it reports: never better    *)
(* for a score rounded down, nor worse for one rounded up.                     *)
BackendsDifferOneWay ==
    /\ {u \in User : <<TheGame, u>> \in names} \subseteq redisNames
    /\ answer.op = "remove" => redisAnswer.touched <= answer.touched
    /\ answer.op = "games" => answer.games \subseteq redisAnswer.games
    /\ answer.op = "submit" =>
          /\ redisAnswer.updated = answer.updated
          /\ redisAnswer.score <= answer.score => redisAnswer.rank >= answer.rank
          /\ redisAnswer.score >= answer.score => redisAnswer.rank <= answer.rank

------------------------------------------------------------------------------
(* What the documentation says, which the runs refute                          *)

(* README.md:253, "Both are held to the same conformance suite, so they cannot *)
(* diverge": the same calls at the same moments get the same answers.          *)
BackendsAgree == answer = redisAnswer
==============================================================================
