------------------------------ MODULE GameList -------------------------------
(* GET /games: list_games of app/service.py, which asks Redis for the set of   *)
(* games and then, game after game, for the number of players on its all-time  *)
(* board.  Other clients submit and erase between any two of these commands,   *)
(* and a submission writes its board before it registers its game.             *)
EXTENDS Integers, Sequences

CONSTANTS Game,        \* game ids, of which only the order is looked at
          MaxPlayers   \* bound: players on the all-time board of a game

ASSUME GameAssumption == Game \subseteq Nat /\ MaxPlayers \in Nat

VARIABLES
    games,      \* the set lb:games
    players,    \* ZCARD of the all-time board of each game
    written,    \* the games whose board some script has written
    pc,         \* the command awaited
    todo,       \* the games still to be counted
    summaries,  \* the summaries so far, and in the end the answer
    known,      \* observed: the games registered when the request came in
    had         \* observed: the numbers of players a game has had since then

read == <<pc, todo, summaries, known>>

vars == <<games, players, written, read, had>>

Summary == [game : Game, total : 0 .. MaxPlayers]

Init ==
    /\ games = {}
    /\ players = [g \in Game |-> 0]
    /\ written = {}
    /\ pc = "idle"
    /\ todo = {}
    /\ summaries = <<>>
    /\ known = {}
    /\ had = [g \in Game |-> {}]

------------------------------------------------------------------------------
(* The read                                                                    *)

Arrive ==
    /\ pc = "idle"
    /\ pc' = "games"
    /\ known' = games
    /\ had' = [g \in Game |-> {players[g]}]
    /\ UNCHANGED <<games, players, written, todo, summaries>>

CountNext(left) == pc' = IF left = {} THEN "done" ELSE "card"

(* SMEMBERS                                                                    *)
ReadGames ==
    /\ pc = "games"
    /\ todo' = games
    /\ CountNext(games)
    /\ UNCHANGED <<games, players, written, summaries, known, had>>

(* The loop goes through sorted(...) of the set.                               *)
Least(S) == CHOOSE g \in S : \A h \in S : g <= h

(* Mutated forms of CountPlayers: the loop leaves out the last game, and the   *)
(* board is named once, before the loop.                                       *)
CountAllButLast ==
    /\ pc = "card"
    /\ LET g == Least(todo)
       IN  /\ todo' = todo \ {g}
           /\ IF todo' = {} THEN UNCHANGED summaries
              ELSE summaries' = Append(summaries, [game |-> g, total |-> players[g]])
    /\ CountNext(todo')
    /\ UNCHANGED <<games, players, written, known, had>>

CountFirstBoard ==
    /\ pc = "card"
    /\ LET g == Least(todo)
           first == IF summaries = <<>> THEN g ELSE summaries[1].game
       IN  /\ todo' = todo \ {g}
           /\ summaries' = Append(summaries, [game |-> g, total |-> players[first]])
    /\ CountNext(todo')
    /\ UNCHANGED <<games, players, written, known, had>>

(* ZCARD of total_players, for one game after the other                        *)
CountPlayers ==
    /\ pc = "card"
    /\ LET g == Least(todo)
       IN  /\ todo' = todo \ {g}
           /\ summaries' = Append(summaries, [game |-> g, total |-> players[g]])
    /\ CountNext(todo')
    /\ UNCHANGED <<games, players, written, known, had>>

(* A RedisError on any command: 503, and no list.                              *)
Fail ==
    /\ pc \in {"games", "card"}
    /\ pc' = "failed"
    /\ UNCHANGED <<games, players, written, todo, summaries, known, had>>

------------------------------------------------------------------------------
(* Everybody else                                                              *)

Changed(g, n) ==
    /\ players' = [players EXCEPT ![g] = n]
    /\ had' = [had EXCEPT ![g] = @ \cup {n}]
    /\ UNCHANGED <<games, read>>

(* The script adds a player; the SADD of its game comes later, if at all.      *)
Join(g) ==
    /\ players[g] < MaxPlayers
    /\ Changed(g, players[g] + 1)
    /\ written' = written \cup {g}

Register(g) ==
    /\ g \in written
    /\ games' = games \cup {g}
    /\ UNCHANGED <<players, written, read, had>>

(* A ZREM of an erasure, which takes no game off the list.                     *)
Leave(g) ==
    /\ players[g] > 0
    /\ Changed(g, players[g] - 1)
    /\ UNCHANGED written

Next ==
    \/ Arrive \/ ReadGames \/ CountPlayers \/ Fail
    \/ pc # "done" /\ \E g \in Game : Join(g) \/ Register(g) \/ Leave(g)

Spec == Init /\ [][Next]_vars

------------------------------------------------------------------------------
(* Properties                                                                  *)

(* The list has every game that was registered when the request came in, none  *)
(* that is not registered, each once and in the order of the ids, whatever     *)
(* games appear or are emptied while the others are counted.                   *)
EveryGameIsListed ==
    pc = "done" =>
        /\ known \subseteq {summaries[i].game : i \in 1 .. Len(summaries)}
        /\ {summaries[i].game : i \in 1 .. Len(summaries)} \subseteq games
        /\ \A i, j \in 1 .. Len(summaries) : i < j => summaries[i].game < summaries[j].game

(* Every total is a number of players that its own game had while the request  *)
(* ran: the counts of one list belong to different moments, but none is stale, *)
(* or another game's.                                                          *)
TotalsWereTrue ==
    pc = "done" => \A i \in 1 .. Len(summaries) : summaries[i].total \in had[summaries[i].game]
==============================================================================
