---------------------------- MODULE GameListProofs ----------------------------
(* Proofs about GameList, for any number of games and players, and whatever is *)
(* submitted, registered and erased between the commands of the request.       *)
EXTENDS GameList, TLAPS

R == INSTANCE RankingProofs WITH NoScore <- 0

Listed == {summaries[i].game : i \in 1 .. Len(summaries)}

Typed ==
    /\ games \subseteq Game
    /\ players \in [Game -> 0 .. MaxPlayers]
    /\ pc \in {"idle", "games", "card", "done", "failed"}
    /\ todo \subseteq Game
    /\ summaries \in Seq(Summary)
    /\ known \subseteq Game
    /\ had \in [Game -> SUBSET (0 .. MaxPlayers)]

(* Before the games are read nothing has been listed.  Afterwards each known   *)
(* game is on the list or still to be counted, and those still to be counted   *)
(* come after all those on the list.                                           *)
Counting ==
    /\ pc \in {"idle", "games"} => summaries = <<>>
    /\ pc # "idle" => known \subseteq games /\ \A g \in Game : players[g] \in had[g]
    /\ pc = "card" => todo # {}
    /\ pc = "done" => todo = {}
    /\ pc \in {"card", "done"} =>
          /\ known \subseteq Listed \cup todo
          /\ Listed \cup todo \subseteq games
          /\ \A i, j \in 1 .. Len(summaries) : i < j => summaries[i].game < summaries[j].game
          /\ \A i \in 1 .. Len(summaries), g \in todo : summaries[i].game < g
          /\ \A i \in 1 .. Len(summaries) : summaries[i].total \in had[summaries[i].game]

(* Sorting goes on with the least game that is left.                           *)
LEMMA LeastIsLeast ==
    ASSUME NEW S \in SUBSET Nat, S # {}
    PROVE  Least(S) \in S /\ \A h \in S : Least(S) <= h
<1>1. \E m \in S : \A n \in S : m <= n
  BY R!LeastElement
<1> QED
  BY <1>1 DEF Least

LEMMA ListedGames ==
    ASSUME Typed
    PROVE  \A i \in 1 .. Len(summaries) : summaries[i].game \in Game
<1>1. \A i \in 1 .. Len(summaries) : summaries[i] \in Summary
  BY DEF Typed
<1> QED
  BY <1>1 DEF Summary

LEMMA ListingInit == Init => Typed /\ Counting
BY GameAssumption DEF Init, Typed, Counting, Listed

(* CountPlayers adds a game that comes after those listed, with its total.     *)
LEMMA CountPlayersKeeps == Typed /\ Counting /\ CountPlayers => Typed' /\ Counting'
<1> SUFFICES ASSUME Typed, Counting, CountPlayers PROVE Typed' /\ Counting'
  OBVIOUS
<1> DEFINE g == Least(todo)
           new == [game |-> g, total |-> players[g]]
<1>1. /\ pc = "card"
      /\ todo' = todo \ {g}
      /\ summaries' = Append(summaries, new)
      /\ pc' = IF todo' = {} THEN "done" ELSE "card"
      /\ UNCHANGED <<games, players, known, had>>
  BY DEF CountPlayers, CountNext
<1>2. g \in todo /\ \A h \in todo : g <= h
  BY <1>1, LeastIsLeast, GameAssumption DEF Typed, Counting
<1>3. g \in Game /\ Game \subseteq Nat /\ new \in Summary
  BY <1>2, GameAssumption DEF Typed, Summary
<1> HIDE DEF new, g
<1>4. /\ summaries' \in Seq(Summary)
      /\ Len(summaries') = Len(summaries) + 1
      /\ Len(summaries) \in Nat
      /\ summaries'[Len(summaries) + 1] = new
      /\ \A i \in 1 .. Len(summaries) : summaries'[i] = summaries[i]
  BY <1>1, <1>3 DEF Typed
<1>5. new.game = g /\ new.total = players[g]
  BY DEF new
<1>6. Listed' = Listed \cup {g}
  BY <1>4, <1>5 DEF Listed
<1>7. Typed'
  BY <1>1, <1>4 DEF Typed
<1>8. Counting'
  <2>1. \A i \in 1 .. Len(summaries) : summaries[i].game \in Nat
    BY <1>3, ListedGames
  <2>2. \A i, j \in 1 .. Len(summaries') : i < j => summaries'[i].game < summaries'[j].game
    <3>1. \A i, j \in 1 .. Len(summaries) : i < j => summaries[i].game < summaries[j].game
      BY <1>1 DEF Counting
    <3>2. \A i \in 1 .. Len(summaries) : summaries[i].game < g
      BY <1>1, <1>2 DEF Counting
    <3> QED
      BY <1>4, <1>5, <3>1, <3>2
  <2>3. \A i \in 1 .. Len(summaries'), h \in todo' : summaries'[i].game < h
    BY <1>1, <1>2, <1>3, <1>4, <1>5, <2>1 DEF Counting, Typed
  <2>4. \A i \in 1 .. Len(summaries') : summaries'[i].total \in had'[summaries'[i].game]
    BY <1>1, <1>3, <1>4, <1>5 DEF Counting
  <2>5. known' \subseteq Listed' \cup todo' /\ Listed' \cup todo' \subseteq games'
    BY <1>1, <1>2, <1>6 DEF Counting
  <2>6. known' \subseteq games' /\ \A h \in Game : players'[h] \in had'[h]
    BY <1>1 DEF Counting
  <2> QED
    BY <1>1, <2>2, <2>3, <2>4, <2>5, <2>6 DEF Counting
<1> QED
  BY <1>7, <1>8

(* Everybody else only lengthens what a game has had and the list of games.    *)
LEMMA OthersKeep ==
    ASSUME Typed, Counting, NEW g \in Game, Join(g) \/ Register(g) \/ Leave(g)
    PROVE  Typed' /\ Counting'
<1>1. read' = read /\ games \subseteq games' /\ games' \subseteq Game
  BY DEF Join, Register, Leave, Changed, Typed
<1>2. /\ players' \in [Game -> 0 .. MaxPlayers]
      /\ had' \in [Game -> SUBSET (0 .. MaxPlayers)]
      /\ \A h \in Game : had[h] \subseteq had'[h]
      /\ \A h \in Game : players[h] \in had[h] => players'[h] \in had'[h]
  <2>1. CASE Register(g)
    BY <2>1 DEF Register, Typed
  <2>2. ASSUME NEW n \in 0 .. MaxPlayers, Changed(g, n)
        PROVE  <1>2
    BY <2>2 DEF Changed, Typed
  <2>3. players[g] \in 0 .. MaxPlayers /\ MaxPlayers \in Nat
    BY GameAssumption DEF Typed
  <2>4. CASE Join(g)
    <3>1. players[g] + 1 \in 0 .. MaxPlayers /\ Changed(g, players[g] + 1)
      BY <2>3, <2>4 DEF Join
    <3> QED
      BY <3>1, <2>2
  <2>5. CASE Leave(g)
    <3>1. players[g] - 1 \in 0 .. MaxPlayers /\ Changed(g, players[g] - 1)
      BY <2>3, <2>5 DEF Leave
    <3> QED
      BY <3>1, <2>2
  <2> QED
    BY <2>1, <2>4, <2>5
<1>3. Listed' = Listed /\ \A i \in 1 .. Len(summaries) : summaries[i].game \in Game
  BY <1>1, ListedGames DEF Listed, read
<1>4. Typed'
  BY <1>1, <1>2 DEF Typed, read
<1>5. Counting'
  BY <1>1, <1>2, <1>3 DEF Counting, read
<1> QED
  BY <1>4, <1>5

LEMMA ListingNext == Typed /\ Counting /\ [Next]_vars => Typed' /\ Counting'
<1> SUFFICES ASSUME Typed, Counting, [Next]_vars PROVE Typed' /\ Counting'
  OBVIOUS
<1>1. CASE Arrive
  <2>1. \A g \in Game : had'[g] = {players[g]}
    BY <1>1 DEF Arrive
  <2>2. had' \in [Game -> SUBSET (0 .. MaxPlayers)]
    BY <1>1 DEF Arrive, Typed
  <2> QED
    BY <1>1, <2>1, <2>2 DEF Arrive, Typed, Counting
<1>2. CASE ReadGames
  <2>1. Listed' = {} /\ summaries' = <<>> /\ Len(summaries') = 0
    BY <1>2 DEF ReadGames, Counting, Listed
  <2> QED
    BY <1>2, <2>1 DEF ReadGames, CountNext, Typed, Counting
<1>3. CASE CountPlayers
  BY <1>3, CountPlayersKeeps
<1>4. CASE Fail
  BY <1>4 DEF Fail, Typed, Counting
<1>5. ASSUME NEW g \in Game, Join(g) \/ Register(g) \/ Leave(g)
      PROVE  Typed' /\ Counting'
  BY <1>5, OthersKeep
<1>6. CASE UNCHANGED vars
  BY <1>6 DEF vars, read, Typed, Counting, Listed
<1> QED
  BY <1>1, <1>2, <1>3, <1>4, <1>5, <1>6 DEF Next

(* Whatever comes and goes beside it, GET /games lists every game that was     *)
(* registered when the request came in, and no other, each once and in order.  *)
THEOREM GamesAreListed == Spec => []EveryGameIsListed
<1>1. Typed /\ Counting => EveryGameIsListed
  BY DEF Typed, Counting, Listed, EveryGameIsListed
<1> QED
  BY <1>1, ListingInit, ListingNext, PTL DEF Spec

(* Every total is a number of players its own game had during the request.     *)
THEOREM TotalsAreOfTheirGame == Spec => []TotalsWereTrue
<1>1. Typed /\ Counting => TotalsWereTrue
  BY DEF Counting, TotalsWereTrue
<1> QED
  BY <1>1, ListingInit, ListingNext, PTL DEF Spec
==============================================================================
