----------------------------- MODULE MCGameList ------------------------------
(* A small instance of GameList for TLC.                                       *)
EXTENDS GameList

(* A game before and a game after the one that is being counted.               *)
MCGames == 1 .. 3
==============================================================================
