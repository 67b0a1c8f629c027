SPECIFICATION Spec
CONSTANTS
  Game <- MCGames
  MaxPlayers = 2
INVARIANTS EveryGameIsListed TotalsWereTrue
CHECK_DEADLOCK FALSE
