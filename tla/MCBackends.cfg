SPECIFICATION BothSpec
CONSTANTS
  g1 = g1  k1 = k1  k2 = k2
  Game = {g1}
  User = {1, 2, 3}
  Key = {k1, k2}
  NoScore = NoScore
  CalledScore <- MCScores
  MinScore <- Lowest
  MaxScore = 14
  LuaExact = 10
  CalledWindow = {"daily"}
  Limit = {1, 2}
  Offset = {0, 1, 3}
  Radius = {1}
  Renamed = {1}
  IdemTtl = 1
  SweepLimit = 1
  DayLength = 2
  DaysPerWeek = 1
  DailyTtl = 1
  WeeklyTtl = 1
  MaxTime = 1
  MaxSkew = 0
INVARIANTS TypeOK IndexMatchesScores StandingsAgree BackendsDifferOneWay
PROPERTY ImplementsPort
CHECK_DEADLOCK FALSE
