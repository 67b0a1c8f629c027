SPECIFICATION Spec
CONSTANTS
  Game = Game
  User = {1, 2, 3}
  Key = {}
  NoScore = NoScore
  MinScore = 1
  MaxScore = 2
  Ask <- MCAsks
  MaxPageSize = 3
  MaxRadius = 2
  Renamed = {1}
  DayLength = 1
  DaysPerWeek = 1
  DailyTtl = 2
  WeeklyTtl = 1
  MaxTime = 1
  MaxSkew = 1
INVARIANTS TypeOK QuietReadsAreExact EveryRankWasTrueOnce SteadyPlayerIsShown NobodyIsSkipped
CHECK_DEADLOCK FALSE
