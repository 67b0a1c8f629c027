SPECIFICATION Spec
CONSTANTS
  Game = Game
  User = {1, 2, 3}
  Key = {}
  NoScore = NoScore
  MinScore = 1
  MaxScore = 3
  Ask <- MCFirstPage
  MaxPageSize = 3
  MaxRadius = 2
  Renamed = {}
  DayLength = 1
  DaysPerWeek = 1
  DailyTtl = 1
  WeeklyTtl = 1
  MaxTime = 0
  MaxSkew = 0
INVARIANT PageIsRanked
CHECK_DEADLOCK FALSE
