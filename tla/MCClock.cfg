SPECIFICATION FairSpec
CONSTANTS
  u1 = u1  u2 = u2  k1 = k1  p1 = p1  p2 = p2  p3 = p3
  User = {u1}
  Game = Game
  Key = {k1}
  Req = {p1, p2}
  NoKey = NoKey
  NoScore = NoScore
  Job <- MCClockJobs
  MinScore = 0
  MaxScore = 2
  IdemTtl = 2
  DayLength = 1
  DaysPerWeek = 2
  DailyTtl = 2
  WeeklyTtl = 3
  MaxTime = 3
  MaxSkew = 1
  Ahead <- OneAhead
INVARIANTS TypeOK LandedScoresStand RollingBoardsAgree RollingBoardsExpire OneWriterPerKey CreatedIsOnEveryBoard
PROPERTIES KeepsBestScores EveryRequestSettles
CHECK_DEADLOCK FALSE
