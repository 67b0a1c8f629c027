SPECIFICATION Spec
CONSTANTS
  u1 = u1  u2 = u2  k1 = k1  p1 = p1  p2 = p2  p3 = p3
  User = {u1, u2}
  Game = Game
  Key = {k1}
  Req = {p1, p2}
  NoKey = NoKey
  NoScore = NoScore
  Job <- MCEraseJobs
  MinScore = 0
  MaxScore = 2
  IdemTtl = 1
  DayLength = 1
  DaysPerWeek = 1
  DailyTtl = 1
  WeeklyTtl = 1
  MaxTime = 0
  MaxSkew = 0
  Ahead <- InStep
SYMMETRY MCSymmetry
INVARIANT EraseRemovesFromEveryBoard
CHECK_DEADLOCK FALSE
