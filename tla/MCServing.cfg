SPECIFICATION Spec
CONSTANTS
  i1 = i1
  i2 = i2
  w1 = w1
  w2 = w2
  w3 = w3
  Client = {c1, c2}
  Instance = {i1, i2}
  Worker = {w1, w2, w3}
  Host <- Hosts
  NoWorker = NoWorker
  PoolSize = 1
  FailureThreshold = 2
  MaxCommands = 2
  MaxCrashes = 1
INVARIANT TypeOK
PROPERTIES EveryExchangeEnds ComesBack DownMeansOut
