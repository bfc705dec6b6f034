CONSTANTS
  IPs = {1, 2, 3}
  TopCount = 2
  Attempts = 2
  Measured <- Measurements
  Scale = 4
  MaxWeight = 3
  Concurrency = 2
  CounterSize = 2
  Getters = {g1}
  Options <- TwoPools
SPECIFICATION PoolFairSpec
INVARIANTS FairShare KeepsTheBest AnswersUsable
PROPERTIES ScanEnds
