CONSTANTS
  Timeout = 3
  Waits = {0, 2, 4}
  MinRTTs = {0, 1, 3}
  MaxRecords = 1
  MaxReplies = 3
  MaxTime = 5
SPECIFICATION FairSpec
INVARIANTS OwnAnswer FullestAnswer WaitsOut
PROPERTIES ExchangeEnds
CHECK_DEADLOCK FALSE
