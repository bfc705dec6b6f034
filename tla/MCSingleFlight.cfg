CONSTANTS
  Procs = {p1, p2, p3}
  Keys = {k1, k2}
  MaxDo = 3
  NoProc = NoProc
SPECIFICATION FairSpec
INVARIANTS OneFlightPerKey RightAnswer SharedFlagExact
PROPERTIES DoEnds
CHECK_DEADLOCK FALSE
