CONSTANTS
  Sessions = {s1, s2}
  s1 = s1
  s2 = s2
  Worlds <- AllWorlds
  SemSize = 1
  DefaultTTL = 64
SPECIFICATION Spec
INVARIANTS SearchExact FakeNeverSeen FragmentsIntact
PROPERTIES HelloArrives HelloEnds
CHECK_DEADLOCK FALSE
