CONSTANTS
  k1 = k1
  k2 = k2
  k3 = k3
  k4 = k4
  Keys = {k1, k2, k3, k4}
  Values = {v1, v2}
  Cap = 3
  Size = 3
  Lifetimes = {1}
  MaxNow = 1
  Bucket <- MCBucket
  NoKey = NoKey
  NoValue = NoValue
SPECIFICATION Spec
SYMMETRY Symmetry
INVARIANTS RingsIntact
PROPERTIES Refines
