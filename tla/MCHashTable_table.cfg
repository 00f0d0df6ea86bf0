SPECIFICATION Spec
CONSTANTS
  k1 = k1
  k2 = k2
  k3 = k3
  k4 = k4
  Keys = {k1, k2, k3, k4}
  Values = {v1, v2}
  NoValue = NoValue
  Hash <- SomeHash
  InitialSize = 1
  AllocMayFail = TRUE
INVARIANTS
  TypeOK
  KeysInPlace
  CountExact
  LoadBounded
PROPERTIES
  RefinesKeyMap
