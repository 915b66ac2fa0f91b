CONSTANTS
  k1 = k1
  k2 = k2
  k3 = k3
  k4 = k4
  k5 = k5
  k6 = k6
  k1x = k1x
  v1 = v1
  v2 = v2
  o1 = o1
  o2 = o2
  o3 = o3
  Keys = {k1, k2, k3, k4, k5, k6, k1x}
  DictKeys = {k1, k2, k3, k1x}
  Values = {v1, v2}
  KeyHash <- MCHash
  EqualTo <- MCEqual
  Sizes = {4, 8}
  Sources <- MCSources
  Objs = {o1, o2, o3}
  SortKey <- MCSort
  MaxLen = 3
  MaxGiven = 2
  MaxRefs = 4
SPECIFICATION Spec
INVARIANTS TypeOK EntriesFound CountsExact HoldsItsMembers IterationComplete
PROPERTIES ImplementsContracts
