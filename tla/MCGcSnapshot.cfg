CONSTANTS
  a = a
  b = b
  c = c
  d = d
  Objs = {a, c}
  Clears = {a, c}
  Cascades = {c}
  Finalizes = {c}
  Dynamic = {}
  FinalizerFrees = TRUE
  MaxExt = 1
  MaxRefs = 3
SPECIFICATION Spec
INVARIANT SnapshotAlive
