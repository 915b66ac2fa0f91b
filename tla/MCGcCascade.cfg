CONSTANTS
  a = a
  b = b
  c = c
  d = d
  Objs = {a, b}
  Clears = {a}
  Cascades = {}
  Finalizes = {}
  Dynamic = {}
  FinalizerFrees = FALSE
  MaxExt = 1
  MaxRefs = 3
SPECIFICATION Spec
INVARIANT DropsCascade
