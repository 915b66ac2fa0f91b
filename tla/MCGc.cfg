CONSTANTS
  a = a
  b = b
  c = c
  d = d
  Objs = {a, b, c, d}
  Clears = {a, b}
  Cascades = {b, c, d}
  Finalizes = {c}
  Dynamic = {d}
  FinalizerFrees = FALSE
  MaxExt = 1
  MaxRefs = 3
SPECIFICATION Spec
INVARIANTS TypeOK RefcountExact NoDangling ShieldHolds
PROPERTIES CollectionInvisible FindsAllGarbage CollectsGarbage
