CONSTANTS
  main = main
  w1 = w1
  w2 = w2
  o1 = o1
  o2 = o2
  NoOne = NoOne
  Main = main
  Threads <- TwoThreads
  Objs = {o1}
  MaxScopes = 3
  MaxRefs = 3
  Reenters <- CallsBack
SPECIFICATION Spec
INVARIANT ReentrantAcquire
CHECK_DEADLOCK FALSE
