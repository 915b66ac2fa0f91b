-------------------------------- MODULE MCGil --------------------------------
(* Gil on the main thread and threads of a C extension.  Reenters is what   *)
(* the tp_dealloc of the objects does.                                      *)
EXTENDS Gil, TLC

CONSTANTS main, w1, w2, o1, o2

TwoThreads   == {main, w1}
ThreeThreads == {main, w1, w2}

BuiltinOnly == [o \in Objs |-> "drain"]
CallsBack   == [o \in Objs |-> "lock"]

Workers == Permutations({w1, w2})
=============================================================================
