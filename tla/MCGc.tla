-------------------------------- MODULE MCGc --------------------------------
(* Gc on a list, an extension's container, an extension's object with a   *)
(* finalizer and no tp_clear, and one that its type's tp_is_gc hides from  *)
(* the snapshot.  The list gives its members up raw and the container in   *)
(* full: garbage made of these two is what CollectsGarbage speaks of, in   *)
(* cycles of one and of both, cleared and dropped in either order.  The    *)
(* smaller instances are of a list and a tuple (MCGcCascade) and of a list *)
(* and a finalizer that frees (MCGcSnapshot).                              *)
EXTENDS Gc, TLC

CONSTANTS a, b, c, d
=============================================================================
