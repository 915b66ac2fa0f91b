------------------------------ MODULE ListContract ------------------------------
(***************************************************************************)
(* What a list promises: a sequence.  Slots of a new list are empty until  *)
(* they are filled.                                                        *)
(***************************************************************************)
EXTENDS Integers, Sequences, SequencesExt

CONSTANTS
  Objs, NULL,
  SortKey,        (* what sort() orders an object by                       *)
  MaxLen          (* bound on the length                                   *)

VARIABLE items

Cells == Objs \cup {NULL}

Init == items \in UNION {[1..n -> {NULL}] : n \in 0..MaxLen}

Put    == \E i \in DOMAIN items, o \in Objs : items' = [items EXCEPT ![i] = o]
Insert == \E i \in 1..Len(items) + 1, o \in Objs : items' = InsertAt(items, i, o)
Delete == \E i \in DOMAIN items : items' = RemoveAt(items, i)
Slice  == \E lo \in 1..Len(items) + 1, hi \in 0..Len(items) : items' = SubSeq(items, lo, hi)
Flip   == items' = Reverse(items)

(* By any objects, also by its own.                                        *)
Extend ==
  /\ Len(items') >= Len(items) /\ SubSeq(items', 1, Len(items)) = items
  /\ \A i \in Len(items) + 1..Len(items') : items'[i] \in Objs

(* Stable: what sorts alike keeps its order.                               *)
Before(i, j) ==
  \/ SortKey[items[i]] < SortKey[items[j]]
  \/ SortKey[items[i]] = SortKey[items[j]] /\ i < j

Sort ==
  \E p \in Bijection(DOMAIN items, DOMAIN items) :
    /\ items' = [i \in DOMAIN items |-> items[p[i]]]
    /\ \A i, j \in DOMAIN items : i < j => Before(p[i], p[j])

Next == Put \/ Insert \/ Delete \/ Extend \/ Slice \/ Flip \/ (NULL \notin Range(items) /\ Sort)

Spec == Init /\ [][Next]_items
=============================================================================
