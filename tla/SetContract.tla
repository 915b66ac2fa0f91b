------------------------------ MODULE SetContract ------------------------------
(***************************************************************************)
(* What a set promises: no two equal members, and of equal keys the first. *)
(***************************************************************************)
CONSTANTS
  Keys,
  EqualTo         (* of a key, the value it is compared by                 *)

VARIABLE members

Init == members = {}

Twins(k) == {m \in members : EqualTo[m] = EqualTo[k]}

Include(k) == Twins(k) = {} /\ members' = members \cup {k}
Exclude(k) == Twins(k) # {} /\ members' = members \ Twins(k)
Clear      == members' = {}

Next == Clear \/ \E k \in Keys : Include(k) \/ Exclude(k)

Spec == Init /\ [][Next]_members
=============================================================================
