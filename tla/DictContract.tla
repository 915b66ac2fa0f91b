----------------------------- MODULE DictContract -----------------------------
(***************************************************************************)
(* What a dict promises: a finite map that knows the order of insertion    *)
(* and keeps the first of several equal keys.                              *)
(***************************************************************************)
CONSTANTS
  Keys, Values,
  EqualTo         (* of a key, the value it is compared by                 *)

VARIABLES
  items,          (* <<key, value>>                                        *)
  older           (* pairs of its keys, of which the first is older        *)

vars == <<items, older>>

Init == items = {} /\ older = {}

At(k) == {it \in items : EqualTo[it[1]] = EqualTo[k]}

Replace(k, v) == \E it \in At(k) : items' = (items \ {it}) \cup {<<it[1], v>>} /\ UNCHANGED older

Insert(k, v) ==
  /\ At(k) = {}
  /\ items' = items \cup {<<k, v>>}
  /\ older' = older \cup {<<it[1], k>> : it \in items}

Delete(k) ==
  \E it \in At(k) :
    /\ items' = items \ {it}
    /\ older' = {p \in older : p[1] # it[1] /\ p[2] # it[1]}

Clear == items' = {} /\ older' = {}

Next ==
  \/ \E k \in Keys : Delete(k) \/ \E v \in Values : Replace(k, v) \/ Insert(k, v)
  \/ Clear

Spec == Init /\ [][Next]_vars
=============================================================================
