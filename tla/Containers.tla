------------------------------ MODULE Containers ------------------------------
(***************************************************************************)
(* The mutable containers of src/types: one dict, one set or one list, as  *)
(* `kind` says.  The other two stay as they were made.                     *)
(***************************************************************************)
EXTENDS Dict, Set, List

VARIABLE kind

vars == <<kind, dictVars, setVars, listVars>>

Init ==
  /\ kind \in {"dict", "set", "list"}
  /\ DictInit /\ SetInit
  /\ IF kind = "list" THEN ListInit ELSE New(0, FALSE)

DictStep == kind = "dict" /\ DictNext /\ UNCHANGED <<kind, setVars, listVars>>
SetStep  == kind = "set"  /\ SetNext /\ UNCHANGED <<kind, dictVars, listVars>>
ListStep == kind = "list" /\ ListNext /\ UNCHANGED <<kind, dictVars, setVars>>

Next == DictStep \/ SetStep \/ ListStep

Spec == Init /\ [][Next]_vars

-----------------------------------------------------------------------------

TypeOK == DictTypeOK /\ SetTypeOK /\ ListTypeOK

(* dict.rs find_slot and set.rs set_lookup end at an empty slot, and find  *)
(* what is in the dict or the set under its key.                           *)
EntriesFound ==
  /\ DictProbingEnds /\ DictEntriesFound
  /\ SetProbingEnds /\ SetEntriesFound

(* ma_used, fill, used and the tables on the heap are what is there.       *)
CountsExact == UsedIsItems /\ SetCountsExact

(* References of dict.rs, set.rs and list.rs to their members: enough for  *)
(* each, and no more but for the methods of lists.                         *)
HoldsItsMembers == DictHoldsItsMembers /\ SetHoldsItsMembers /\ ListHoldsItsMembers

(* Each container is what it promises: a map, a set, a sequence.           *)
ImplementsContracts == ImplementsMap /\ ImplementsSet /\ ImplementsSequence
=============================================================================
