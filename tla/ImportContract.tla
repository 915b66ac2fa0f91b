--------------------------- MODULE ImportContract ---------------------------
(***************************************************************************)
(* What importing promises of sys.modules: a name that is looked up while  *)
(* it is unbound is bound to a new module, and a bound one keeps its module *)
(* except for the imports that were looking for it before it was bound.    *)
(***************************************************************************)
EXTENDS Naturals

CONSTANTS Names, Mods, Absent

VARIABLES
    table,       \* [Names -> Mods or Absent]
    opened       \* [Names -> Nat], the imports that found it unbound

Unused == {m \in Mods : \A n \in Names : table[n] # m}

Init ==
    /\ table = [n \in Names |-> Absent]
    /\ opened = [n \in Names |-> 0]

Enter(n) ==
    /\ table[n] = Absent
    /\ \E m \in Unused : table' = [table EXCEPT ![n] = m]
    /\ UNCHANGED opened

Open(n) ==
    /\ table[n] = Absent
    /\ opened' = [opened EXCEPT ![n] = @ + 1]
    /\ UNCHANGED table

Close(n) ==
    /\ opened[n] > 0
    /\ opened' = [opened EXCEPT ![n] = @ - 1]
    /\ \/ UNCHANGED table
       \/ \E m \in Unused : table' = [table EXCEPT ![n] = m]

Next == \E n \in Names : Enter(n) \/ Open(n) \/ Close(n)

Spec == Init /\ [][Next]_<<table, opened>>
=============================================================================
