------------------------------- MODULE Runtime -------------------------------
(***************************************************************************)
(* Parts of the runtime that share no state: thread states and errors, the *)
(* import of modules, type objects, integers, the calls of functions.  A   *)
(* behaviour is one of one part.                                           *)
(***************************************************************************)
EXTENDS ThreadStates, Import, Types, Ints, Calls

VARIABLE part

vars == <<part, threadVars, importVars, typeVars, intVars, callVars>>

(* The parts that do not run start in one state.                            *)
Init ==
    /\ part \in {"threads", "imports", "types", "ints", "calls"}
    /\ ThreadInit /\ ImportInit /\ TypeInit /\ IntInit /\ CallInit
    /\ part # "threads" => head = CHOOSE s \in States : TRUE
    /\ part # "imports" => program = (CHOOSE p \in Programs : TRUE) /\ gil = Main
    /\ part # "types"   => kind = LET p == CHOOSE d \in Declarations : TRUE
                                  IN  [t \in Types |-> p[t].kind]
    /\ part # "calls"   => source = CHOOSE p \in Sources : TRUE

ThreadStep == part = "threads" /\ ThreadNext /\ UNCHANGED <<part, importVars, typeVars, intVars, callVars>>
ImportStep == part = "imports" /\ ImportNext /\ UNCHANGED <<part, threadVars, typeVars, intVars, callVars>>
TypeStep   == part = "types" /\ TypeNext /\ UNCHANGED <<part, threadVars, importVars, intVars, callVars>>
IntStep    == part = "ints" /\ IntNext /\ UNCHANGED <<part, threadVars, importVars, typeVars, callVars>>
CallStep   == part = "calls" /\ CallNext /\ UNCHANGED <<part, threadVars, importVars, typeVars, intVars>>

Next == ThreadStep \/ ImportStep \/ TypeStep \/ IntStep \/ CallStep

(* Who holds the GIL goes on: an import makes its next step.               *)
Spec == Init /\ [][Next]_vars /\ WF_vars(ImportStep)

-----------------------------------------------------------------------------

TypeOK ==
    /\ part = "threads" => ThreadTypeOK
    /\ part = "imports" => ImportTypeOK
    /\ part = "types"   => TypesTypeOK
    /\ part = "ints"    => IntsTypeOK
    /\ part = "calls"   => CallsTypeOK

(* Every import ends, cycles included.                                     *)
ImportsEnd == part = "imports" => AllEnd

=============================================================================
