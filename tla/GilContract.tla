----------------------------- MODULE GilContract -----------------------------
(***************************************************************************)
(* What src/runtime/gil.rs and PyObjectRef::drop promise the code above    *)
(* them, without mutexes, depths or queues: at most one thread at a time   *)
(* is inside Python, an object lives as long as some thread owns a handle  *)
(* to it, and it is reclaimed at most once after the last handle is gone.  *)
(***************************************************************************)
EXTENDS Naturals

CONSTANTS Threads, Objs

VARIABLES
  inside,       (* the threads that may touch Python objects               *)
  handles,      (* PyObjectRef handles of each thread                      *)
  live          (* objects that exist                                      *)

vars == <<inside, handles, live>>

Init ==
  /\ inside = {}
  /\ handles = [t \in Threads |-> [o \in Objs |-> 0]]
  /\ live = {}

Enter(t) ==
  /\ inside = {}
  /\ inside' = {t}
  /\ UNCHANGED <<handles, live>>

Exit(t) ==
  /\ t \in inside
  /\ inside' = inside \ {t}
  /\ UNCHANGED <<handles, live>>

Create(t, o) ==
  /\ t \in inside
  /\ o \notin live
  /\ live' = live \cup {o}
  /\ handles' = [handles EXCEPT ![t][o] = 1]
  /\ UNCHANGED inside

Share(t, u, o) ==
  /\ handles[t][o] > 0
  /\ handles' = [handles EXCEPT ![u][o] = @ + 1]
  /\ UNCHANGED <<inside, live>>

Unowned(h, o) == \A t \in Threads : h[t][o] = 0

Drop(t, o) ==
  /\ handles[t][o] > 0
  /\ handles' = [handles EXCEPT ![t][o] = @ - 1]
  /\ \/ live' = live
     \/ Unowned(handles', o) /\ live' = live \ {o}
  /\ UNCHANGED inside

Reclaim(o) ==
  /\ o \in live
  /\ Unowned(handles, o)
  /\ live' = live \ {o}
  /\ UNCHANGED <<inside, handles>>

Next ==
  \/ \E t \in Threads : Enter(t) \/ Exit(t)
  \/ \E t, u \in Threads, o \in Objs : Share(t, u, o)
  \/ \E t \in Threads, o \in Objs : Create(t, o) \/ Drop(t, o)
  \/ \E o \in Objs : Reclaim(o)

Spec == Init /\ [][Next]_vars
=============================================================================
