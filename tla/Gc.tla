--------------------------------- MODULE Gc ---------------------------------
(***************************************************************************)
(* Reference counts and the cycle collector (src/object/gc.rs), with the   *)
(* two ways the runtime gives a reference up:                              *)
(*   full   Py_DECREF and PyObjectRef::drop, which deallocate at zero;     *)
(*   raw    RawPyObject::decref alone, which the built-in containers use   *)
(*          for their members: at zero the object stays, unreferenced.     *)
(*                                                                         *)
(* Every object here has a GC head.  The program works on objects it holds *)
(* an external reference to (a frame's stack, a C variable, a global);     *)
(* finalizers run in the middle of a collection and of a deallocation.     *)
(* The lock is held throughout (Gil).                                      *)
(***************************************************************************)
EXTENDS Integers, FiniteSets

CONSTANTS
  Objs,           (* addresses                                             *)
  Clears,         (* objects whose type has tp_clear (a tuple has none)    *)
  Cascades,       (* whose tp_clear and tp_dealloc give members up in full *)
  Finalizes,      (* whose type has tp_finalize                            *)
  Dynamic,        (* whose tp_is_gc returns 0                              *)
  FinalizerFrees, (* finalizers the collector calls may free objects       *)
  MaxExt,         (* bound: external references to an object               *)
  MaxRefs         (* bound: references between objects                     *)

ASSUME KindsAssumption ==
  /\ IsFiniteSet(Objs)
  /\ Clears \subseteq Objs /\ Cascades \subseteq Objs
  /\ Finalizes \subseteq Objs /\ Dynamic \subseteq Objs
  /\ FinalizerFrees \in BOOLEAN /\ MaxExt \in Nat /\ MaxRefs \in Nat

VARIABLES
  alive,          (* allocated objects                                     *)
  refs,           (* what the members of each object refer to              *)
  ext,            (* external references to it                             *)
  refcnt,         (* ob_refcnt                                             *)
  tracked,        (* GCState.tracked, and GC_TRACKED in gc_prev            *)
  marked,         (* GC_REACHABLE in gc_prev                               *)
  dying,          (* objects whose tp_dealloc is running                   *)
  finalized,      (* those in which it has called tp_finalize              *)
  phase,          (* how far gc_collect_impl is; # "idle" is `collecting`  *)
  snapshot,       (* its local variables tracked_snapshot and unreachable  *)
  unreachable,
  todo            (* what is left of unreachable in the current loop       *)

heap == <<alive, refs, ext, refcnt, tracked, dying>>
vars == <<alive, refs, ext, refcnt, tracked, marked, dying, finalized, phase,
          snapshot, unreachable, todo>>

TypeOK ==
  /\ alive \subseteq Objs
  /\ refs \in [Objs -> SUBSET Objs]
  /\ ext \in [Objs -> 0..MaxExt]
  /\ refcnt \in [Objs -> Nat]
  /\ tracked \subseteq alive
  /\ marked \subseteq alive
  /\ dying \subseteq alive
  /\ finalized \subseteq dying
  /\ phase \in {"idle", "finalize", "clear", "drop"}
  /\ snapshot \subseteq Objs
  /\ unreachable \subseteq snapshot
  /\ todo \subseteq unreachable

Init ==
  /\ alive = {}
  /\ refs = [o \in Objs |-> {}]
  /\ ext = [o \in Objs |-> 0]
  /\ refcnt = [o \in Objs |-> 0]
  /\ tracked = {}
  /\ marked = {}
  /\ dying = {}
  /\ finalized = {}
  /\ phase = "idle"
  /\ snapshot = {}
  /\ unreachable = {}
  /\ todo = {}

-----------------------------------------------------------------------------
(* Reference counts.  Each takes the counts r it starts from.              *)

Plus(r, S)  == [o \in Objs |-> IF o \in S THEN r[o] + 1 ELSE r[o]]
Minus(r, S) == [o \in Objs |-> IF o \in S THEN r[o] - 1 ELSE r[o]]

(* Mutant: deallocates one reference early.                                *)
GiveUpEarly(r, S, full) ==
  /\ refcnt' = Minus(r, S)
  /\ dying' = dying \cup (IF full THEN {o \in S : r[o] <= 2} ELSE {})

(* A reference to each member of S is given up: in full, or raw.           *)
GiveUp(r, S, full) ==
  /\ refcnt' = Minus(r, S)
  /\ dying' = dying \cup (IF full THEN {o \in S : r[o] = 1} ELSE {})

(* _PyObject_GC_New: a tracked object with one reference.  calloc clears   *)
(* the head.                                                               *)
Allocate(o, r) ==
  /\ o \notin alive
  /\ alive' = alive \cup {o}
  /\ refcnt' = [r EXCEPT ![o] = 1]
  /\ tracked' = tracked \cup {o}

CanRefer == Cardinality({p \in Objs \X Objs : p[2] \in refs[p[1]]}) < MaxRefs

(* Nothing else runs while a deallocation is under way.                    *)
Running == phase = "idle" /\ dying = {}

-----------------------------------------------------------------------------
(* The program.                                                            *)

New(o) ==
  /\ Running
  /\ MaxExt > 0
  /\ Allocate(o, refcnt)
  /\ ext' = [ext EXCEPT ![o] = 1]
  /\ UNCHANGED <<refs, marked, dying, finalized, phase, snapshot, unreachable, todo>>

(* b is stored in a; a member is read out of a.                            *)
Store(a, b) ==
  /\ Running
  /\ ext[a] > 0 /\ ext[b] > 0
  /\ b \notin refs[a] /\ CanRefer
  /\ refs' = [refs EXCEPT ![a] = @ \cup {b}]
  /\ refcnt' = Plus(refcnt, {b})
  /\ UNCHANGED <<alive, ext, tracked, marked, dying, finalized, phase, snapshot, unreachable, todo>>

Read(a, b) ==
  /\ Running
  /\ ext[a] > 0 /\ ext[b] < MaxExt
  /\ b \in refs[a]
  /\ ext' = [ext EXCEPT ![b] = @ + 1]
  /\ refcnt' = Plus(refcnt, {b})
  /\ UNCHANGED <<alive, refs, tracked, marked, dying, finalized, phase, snapshot, unreachable, todo>>

(* A member is overwritten or deleted: built-in containers decref it raw.  *)
Delete(a, b) ==
  /\ Running
  /\ ext[a] > 0
  /\ b \in refs[a]
  /\ refs' = [refs EXCEPT ![a] = @ \ {b}]
  /\ GiveUp(refcnt, {b}, a \in Cascades)
  /\ UNCHANGED <<alive, ext, tracked, marked, finalized, phase, snapshot, unreachable, todo>>

(* Py_DECREF of the program's own reference.                               *)
Drop(a) ==
  /\ Running
  /\ ext[a] > 0
  /\ ext' = [ext EXCEPT ![a] = @ - 1]
  /\ GiveUp(refcnt, {a}, TRUE)
  /\ UNCHANGED <<alive, refs, tracked, marked, finalized, phase, snapshot, unreachable, todo>>

(* PyObject_GC_Track and UnTrack, called by extensions.                    *)
Track(a) ==
  /\ Running
  /\ ext[a] > 0
  /\ a \notin tracked
  /\ tracked' = tracked \cup {a}
  /\ UNCHANGED <<alive, refs, ext, refcnt, marked, dying, finalized, phase, snapshot, unreachable, todo>>

UnTrack(a) ==
  /\ Running
  /\ ext[a] > 0
  /\ a \in tracked
  /\ tracked' = tracked \ {a}
  /\ UNCHANGED <<alive, refs, ext, refcnt, marked, dying, finalized, phase, snapshot, unreachable, todo>>

-----------------------------------------------------------------------------
(* What the tp_finalize of o does, starting from the counts r.             *)

MayFree(x, r) == FinalizerFrees \/ phase # "finalize" \/ r[x] > 1

Effect(o, r) ==
  \/ /\ refcnt' = r
     /\ UNCHANGED <<alive, refs, ext, tracked, dying>>
  \/ \E x \in {o} \cup refs[o] :                     (* x is resurrected    *)
       /\ ext[x] < MaxExt
       /\ ext' = [ext EXCEPT ![x] = @ + 1]
       /\ refcnt' = Plus(r, {x})
       /\ UNCHANGED <<alive, refs, tracked, dying>>
  \/ \E g \in Objs :                                 (* a global holds o    *)
       /\ ext[g] > 0 /\ o \notin refs[g] /\ CanRefer
       /\ refs' = [refs EXCEPT ![g] = @ \cup {o}]
       /\ refcnt' = Plus(r, {o})
       /\ UNCHANGED <<alive, ext, tracked, dying>>
  \/ \E x \in refs[o] :                              (* o gives x up        *)
       /\ MayFree(x, r)
       /\ refs' = [refs EXCEPT ![o] = @ \ {x}]
       /\ GiveUp(r, {x}, o \in Cascades)
       /\ UNCHANGED <<alive, ext, tracked>>
  \/ \E x \in Objs :                                 (* o makes and holds x *)
       /\ CanRefer
       /\ Allocate(x, r)
       /\ refs' = [refs EXCEPT ![o] = @ \cup {x}]
       /\ UNCHANGED <<ext, dying>>
  \/ \E x \in Objs :                                 (* a global is emptied *)
       /\ ext[x] > 0
       /\ MayFree(x, r)
       /\ ext' = [ext EXCEPT ![x] = @ - 1]
       /\ GiveUp(r, {x}, TRUE)
       /\ UNCHANGED <<alive, refs, tracked>>

(* tp_dealloc.  One that has a finalizer first calls                       *)
(* PyObject_CallFinalizerFromDealloc, since PyObject_GC_IsFinalized        *)
(* answers 0; then it untracks, gives its members up and frees, unless the *)
(* finalizer took a reference.                                             *)
CallFinalizer(o) ==
  /\ o \in (dying \cap Finalizes) \ finalized
  /\ Effect(o, [refcnt EXCEPT ![o] = 1])
  /\ finalized' = finalized \cup {o}
  /\ UNCHANGED <<marked, phase, snapshot, unreachable, todo>>

Resurrected(o) == o \in finalized /\ refcnt[o] > 1

Survive(o) ==
  /\ o \in dying
  /\ Resurrected(o)
  /\ refcnt' = [refcnt EXCEPT ![o] = @ - 1]
  /\ dying' = dying \ {o}
  /\ finalized' = finalized \ {o}
  /\ UNCHANGED <<alive, refs, ext, tracked, marked, phase, snapshot, unreachable, todo>>

(* Mutant: a tp_dealloc that forgets PyObject_GC_UnTrack.                  *)
FreeTracked(o) ==
  /\ o \in dying
  /\ o \in Finalizes => o \in finalized
  /\ ~Resurrected(o)
  /\ alive' = alive \ {o}
  /\ marked' = marked \ {o}
  /\ refs' = [refs EXCEPT ![o] = {}]
  /\ refcnt' = [Minus(refcnt, refs[o]) EXCEPT ![o] = 0]
  /\ dying' = (dying \cup IF o \in Cascades THEN {x \in refs[o] : refcnt[x] = 1} ELSE {}) \ {o}
  /\ finalized' = finalized \ {o}
  /\ UNCHANGED <<tracked, ext, phase, snapshot, unreachable, todo>>

Free(o) ==
  /\ o \in dying
  /\ o \in Finalizes => o \in finalized
  /\ ~Resurrected(o)
  /\ alive' = alive \ {o}
  /\ tracked' = tracked \ {o}
  /\ marked' = marked \ {o}
  /\ refs' = [refs EXCEPT ![o] = {}]
  /\ refcnt' = [Minus(refcnt, refs[o]) EXCEPT ![o] = 0]
  /\ dying' = (dying \cup IF o \in Cascades THEN {x \in refs[o] : refcnt[x] = 1} ELSE {}) \ {o}
  /\ finalized' = finalized \ {o}
  /\ UNCHANGED <<ext, phase, snapshot, unreachable, todo>>

-----------------------------------------------------------------------------
(* The collector: gc_collect_impl.                                         *)

(* Steps 2 and 3 on the objects S with the counts r: gc_refs is the count  *)
(* less the references from S.                                             *)
GcRefs(r, S, o) == r[o] - Cardinality({x \in S : o \in refs[x]})
(* Mutant: gc_refs >= 0.                                                   *)
GcRootsZero(r, S) == {o \in S : GcRefs(r, S, o) >= 0}

GcRoots(r, S)   == {o \in S : GcRefs(r, S, o) > 0}

(* find_unreachable: visit_reachable goes on from an object it visits when *)
(* that is tracked and was not marked (m) before.                          *)
Closed(S, m) == \A x \in S : (refs[x] \cap tracked) \ m \subseteq S
Reached(from, m) ==
  {o \in Objs : \A S \in SUBSET Objs : from \subseteq S /\ Closed(S, m) => o \in S}

(* Mutant: no shield before the clear pass.                                *)
DisposeUnshielded(g, r, S, m) ==
  IF g = {}
  THEN /\ phase' = "idle"
       /\ snapshot' = {}
       /\ refcnt' = r
       /\ marked' = m \ S
       /\ UNCHANGED tracked
       /\ unreachable' = {} /\ todo' = {}
  ELSE /\ phase' = "clear"
       /\ refcnt' = r
       /\ marked' = m
       /\ tracked' = tracked \ g
       /\ unreachable' = g /\ todo' = g

(* What is left of steps 7 to 9 once the garbage g is known, if any:       *)
(* untrack it and shield it with a reference, or tidy up and return.       *)
Dispose(g, r, S, m) ==
  IF g = {}
  THEN /\ phase' = "idle"
       /\ snapshot' = {}
       /\ refcnt' = r
       /\ marked' = m \ S
       /\ UNCHANGED tracked
       /\ unreachable' = {} /\ todo' = {}
  ELSE /\ phase' = "clear"
       /\ refcnt' = Plus(r, g)
       /\ marked' = m
       /\ tracked' = tracked \ g
       /\ unreachable' = g /\ todo' = g

(* Steps 1 to 5 (an empty snapshot, too, leaves all as it was).            *)
Collect ==
  LET S == tracked \ Dynamic
      m == marked \ S
      R == Reached(GcRoots(refcnt, S), m)
      g == S \ R
  IN  /\ Running
      /\ IF g \cap Finalizes # {}
         THEN /\ phase' = "finalize"
              /\ refcnt' = Plus(refcnt, g)
              /\ marked' = m \cup R
              /\ snapshot' = S /\ unreachable' = g /\ todo' = g \cap Finalizes
              /\ UNCHANGED tracked
         ELSE /\ Dispose(g, refcnt, S, m \cup R)
              /\ g # {} => snapshot' = S
      /\ UNCHANGED <<alive, refs, ext, dying, finalized>>

FinalizeOne(o) ==
  /\ phase = "finalize" /\ dying = {}
  /\ o \in todo
  /\ todo' = todo \ {o}
  /\ Effect(o, refcnt)
  /\ UNCHANGED <<marked, finalized, phase, snapshot, unreachable>>

(* Mutant: the shield stays when the finalizers have run.                  *)
EndFinalizeShielded ==
  LET S == snapshot \cap tracked
      m == marked \ S
      R == Reached(GcRoots(refcnt, S), m)
  IN  /\ phase = "finalize" /\ dying = {}
      /\ todo = {}
      /\ Dispose(S \ R, refcnt, S, m \cup R)
      /\ S \ R # {} => UNCHANGED snapshot
      /\ UNCHANGED <<alive, refs, ext, dying, finalized>>

(* Mutant: no second scan.                                                 *)
EndFinalizeNoRescan ==
  LET r == Minus(refcnt, unreachable)
  IN  /\ phase = "finalize" /\ dying = {}
      /\ todo = {}
      /\ Dispose(unreachable, r, snapshot, marked)
      /\ unreachable # {} => UNCHANGED snapshot
      /\ UNCHANGED <<alive, refs, ext, dying, finalized>>

(* The shield goes and step 6 scans again those of the snapshot that are   *)
(* still tracked.                                                          *)
EndFinalize ==
  LET r == Minus(refcnt, unreachable)
      S == snapshot \cap tracked
      m == marked \ S
      R == Reached(GcRoots(r, S), m)
  IN  /\ phase = "finalize" /\ dying = {}
      /\ todo = {}
      /\ Dispose(S \ R, r, S, m \cup R)
      /\ S \ R # {} => UNCHANGED snapshot
      /\ UNCHANGED <<alive, refs, ext, dying, finalized>>

(* The clear pass.                                                         *)
ClearOne(o) ==
  /\ phase = "clear" /\ dying = {}
  /\ o \in todo
  /\ todo' = todo \ {o}
  /\ IF o \in Clears
     THEN /\ refs' = [refs EXCEPT ![o] = {}]
          /\ GiveUp(refcnt, refs[o], o \in Cascades)
     ELSE UNCHANGED <<refs, refcnt, dying>>
  /\ UNCHANGED <<alive, ext, tracked, marked, finalized, phase, snapshot, unreachable>>

EndClear ==
  /\ phase = "clear" /\ dying = {}
  /\ todo = {}
  /\ phase' = "drop"
  /\ todo' = unreachable
  /\ UNCHANGED <<heap, marked, finalized, snapshot, unreachable>>

(* Mutant: the drop pass decrements and never deallocates.                 *)
DropOneRaw(o) ==
  /\ phase = "drop" /\ dying = {}
  /\ o \in todo
  /\ todo' = todo \ {o}
  /\ GiveUp(refcnt, {o}, FALSE)
  /\ UNCHANGED <<alive, refs, ext, tracked, marked, finalized, phase, snapshot, unreachable>>

(* The drop pass.                                                          *)
DropOne(o) ==
  /\ phase = "drop" /\ dying = {}
  /\ o \in todo
  /\ todo' = todo \ {o}
  /\ GiveUp(refcnt, {o}, TRUE)
  /\ UNCHANGED <<alive, refs, ext, tracked, marked, finalized, phase, snapshot, unreachable>>

EndCollect ==
  /\ phase = "drop" /\ dying = {}
  /\ todo = {}
  /\ phase' = "idle"
  /\ marked' = marked \ tracked
  /\ snapshot' = {} /\ unreachable' = {}
  /\ UNCHANGED <<heap, finalized, todo>>

Collecting ==
  \/ Collect \/ EndFinalize \/ EndClear \/ EndCollect
  \/ \E o \in Objs : ClearOne(o) \/ DropOne(o) \/ Free(o) \/ Survive(o)

Next ==
  \/ Collect \/ EndFinalize \/ EndClear \/ EndCollect
  \/ \E o \in Objs :
       \/ New(o) \/ Drop(o) \/ Track(o) \/ UnTrack(o)
       \/ CallFinalizer(o) \/ Survive(o) \/ Free(o)
       \/ FinalizeOne(o) \/ ClearOne(o) \/ DropOne(o)
       \/ \E p \in Objs : Store(o, p) \/ Read(o, p) \/ Delete(o, p)

Spec == Init /\ [][Next]_vars

-----------------------------------------------------------------------------
(* Properties.                                                             *)

(* What the members of the objects in from lead to.                        *)
ReachFrom(from) ==
  {o \in Objs : \A S \in SUBSET Objs :
                  from \subseteq S /\ (\A x \in S : refs[x] \subseteq S) => o \in S}

(* What the program can reach.                                             *)
Live == ReachFrom({o \in Objs : ext[o] > 0})

Holders(o) == Cardinality({x \in alive : o \in refs[x]})
Shield(o) ==
  IF o \in (IF phase = "drop" THEN todo ELSE unreachable) THEN 1 ELSE 0

(* ob_refcnt is the number of references there are, the collector's shield *)
(* and the one tp_dealloc holds around a finalizer included, whatever      *)
(* finalizers, cascades and collections do in between.                     *)
RefcountExact ==
  \A o \in alive :
    refcnt[o] = ext[o] + Holders(o) + Shield(o) + (IF o \in finalized THEN 1 ELSE 0)

(* No reference leads to freed memory.                                     *)
NoDangling ==
  /\ \A o \in Objs : ext[o] > 0 => o \in alive
  /\ \A o \in alive : refs[o] \subseteq alive

(* The shield keeps every object the collector still has to visit.         *)
ShieldHolds ==
  /\ phase \in {"finalize", "clear"} => unreachable \subseteq alive \ dying
  /\ phase = "drop" => todo \subseteq alive \ dying

(* The collector and the deallocations it starts are invisible to the      *)
(* program: what it can reach stays, with its members, and stays tracked.  *)
CollectionInvisible ==
  [][Collecting => /\ ext' = ext
                   /\ \A o \in Live : /\ o \in alive' /\ refs'[o] = refs[o]
                                      /\ o \in tracked' <=> o \in tracked]_vars

(* Each scan finds all the garbage there is: what it leaves is held by the *)
(* program or by an object outside the scan.  Marks left by an earlier     *)
(* collection hide nothing.                                                *)
FindsAllGarbage ==
  [][/\ Collect =>
          \A o \in (tracked \ Dynamic) \ unreachable' :
            o \in ReachFrom({x \in alive : ext[x] > 0 \/ x \notin tracked \ Dynamic})
     /\ EndFinalize =>
          \A o \in (snapshot \cap tracked) \ unreachable' :
            o \in ReachFrom({x \in alive : ext[x] > 0 \/ x \notin snapshot \cap tracked})]_vars

(* Garbage whose types all have tp_clear is gone when the collection ends, *)
(* whatever the cycles and in whatever order they are visited.             *)
CollectsGarbage ==
  [][EndCollect /\ unreachable \subseteq Clears \ Finalizes
       => unreachable \cap alive = {}]_vars

(* gc.rs:559 on the snapshot: "ONLY safe to call when no objects in the    *)
(* snapshot have been freed"; the collector goes over the snapshot again   *)
(* when the finalizers have run.                                           *)
SnapshotAlive == phase = "finalize" => snapshot \subseteq alive

(* gc.rs:533: "Drop pass: decref each -- removes shield, deallocs cascade  *)
(* naturally": nothing unreferenced is left when it has ended.             *)
DropsCascade ==
  phase = "drop" /\ todo = {} /\ dying = {} =>
    \A o \in unreachable \cap alive : refcnt[o] > 0

=============================================================================
