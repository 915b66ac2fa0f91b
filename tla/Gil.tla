--------------------------------- MODULE Gil ---------------------------------
(***************************************************************************)
(* The global interpreter lock (src/runtime/gil.rs): a mutex, a per-thread *)
(* depth counter that makes it re-entrant, and a queue of reference counts *)
(* to be decremented later, filled by PyObjectRef::drop when the dropping  *)
(* thread does not hold the lock and drained by the next thread that locks *)
(* the mutex.                                                              *)
(*                                                                         *)
(* A thread follows the API contract: it closes the regions it opened in   *)
(* the opposite order.  A region is a frame of `scopes`:                   *)
(*   init    initialize .. finalize, on the main thread;                   *)
(*   with    the closure of Python::with_gil;                              *)
(*   ensure  PyGILState_Ensure .. PyGILState_Release, on any thread;       *)
(*   allow   PyEval_SaveThread .. PyEval_RestoreThread, where the code of  *)
(*           the region runs without Python (Py_BEGIN_ALLOW_THREADS).      *)
(* Threads interleave at every lock operation and between any two calls.   *)
(***************************************************************************)
EXTENDS Integers, Sequences, SequencesExt, FiniteSets

CONSTANTS
  Threads,      (* the threads of the process                              *)
  Main,         (* the one that runs initialize() and the script           *)
  Objs,         (* addresses of Python objects                             *)
  NoOne,        (* no thread: a free mutex                                 *)
  MaxScopes,    (* bound: nesting of regions per thread                    *)
  MaxRefs,      (* bound: references to an object, queued ones included    *)
  Reenters      (* what tp_dealloc of each object calls back into          *)

ASSUME ThreadsAssumption == Main \in Threads /\ NoOne \notin Threads
ASSUME BoundsAssumption  == MaxScopes \in Nat /\ MaxRefs \in Nat

(* A built-in tp_dealloc only decrements the raw counts of its members     *)
(* ("drain": the drain goes on); one of a C extension may take the lock    *)
(* again (PyGILState_Ensure, execute_vm_function: "lock") or drop a        *)
(* PyObjectRef inside the runtime ("push").                                *)
ASSUME ReentersAssumption == Reenters \in [Objs -> {"drain", "lock", "push"}]

VARIABLES
  interp,       (* INTERP_STATE is Some                                    *)
  gil,          (* the thread whose GIL_GUARD holds the mutex              *)
  depth,        (* GIL_DEPTH of each thread                                *)
  qlock,        (* the thread inside PENDING_DECREFS.lock()                *)
  queue,        (* PENDING_DECREFS                                         *)
  pc,           (* where each thread is, see PCs                           *)
  arg,          (* the call being made (pc # "run"), or the dropped object *)
  scopes,       (* the regions each thread is in, innermost last           *)
  hasState,     (* threads with a CURRENT_TSTATE                           *)
  refcnt,       (* ob_refcnt                                               *)
  live,         (* objects allocated and not yet deallocated               *)
  handles       (* PyObjectRef handles each thread owns                    *)

lockVars == <<gil, depth, pc, arg, scopes, hasState, interp>>
objVars  == <<qlock, queue, refcnt, live, handles>>
vars     == <<interp, gil, depth, qlock, queue, pc, arg, scopes, hasState,
              refcnt, live, handles>>

(* run: outside the functions below; lock: blocked in get_gil().lock();    *)
(* flush: owns the GIL mutex and is about to lock PENDING_DECREFS; drain:  *)
(* owns both; push: in queue_decref.                                       *)
PCs    == {"run", "lock", "flush", "drain", "push"}
Calls  == {"none", "init", "with", "ensure", "restore"}
Scopes == [kind : {"init", "with", "ensure", "allow"}, at : Nat]

(* An address is not a call: arg tells them apart.                         *)
ASSUME CallsAssumption == Objs \cap Calls = {}

(* The innermost region of t is one in which Python objects may be used.   *)
Inside(t) == /\ pc[t] = "run"
             /\ scopes[t] # <<>>
             /\ Last(scopes[t]).kind # "allow"

TypeOK ==
  /\ interp \in BOOLEAN
  /\ gil \in Threads \cup {NoOne}
  /\ depth \in [Threads -> Nat]
  /\ qlock \in Threads \cup {NoOne}
  /\ queue \in Seq(Objs)
  /\ pc \in [Threads -> PCs]
  /\ arg \in [Threads -> Calls \cup Objs]
  /\ scopes \in [Threads -> Seq(Scopes)]
  /\ hasState \subseteq Threads
  /\ refcnt \in [Objs -> Int]
  /\ live \subseteq Objs
  /\ handles \in [Threads -> [Objs -> Nat]]

Init ==
  /\ interp = FALSE
  /\ gil = NoOne
  /\ depth = [t \in Threads |-> 0]
  /\ qlock = NoOne
  /\ queue = <<>>
  /\ pc = [t \in Threads |-> "run"]
  /\ arg = [t \in Threads |-> "none"]
  /\ scopes = [t \in Threads |-> <<>>]
  /\ hasState = {}
  /\ refcnt = [o \in Objs |-> 0]
  /\ live = {}
  /\ handles = [t \in Threads |-> [o \in Objs |-> 0]]

-----------------------------------------------------------------------------
(* acquire_gil.                                                            *)

Push(t, kind) == scopes' = [scopes EXCEPT ![t] = Append(@, [kind |-> kind, at |-> depth[t]])]
Pop(t)        == scopes' = [scopes EXCEPT ![t] = Front(@)]

(* The end of acquire_gil and of the call c it was made for: initialize    *)
(* publishes the interpreter and creates the main thread state, Ensure     *)
(* creates one for a thread that has none, RestoreThread ends the allow    *)
(* region (the state it swaps in is the one SaveThread returned).          *)
Entered(t, c) ==
  /\ depth' = [depth EXCEPT ![t] = @ + 1]
  /\ pc' = [pc EXCEPT ![t] = "run"]
  /\ arg' = [arg EXCEPT ![t] = "none"]
  /\ interp' = (interp \/ c = "init")
  /\ hasState' = IF c = "init" \/ (c = "ensure" /\ interp)
                 THEN hasState \cup {t} ELSE hasState
  /\ IF c = "restore" THEN Pop(t) ELSE Push(t, c)

MustLock(t) == depth[t] = 0

(* acquire_gil locks only at depth 0; otherwise it counts.                 *)
Acquire(t, c) ==
  /\ IF MustLock(t)
     THEN /\ pc' = [pc EXCEPT ![t] = "lock"]
          /\ arg' = [arg EXCEPT ![t] = c]
          /\ UNCHANGED <<depth, interp, hasState, scopes>>
     ELSE Entered(t, c)
  /\ UNCHANGED <<gil, objVars>>

(* Mutant: a lock() that does not wait.                                    *)
LockGuardNoWait(t) == gil # t

LockGuard(t) == gil = NoOne

Lock(t) ==
  /\ pc[t] = "lock"
  /\ LockGuard(t)
  /\ gil' = t
  /\ pc' = [pc EXCEPT ![t] = "flush"]
  /\ UNCHANGED <<depth, arg, scopes, hasState, interp, objVars>>

(* flush_pending_decrefs: the queue's lock is held until the queue is      *)
(* empty, and GIL_DEPTH is still 0.                                        *)
StartFlush(t) ==
  /\ pc[t] = "flush"
  /\ qlock = NoOne
  /\ qlock' = t
  /\ pc' = [pc EXCEPT ![t] = "drain"]
  /\ UNCHANGED <<gil, depth, queue, arg, scopes, hasState, interp, refcnt, live, handles>>

(* Mutant: deallocates when the count decref returns is 1.                 *)
DecrefOffByOne(o) ==
  /\ refcnt' = [refcnt EXCEPT ![o] = @ - 1]
  /\ live' = IF refcnt[o] \in {1, 2} THEN live \ {o} ELSE live

(* decref, and dealloc_object at zero.                                     *)
Decref(o) ==
  /\ refcnt' = [refcnt EXCEPT ![o] = @ - 1]
  /\ live' = IF refcnt[o] = 1 THEN live \ {o} ELSE live

(* Mutant: empties the queue after its first element.                      *)
DrainOneClears(t) ==
  /\ pc[t] = "drain"
  /\ queue # <<>>
  /\ queue' = <<>>
  /\ Decref(Head(queue))
  /\ UNCHANGED <<gil, depth, qlock, pc, arg, scopes, hasState, interp, handles>>

DrainOne(t) ==
  /\ pc[t] = "drain"
  /\ queue # <<>>
  /\ queue' = Tail(queue)
  /\ Decref(Head(queue))
  /\ pc' = [pc EXCEPT ![t] = IF refcnt[Head(queue)] = 1 THEN Reenters[Head(queue)] ELSE "drain"]
  /\ UNCHANGED <<gil, depth, qlock, arg, scopes, hasState, interp, handles>>

(* Mutant: stops after at most one element.                                *)
EndFlushEarly(t) ==
  /\ pc[t] = "drain"
  /\ qlock' = NoOne
  /\ Entered(t, arg[t])
  /\ UNCHANGED <<gil, queue, refcnt, live, handles>>

EndFlush(t) ==
  /\ pc[t] = "drain"
  /\ queue = <<>>
  /\ qlock' = NoOne
  /\ Entered(t, arg[t])
  /\ UNCHANGED <<gil, queue, refcnt, live, handles>>

(* Mutant: drops the guard at every release.                               *)
ReleaseEager(t) ==
  /\ depth' = [depth EXCEPT ![t] = IF @ = 0 THEN 0 ELSE @ - 1]
  /\ gil' = NoOne

(* Mutant: compares the new depth, not the old one, with 1.                *)
ReleaseLate(t) ==
  /\ depth' = [depth EXCEPT ![t] = IF @ = 0 THEN 0 ELSE @ - 1]
  /\ gil' = IF depth[t] = 2 THEN NoOne ELSE gil

(* Mutant: PyGILState_Release counts twice.                                *)
ReleaseTwice(t) ==
  /\ depth' = [depth EXCEPT ![t] = IF @ = 0 THEN 0 ELSE @ - 2]
  /\ gil' = IF depth[t] = 1 THEN NoOne ELSE gil

(* release_gil: the guard is dropped when the depth goes from 1 to 0.      *)
Release(t) ==
  /\ depth' = [depth EXCEPT ![t] = IF @ = 0 THEN 0 ELSE @ - 1]
  /\ gil' = IF depth[t] = 1 THEN NoOne ELSE gil

-----------------------------------------------------------------------------
(* The regions.                                                            *)

CanOpen(t) == pc[t] = "run" /\ Len(scopes[t]) < MaxScopes

Initialize ==
  /\ ~interp
  /\ pc[Main] = "run"
  /\ Acquire(Main, "init")

(* Only code that has the lock calls with_gil: lib.rs below initialize,    *)
(* the interpreter's callbacks from C.                                     *)
WithGil(t) == CanOpen(t) /\ Inside(t) /\ Acquire(t, "with")

Ensure(t) == CanOpen(t) /\ interp /\ Acquire(t, "ensure")

SaveThread(t) ==
  /\ CanOpen(t)
  /\ Inside(t)
  /\ t \in hasState
  /\ Release(t)
  /\ Push(t, "allow")
  /\ UNCHANGED <<pc, arg, hasState, interp, objVars>>

RestoreThread(t) ==
  /\ pc[t] = "run"
  /\ scopes[t] # <<>>
  /\ Last(scopes[t]).kind = "allow"
  /\ Acquire(t, "restore")

(* PyGILState_Release (which does not look at the state it is given), the  *)
(* end of with_gil and finalize: release_gil.                              *)
Leave(t) ==
  /\ Inside(t)
  /\ Release(t)
  /\ Pop(t)
  /\ UNCHANGED <<pc, arg, hasState, interp, objVars>>

-----------------------------------------------------------------------------
(* PyObjectRef.                                                            *)

(* A new object, owned by one handle.                                      *)
Create(t, o) ==
  /\ Inside(t)
  /\ o \notin live
  /\ live' = live \cup {o}
  /\ refcnt' = [refcnt EXCEPT ![o] = 1]
  /\ handles' = [handles EXCEPT ![t][o] = 1]
  /\ UNCHANGED <<qlock, queue, lockVars>>

(* clone, by the owner or through a shared reference (PyObjectRef is Sync):*)
(* an atomic increment that needs no lock.                                 *)
Clone(t, u, o) ==
  /\ pc[t] = "run"
  /\ pc[u] = "run"
  /\ handles[t][o] > 0
  /\ refcnt[o] < MaxRefs
  /\ handles' = [handles EXCEPT ![u][o] = @ + 1]
  /\ refcnt' = [refcnt EXCEPT ![o] = @ + 1]
  /\ UNCHANGED <<qlock, queue, live, lockVars>>

(* Mutant: drop never asks whether the lock is held.                       *)
HeldUnchecked(t) == depth[t] >= 0

HeldByDepth(t) == depth[t] > 0

(* drop, with the lock held: decrement and deallocate.                     *)
DropNow(t, o) ==
  /\ pc[t] = "run"
  /\ handles[t][o] > 0
  /\ HeldByDepth(t)
  /\ handles' = [handles EXCEPT ![t][o] = @ - 1]
  /\ Decref(o)
  /\ UNCHANGED <<qlock, queue, lockVars>>

(* drop, without it: queue_decref, which waits for the queue's lock.       *)
DropLater(t, o) ==
  /\ pc[t] = "run"
  /\ handles[t][o] > 0
  /\ ~HeldByDepth(t)
  /\ handles' = [handles EXCEPT ![t][o] = @ - 1]
  /\ pc' = [pc EXCEPT ![t] = "push"]
  /\ arg' = [arg EXCEPT ![t] = o]
  /\ UNCHANGED <<gil, depth, scopes, hasState, interp, qlock, queue, refcnt, live>>

(* Mutant: pushes the pointer twice.                                       *)
QueueDecrefTwice(t) ==
  /\ pc[t] = "push"
  /\ qlock = NoOne
  /\ queue' = queue \o <<arg[t], arg[t]>>
  /\ pc' = [pc EXCEPT ![t] = "run"]
  /\ arg' = [arg EXCEPT ![t] = "none"]
  /\ UNCHANGED <<gil, depth, qlock, scopes, hasState, interp, refcnt, live, handles>>

QueueDecref(t) ==
  /\ pc[t] = "push"
  /\ qlock = NoOne
  /\ queue' = Append(queue, arg[t])
  /\ pc' = [pc EXCEPT ![t] = "run"]
  /\ arg' = [arg EXCEPT ![t] = "none"]
  /\ UNCHANGED <<gil, depth, qlock, scopes, hasState, interp, refcnt, live, handles>>

-----------------------------------------------------------------------------

Next ==
  \/ Initialize
  \/ \E t \in Threads :
       \/ Lock(t) \/ StartFlush(t) \/ DrainOne(t) \/ EndFlush(t)
       \/ WithGil(t) \/ Ensure(t) \/ SaveThread(t) \/ RestoreThread(t) \/ Leave(t)
       \/ QueueDecref(t)
       \/ \E o \in Objs :
            \/ Create(t, o) \/ DropNow(t, o) \/ DropLater(t, o)
            \/ \E u \in Threads : Clone(t, u, o)

Spec == Init /\ [][Next]_vars

(* parking_lot's mutexes hand over fairly in the long run (SF on the two   *)
(* locks), a thread that can go on does (WF), and the code of each region  *)
(* returns: SF for each nesting level, since regions inside it come and go.*)
Fairness ==
  \A t \in Threads :
    /\ SF_vars(Lock(t))
    /\ SF_vars(StartFlush(t))
    /\ SF_vars(QueueDecref(t))
    /\ WF_vars(DrainOne(t) \/ EndFlush(t))
    /\ \A i \in 1..MaxScopes :
         SF_vars(Len(scopes[t]) = i /\ (Leave(t) \/ RestoreThread(t)))

FairSpec == Spec /\ Fairness

-----------------------------------------------------------------------------
(* Properties.                                                             *)

(* Two threads are never both in code that may touch Python objects:       *)
(* what the lock exists for, through every nesting of Ensure, with_gil and *)
(* SaveThread / RestoreThread.                                             *)
MutualExclusion == \A t, u \in Threads : Inside(t) /\ Inside(u) => t = u

(* Code in a region that uses Python owns the mutex and gil_held() says    *)
(* so, and it has a thread state (PyThreadState_Get would abort).          *)
InsideHoldsGil ==
  \A t \in Threads : Inside(t) => gil = t /\ depth[t] > 0 /\ t \in hasState

(* The invariant behind the two: GIL_DEPTH is positive only in the thread  *)
(* that owns the mutex, it counts the regions that took it (`at` is its    *)
(* value when the region was opened), and a thread inside acquire_gil is   *)
(* at depth 0 with a call to finish.                                       *)
Acquiring(t) == pc[t] \in {"lock", "flush", "drain"}

LockInv ==
  \A t \in Threads :
    /\ depth[t] > 0 => gil = t
    /\ pc[t] \in {"flush", "drain"} => gil = t
    /\ pc[t] = "drain" => qlock = t
    /\ pc[t] = "push" => arg[t] \in Objs \/ qlock = t
    /\ Acquiring(t) => depth[t] = 0 /\ arg[t] \in Calls \ {"none"}

After(s) == IF s.kind = "allow" THEN s.at - 1 ELSE s.at + 1

Chain(s, d) ==
  /\ \A i \in 1..Len(s) : s[i].at = IF i = 1 THEN 0 ELSE After(s[i - 1])
  /\ d = IF s = <<>> THEN 0 ELSE After(Last(s))

ScopeInv ==
  \A t \in Threads :
    /\ Chain(scopes[t], depth[t])
    /\ scopes[t] # <<>> => t \in hasState
    /\ Acquiring(t) /\ arg[t] = "restore" => scopes[t] # <<>> /\ Last(scopes[t]).kind = "allow"
    /\ Acquiring(t) /\ arg[t] = "with" => scopes[t] # <<>>
    /\ Acquiring(t) /\ arg[t] = "ensure" => interp

GilInv == TypeOK /\ LockInv /\ ScopeInv

Queued(o)  == Cardinality({i \in DOMAIN queue : queue[i] = o})
Pushing(o) == Cardinality({t \in Threads : pc[t] = "push" /\ arg[t] = o})
Owned(o)   == Cardinality(UNION {{t} \X (1..handles[t][o]) : t \in Threads})

(* Every reference is accounted for: ob_refcnt is the number of handles    *)
(* plus the decrements still in the queue or on their way to it, so none   *)
(* is lost or applied twice however drops and drains interleave.           *)
RefcountsConserved ==
  \A o \in Objs :
    /\ refcnt[o] = Owned(o) + Queued(o) + Pushing(o)
    /\ o \in live <=> refcnt[o] > 0

(* An object is deallocated only by the thread that owns the mutex: a drop *)
(* outside it is put off until some thread has locked.                     *)
ReclaimsUnderGil ==
  [][\A o \in live : o \notin live' =>
       \E t \in Threads : gil = t /\ gil' = t /\ pc[t] \in {"run", "drain"}
                          /\ \A u \in Threads : handles'[u] # handles[u] => u = t]_vars

(* The lock implements its contract.                                       *)
Contract == INSTANCE GilContract WITH inside <- {t \in Threads : Inside(t)}
ImplementsContract == Contract!Spec

(* A thread that waits for the lock gets it and leaves acquire_gil, if the *)
(* regions of the other threads end.                                       *)
AcquireCompletes == \A t \in Threads : pc[t] = "lock" ~> pc[t] = "run"

(* Decrements that were put off are all applied once a thread comes to     *)
(* lock the mutex.                                                         *)
DeferredDecrefsApplied ==
  \A t \in Threads : (queue # <<>> /\ pc[t] = "lock") ~> queue = <<>>

(* gil.rs:199 on PyEval_SaveThread: "release GIL and return thread state   *)
(* (for Py_BEGIN_ALLOW_THREADS)": a thread in such a region does not own   *)
(* the mutex.                                                              *)
AllowRegionReleases ==
  \A t \in Threads :
    (pc[t] = "run" /\ scopes[t] # <<>> /\ Last(scopes[t]).kind = "allow") => gil # t

(* interpreter.rs:5899 on execute_vm_function: "Python::with_gil is        *)
(* reentrant (depth counter), so this is safe": a thread never waits for   *)
(* the mutex it owns.                                                      *)
ReentrantAcquire == \A t \in Threads : pc[t] = "lock" => gil # t

=============================================================================
