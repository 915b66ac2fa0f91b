---------------------------- MODULE ThreadStates ----------------------------
(***************************************************************************)
(* Thread states and the error indicator they carry: the interpreter's     *)
(* list of states (runtime/thread_state.rs), the calls that take and give  *)
(* up the GIL as far as they change a thread's current state               *)
(* (runtime/gil.rs), the indicator (runtime/error.rs) and the Rust value   *)
(* an error is fetched into (runtime/pyerr.rs).                            *)
(*                                                                         *)
(* Extensions are assumed to make their calls in the order the C API asks  *)
(* for: a state is created and deleted under the GIL, used by the thread   *)
(* that created it, and not deleted while a thread has it as its current.  *)
(***************************************************************************)
EXTENDS Common, Naturals, Sequences, FiniteSets

CONSTANTS
    Main,        \* the thread that calls Py_Initialize
    States,      \* thread states, blocks of memory
    MaxDepth,    \* bound on nested acquisitions of the GIL
    MaxErrors    \* bound on the errors a thread raises

ASSUME MainAssumption == Main \in Threads

VARIABLES
    holder,      \* the thread that holds the GIL, or Null
    depth,       \* [Threads -> Nat], GIL_DEPTH
    current,     \* [Threads -> State or Null], CURRENT_TSTATE
    saved,       \* [Threads -> State or Null], what PyEval_SaveThread returned
    made,        \* [Threads -> State or Null], what PyThreadState_New returned
    live,        \* the states allocated and not yet freed
    head, prev, next,          \* the interpreter's list
    curexc,      \* [States -> error or Null], the indicator
    fetched,     \* [Threads -> error or Null], a PyErr on the stack
    raised       \* [Threads -> Nat], how many errors a thread has raised

threadVars == <<holder, depth, current, saved, made, live, head, prev, next,
                curexc, fetched, raised>>
listVars  == <<live, head, prev, next>>
errorVars == <<curexc, fetched, raised>>

Errors == [by : Threads, number : 1 .. MaxErrors]

ASSUME NullAssumption == Null \notin States /\ Null \notin Errors
ASSUME BoundAssumption == MaxDepth \in Nat \ {0} /\ MaxErrors \in Nat

Holds(t) == holder = t /\ depth[t] > 0

(* acquire_gil and release_gil: only the outermost call takes or frees it. *)
Acquire(t) ==
    /\ holder \in {t, Null} /\ depth[t] < MaxDepth
    /\ holder' = t
    /\ depth' = [depth EXCEPT ![t] = @ + 1]

Release(t) ==
    /\ Holds(t)
    /\ depth' = [depth EXCEPT ![t] = @ - 1]
    /\ holder' = IF depth[t] = 1 THEN Null ELSE t

(* create_thread_state: a state without an error, linked in front.         *)
Create(ts) ==
    /\ ts \notin live
    /\ live' = live \cup {ts}
    /\ next' = [next EXCEPT ![ts] = head]
    /\ prev' = [s \in States |-> IF s = ts THEN Null ELSE IF s = head THEN ts ELSE prev[s]]
    /\ head' = ts
    /\ curexc' = [curexc EXCEPT ![ts] = Null]

(* Mutant: a thread without a state runs with the first of the list.       *)
EnsureFirst(t) ==
    /\ Acquire(t)
    /\ current' = IF current[t] = Null THEN [current EXCEPT ![t] = head] ELSE current
    /\ UNCHANGED <<saved, made, listVars, errorVars>>

(* PyGILState_Ensure makes a state for a thread that has none.             *)
Ensure(t) ==
    /\ Acquire(t)
    /\ IF current[t] = Null
       THEN \E ts \in States : Create(ts) /\ current' = [current EXCEPT ![t] = ts]
       ELSE UNCHANGED <<current, listVars, curexc>>
    /\ UNCHANGED <<saved, made, fetched, raised>>

(* PyGILState_Release, and PyEval_ReleaseThread: the current state of the  *)
(* thread stays what it is.                                                *)
ReleaseGil(t) ==
    /\ Release(t)
    /\ UNCHANGED <<current, saved, made, listVars, errorVars>>

SaveThread(t) ==
    /\ current[t] # Null /\ saved[t] = Null
    /\ Release(t)
    /\ saved' = [saved EXCEPT ![t] = current[t]]
    /\ UNCHANGED <<current, made, listVars, errorVars>>

(* PyEval_RestoreThread and PyEval_AcquireThread: the GIL, then a swap.    *)
RestoreThread(t) ==
    /\ saved[t] # Null
    /\ Acquire(t)
    /\ current' = [current EXCEPT ![t] = saved[t]]
    /\ saved' = [saved EXCEPT ![t] = Null]
    /\ UNCHANGED <<made, listVars, errorVars>>

AcquireThread(t) ==
    /\ made[t] # Null /\ saved[t] = Null
    /\ Acquire(t)
    /\ current' = [current EXCEPT ![t] = made[t]]
    /\ UNCHANGED <<saved, made, listVars, errorVars>>

New(t) ==
    /\ Holds(t) /\ made[t] = Null
    /\ \E ts \in States : Create(ts) /\ made' = [made EXCEPT ![t] = ts]
    /\ UNCHANGED <<holder, depth, current, saved, fetched, raised>>

(* PyThreadState_Swap(NULL): the state is no longer anyone's current.      *)
SwapOut(t) ==
    /\ Holds(t) /\ current[t] # Null /\ current[t] = made[t]
    /\ current' = [current EXCEPT ![t] = Null]
    /\ UNCHANGED <<holder, depth, saved, made, listVars, errorVars>>

(* Mutant: the prev link of the state behind it is left as it is.          *)
DeleteForward(t) ==
    LET ts == made[t]  p == prev[ts]  n == next[ts] IN
    /\ Holds(t) /\ ts # Null
    /\ \A u \in Threads : current[u] # ts /\ saved[u] # ts
    /\ next' = [s \in States |-> IF s = p THEN n ELSE next[s]]
    /\ head' = IF head = ts THEN n ELSE head
    /\ live' = live \ {ts}
    /\ curexc' = [curexc EXCEPT ![ts] = Null]
    /\ made' = [made EXCEPT ![t] = Null]
    /\ UNCHANGED <<prev, holder, depth, current, saved, fetched, raised>>

(* PyThreadState_Clear, then PyThreadState_Delete: unlinked and freed.     *)
Delete(t) ==
    LET ts == made[t]  p == prev[ts]  n == next[ts] IN
    /\ Holds(t) /\ ts # Null
    /\ \A u \in Threads : current[u] # ts /\ saved[u] # ts
    /\ next' = [s \in States |-> IF s = p THEN n ELSE next[s]]
    /\ prev' = [s \in States |-> IF s = n THEN p ELSE prev[s]]
    /\ head' = IF head = ts THEN n ELSE head
    /\ live' = live \ {ts}
    /\ curexc' = [curexc EXCEPT ![ts] = Null]
    /\ made' = [made EXCEPT ![t] = Null]
    /\ UNCHANGED <<holder, depth, current, saved, fetched, raised>>

-----------------------------------------------------------------------------
(* The indicator of the running thread.  Without a state there is none:    *)
(* what is set is dropped, and a fetch finds nothing.                      *)
Indicator(t) == IF current[t] = Null THEN Null ELSE curexc[current[t]]

SetIndicator(t, e) ==
    curexc' = IF current[t] = Null THEN curexc ELSE [curexc EXCEPT ![current[t]] = e]

(* PyErr_SetString, PyErr_SetObject, PyErr_SetNone: replaces what is there. *)
SetError(t) ==
    /\ Holds(t) /\ raised[t] < MaxErrors
    /\ SetIndicator(t, [by |-> t, number |-> raised[t] + 1])
    /\ raised' = [raised EXCEPT ![t] = @ + 1]
    /\ UNCHANGED <<holder, depth, current, saved, made, listVars, fetched>>

(* PyErr_Clear, and what PyErr_Print and PyErr_WriteUnraisable leave.      *)
ClearError(t) ==
    /\ Holds(t) /\ Indicator(t) # Null
    /\ SetIndicator(t, Null)
    /\ UNCHANGED <<holder, depth, current, saved, made, listVars, fetched, raised>>

(* Mutant: the error stays in the indicator.                               *)
FetchErrorCopy(t) ==
    /\ Holds(t) /\ fetched[t] = Null
    /\ fetched' = [fetched EXCEPT ![t] = Indicator(t)]
    /\ UNCHANGED <<holder, depth, current, saved, made, listVars, curexc, raised>>

(* PyErr::fetch: the error moves into a Rust value.                        *)
FetchError(t) ==
    /\ Holds(t) /\ fetched[t] = Null
    /\ fetched' = [fetched EXCEPT ![t] = Indicator(t)]
    /\ SetIndicator(t, Null)
    /\ UNCHANGED <<holder, depth, current, saved, made, listVars, raised>>

(* PyErr::restore moves it back, the drop of a PyErr forgets it.           *)
RestoreError(t) ==
    /\ Holds(t) /\ fetched[t] # Null
    /\ SetIndicator(t, fetched[t])
    /\ fetched' = [fetched EXCEPT ![t] = Null]
    /\ UNCHANGED <<holder, depth, current, saved, made, listVars, raised>>

DropError(t) ==
    /\ fetched[t] # Null
    /\ fetched' = [fetched EXCEPT ![t] = Null]
    /\ UNCHANGED <<holder, depth, current, saved, made, listVars, curexc, raised>>

-----------------------------------------------------------------------------
(* Py_Initialize: the GIL, the interpreter and the state of the main thread. *)
ThreadInit ==
    \E ts \in States :
        /\ holder = Main
        /\ depth = [t \in Threads |-> IF t = Main THEN 1 ELSE 0]
        /\ current = [t \in Threads |-> IF t = Main THEN ts ELSE Null]
        /\ saved = [t \in Threads |-> Null]
        /\ made = [t \in Threads |-> Null]
        /\ live = {ts} /\ head = ts
        /\ prev = [s \in States |-> Null]
        /\ next = [s \in States |-> Null]
        /\ curexc = [s \in States |-> Null]
        /\ fetched = [t \in Threads |-> Null]
        /\ raised = [t \in Threads |-> 0]

ThreadNext ==
    \E t \in Threads :
        \/ Ensure(t) \/ ReleaseGil(t) \/ SaveThread(t) \/ RestoreThread(t)
        \/ AcquireThread(t) \/ New(t) \/ SwapOut(t) \/ Delete(t)
        \/ SetError(t) \/ ClearError(t) \/ FetchError(t) \/ RestoreError(t) \/ DropError(t)

ThreadSpec == ThreadInit /\ [][ThreadNext]_threadVars

-----------------------------------------------------------------------------
ThreadTypeOK ==
    /\ holder \in Threads \cup {Null}
    /\ depth \in [Threads -> 0 .. MaxDepth]
    /\ \A f \in {current, saved, made} : f \in [Threads -> States \cup {Null}]
    /\ live \subseteq States /\ head \in States \cup {Null}
    /\ \A f \in {prev, next} : f \in [States -> States \cup {Null}]
    /\ curexc \in [States -> Errors \cup {Null}]
    /\ fetched \in [Threads -> Errors \cup {Null}]
    /\ raised \in [Threads -> 0 .. MaxErrors]

(* The list holds the live states and no freed one: from the head, the     *)
(* next links pass through each once, and the prev links lead back.        *)
ListExact ==
    /\ head = Null <=> live = {}
    /\ head # Null => head \in live /\ prev[head] = Null
    /\ \A s \in live :
          /\ next[s] # Null => next[s] \in live /\ prev[next[s]] = s
          /\ s # head => prev[s] \in live /\ next[prev[s]] = s
    /\ \A S \in SUBSET live : S # {} /\ head \notin S => \E s \in S : prev[s] \notin S

(* The states a thread runs with, will take back or has made are not freed *)
(* and are no other thread's.                                              *)
StatesPrivate ==
    \A t \in Threads : \A s \in {current[t], saved[t], made[t]} \ {Null} :
        /\ s \in live
        /\ \A u \in Threads \ {t} : s \notin {current[u], saved[u], made[u]}

(* An error is in one place, an indicator or a PyErr, and only the thread  *)
(* that raised it can find it there.                                       *)
ErrorsStayHome ==
    /\ \A r, s \in live : curexc[r] # Null /\ curexc[r] = curexc[s] => r = s
    /\ \A t \in Threads : fetched[t] # Null =>
          /\ fetched[t].by = t
          /\ \A s \in live : curexc[s] # fetched[t]
    /\ \A t \in Threads : Indicator(t) # Null => Indicator(t).by = t
=============================================================================
