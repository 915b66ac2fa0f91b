--------------------------- MODULE RuntimeProofs ---------------------------
(***************************************************************************)
(* Proofs about Runtime: of thread states, and that what is proved of each *)
(* of the five parts holds where they are put side by side.  The proofs    *)
(* about imports, types and integers, and calls are in modules of their    *)
(* own.                                                                    *)
(*                                                                         *)
(* Thread states and their errors: for any number of threads, states,      *)
(* nested acquisitions and errors, the interpreter's list is the live      *)
(* states, the states threads use are alive and their own, and an error     *)
(* stays with the thread that raised it.  ListExact and StatesPrivate are   *)
(* inductive together.  ErrorsStayHome is not: it says nothing of the       *)
(* errors in states that are not current, and nothing of why a new error    *)
(* differs from the old ones.                                               *)
(*                                                                         *)
(* Runtime: each step is one of one part and leaves the others as they are *)
(* (RuntimeStep), so a behaviour of Runtime is one of each part (PartsRun).*)
(***************************************************************************)
EXTENDS Runtime, ImportProofs, TypesProofs, CallsProofs, FiniteSetTheorems, SequenceTheorems, TLAPS

-----------------------------------------------------------------------------
(* Thread states.                                                           *)
Held(t) == {current[t], saved[t], made[t]} \ {Null}

(* The errors in the states of a thread are its own.                       *)
ErrorsOwned ==
    \A t \in Threads : \A s \in Held(t) : curexc[s] # Null => curexc[s].by = t

(* A thread has raised the errors it has fetched, and no error that exists *)
(* has a number its thread has not come to.                                *)
ErrorsNumbered ==
    /\ \A s \in States : curexc[s] # Null => curexc[s].number <= raised[curexc[s].by]
    /\ \A t \in Threads : fetched[t] # Null =>
          fetched[t].by = t /\ fetched[t].number <= raised[t]

(* No error is in two places.                                              *)
ErrorsOnce ==
    /\ \A r, s \in States : curexc[r] # Null /\ curexc[r] = curexc[s] => r = s
    /\ \A t \in Threads, s \in States : fetched[t] # Null => curexc[s] # fetched[t]

ErrorInv == ErrorsOwned /\ ErrorsNumbered /\ ErrorsOnce

ThreadInv == ThreadTypeOK /\ StatesPrivate /\ ListExact /\ ErrorInv

-----------------------------------------------------------------------------
(* The invariant holds when the main thread has its state.                 *)
LEMMA ThreadInitInv == ThreadInit => ThreadInv
<1> SUFFICES ASSUME NEW ts \in States, 
                    /\ holder = Main
                    /\ depth = [t \in Threads |-> IF t = Main THEN 1 ELSE 0]
                    /\ current = [t \in Threads |-> IF t = Main THEN ts ELSE Null]
                    /\ saved = [t \in Threads |-> Null]
                    /\ made = [t \in Threads |-> Null]
                    /\ live = {ts} /\ head = ts
                    /\ prev = [s \in States |-> Null]
                    /\ next = [s \in States |-> Null]
                    /\ curexc = [s \in States |-> Null]
                    /\ fetched = [t \in Threads |-> Null]
                    /\ raised = [t \in Threads |-> 0]
             PROVE  ThreadInv
  BY DEF ThreadInit
<1> USE MainAssumption, NullAssumption, BoundAssumption
<1>1. ThreadTypeOK
  BY DEF ThreadTypeOK
<1>2. StatesPrivate
  BY DEF StatesPrivate
<1>3. ListExact
  <2>1. \A S \in SUBSET live : S # {} /\ head \notin S => \E s \in S : prev[s] \notin S
    OBVIOUS
  <2> QED BY <2>1 DEF ListExact
<1>4. ErrorInv
  BY DEF ErrorInv, ErrorsOwned, ErrorsNumbered, ErrorsOnce, Held
<1> QED BY <1>1, <1>2, <1>3, <1>4 DEF ThreadInv

-----------------------------------------------------------------------------
(* Every call leaves values of the types of their variables.               *)
LEMMA StepType ==
  ASSUME ThreadTypeOK, ThreadNext
  PROVE  ThreadTypeOK'
<1> USE NullAssumption, BoundAssumption DEF ThreadTypeOK
<1> SUFFICES ASSUME NEW t \in Threads,
                    \/ Ensure(t) \/ ReleaseGil(t) \/ SaveThread(t) \/ RestoreThread(t)
                    \/ AcquireThread(t) \/ New(t) \/ SwapOut(t) \/ Delete(t)
                    \/ SetError(t) \/ ClearError(t) \/ FetchError(t) \/ RestoreError(t) \/ DropError(t)
             PROVE  ThreadTypeOK'
  BY DEF ThreadNext
<1> USE DEF listVars, errorVars, Acquire, Release, Holds
<1>a. /\ current \in [Threads -> States \cup {Null}] /\ saved \in [Threads -> States \cup {Null}]
      /\ made \in [Threads -> States \cup {Null}]
      /\ prev \in [States -> States \cup {Null}] /\ next \in [States -> States \cup {Null}]
  OBVIOUS
<1>1. CASE Ensure(t)
  BY <1>a, <1>1 DEF Ensure, Create
<1>2. CASE ReleaseGil(t)
  BY <1>2 DEF ReleaseGil
<1>3. CASE SaveThread(t)
  BY <1>a, <1>3 DEF SaveThread
<1>4. CASE RestoreThread(t)
  BY <1>a, <1>4 DEF RestoreThread
<1>5. CASE AcquireThread(t)
  BY <1>a, <1>5 DEF AcquireThread
<1>6. CASE New(t)
  BY <1>a, <1>6 DEF New, Create
<1>7. CASE SwapOut(t)
  BY <1>a, <1>7 DEF SwapOut
<1>8. CASE Delete(t)
  BY <1>a, <1>8 DEF Delete
<1>9. CASE SetError(t)
  <2>1. [by |-> t, number |-> raised[t] + 1] \in Errors
    BY <1>9 DEF SetError, Errors
  <2> QED BY <1>a, <1>9, <2>1 DEF SetError, SetIndicator
<1>10. CASE ClearError(t)
  BY <1>a, <1>10 DEF ClearError, SetIndicator
<1>11. CASE FetchError(t)
  BY <1>a, <1>11 DEF FetchError, SetIndicator, Indicator
<1>12. CASE RestoreError(t)
  BY <1>a, <1>12 DEF RestoreError, SetIndicator
<1>13. CASE DropError(t)
  BY <1>13 DEF DropError
<1> QED BY <1>1, <1>2, <1>3, <1>4, <1>5, <1>6, <1>7, <1>8, <1>9, <1>10, <1>11, <1>12, <1>13

-----------------------------------------------------------------------------
(* A thread comes by a state by making it, when nobody has it, or has it   *)
(* already; a state is freed when no thread has it but its maker.          *)
LEMMA StepPrivate ==
  ASSUME ThreadTypeOK, StatesPrivate, ThreadNext
  PROVE  StatesPrivate'
<1> USE NullAssumption DEF listVars, errorVars
<1> SUFFICES ASSUME NEW t \in Threads,
                    \/ Ensure(t) \/ ReleaseGil(t) \/ SaveThread(t) \/ RestoreThread(t)
                    \/ AcquireThread(t) \/ New(t) \/ SwapOut(t) \/ Delete(t)
                    \/ SetError(t) \/ ClearError(t) \/ FetchError(t) \/ RestoreError(t) \/ DropError(t)
             PROVE  StatesPrivate'
  BY DEF ThreadNext
<1>a. /\ current \in [Threads -> States \cup {Null}] /\ saved \in [Threads -> States \cup {Null}]
      /\ made \in [Threads -> States \cup {Null}] /\ live \subseteq States
  BY DEF ThreadTypeOK
<1>1. CASE UNCHANGED <<current, saved, made, live>>
  BY <1>1 DEF StatesPrivate
<1>2. CASE Ensure(t)
  <2>1. CASE current[t] = Null
    <3>1. PICK ts \in States : Create(ts) /\ current' = [current EXCEPT ![t] = ts]
      BY <1>2, <2>1 DEF Ensure
    <3> QED BY <1>a, <1>2, <3>1, SMTT(30) DEF Ensure, Create, StatesPrivate
  <2>2. CASE current[t] # Null
    BY <1>1, <1>2, <2>2 DEF Ensure
  <2> QED BY <2>1, <2>2
<1>3. CASE SaveThread(t)
  BY <1>a, <1>3 DEF SaveThread, StatesPrivate
<1>4. CASE RestoreThread(t)
  BY <1>a, <1>4 DEF RestoreThread, StatesPrivate
<1>5. CASE AcquireThread(t)
  BY <1>a, <1>5 DEF AcquireThread, StatesPrivate
<1>6. CASE New(t)
  <2>1. PICK ts \in States : Create(ts) /\ made' = [made EXCEPT ![t] = ts]
    BY <1>6 DEF New
  <2> QED BY <1>a, <1>6, <2>1 DEF New, Create, StatesPrivate
<1>7. CASE SwapOut(t)
  BY <1>a, <1>7 DEF SwapOut, StatesPrivate
<1>8. CASE Delete(t)
  BY <1>a, <1>8 DEF Delete, StatesPrivate
<1>9. CASE ReleaseGil(t) \/ SetError(t) \/ ClearError(t) \/ FetchError(t) \/ RestoreError(t) \/ DropError(t)
  BY <1>1, <1>9 DEF ReleaseGil, SetError, ClearError, FetchError, RestoreError, DropError
<1> QED BY <1>2, <1>3, <1>4, <1>5, <1>6, <1>7, <1>8, <1>9

-----------------------------------------------------------------------------
(* Making a state puts it in front of the list.                            *)
LEMMA CreateList ==
  ASSUME ThreadTypeOK, ListExact, NEW ts \in States, Create(ts)
  PROVE  ListExact'
<1> USE NullAssumption DEF Create
<1>a. /\ live \subseteq States /\ head \in States \cup {Null}
      /\ prev \in [States -> States \cup {Null}] /\ next \in [States -> States \cup {Null}]
  BY DEF ThreadTypeOK
<1>1. \A s \in live : s # head => prev[s] # Null /\ prev'[s] = prev[s]
  BY <1>a DEF ListExact
<1>2. /\ head' = ts /\ ts \in live' /\ prev'[ts] = Null /\ next'[ts] = head
      /\ \A s \in live : next'[s] = next[s]
      /\ head # Null => head \in live /\ prev'[head] = ts
  BY <1>a DEF ListExact
<1>3. ASSUME NEW s \in live'
      PROVE  /\ next'[s] # Null => next'[s] \in live' /\ prev'[next'[s]] = s
             /\ s # head' => prev'[s] \in live' /\ next'[prev'[s]] = s
  <2>1. CASE s = ts
    BY <1>2, <2>1
  <2>2. CASE s # ts
    <3>1. s \in live
      BY <2>2
    <3>2. next[s] # Null => next[s] \in live /\ prev[next[s]] = s /\ next[s] # head
      BY <3>1, <1>a DEF ListExact
    <3>3. s # head => prev[s] \in live /\ next[prev[s]] = s
      BY <3>1 DEF ListExact
    <3>4. CASE s = head
      <4>1. next[s] # Null => next'[s] \in live' /\ prev'[next'[s]] = s
        BY <1>1, <1>2, <3>1, <3>2
      <4>2. head # Null
        BY <1>a, <3>1, <3>4
      <4>3. prev'[s] = ts /\ next'[ts] = s
        BY <1>2, <3>4, <4>2
      <4> QED BY <1>2, <3>1, <4>1, <4>3
    <3>5. CASE s # head
      BY <1>1, <1>2, <3>1, <3>2, <3>3, <3>5
    <3> QED BY <3>4, <3>5
  <2> QED BY <2>1, <2>2
<1>4. ASSUME NEW S \in SUBSET live', S # {}, head' \notin S
      PROVE  \E s \in S : prev'[s] \notin S
  <2>1. S \subseteq live
    BY <1>2, <1>4
  <2>2. CASE head \in S
    BY <1>2, <1>4, <2>2, <2>1, <1>a
  <2>3. CASE head \notin S
    <3>1. PICK s \in S : prev[s] \notin S
      BY <1>4, <2>1, <2>3 DEF ListExact
    <3> QED BY <1>1, <2>1, <2>3, <3>1
  <2> QED BY <2>2, <2>3
<1>5. /\ head' # Null /\ live' # {}
      /\ head' \in live' /\ prev'[head'] = Null
  BY <1>2
<1> HIDE DEF Create
<1> QED BY <1>3, <1>4, <1>5 DEF ListExact

(* Deleting a state joins its neighbours.                                  *)
LEMMA DeleteList ==
  ASSUME ThreadTypeOK, StatesPrivate, ListExact, NEW t \in Threads, Delete(t)
  PROVE  ListExact'
<1> DEFINE ts == made[t]
           p  == prev[ts]
           n  == next[ts]
<1> USE NullAssumption
<1>a. /\ live \subseteq States /\ head \in States \cup {Null}
      /\ prev \in [States -> States \cup {Null}] /\ next \in [States -> States \cup {Null}]
  BY DEF ThreadTypeOK
<1>b. /\ ts \in live /\ live' = live \ {ts}
      /\ \A s \in States : next'[s] = IF s = p THEN n ELSE next[s]
      /\ \A s \in States : prev'[s] = IF s = n THEN p ELSE prev[s]
      /\ head' = IF head = ts THEN n ELSE head
  BY DEF Delete, StatesPrivate
<1>c. /\ n # Null => n \in live /\ prev[n] = ts /\ n # head
      /\ ts # head => p \in live /\ next[p] = ts
      /\ ts = head => p = Null
  BY <1>a, <1>b DEF ListExact
<1>d. \A s \in live :
         /\ next[s] # Null => next[s] \in live /\ prev[next[s]] = s
         /\ s # head => prev[s] \in live /\ next[prev[s]] = s
  BY DEF ListExact
<1>e. \A S \in SUBSET live : S # {} /\ head \notin S => \E s \in S : prev[s] \notin S
  BY DEF ListExact
<1> HIDE DEF ts, p, n
<1>1. p # ts /\ n # ts
  <2>1. CASE ts = head
    BY <1>a, <1>b, <1>c, <2>1
  <2>2. CASE ts # head
    <3>1. \E s \in {ts} : prev[s] \notin {ts}
      BY <1>b, <1>e, <2>2
    <3>2. p # ts
      BY <3>1 DEF p
    <3>3. n = ts => p = ts
      BY <1>a, <1>b, <1>c DEF p
    <3> QED BY <3>2, <3>3
  <2> QED BY <2>1, <2>2
<1>2. /\ head' = Null <=> live' = {}
      /\ head' # Null => head' \in live' /\ prev'[head'] = Null
  <2>1. CASE ts = head
    <3>1. live \ {ts} # {} => n # Null
      <4>1. ASSUME live \ {ts} # {} PROVE \E s \in live \ {ts} : prev[s] = ts
        <5>1. PICK s \in live \ {ts} : prev[s] \notin live \ {ts}
          BY <1>e, <2>1, <4>1
        <5>2. prev[s] \in live
          BY <1>d, <2>1, <5>1
        <5> QED BY <5>1, <5>2
      <4>2. ASSUME NEW s \in live, s # ts, prev[s] = ts PROVE n = s
        BY <1>d, <2>1, <4>2 DEF n
      <4> QED BY <1>a, <4>1, <4>2
    <3> QED BY <1>a, <1>b, <1>c, <1>1, <2>1, <3>1
  <2>2. CASE ts # head
    <3>1. head # Null /\ head \in live /\ prev[head] = Null
      BY <1>b DEF ListExact
    <3> QED BY <1>a, <1>b, <1>c, <2>2, <3>1
  <2> QED BY <2>1, <2>2
<1>3. ASSUME NEW s \in live'
      PROVE  /\ next'[s] # Null => next'[s] \in live' /\ prev'[next'[s]] = s
             /\ s # head' => prev'[s] \in live' /\ next'[prev'[s]] = s
  <2>1. s \in live /\ s # ts /\ s \in States
    BY <1>a, <1>b
  <2>2. next'[s] # Null => next'[s] \in live' /\ prev'[next'[s]] = s
    <3>1. CASE s = p
      BY <1>a, <1>b, <1>c, <1>1, <3>1
    <3>2. CASE s # p
      <4>1. next[s] # ts
        <5>1. ASSUME next[s] = ts PROVE prev[ts] = s
          BY <1>a, <1>b, <1>d, <2>1, <5>1
        <5> QED BY <3>2, <5>1 DEF p
      <4>2. next[s] # Null => next[s] # n
        <5>1. ASSUME next[s] # Null, next[s] = n PROVE prev[n] = s /\ prev[n] = ts
          BY <1>c, <1>d, <2>1, <5>1
        <5> QED BY <2>1, <5>1
      <4> QED BY <1>a, <1>b, <1>d, <2>1, <3>2, <4>1, <4>2
    <3> QED BY <3>1, <3>2
  <2>3. s # head' => prev'[s] \in live' /\ next'[prev'[s]] = s
    <3>1. CASE s = n
      BY <1>a, <1>b, <1>c, <1>1, <2>1, <3>1
    <3>2. CASE s # n
      <4>1. s # head' => s # head
        BY <1>b, <2>1
      <4>2. s # head => prev[s] # ts
        <5>1. ASSUME s # head, prev[s] = ts PROVE next[ts] = s
          BY <1>d, <2>1, <5>1
        <5> QED BY <3>2, <5>1 DEF n
      <4>3. s # head => prev[s] # p
        <5>1. ASSUME s # head, prev[s] = p PROVE FALSE
          <6>1. prev[s] \in live /\ next[p] = s
            BY <1>d, <2>1, <5>1
          <6> QED BY <1>a, <1>c, <2>1, <5>1, <6>1
        <5> QED BY <5>1
      <4> QED BY <1>a, <1>b, <1>d, <2>1, <3>2, <4>1, <4>2, <4>3
    <3> QED BY <3>1, <3>2
  <2> QED BY <2>2, <2>3
<1>4. ASSUME NEW S \in SUBSET live', S # {}, head' \notin S
      PROVE  \E s \in S : prev'[s] \notin S
  <2>1. S \subseteq live /\ ts \notin S /\ S \subseteq States
    BY <1>a, <1>b
  <2>2. CASE ts = head
    <3>1. PICK s \in S : prev[s] \notin S
      BY <1>e, <1>4, <2>1, <2>2
    <3> QED BY <1>b, <1>4, <2>1, <2>2, <3>1
  <2>3. CASE ts # head /\ p \in S
    <3>1. PICK s \in S \cup {ts} : prev[s] \notin S \cup {ts}
      BY <1>b, <1>e, <1>4, <2>1, <2>3
    <3>2. s # ts /\ s # n
      BY <1>c, <1>a, <2>1, <2>3, <3>1 DEF p
    <3> QED BY <1>b, <2>1, <3>1, <3>2
  <2>4. CASE ts # head /\ p \notin S
    <3>1. PICK s \in S : prev[s] \notin S
      BY <1>b, <1>e, <1>4, <2>1, <2>4
    <3> QED BY <1>b, <2>1, <2>4, <3>1
  <2> QED BY <2>2, <2>3, <2>4
<1> QED BY <1>2, <1>3, <1>4 DEF ListExact

LEMMA StepList ==
  ASSUME ThreadTypeOK, StatesPrivate, ListExact, ThreadNext
  PROVE  ListExact'
<1> USE DEF listVars, errorVars
<1> SUFFICES ASSUME NEW t \in Threads,
                    \/ Ensure(t) \/ ReleaseGil(t) \/ SaveThread(t) \/ RestoreThread(t)
                    \/ AcquireThread(t) \/ New(t) \/ SwapOut(t) \/ Delete(t)
                    \/ SetError(t) \/ ClearError(t) \/ FetchError(t) \/ RestoreError(t) \/ DropError(t)
             PROVE  ListExact'
  BY DEF ThreadNext
<1>1. CASE UNCHANGED listVars
  BY <1>1 DEF ListExact
<1>2. CASE Ensure(t)
  BY <1>1, <1>2, CreateList DEF Ensure
<1>3. CASE New(t)
  BY <1>3, CreateList DEF New
<1>4. CASE Delete(t)
  BY <1>4, DeleteList
<1>5. CASE \/ ReleaseGil(t) \/ SaveThread(t) \/ RestoreThread(t) \/ AcquireThread(t) \/ SwapOut(t)
           \/ SetError(t) \/ ClearError(t) \/ FetchError(t) \/ RestoreError(t) \/ DropError(t)
  BY <1>1, <1>5 DEF ReleaseGil, SaveThread, RestoreThread, AcquireThread, SwapOut,
                    SetError, ClearError, FetchError, RestoreError, DropError
<1> QED BY <1>2, <1>3, <1>4, <1>5

-----------------------------------------------------------------------------
LEMMA ErrorFields ==
  ASSUME NEW e \in Errors
  PROVE  e.by \in Threads /\ e.number \in Nat
BY BoundAssumption DEF Errors

(* Calls that leave the indicators alone, and give no thread a state.      *)
LEMMA SameErrors ==
  ASSUME ErrorInv, UNCHANGED errorVars, \A u \in Threads : Held(u)' \subseteq Held(u)
  PROVE  ErrorInv'
BY DEF ErrorInv, ErrorsOwned, ErrorsNumbered, ErrorsOnce, errorVars

(* Calls that give a thread a new state, which has no error.               *)
LEMMA NewErrors ==
  ASSUME ThreadTypeOK, ErrorInv, NEW t \in Threads, NEW ts \in States,
         curexc' = [curexc EXCEPT ![ts] = Null], UNCHANGED <<fetched, raised>>,
         \A u \in Threads : Held(u)' \subseteq Held(u) \cup {ts}
  PROVE  ErrorInv'
<1> USE NullAssumption
<1>1. /\ curexc'[ts] = Null
      /\ \A s \in States : s # ts => curexc'[s] = curexc[s]
  BY DEF ThreadTypeOK
<1>2. ErrorsOwned'
  <2> SUFFICES ASSUME NEW u \in Threads, NEW s \in Held(u)', curexc'[s] # Null
               PROVE  curexc'[s].by = u
    BY DEF ErrorsOwned
  <2>1. s \in Held(u) /\ s # ts
    BY <1>1
  <2>2. curexc' [s] = curexc[s]
    BY <2>1 DEF ThreadTypeOK, Held
  <2> QED BY <2>1, <2>2 DEF ErrorInv, ErrorsOwned
<1>3. ErrorsNumbered'
  BY <1>1 DEF ErrorInv, ErrorsNumbered
<1>4. ErrorsOnce'
  BY <1>1 DEF ErrorInv, ErrorsOnce
<1> QED BY <1>2, <1>3, <1>4 DEF ErrorInv

(* A thread puts an error of its own, which is nowhere else afterwards,    *)
(* into its indicator.                                                     *)
LEMMA SetOwnError ==
  ASSUME ThreadTypeOK, StatesPrivate, ErrorInv, NEW t \in Threads,
         NEW e \in Errors \cup {Null}, SetIndicator(t, e), UNCHANGED <<current, saved, made>>,
         raised' \in [Threads -> Nat],
         \A u \in Threads : raised[u] <= raised'[u],
         e # Null => e.by = t /\ e.number <= raised'[t],
         e # Null => \A s \in States : curexc[s] # e,
         \A u \in Threads : fetched'[u] # Null =>
             /\ fetched'[u] # e
             /\ fetched'[u].by = u /\ fetched'[u].number <= raised'[u]
             /\ \A s \in States : s # current[t] => curexc[s] # fetched'[u],
         \A u \in Threads : current[t] = Null /\ fetched'[u] # Null =>
             \A s \in States : curexc[s] # fetched'[u]
  PROVE  ErrorInv'
<1> USE NullAssumption
<1>a. /\ current \in [Threads -> States \cup {Null}] /\ curexc \in [States -> Errors \cup {Null}]
      /\ saved \in [Threads -> States \cup {Null}] /\ made \in [Threads -> States \cup {Null}]
      /\ raised \in [Threads -> 0 .. MaxErrors]
  BY DEF ThreadTypeOK
<1>1. CASE current[t] = Null
  <2>1. curexc' = curexc
    BY <1>1 DEF SetIndicator
  <2>2. ErrorsOwned'
    BY <2>1 DEF ErrorInv, ErrorsOwned, Held
  <2>3. ErrorsNumbered'
    <3>1. ASSUME NEW s \in States, curexc[s] # Null PROVE curexc[s].number <= raised'[curexc[s].by]
      <4>1. curexc[s] \in Errors
        BY <1>a, <3>1
      <4>2. curexc[s].by \in Threads /\ curexc[s].number \in Nat
        BY <4>1, ErrorFields
      <4>3. curexc[s].number <= raised[curexc[s].by]
        BY <3>1 DEF ErrorInv, ErrorsNumbered
      <4> QED BY <1>a, <4>2, <4>3
    <3> QED BY <2>1, <3>1 DEF ErrorsNumbered
  <2>4. ErrorsOnce'
    BY <1>1, <2>1 DEF ErrorInv, ErrorsOnce
  <2> QED BY <2>2, <2>3, <2>4 DEF ErrorInv
<1>2. CASE current[t] # Null
  <2> DEFINE c == current[t]
  <2>1. /\ c \in States /\ curexc'[c] = e
        /\ \A s \in States : s # c => curexc'[s] = curexc[s]
    BY <1>a, <1>2 DEF SetIndicator
  <2>2. ASSUME NEW u \in Threads, NEW s \in Held(u), curexc'[s] # Null
        PROVE  curexc'[s].by = u
    <3>1. s \in States
      BY <1>a DEF Held
    <3>2. CASE s = c
      <4>1. u = t
        BY <3>2, <1>2 DEF Held, StatesPrivate
      <4> QED BY <2>1, <2>2, <3>2, <4>1
    <3>3. CASE s # c
      BY <2>1, <2>2, <3>1, <3>3 DEF ErrorInv, ErrorsOwned
    <3> QED BY <3>2, <3>3
  <2>3. ErrorsOwned'
    BY <2>2 DEF ErrorsOwned, Held
  <2>4. ASSUME NEW s \in States, curexc'[s] # Null
        PROVE  curexc'[s].number <= raised'[curexc'[s].by]
    <3>1. CASE s = c
      BY <2>1, <2>4, <3>1
    <3>2. CASE s # c
      <4>1. /\ curexc[s] \in Errors /\ curexc[s].by \in Threads /\ curexc[s].number \in Nat
            /\ curexc[s].number <= raised[curexc[s].by] /\ curexc'[s] = curexc[s]
        BY <1>a, <2>1, <2>4, <3>2 DEF Errors, ErrorInv, ErrorsNumbered
      <4> QED BY <1>a, <4>1
    <3> QED BY <3>1, <3>2
  <2>5. ErrorsNumbered'
    BY <2>4 DEF ErrorsNumbered
  <2>6. ErrorsOnce'
    <3>1. \A r, s \in States : curexc'[r] # Null /\ curexc'[r] = curexc'[s] => r = s
      BY <2>1 DEF ErrorInv, ErrorsOnce
    <3>2. \A u \in Threads, s \in States : fetched'[u] # Null => curexc'[s] # fetched'[u]
      BY <2>1
    <3> QED BY <3>1, <3>2 DEF ErrorsOnce
  <2> QED BY <2>3, <2>5, <2>6 DEF ErrorInv
<1> QED BY <1>1, <1>2

(* No step carries an error to another thread or doubles it.               *)
LEMMA StepErrors ==
  ASSUME ThreadTypeOK, StatesPrivate, ErrorInv, ThreadNext
  PROVE  ErrorInv'
<1> USE NullAssumption, BoundAssumption DEF listVars, errorVars
<1> SUFFICES ASSUME NEW t \in Threads,
                    \/ Ensure(t) \/ ReleaseGil(t) \/ SaveThread(t) \/ RestoreThread(t)
                    \/ AcquireThread(t) \/ New(t) \/ SwapOut(t) \/ Delete(t)
                    \/ SetError(t) \/ ClearError(t) \/ FetchError(t) \/ RestoreError(t) \/ DropError(t)
             PROVE  ErrorInv'
  BY DEF ThreadNext
<1>a. /\ current \in [Threads -> States \cup {Null}] /\ curexc \in [States -> Errors \cup {Null}]
      /\ saved \in [Threads -> States \cup {Null}] /\ made \in [Threads -> States \cup {Null}]
      /\ fetched \in [Threads -> Errors \cup {Null}] /\ raised \in [Threads -> 0 .. MaxErrors]
  BY DEF ThreadTypeOK
<1>b. raised \in [Threads -> Nat]
  BY <1>a
<1>c. \A u \in Threads : raised[u] <= raised[u]
  BY <1>b
<1>d. \A u \in Threads : fetched[u] # Null =>
         /\ fetched[u].by = u /\ fetched[u].number <= raised[u]
         /\ \A s \in States : curexc[s] # fetched[u]
  BY DEF ErrorInv, ErrorsNumbered, ErrorsOnce
<1>e. Indicator(t) # Null =>
         /\ current[t] \in States /\ Indicator(t) = curexc[current[t]]
         /\ Indicator(t) \in Errors /\ Indicator(t).by = t
         /\ Indicator(t).number <= raised[t]
  <2> SUFFICES ASSUME Indicator(t) # Null
               PROVE  /\ current[t] \in States /\ Indicator(t) = curexc[current[t]]
                      /\ Indicator(t) \in Errors /\ Indicator(t).by = t
                      /\ Indicator(t).number <= raised[t]
    OBVIOUS
  <2>1. current[t] \in States /\ Indicator(t) = curexc[current[t]]
    BY <1>a DEF Indicator
  <2>2. curexc[current[t]] \in Errors /\ curexc[current[t]].by = t
    BY <1>a, <2>1 DEF ErrorInv, ErrorsOwned, Held
  <2> QED BY <2>1, <2>2 DEF ErrorInv, ErrorsNumbered
<1>1. CASE Ensure(t)
  <2>1. CASE current[t] = Null
    <3>1. PICK ts \in States : Create(ts) /\ current' = [current EXCEPT ![t] = ts]
      BY <1>1, <2>1 DEF Ensure
    <3>2. \A u \in Threads : Held(u)' \subseteq Held(u) \cup {ts}
      BY <1>a, <1>1, <3>1 DEF Ensure, Held
    <3>3. curexc' = [curexc EXCEPT ![ts] = Null] /\ UNCHANGED <<fetched, raised>>
      BY <1>1, <3>1 DEF Ensure, Create
    <3> QED BY <3>2, <3>3, NewErrors
  <2>2. CASE current[t] # Null
    <3>1. UNCHANGED errorVars /\ \A u \in Threads : Held(u)' \subseteq Held(u)
      BY <1>1, <2>2 DEF Ensure, Held
    <3> QED BY <3>1, SameErrors
  <2> QED BY <2>1, <2>2
<1>2. CASE New(t)
  <2>1. PICK ts \in States : Create(ts) /\ made' = [made EXCEPT ![t] = ts]
    BY <1>2 DEF New
  <2>2. \A u \in Threads : Held(u)' \subseteq Held(u) \cup {ts}
    BY <1>a, <1>2, <2>1 DEF New, Held
  <2>3. curexc' = [curexc EXCEPT ![ts] = Null] /\ UNCHANGED <<fetched, raised>>
    BY <1>2, <2>1 DEF New, Create
  <2> QED BY <2>2, <2>3, NewErrors
<1>3. CASE Delete(t)
  <2>1. made[t] \in States /\ curexc' = [curexc EXCEPT ![made[t]] = Null] /\ UNCHANGED <<fetched, raised>>
    BY <1>a, <1>3 DEF Delete
  <2>2. \A u \in Threads : Held(u)' \subseteq Held(u) \cup {made[t]}
    BY <1>a, <1>3 DEF Delete, Held
  <2> QED BY <2>1, <2>2, NewErrors
<1>4. CASE ReleaseGil(t) \/ SaveThread(t) \/ RestoreThread(t) \/ AcquireThread(t) \/ SwapOut(t)
  <2>1. UNCHANGED errorVars
    BY <1>4 DEF ReleaseGil, SaveThread, RestoreThread, AcquireThread, SwapOut
  <2>2. \A u \in Threads : Held(u)' \subseteq Held(u)
    BY <1>a, <1>4 DEF ReleaseGil, SaveThread, RestoreThread, AcquireThread, SwapOut, Held
  <2> QED BY <2>1, <2>2, SameErrors
<1>5. CASE SetError(t)
  <2> DEFINE e == [by |-> t, number |-> raised[t] + 1]
  <2>1. /\ SetIndicator(t, e) /\ UNCHANGED <<current, saved, made>>
        /\ raised' = [raised EXCEPT ![t] = @ + 1] /\ fetched' = fetched /\ raised[t] < MaxErrors
    BY <1>5 DEF SetError
  <2>2. e \in Errors /\ e.by = t /\ e.number <= raised'[t]
    BY <1>a, <2>1 DEF Errors
  <2>3. \A s \in States : curexc[s] # e
    <3>1. ASSUME NEW s \in States, curexc[s] = e PROVE FALSE
      <4>1. curexc[s] # Null
        BY <2>2, <3>1
      <4>2. curexc[s].number <= raised[curexc[s].by]
        BY <4>1 DEF ErrorInv, ErrorsNumbered
      <4>3. raised[t] + 1 <= raised[t]
        BY <3>1, <4>2
      <4> QED BY <1>b, <4>3
    <3> QED BY <3>1
  <2>4. raised' \in [Threads -> Nat] /\ \A u \in Threads : raised[u] <= raised'[u]
    BY <1>b, <2>1
  <2>5. ASSUME NEW u \in Threads, fetched'[u] # Null
        PROVE  /\ fetched'[u] # e
               /\ fetched'[u].by = u /\ fetched'[u].number <= raised'[u]
               /\ \A s \in States : curexc[s] # fetched'[u]
    <3>1. /\ fetched[u].by = u /\ fetched[u].number <= raised[u]
          /\ \A s \in States : curexc[s] # fetched[u]
      BY <1>d, <2>1, <2>5
    <3>2. fetched[u].number \in Nat
      BY <1>a, <2>1, <2>5 DEF Errors
    <3>3. fetched[u] # e
      BY <1>b, <3>1, <3>2
    <3>4. fetched[u].number <= raised'[u]
      BY <1>b, <2>4, <3>1, <3>2
    <3> QED BY <2>1, <3>1, <3>3, <3>4
  <2> HIDE DEF e
  <2> QED BY <2>1, <2>2, <2>3, <2>4, <2>5, SetOwnError
<1>6. CASE ClearError(t)
  <2>1. SetIndicator(t, Null) /\ UNCHANGED <<current, saved, made, fetched, raised>>
    BY <1>6 DEF ClearError
  <2> QED BY <1>b, <1>c, <1>d, <2>1, SetOwnError
<1>7. CASE FetchError(t)
  <2>1. /\ SetIndicator(t, Null) /\ UNCHANGED <<current, saved, made, raised>>
        /\ fetched' = [fetched EXCEPT ![t] = Indicator(t)]
    BY <1>7 DEF FetchError
  <2>2. ASSUME NEW u \in Threads, fetched'[u] # Null
        PROVE  /\ fetched'[u].by = u /\ fetched'[u].number <= raised'[u]
               /\ \A s \in States : s # current[t] => curexc[s] # fetched'[u]
               /\ current[t] = Null => \A s \in States : curexc[s] # fetched'[u]
    <3>1. CASE u = t
      <4>1. fetched'[u] = Indicator(t)
        BY <1>a, <2>1, <3>1
      <4>2. \A s \in States : s # current[t] => curexc[s] # Indicator(t)
        BY <1>e, <2>2, <4>1 DEF ErrorInv, ErrorsOnce
      <4> QED BY <1>e, <2>1, <2>2, <3>1, <4>1, <4>2
    <3>2. CASE u # t
      BY <1>a, <1>d, <2>1, <2>2, <3>2
    <3> QED BY <3>1, <3>2
  <2> QED BY <1>b, <1>c, <2>1, <2>2, SetOwnError
<1>8. CASE RestoreError(t)
  <2>1. /\ SetIndicator(t, fetched[t]) /\ UNCHANGED <<current, saved, made, raised>>
        /\ fetched' = [fetched EXCEPT ![t] = Null] /\ fetched[t] # Null
    BY <1>8 DEF RestoreError
  <2>2. ASSUME NEW u \in Threads, fetched'[u] # Null
        PROVE  u # t /\ fetched'[u] = fetched[u]
    BY <1>a, <2>1, <2>2
  <2>3. ASSUME NEW u \in Threads, fetched'[u] # Null
        PROVE  /\ fetched'[u] # fetched[t]
               /\ fetched'[u].by = u /\ fetched'[u].number <= raised'[u]
               /\ \A s \in States : curexc[s] # fetched'[u]
    BY <1>d, <2>1, <2>2, <2>3
  <2>4. /\ fetched[t] \in Errors /\ fetched[t].by = t /\ fetched[t].number <= raised'[t]
        /\ \A s \in States : curexc[s] # fetched[t]
    BY <1>a, <1>d, <2>1
  <2> QED BY <1>b, <1>c, <2>1, <2>3, <2>4, SetOwnError
<1>9. CASE DropError(t)
  <2>1. UNCHANGED <<current, saved, made, curexc, raised>> /\ fetched' = [fetched EXCEPT ![t] = Null]
    BY <1>9 DEF DropError
  <2>2. \A u \in Threads : fetched'[u] # Null => fetched'[u] = fetched[u]
    BY <1>a, <2>1
  <2> QED BY <2>1, <2>2 DEF ErrorInv, ErrorsOwned, ErrorsNumbered, ErrorsOnce, Held
<1> QED BY <1>1, <1>2, <1>3, <1>4, <1>5, <1>6, <1>7, <1>8, <1>9

-----------------------------------------------------------------------------
LEMMA ThreadNextInv == ThreadInv /\ [ThreadNext]_threadVars => ThreadInv'
<1> SUFFICES ASSUME ThreadInv, [ThreadNext]_threadVars PROVE ThreadInv'
  OBVIOUS
<1>1. CASE ThreadNext
  BY <1>1, StepType, StepPrivate, StepList, StepErrors DEF ThreadInv
<1>2. CASE UNCHANGED threadVars
  BY <1>2 DEF ThreadInv, threadVars, ThreadTypeOK, StatesPrivate, ListExact, ErrorInv,
              ErrorsOwned, ErrorsNumbered, ErrorsOnce, Held
<1> QED BY <1>1, <1>2

LEMMA InvAlways == ThreadSpec => []ThreadInv
BY ThreadInitInv, ThreadNextInv, PTL DEF ThreadSpec

(* The invariant gives what the indicator shows each thread.               *)
LEMMA InvErrors == ThreadInv => ErrorsStayHome
<1> SUFFICES ASSUME ThreadInv PROVE ErrorsStayHome
  OBVIOUS
<1> USE NullAssumption DEF ThreadInv, ThreadTypeOK, ErrorInv
<1>1. \A r, s \in live : curexc[r] # Null /\ curexc[r] = curexc[s] => r = s
  BY DEF ErrorsOnce
<1>2. \A t \in Threads : fetched[t] # Null =>
         fetched[t].by = t /\ \A s \in live : curexc[s] # fetched[t]
  BY DEF ErrorsNumbered, ErrorsOnce
<1>3. \A t \in Threads : Indicator(t) # Null => Indicator(t).by = t
  BY DEF Indicator, ErrorsOwned, Held
<1> QED BY <1>1, <1>2, <1>3 DEF ErrorsStayHome

(* The variables keep their types.                                         *)
THEOREM ThreadsTyped == ThreadSpec => []ThreadTypeOK
BY InvAlways, PTL DEF ThreadInv

(* PyThreadState_Delete frees no state that a thread runs with or will     *)
(* take back, and two threads never have one state: CURRENT_TSTATE never   *)
(* dangles.                                                                *)
THEOREM ThreadsKeepTheirStates == ThreadSpec => []StatesPrivate
BY InvAlways, PTL DEF ThreadInv

(* The interpreter's doubly linked list is the live states, whatever the   *)
(* order in which threads make and delete them.                            *)
THEOREM ListStaysExact == ThreadSpec => []ListExact
BY InvAlways, PTL DEF ThreadInv

(* An error is in one place, and shows up in the thread that raised it and *)
(* in no other, through releases of the GIL, fetches and restores.         *)
THEOREM ErrorsShowAtHome == ThreadSpec => []ErrorsStayHome
BY InvAlways, InvErrors, PTL

-----------------------------------------------------------------------------
(* The parts together: a step of Runtime is one of one part, and leaves    *)
(* the others as they are, so what is proved of a part alone holds of it   *)
(* in Runtime.                                                             *)
LEMMA RuntimeStep ==
  ASSUME [Next]_vars
  PROVE  /\ [ThreadNext]_threadVars /\ [ImportNext]_importVars /\ [TypeNext]_typeVars
         /\ [IntNext]_intVars /\ [CallNext]_callVars
  <1>1. CASE ThreadStep
    BY <1>1, Zenon DEF ThreadStep
  <1>2. CASE ImportStep
    BY <1>2, Zenon DEF ImportStep
  <1>3. CASE TypeStep
    BY <1>3, Zenon DEF TypeStep
  <1>4. CASE IntStep
    BY <1>4, Zenon DEF IntStep
  <1>5. CASE CallStep
    BY <1>5, Zenon DEF CallStep
  <1>6. CASE UNCHANGED vars
    BY <1>6, Zenon DEF vars
  <1> QED BY <1>1, <1>2, <1>3, <1>4, <1>5, <1>6, Zenon DEF Next

(* Every behaviour of Runtime is one of each of its parts, but for the     *)
(* fairness of imports.                                                    *)
THEOREM PartsRun ==
  Spec => ThreadSpec /\ (ImportInit /\ [][ImportNext]_importVars) /\ TypeSpec /\ IntSpec /\ CallSpec
  <1>1. Init => ThreadInit /\ ImportInit /\ TypeInit /\ IntInit /\ CallInit
    BY Zenon DEF Init
  <1>2. [Next]_vars => [ThreadNext]_threadVars
    BY RuntimeStep
  <1>3. [Next]_vars => [ImportNext]_importVars
    BY RuntimeStep
  <1>4. [Next]_vars => [TypeNext]_typeVars
    BY RuntimeStep
  <1>5. [Next]_vars => [IntNext]_intVars
    BY RuntimeStep
  <1>6. [Next]_vars => [CallNext]_callVars
    BY RuntimeStep
  <1> QED BY <1>1, <1>2, <1>3, <1>4, <1>5, <1>6, PTL
      DEF Spec, ThreadSpec, TypeSpec, IntSpec, CallSpec

(* The variables of the part that runs keep their types, whichever it is.  *)
THEOREM RuntimeTyped == Spec => []TypeOK
  <1>1. ThreadTypeOK /\ ImportTypeOK /\ TypesTypeOK /\ IntsTypeOK /\ CallsTypeOK => TypeOK
    BY Zenon DEF TypeOK
  <1>2. ImportInv => ImportTypeOK
    BY ImportInvTyped
  <1> QED BY <1>1, <1>2, PartsRun, ImportAlways, ThreadsTyped, TypesTyped, IntsTyped, CallsTyped, PTL

(* What is proved of the parts, of Runtime: states, lists and errors of    *)
(* threads; references to modules, the promise of sys.modules and what     *)
(* imports bind; slots, look-ups and layouts of types; integers;           *)
(* arguments, names and the depth of calls.                                *)
THEOREM RuntimeSafe ==
  Spec => /\ [](ListExact /\ StatesPrivate /\ ErrorsStayHome)
          /\ []ModuleRefsExact /\ ImplementsModuleTable /\ []ImportsBind
          /\ [](SlotsInherited /\ LookupsAgree /\ LayoutsNest)
          /\ []IntegersExact
          /\ []CallsAsPython
  <1>1. ImportInv => ModuleRefsExact
    BY DEF ImportInv
  <1> QED BY <1>1, PartsRun, ImportAlways, ImportRefines, BindAlways, ThreadsKeepTheirStates, ListStaysExact,
             ErrorsShowAtHome, SlotsComeFromBases, LookupsFindTheSame, LayoutsStayNested,
             IntegersStayExact, CallsKeepToPython, PTL
=============================================================================
