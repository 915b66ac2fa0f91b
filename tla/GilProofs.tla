------------------------------ MODULE GilProofs ------------------------------
(***************************************************************************)
(* Proofs about Gil, for any set of threads and objects and any depth of   *)
(* nesting: the lock excludes, no decrement is lost or applied twice, and  *)
(* the lock with its queue implements GilContract.                         *)
(***************************************************************************)
EXTENDS Gil, SequenceTheorems, FiniteSetTheorems, TLAPS

USE ThreadsAssumption, BoundsAssumption, ReentersAssumption

(* What Push and Pop do to the stack of regions of a thread.               *)
LEMMA FrontType ==
  ASSUME NEW S, NEW s \in Seq(S), s # <<>>
  PROVE  /\ Front(s) \in Seq(S)
         /\ Len(s) > 0
         /\ Len(Front(s)) = Len(s) - 1
         /\ \A i \in 1..(Len(s) - 1) : Front(s)[i] = s[i]
         /\ Last(s) \in S
  <1>1. Len(s) \in Nat /\ Len(s) # 0 /\ \A i \in 1..Len(s) : s[i] \in S
    BY EmptySeq
  <1>2. \A i \in 1..(Len(s) - 1) : s[i] \in S
    BY <1>1
  <1>3. /\ Front(s) \in Seq(S)
        /\ Len(Front(s)) = IF 1 <= Len(s) - 1 THEN Len(s) - 1 - 1 + 1 ELSE 0
        /\ \A i \in 1..(Len(s) - 1 - 1 + 1) : Front(s)[i] = s[1 + i - 1]
    BY <1>1, <1>2, SubSeqProperties DEF Front
  <1>4. ASSUME NEW n \in Nat, n # 0, NEW m, m = IF 1 <= n - 1 THEN n - 1 - 1 + 1 ELSE 0
        PROVE  m = n - 1
    BY <1>4
  <1>5. Len(Front(s)) = Len(s) - 1
    BY <1>1, <1>3, <1>4, Zenon
  <1>6. \A i \in 1..(Len(s) - 1) : Front(s)[i] = s[i]
    <2> TAKE i \in 1..(Len(s) - 1)
    <2>1. i \in 1..(Len(s) - 1 - 1 + 1) /\ 1 + i - 1 = i
      BY <1>1
    <2> QED
      BY <2>1, <1>3, Zenon
  <1>7. Last(s) \in S
    BY <1>1 DEF Last
  <1> QED
    BY <1>1, <1>3, <1>5, <1>6, <1>7

(* Opening a region keeps the depth equal to what the regions add up to.   *)
LEMMA PushChain ==
  ASSUME NEW s \in Seq(Scopes), NEW d \in Nat, Chain(s, d),
         NEW k \in {"init", "with", "ensure", "allow"}
  PROVE  LET r == Append(s, [kind |-> k, at |-> d])
         IN  /\ r \in Seq(Scopes)
             /\ r # <<>>
             /\ Last(r).kind = k
             /\ Chain(r, IF k = "allow" THEN d - 1 ELSE d + 1)
  <1> DEFINE f == [kind |-> k, at |-> d]
             r == Append(s, f)
  <1>1. f \in Scopes
    BY DEF Scopes
  <1>2. /\ r \in Seq(Scopes)
        /\ r # <<>>
        /\ Len(s) \in Nat
        /\ Len(r) = Len(s) + 1
        /\ \A i \in 1..Len(s) : r[i] = s[i]
        /\ r[Len(s) + 1] = f
    BY <1>1
  <1>3. Last(r) = f
    BY <1>2 DEF Last
  <1>4. ASSUME NEW i \in 1..Len(r)
        PROVE  r[i].at = IF i = 1 THEN 0 ELSE After(r[i - 1])
    <2>1. CASE i \in 1..Len(s)
      <3>1. i = 1 \/ i - 1 \in 1..Len(s)
        BY <2>1, <1>2
      <3> QED
        BY <2>1, <3>1, <1>2 DEF Chain
    <2>2. CASE i = Len(s) + 1 /\ s = <<>>
      BY <2>2, <1>2 DEF Chain
    <2>3. CASE i = Len(s) + 1 /\ s # <<>>
      <3>1. Len(s) # 0 /\ i - 1 = Len(s) /\ Len(s) \in 1..Len(s)
        BY <2>3, <1>2
      <3>2. r[i].at = After(Last(s))
        BY <2>3, <1>2 DEF Chain
      <3> QED
        BY <3>1, <3>2, <2>3, <1>2 DEF Last
    <2> QED
      BY <2>1, <2>2, <2>3, <1>2
  <1>5. (IF k = "allow" THEN d - 1 ELSE d + 1) = After(Last(r))
    BY <1>3 DEF After
  <1> QED
    BY <1>2, <1>3, <1>4, <1>5 DEF Chain

(* Closing one, too.                                                       *)
LEMMA PopChain ==
  ASSUME NEW s \in Seq(Scopes), NEW d \in Nat, Chain(s, d), s # <<>>
  PROVE  /\ Front(s) \in Seq(Scopes)
         /\ Chain(Front(s), IF Last(s).kind = "allow" THEN d + 1 ELSE d - 1)
  <1> DEFINE n == Len(s)
  <1>1. /\ n \in Nat /\ n > 0
        /\ Front(s) \in Seq(Scopes)
        /\ Len(Front(s)) = n - 1
        /\ \A i \in 1..(n - 1) : Front(s)[i] = s[i]
        /\ Last(s) \in Scopes
    BY FrontType
  <1>2. Last(s) = s[n] /\ Last(s).at \in Nat
    BY <1>1 DEF Last, Scopes
  <1>3. \A i \in 1..(n - 1) :
          Front(s)[i].at = IF i = 1 THEN 0 ELSE After(Front(s)[i - 1])
    <2> TAKE i \in 1..(n - 1)
    <2>1. i \in 1..n /\ (i = 1 \/ i - 1 \in 1..(n - 1))
      BY <1>1
    <2>2. s[i].at = IF i = 1 THEN 0 ELSE After(s[i - 1])
      BY <2>1 DEF Chain
    <2> QED
      BY <2>1, <2>2, <1>1
  <1>4. Last(s).at = IF n = 1 THEN 0 ELSE After(s[n - 1])
    <2>1. n \in 1..n
      BY <1>1
    <2> QED
      BY <2>1, <1>2 DEF Chain
  <1>5. Last(s).at = IF Front(s) = <<>> THEN 0 ELSE After(Last(Front(s)))
    <2>1. CASE n = 1
      <3>1. Front(s) = <<>>
        BY <1>1, <2>1, EmptySeq
      <3> QED
        BY <2>1, <3>1, <1>4
    <2>2. CASE n # 1
      <3>1. n - 1 \in 1..(n - 1)
        BY <2>2, <1>1
      <3>2. Front(s) # <<>>
        BY <2>2, <1>1, EmptySeq
      <3>3. Last(Front(s)) = s[n - 1]
        BY <3>1, <1>1 DEF Last
      <3> QED
        BY <2>2, <3>2, <3>3, <1>4
    <2> QED
      BY <2>1, <2>2
  <1>6. Last(s).at = IF Last(s).kind = "allow" THEN d + 1 ELSE d - 1
    BY <1>2 DEF Chain, After
  <1> QED
    BY <1>1, <1>3, <1>5, <1>6 DEF Chain

-----------------------------------------------------------------------------
(* The invariant holds at the start: no thread is in a region.             *)
LEMMA InitGilInv == Init => GilInv
  <1> SUFFICES ASSUME Init PROVE GilInv
    OBVIOUS
  <1>1. TypeOK
    <2>1. queue \in Seq(Objs) /\ scopes \in [Threads -> Seq(Scopes)]
      BY EmptySeq DEF Init
    <2>2. handles \in [Threads -> [Objs -> Nat]]
      BY DEF Init
    <2>3. refcnt \in [Objs -> Int] /\ depth \in [Threads -> Nat]
      BY DEF Init
    <2>4. pc \in [Threads -> PCs] /\ arg \in [Threads -> Calls \cup Objs]
      BY DEF Init, PCs, Calls
    <2> QED
      BY <2>1, <2>2, <2>3, <2>4 DEF Init, TypeOK
  <1>2. LockInv
    BY DEF Init, LockInv, Acquiring
  <1>3. ScopeInv
    BY EmptySeq DEF Init, ScopeInv, Chain, Acquiring
  <1> QED
    BY <1>1, <1>2, <1>3 DEF GilInv

(* The end of acquire_gil in a thread that owns the mutex: the part common *)
(* to a nested call and to the end of a drain.                             *)
LEMMA EnteredInv ==
  ASSUME GilInv, NEW t \in Threads, NEW c \in Calls \ {"none"}, Entered(t, c),
         gil = t, UNCHANGED gil,
         c = "with" => scopes[t] # <<>>,
         c = "restore" => scopes[t] # <<>> /\ Last(scopes[t]).kind = "allow",
         c = "ensure" => interp
  PROVE  /\ depth' \in [Threads -> Nat] /\ pc' \in [Threads -> PCs]
         /\ arg' \in [Threads -> Calls \cup Objs]
         /\ scopes' \in [Threads -> Seq(Scopes)]
         /\ interp' \in BOOLEAN /\ hasState' \subseteq Threads
         /\ pc'[t] = "run"
         /\ \A u \in Threads : depth'[u] > 0 => gil' = u
         /\ \A u \in Threads \ {t} : /\ pc'[u] = pc[u]
                                     /\ arg'[u] = arg[u]
                                     /\ depth'[u] = depth[u]
         /\ ScopeInv'
  <1> USE DEF GilInv
  <1>1. /\ depth' = [depth EXCEPT ![t] = @ + 1]
        /\ pc' = [pc EXCEPT ![t] = "run"]
        /\ arg' = [arg EXCEPT ![t] = "none"]
        /\ interp' = (interp \/ c = "init")
        /\ hasState' = IF c = "init" \/ (c = "ensure" /\ interp) THEN hasState \cup {t} ELSE hasState
    BY DEF Entered
  <1>2. /\ depth' \in [Threads -> Nat] /\ pc' \in [Threads -> PCs]
        /\ arg' \in [Threads -> Calls \cup Objs]
        /\ interp' \in BOOLEAN /\ hasState' \subseteq Threads
        /\ pc'[t] = "run"
        /\ depth'[t] = depth[t] + 1
        /\ \A u \in Threads \ {t} : pc'[u] = pc[u] /\ arg'[u] = arg[u] /\ depth'[u] = depth[u]
    BY <1>1 DEF TypeOK, PCs, Calls
  <1>3. \A u \in Threads : depth'[u] > 0 => gil' = u
    BY <1>2 DEF LockInv
  <1>4. /\ scopes' \in [Threads -> Seq(Scopes)]
        /\ \A u \in Threads \ {t} : scopes'[u] = scopes[u]
        /\ Chain(scopes'[t], depth'[t])
    <2>1. CASE c = "restore"
      <3>1. scopes' = [scopes EXCEPT ![t] = Front(@)]
        BY <2>1 DEF Entered, Pop
      <3>2. /\ Front(scopes[t]) \in Seq(Scopes)
            /\ Chain(Front(scopes[t]), depth[t] + 1)
        BY <2>1, PopChain DEF TypeOK, ScopeInv
      <3> QED
        BY <3>1, <3>2, <1>2 DEF TypeOK
    <2>2. CASE c # "restore"
      <3> DEFINE r == Append(scopes[t], [kind |-> c, at |-> depth[t]])
      <3>1. scopes' = [scopes EXCEPT ![t] = r]
        BY <2>2 DEF Entered, Push
      <3>2. c \in {"init", "with", "ensure"} /\ scopes[t] \in Seq(Scopes) /\ depth[t] \in Nat
        BY <2>2 DEF TypeOK, Calls
      <3>3. r \in Seq(Scopes) /\ Chain(r, depth[t] + 1)
        <4>1. Chain(scopes[t], depth[t])
          BY DEF ScopeInv
        <4>2. Chain(r, IF c = "allow" THEN depth[t] - 1 ELSE depth[t] + 1) /\ r \in Seq(Scopes)
          BY <4>1, <3>2, PushChain
        <4> QED
          BY <4>2, <3>2
      <3> QED
        BY <3>1, <3>3, <1>2 DEF TypeOK
    <2> QED
      BY <2>1, <2>2
  <1>5. scopes'[t] # <<>> => t \in hasState'
    <2>1. CASE c \in {"init", "ensure"}
      BY <2>1, <1>1
    <2>2. CASE c \in {"with", "restore"}
      BY <2>2, <1>1 DEF ScopeInv
    <2> QED
      BY <2>1, <2>2 DEF Calls
  <1>6. ScopeInv'
    <2> SUFFICES ASSUME NEW u \in Threads
                 PROVE  /\ Chain(scopes[u], depth[u])'
                        /\ (scopes[u] # <<>> => u \in hasState)'
                        /\ (Acquiring(u) /\ arg[u] = "restore"
                              => scopes[u] # <<>> /\ Last(scopes[u]).kind = "allow")'
                        /\ (Acquiring(u) /\ arg[u] = "with" => scopes[u] # <<>>)'
                        /\ (Acquiring(u) /\ arg[u] = "ensure" => interp)'
      BY DEF ScopeInv
    <2>1. CASE u = t
      BY <2>1, <1>2, <1>4, <1>5 DEF Acquiring, Chain
    <2>2. CASE u # t
      <3>1. hasState \subseteq hasState' /\ (interp => interp')
        BY <1>1
      <3>2. /\ scopes'[u] = scopes[u] /\ depth'[u] = depth[u]
            /\ pc'[u] = pc[u] /\ arg'[u] = arg[u]
        BY <2>2, <1>2, <1>4
      <3>3. Chain(scopes'[u], depth'[u])
        BY <3>2 DEF ScopeInv
      <3> QED
        BY <3>1, <3>2, <3>3 DEF ScopeInv, Acquiring
    <2> QED
      BY <2>1, <2>2
  <1> QED
    BY <1>2, <1>3, <1>4, <1>6

(* A step of the thread inside one of the two locks, or one that only      *)
(* touches objects, leaves the regions and the depths alone.               *)
LEMMA SameScopes ==
  ASSUME GilInv, UNCHANGED <<depth, scopes, hasState, interp>>,
         \A t \in Threads : Acquiring(t)' => Acquiring(t) /\ arg'[t] = arg[t]
  PROVE  ScopeInv'
  <1> SUFFICES ASSUME NEW t \in Threads
               PROVE  /\ Chain(scopes[t], depth[t])'
                      /\ (scopes[t] # <<>> => t \in hasState)'
                      /\ (Acquiring(t) /\ arg[t] = "restore"
                            => scopes[t] # <<>> /\ Last(scopes[t]).kind = "allow")'
                      /\ (Acquiring(t) /\ arg[t] = "with" => scopes[t] # <<>>)'
                      /\ (Acquiring(t) /\ arg[t] = "ensure" => interp)'
    BY DEF ScopeInv
  <1>1. Chain(scopes[t], depth[t])'
    <2>1. Chain(scopes[t], depth[t])
      BY DEF GilInv, ScopeInv
    <2> QED
      BY <2>1 DEF Chain
  <1>2. Acquiring(t)' => Acquiring(t) /\ arg'[t] = arg[t]
    OBVIOUS
  <1> QED
    BY <1>1, <1>2 DEF GilInv, ScopeInv

(* acquire_gil called for c in a region that allows it.                    *)
LEMMA AcquireInv ==
  ASSUME GilInv, NEW t \in Threads, NEW c \in Calls \ {"none"},
         pc[t] = "run", Acquire(t, c),
         c = "with" => scopes[t] # <<>>,
         c = "restore" => scopes[t] # <<>> /\ Last(scopes[t]).kind = "allow",
         c = "ensure" => interp
  PROVE  GilInv'
  <1> USE DEF GilInv
  <1>1. CASE depth[t] = 0
    <2>1. /\ pc' = [pc EXCEPT ![t] = "lock"]
          /\ arg' = [arg EXCEPT ![t] = c]
          /\ UNCHANGED <<depth, interp, hasState, scopes, gil, qlock, queue, refcnt, live, handles>>
      BY <1>1 DEF Acquire, MustLock, objVars
    <2>2. TypeOK'
      BY <2>1 DEF TypeOK, PCs, Calls
    <2>3. LockInv'
      BY <2>1, <1>1 DEF LockInv, TypeOK, Acquiring
    <2>4. ScopeInv'
      <3> SUFFICES ASSUME NEW u \in Threads
                   PROVE  /\ Chain(scopes[u], depth[u])'
                          /\ (scopes[u] # <<>> => u \in hasState)'
                          /\ (Acquiring(u) /\ arg[u] = "restore"
                                => scopes[u] # <<>> /\ Last(scopes[u]).kind = "allow")'
                          /\ (Acquiring(u) /\ arg[u] = "with" => scopes[u] # <<>>)'
                          /\ (Acquiring(u) /\ arg[u] = "ensure" => interp)'
        BY DEF ScopeInv
      <3>1. Chain(scopes[u], depth[u])'
        <4>1. Chain(scopes[u], depth[u])
          BY DEF ScopeInv
        <4> QED
          BY <2>1, <4>1
      <3>2. u = t => arg'[u] = c
        BY <2>1 DEF TypeOK
      <3>3. u # t => pc'[u] = pc[u] /\ arg'[u] = arg[u]
        BY <2>1 DEF TypeOK
      <3> QED
        BY <2>1, <3>1, <3>2, <3>3 DEF ScopeInv, Acquiring
    <2> QED
      BY <2>2, <2>3, <2>4
  <1>2. CASE depth[t] # 0
    <2>1. /\ Entered(t, c)
          /\ UNCHANGED <<gil, qlock, queue, refcnt, live, handles>>
      BY <1>2 DEF Acquire, MustLock, objVars
    <2>2. gil = t
      BY <1>2 DEF LockInv, TypeOK
    <2>3. /\ depth' \in [Threads -> Nat] /\ pc' \in [Threads -> PCs]
          /\ arg' \in [Threads -> Calls \cup Objs]
          /\ scopes' \in [Threads -> Seq(Scopes)]
          /\ interp' \in BOOLEAN /\ hasState' \subseteq Threads
          /\ pc'[t] = "run"
          /\ \A u \in Threads : depth'[u] > 0 => gil' = u
          /\ \A u \in Threads \ {t} : /\ pc'[u] = pc[u]
                                      /\ arg'[u] = arg[u]
                                      /\ depth'[u] = depth[u]
          /\ ScopeInv'
      BY <2>1, <2>2, EnteredInv
    <2>4. TypeOK'
      BY <2>1, <2>3 DEF TypeOK
    <2>5. LockInv'
      BY <2>1, <2>3 DEF LockInv, Acquiring
    <2> QED
      BY <2>3, <2>4, <2>5
  <1> QED
    BY <1>1, <1>2

(* release_gil in a thread that holds the lock, with the region opened or  *)
(* closed around it.                                                       *)
LEMMA ReleaseInv ==
  ASSUME GilInv, NEW t \in Threads, NEW s \in Seq(Scopes),
         pc[t] = "run", depth[t] > 0, Release(t), t \in hasState,
         scopes' = [scopes EXCEPT ![t] = s], Chain(s, depth[t] - 1),
         UNCHANGED <<pc, arg, hasState, interp, qlock, queue, refcnt, live, handles>>
  PROVE  GilInv'
  <1> USE DEF GilInv
  <1>0. depth[t] \in Nat
    BY DEF TypeOK
  <1>1. /\ depth' = [depth EXCEPT ![t] = @ - 1]
        /\ gil' = IF depth[t] = 1 THEN NoOne ELSE gil
        /\ depth[t] - 1 \in Nat /\ gil = t
    <2>1. depth[t] # 0 /\ depth[t] - 1 \in Nat
      BY <1>0
    <2>2. (IF depth[t] = 0 THEN 0 ELSE depth[t] - 1) = depth[t] - 1
      BY <2>1
    <2>3. depth' = [depth EXCEPT ![t] = depth[t] - 1]
      BY <2>2 DEF Release
    <2> QED
      BY <2>1, <2>3 DEF Release, LockInv
  <1>2. TypeOK'
    BY <1>0, <1>1 DEF TypeOK
  <1>3. \A u \in Threads \ {t} : /\ depth'[u] = depth[u] /\ depth[u] = 0
                                /\ pc[u] \notin {"flush", "drain"}
                                /\ scopes'[u] = scopes[u]
    BY <1>1 DEF TypeOK, LockInv
  <1>4. /\ scopes'[t] = s /\ depth'[t] = depth[t] - 1
        /\ ~Acquiring(t)'
    BY <1>1 DEF TypeOK, Acquiring
  <1>5. LockInv'
    <2> SUFFICES ASSUME NEW u \in Threads
                 PROVE  /\ (depth[u] > 0 => gil = u)'
                        /\ (pc[u] \in {"flush", "drain"} => gil = u)'
                        /\ (pc[u] = "drain" => qlock = u)'
                        /\ (pc[u] = "push" => arg[u] \in Objs \/ qlock = u)'
                        /\ (Acquiring(u) => depth[u] = 0 /\ arg[u] \in Calls \ {"none"})'
      BY DEF LockInv
    <2>1. CASE u = t
      BY <2>1, <1>1, <1>4 DEF LockInv, Acquiring
    <2>2. CASE u # t
      BY <2>2, <1>3 DEF LockInv, Acquiring
    <2> QED
      BY <2>1, <2>2
  <1>6. ScopeInv'
    <2> SUFFICES ASSUME NEW u \in Threads
                 PROVE  /\ Chain(scopes[u], depth[u])'
                        /\ (scopes[u] # <<>> => u \in hasState)'
                        /\ (Acquiring(u) /\ arg[u] = "restore"
                              => scopes[u] # <<>> /\ Last(scopes[u]).kind = "allow")'
                        /\ (Acquiring(u) /\ arg[u] = "with" => scopes[u] # <<>>)'
                        /\ (Acquiring(u) /\ arg[u] = "ensure" => interp)'
      BY DEF ScopeInv
    <2>1. CASE u = t
      BY <2>1, <1>4
    <2>2. CASE u # t
      <3>1. Chain(scopes[u], depth[u]) /\ scopes'[u] = scopes[u] /\ depth'[u] = depth[u]
        BY <2>2, <1>3 DEF ScopeInv
      <3> QED
        BY <3>1 DEF ScopeInv, Acquiring
    <2> QED
      BY <2>1, <2>2
  <1> QED
    BY <1>2, <1>5, <1>6

(* Code in a region that uses Python is at a positive depth: the region    *)
(* counted when it was opened.                                             *)
LEMMA InsideDepth ==
  ASSUME GilInv, NEW t \in Threads, Inside(t)
  PROVE  depth[t] > 0 /\ gil = t /\ t \in hasState
  <1> USE DEF GilInv
  <1>1. scopes[t] \in Seq(Scopes) /\ scopes[t] # <<>> /\ Last(scopes[t]).kind # "allow"
    BY DEF TypeOK, Inside
  <1>2. Last(scopes[t]) \in Scopes
    BY <1>1, FrontType
  <1>3. depth[t] = Last(scopes[t]).at + 1
    BY <1>1 DEF ScopeInv, Chain, After
  <1>4. depth[t] > 0
    BY <1>2, <1>3 DEF Scopes
  <1> QED
    BY <1>1, <1>4 DEF LockInv, ScopeInv

(* Every step preserves the invariant.                                     *)
LEMMA NextGilInv == GilInv /\ [Next]_vars => GilInv'
  <1> SUFFICES ASSUME GilInv, [Next]_vars PROVE GilInv'
    OBVIOUS
  <1> USE DEF GilInv
  <1>1. CASE Initialize
    BY <1>1, AcquireInv DEF Initialize, Calls
  <1>2. ASSUME NEW t \in Threads, Lock(t) PROVE GilInv'
    <2>1. TypeOK'
      BY <1>2 DEF Lock, TypeOK, PCs, objVars
    <2>2. LockInv'
      BY <1>2 DEF Lock, LockGuard, LockInv, TypeOK, Acquiring, objVars
    <2>3. ScopeInv'
      <3>1. \A u \in Threads : Acquiring(u)' => Acquiring(u) /\ arg'[u] = arg[u]
        BY <1>2 DEF Lock, Acquiring, TypeOK
      <3> QED
        BY <1>2, <3>1, SameScopes DEF Lock
    <2> QED
      BY <2>1, <2>2, <2>3
  <1>3. ASSUME NEW t \in Threads, StartFlush(t) PROVE GilInv'
    <2>1. TypeOK'
      BY <1>3 DEF StartFlush, TypeOK, PCs
    <2>2. LockInv'
      BY <1>3 DEF StartFlush, LockInv, TypeOK, Acquiring
    <2>3. ScopeInv'
      <3>1. \A u \in Threads : Acquiring(u)' => Acquiring(u) /\ arg'[u] = arg[u]
        BY <1>3 DEF StartFlush, Acquiring, TypeOK
      <3> QED
        BY <1>3, <3>1, SameScopes DEF StartFlush
    <2> QED
      BY <2>1, <2>2, <2>3
  <1>4. ASSUME NEW t \in Threads, DrainOne(t) PROVE GilInv'
    <2> DEFINE p == IF refcnt[Head(queue)] = 1 THEN Reenters[Head(queue)] ELSE "drain"
    <2>1. Head(queue) \in Objs /\ Tail(queue) \in Seq(Objs)
      BY <1>4 DEF DrainOne, TypeOK
    <2>2. p \in {"drain", "lock", "push"} /\ pc' = [pc EXCEPT ![t] = p]
      BY <1>4, <2>1 DEF DrainOne
    <2>3. TypeOK'
      <3>1. refcnt' \in [Objs -> Int] /\ live' \subseteq Objs
        BY <1>4, <2>1 DEF DrainOne, Decref, TypeOK
      <3>2. queue' \in Seq(Objs)
        BY <1>4, <2>1 DEF DrainOne
      <3>3. pc' \in [Threads -> PCs]
        BY <2>2 DEF TypeOK, PCs
      <3> QED
        BY <1>4, <3>1, <3>2, <3>3 DEF DrainOne, TypeOK
    <2>4. LockInv'
      BY <1>4, <2>2 DEF DrainOne, LockInv, TypeOK, Acquiring
    <2>5. ScopeInv'
      <3>1. \A u \in Threads : Acquiring(u)' => Acquiring(u) /\ arg'[u] = arg[u]
        BY <1>4, <2>2 DEF DrainOne, Acquiring, TypeOK
      <3> QED
        BY <1>4, <3>1, SameScopes DEF DrainOne
    <2> QED
      BY <2>3, <2>4, <2>5
  <1>5. ASSUME NEW t \in Threads, EndFlush(t) PROVE GilInv'
    <2> DEFINE c == arg[t]
    <2>1. /\ c \in Calls \ {"none"} /\ gil = t /\ depth[t] = 0 /\ qlock = t
          /\ Entered(t, c) /\ qlock' = NoOne
          /\ UNCHANGED <<gil, queue, refcnt, live, handles>>
          /\ c = "with" => scopes[t] # <<>>
          /\ c = "restore" => scopes[t] # <<>> /\ Last(scopes[t]).kind = "allow"
          /\ c = "ensure" => interp
      BY <1>5 DEF EndFlush, LockInv, ScopeInv, Acquiring
    <2> HIDE DEF c
    <2>2. /\ depth' \in [Threads -> Nat] /\ pc' \in [Threads -> PCs]
          /\ arg' \in [Threads -> Calls \cup Objs]
          /\ scopes' \in [Threads -> Seq(Scopes)]
          /\ interp' \in BOOLEAN /\ hasState' \subseteq Threads
          /\ pc'[t] = "run"
          /\ \A u \in Threads : depth'[u] > 0 => gil' = u
          /\ \A u \in Threads \ {t} : /\ pc'[u] = pc[u]
                                      /\ arg'[u] = arg[u]
                                      /\ depth'[u] = depth[u]
          /\ ScopeInv'
      BY <2>1, EnteredInv
    <2>3. TypeOK'
      BY <2>1, <2>2 DEF TypeOK
    <2>4. LockInv'
      BY <2>1, <2>2 DEF LockInv, Acquiring
    <2> QED
      BY <2>2, <2>3, <2>4
  <1>6. ASSUME NEW t \in Threads, WithGil(t) PROVE GilInv'
    BY <1>6, AcquireInv DEF WithGil, Inside, Calls
  <1>7. ASSUME NEW t \in Threads, Ensure(t) PROVE GilInv'
    BY <1>7, AcquireInv DEF Ensure, CanOpen, Calls
  <1>8. ASSUME NEW t \in Threads, SaveThread(t) PROVE GilInv'
    <2> DEFINE r == Append(scopes[t], [kind |-> "allow", at |-> depth[t]])
    <2>1. depth[t] > 0 /\ t \in hasState /\ pc[t] = "run"
      BY <1>8, InsideDepth DEF SaveThread, CanOpen
    <2>2. scopes[t] \in Seq(Scopes) /\ depth[t] \in Nat /\ Chain(scopes[t], depth[t])
      BY DEF TypeOK, ScopeInv
    <2>3. r \in Seq(Scopes) /\ Chain(r, IF "allow" = "allow" THEN depth[t] - 1 ELSE depth[t] + 1)
      BY <2>2, PushChain
    <2>4. r \in Seq(Scopes) /\ Chain(r, depth[t] - 1) /\ scopes' = [scopes EXCEPT ![t] = r]
      BY <1>8, <2>3 DEF SaveThread, Push
    <2> HIDE DEF r
    <2>5. Release(t) /\ UNCHANGED <<pc, arg, hasState, interp, qlock, queue, refcnt, live, handles>>
      BY <1>8 DEF SaveThread, objVars
    <2> QED
      BY <2>1, <2>4, <2>5, ReleaseInv
  <1>9. ASSUME NEW t \in Threads, RestoreThread(t) PROVE GilInv'
    BY <1>9, AcquireInv DEF RestoreThread, Calls
  <1>10. ASSUME NEW t \in Threads, Leave(t) PROVE GilInv'
    <2> DEFINE r == Front(scopes[t])
    <2>1. depth[t] > 0 /\ t \in hasState
      BY <1>10, InsideDepth DEF Leave
    <2>2. /\ scopes[t] \in Seq(Scopes) /\ depth[t] \in Nat /\ Chain(scopes[t], depth[t])
          /\ scopes[t] # <<>> /\ Last(scopes[t]).kind # "allow" /\ pc[t] = "run"
      BY <1>10 DEF Leave, Inside, TypeOK, ScopeInv
    <2>3. r \in Seq(Scopes) /\ Chain(r, depth[t] - 1)
      BY <2>2, PopChain
    <2>4. /\ scopes' = [scopes EXCEPT ![t] = r]
          /\ Release(t)
          /\ UNCHANGED <<pc, arg, hasState, interp, qlock, queue, refcnt, live, handles>>
      BY <1>10 DEF Leave, Pop, objVars
    <2> HIDE DEF r
    <2> QED
      BY <2>1, <2>2, <2>3, <2>4, ReleaseInv
  <1>11. ASSUME NEW t \in Threads, QueueDecref(t) PROVE GilInv'
    <2>1. arg[t] \in Objs
      BY <1>11 DEF QueueDecref, LockInv, TypeOK
    <2>2. TypeOK'
      <3>1. Append(queue, arg[t]) \in Seq(Objs)
        BY <2>1 DEF TypeOK
      <3> QED
        BY <1>11, <3>1 DEF QueueDecref, TypeOK, PCs, Calls
    <2>3. LockInv'
      BY <1>11 DEF QueueDecref, LockInv, TypeOK, Acquiring
    <2>4. ScopeInv'
      <3>1. \A u \in Threads : Acquiring(u)' => Acquiring(u) /\ arg'[u] = arg[u]
        BY <1>11 DEF QueueDecref, Acquiring, TypeOK
      <3> QED
        BY <1>11, <3>1, SameScopes DEF QueueDecref
    <2> QED
      BY <2>2, <2>3, <2>4
  <1>12. ASSUME NEW t \in Threads, NEW o \in Objs,
                Create(t, o) \/ DropNow(t, o) \/ (\E u \in Threads : Clone(t, u, o))
         PROVE  GilInv'
    <2>1. /\ UNCHANGED <<gil, depth, pc, arg, scopes, hasState, interp>>
          /\ UNCHANGED <<qlock, queue>>
      BY <1>12 DEF Create, DropNow, Clone, lockVars
    <2>2. refcnt' \in [Objs -> Int] /\ live' \subseteq Objs
      BY <1>12 DEF Create, DropNow, Decref, Clone, TypeOK
    <2>3. handles' \in [Threads -> [Objs -> Nat]]
      <3>1. \A u \in Threads : handles[u] \in [Objs -> Nat] /\ handles[u][o] \in Nat
        BY DEF TypeOK
      <3>2. CASE Create(t, o)
        BY <3>1, <3>2 DEF Create, TypeOK
      <3>3. CASE DropNow(t, o)
        <4>1. handles[t][o] - 1 \in Nat
          BY <3>1, <3>3 DEF DropNow
        <4> QED
          BY <3>1, <3>3, <4>1 DEF DropNow, TypeOK
      <3>4. CASE \E u \in Threads : Clone(t, u, o)
        BY <3>1, <3>4 DEF Clone, TypeOK
      <3> QED
        BY <1>12, <3>2, <3>3, <3>4
    <2>4. TypeOK'
      BY <2>1, <2>2, <2>3 DEF TypeOK
    <2>5. LockInv'
      BY <2>1 DEF LockInv, Acquiring
    <2>6. ScopeInv'
      BY <2>1, SameScopes DEF Acquiring
    <2> QED
      BY <2>4, <2>5, <2>6
  <1>13. ASSUME NEW t \in Threads, NEW o \in Objs, DropLater(t, o) PROVE GilInv'
    <2>1. handles' \in [Threads -> [Objs -> Nat]]
      <3>1. handles[t] \in [Objs -> Nat] /\ handles[t][o] \in Nat
        BY DEF TypeOK
      <3>2. handles[t][o] - 1 \in Nat
        BY <1>13, <3>1 DEF DropLater
      <3> QED
        BY <1>13, <3>1, <3>2 DEF DropLater, TypeOK
    <2>2. TypeOK'
      BY <1>13, <2>1 DEF DropLater, TypeOK, PCs
    <2>3. LockInv'
      BY <1>13 DEF DropLater, LockInv, TypeOK, Acquiring
    <2>4. ScopeInv'
      <3>1. \A u \in Threads : Acquiring(u)' => Acquiring(u) /\ arg'[u] = arg[u]
        BY <1>13 DEF DropLater, Acquiring, TypeOK
      <3> QED
        BY <1>13, <3>1, SameScopes DEF DropLater
    <2> QED
      BY <2>2, <2>3, <2>4
  <1>14. CASE UNCHANGED vars
    <2>1. TypeOK'
      BY <1>14 DEF vars, TypeOK
    <2>2. LockInv'
      BY <1>14 DEF vars, LockInv, Acquiring
    <2>3. ScopeInv'
      BY <1>14, SameScopes DEF vars, Acquiring
    <2> QED
      BY <2>1, <2>2, <2>3
  <1> QED
    BY <1>1, <1>2, <1>3, <1>4, <1>5, <1>6, <1>7, <1>8, <1>9, <1>10, <1>11, <1>12, <1>13, <1>14
    DEF Next

-----------------------------------------------------------------------------
(* The invariant behind the lock holds in every state: GIL_DEPTH is the    *)
(* nesting of the regions of its thread and is positive only in the owner  *)
(* of the mutex.                                                           *)
THEOREM GilInvariant == Spec => []GilInv
  <1> QED
    BY InitGilInv, NextGilInv, PTL DEF Spec

(* Every variable keeps its type.                                          *)
THEOREM TypeCorrect == Spec => []TypeOK
  <1>1. GilInv => TypeOK
    BY DEF GilInv
  <1> QED
    BY <1>1, GilInvariant, PTL

(* Code that uses Python owns the mutex, at a positive depth, with a thread*)
(* state.                                                                  *)
THEOREM InsideHolds == Spec => []InsideHoldsGil
  <1>1. GilInv => InsideHoldsGil
    BY InsideDepth DEF InsideHoldsGil
  <1> QED
    BY <1>1, GilInvariant, PTL

(* The lock excludes: two threads are never both in code that uses Python. *)
THEOREM LockExcludes == Spec => []MutualExclusion
  <1>1. GilInv => MutualExclusion
    BY InsideDepth DEF MutualExclusion
  <1> QED
    BY <1>1, GilInvariant, PTL

(* Objects are reclaimed only by the owner of the mutex, whichever way     *)
(* their last reference went.                                              *)
THEOREM ReclaimUnderLock == Spec => ReclaimsUnderGil
  <1> DEFINE A == \A o \in live : o \notin live' =>
                    \E t \in Threads : gil = t /\ gil' = t /\ pc[t] \in {"run", "drain"}
                                       /\ \A u \in Threads : handles'[u] # handles[u] => u = t
  <1>1. GilInv /\ [Next]_vars => [A]_vars
    <2> SUFFICES ASSUME GilInv, Next, NEW o \in live, o \notin live'
                 PROVE  \E t \in Threads :
                          gil = t /\ gil' = t /\ pc[t] \in {"run", "drain"}
                          /\ \A u \in Threads : handles'[u] # handles[u] => u = t
      OBVIOUS
    <2> USE DEF GilInv
    <2>1. CASE Initialize
      BY <2>1 DEF Initialize, Acquire, objVars
    <2>2. ASSUME NEW t \in Threads, Lock(t) \/ StartFlush(t) \/ EndFlush(t) \/ WithGil(t) \/ Ensure(t)
                   \/ SaveThread(t) \/ RestoreThread(t) \/ Leave(t) \/ QueueDecref(t)
          PROVE  FALSE
      BY <2>2 DEF Lock, StartFlush, EndFlush, WithGil, Ensure, SaveThread, RestoreThread, Leave,
                  QueueDecref, Acquire, objVars
    <2>3. ASSUME NEW t \in Threads, DrainOne(t)
          PROVE  gil = t /\ gil' = t /\ pc[t] \in {"run", "drain"} /\ handles' = handles
      BY <2>3 DEF DrainOne, LockInv
    <2>4. ASSUME NEW t \in Threads, NEW p \in Objs, DropNow(t, p)
          PROVE  /\ gil = t /\ gil' = t /\ pc[t] \in {"run", "drain"}
                 /\ \A u \in Threads : handles'[u] # handles[u] => u = t
      BY <2>4 DEF DropNow, HeldByDepth, LockInv, TypeOK, lockVars
    <2>5. ASSUME NEW t \in Threads, NEW p \in Objs,
                 Create(t, p) \/ DropLater(t, p) \/ (\E u \in Threads : Clone(t, u, p))
          PROVE  FALSE
      BY <2>5 DEF Create, DropLater, Clone
    <2> QED
      BY <2>1, <2>2, <2>3, <2>4, <2>5 DEF Next
  <1> QED
    BY <1>1, GilInvariant, PTL DEF Spec, ReclaimsUnderGil

-----------------------------------------------------------------------------
(* The handles of objects (PyObjectRef).                                   *)

HIDE ThreadsAssumption
HIDE BoundsAssumption
HIDE ReentersAssumption
USE CallsAssumption

(* The handles h of o, its places in the queue q, and the threads about to *)
(* queue it.                                                               *)
HandlesOf(h, o)  == UNION {{t} \X (1..h[t][o]) : t \in Threads}
Places(q, o)     == {i \in DOMAIN q : q[i] = o}
Pushers(p, a, o) == {t \in Threads : p[t] = "push" /\ a[t] = o}

References(h, q, p, a, o) ==
  Cardinality(HandlesOf(h, o)) + Cardinality(Places(q, o)) + Cardinality(Pushers(p, a, o))

Countable(h, p, a) == \A o \in Objs : IsFiniteSet(HandlesOf(h, o)) /\ IsFiniteSet(Pushers(p, a, o))

(* RefcountsConserved, and that there are finitely many references.        *)
HandleInv ==
  /\ Countable(handles, pc, arg)
  /\ \A o \in Objs : /\ refcnt[o] = References(handles, queue, pc, arg, o)
                     /\ o \in live <=> refcnt[o] > 0

-----------------------------------------------------------------------------
(* Counting.                                                               *)

LEMMA HandlesMember ==
  ASSUME NEW h \in [Threads -> [Objs -> Nat]], NEW o \in Objs
  PROVE  /\ \A x : x \in HandlesOf(h, o) <=> \E t \in Threads : \E i \in 1..h[t][o] : x = <<t, i>>
         /\ HandlesOf(h, o) = {} <=> \A t \in Threads : h[t][o] = 0
  <1>1. \A x : x \in HandlesOf(h, o) <=> \E t \in Threads : \E i \in 1..h[t][o] : x = <<t, i>>
    BY DEF HandlesOf
  <1>2. \A t \in Threads : h[t][o] \in Nat
    OBVIOUS
  <1>3. ASSUME HandlesOf(h, o) = {}, NEW t \in Threads PROVE h[t][o] = 0
    <2>1. h[t][o] > 0 => 1 \in 1..h[t][o]
      BY <1>2
    <2>2. 1 \in 1..h[t][o] => <<t, 1>> \in HandlesOf(h, o)
      BY <1>1
    <2>3. h[t][o] \in Nat
      BY <1>2
    <2> QED
      BY <1>3, <2>1, <2>2, <2>3
  <1>4. ASSUME \A t \in Threads : h[t][o] = 0 PROVE HandlesOf(h, o) = {}
    BY <1>1, <1>4
  <1> QED
    BY <1>1, <1>3, <1>4

LEMMA NextUpTo ==
  ASSUME NEW n \in Nat
  PROVE  \A i : i \in 1..(n + 1) <=> i \in 1..n \/ i = n + 1
  OBVIOUS

(* h and k differ in one handle of t to o.                                 *)
OneMore(h, k, t, o) ==
  \A u \in Threads, p \in Objs : k[u][p] = IF u = t /\ p = o THEN h[t][o] + 1 ELSE h[u][p]

LEMMA HandleTaken ==
  ASSUME NEW h \in [Threads -> [Objs -> Nat]], NEW k \in [Threads -> [Objs -> Nat]],
         NEW t \in Threads, NEW o \in Objs, OneMore(h, k, t, o)
  PROVE  /\ \A p \in Objs \ {o} : HandlesOf(k, p) = HandlesOf(h, p)
         /\ IsFiniteSet(HandlesOf(h, o)) =>
              /\ IsFiniteSet(HandlesOf(k, o))
              /\ Cardinality(HandlesOf(k, o)) = Cardinality(HandlesOf(h, o)) + 1
  <1>1. \A u \in Threads, p \in Objs : k[u][p] = IF u = t /\ p = o THEN h[t][o] + 1 ELSE h[u][p]
    BY DEF OneMore
  <1>2. \A p \in Objs \ {o} : HandlesOf(k, p) = HandlesOf(h, p)
    BY <1>1 DEF HandlesOf
  <1>3. \A i : i \in 1..(h[t][o] + 1) <=> i \in 1..h[t][o] \/ i = h[t][o] + 1
    <2>1. h[t][o] \in Nat
      OBVIOUS
    <2> QED
      BY <2>1, NextUpTo, Zenon
  <1>4. HandlesOf(k, o) = HandlesOf(h, o) \cup {<<t, h[t][o] + 1>>}
    <2> SUFFICES ASSUME NEW x
                 PROVE  x \in HandlesOf(k, o) <=> x \in HandlesOf(h, o) \/ x = <<t, h[t][o] + 1>>
      OBVIOUS
    <2>1. x \in HandlesOf(k, o) <=> \E u \in Threads : \E i \in 1..k[u][o] : x = <<u, i>>
      BY DEF HandlesOf
    <2>2. x \in HandlesOf(h, o) <=> \E u \in Threads : \E i \in 1..h[u][o] : x = <<u, i>>
      BY HandlesMember
    <2>3. \A u \in Threads : k[u][o] = IF u = t THEN h[t][o] + 1 ELSE h[u][o]
      BY <1>1
    <2> QED
      BY <1>3, <2>1, <2>2, <2>3
  <1>5. <<t, h[t][o] + 1>> \notin HandlesOf(h, o)
    <2>1. ASSUME NEW u \in Threads, NEW i \in 1..h[u][o], <<t, h[t][o] + 1>> = <<u, i>> PROVE FALSE
      <3>1. u = t /\ i = h[t][o] + 1 /\ h[t][o] \in Nat
        BY <2>1
      <3> QED
        BY <3>1
    <2> QED
      BY <2>1, HandlesMember
  <1>6. ASSUME IsFiniteSet(HandlesOf(h, o))
        PROVE  /\ IsFiniteSet(HandlesOf(k, o))
               /\ Cardinality(HandlesOf(k, o)) = Cardinality(HandlesOf(h, o)) + 1
    <2> DEFINE H == HandlesOf(h, o)
               x == <<t, h[t][o] + 1>>
    <2> HIDE DEF H, x
    <2>1. HandlesOf(k, o) = H \cup {x} /\ x \notin H /\ IsFiniteSet(H)
      BY <1>4, <1>5, <1>6 DEF H, x
    <2>2. IsFiniteSet(H \cup {x}) /\ Cardinality(H \cup {x}) = Cardinality(H) + 1
      BY <2>1, FS_AddElement
    <2> QED
      BY <2>1, <2>2 DEF H
  <1> QED
    BY <1>1, <1>2, <1>6

LEMMA HandleGiven ==
  ASSUME NEW h \in [Threads -> [Objs -> Nat]], NEW k \in [Threads -> [Objs -> Nat]],
         NEW t \in Threads, NEW o \in Objs, OneMore(k, h, t, o), IsFiniteSet(HandlesOf(h, o))
  PROVE  /\ \A p \in Objs \ {o} : HandlesOf(k, p) = HandlesOf(h, p)
         /\ IsFiniteSet(HandlesOf(k, o))
         /\ Cardinality(HandlesOf(h, o)) = Cardinality(HandlesOf(k, o)) + 1
  <1>1. HandlesOf(k, o) \subseteq HandlesOf(h, o)
    <2>1. \A u \in Threads : h[u][o] \in Nat /\ k[u][o] \in Nat /\ k[u][o] <= h[u][o]
      BY DEF OneMore
    <2>2. \A u \in Threads : 1..k[u][o] \subseteq 1..h[u][o]
      BY <2>1
    <2> QED
      BY <2>2 DEF HandlesOf
  <1>2. IsFiniteSet(HandlesOf(k, o))
    BY <1>1, FS_Subset
  <1> QED
    BY <1>2, HandleTaken

(* One place more at the end of the queue, one less at its head.           *)
LEMMA PlacesCount ==
  ASSUME NEW q \in Seq(Objs), NEW o
  PROVE  IsFiniteSet(Places(q, o)) /\ Cardinality(Places(q, o)) \in Nat
  <1>1. DOMAIN q = 1..Len(q) /\ Len(q) \in Nat
    OBVIOUS
  <1>2. IsFiniteSet(1..Len(q)) /\ Places(q, o) \in SUBSET (1..Len(q))
    BY <1>1, FS_Interval DEF Places
  <1> QED
    BY <1>2, FS_Subset, FS_CardinalityType

LEMMA QueueGrows ==
  ASSUME NEW q \in Seq(Objs), NEW x \in Objs
  PROVE  /\ Append(q, x) \in Seq(Objs)
         /\ Cardinality(Places(Append(q, x), x)) = Cardinality(Places(q, x)) + 1
         /\ \A o \in Objs \ {x} : Places(Append(q, x), o) = Places(q, o)
  <1> DEFINE r == Append(q, x)
             n == Len(q) + 1
  <1>1. /\ r \in Seq(Objs) /\ Len(q) \in Nat
        /\ DOMAIN q = 1..Len(q) /\ DOMAIN r = 1..n
        /\ r[n] = x /\ \A i \in 1..Len(q) : r[i] = q[i]
    OBVIOUS
  <1>2. /\ n \notin 1..Len(q)
        /\ \A i : i \in 1..n <=> i \in 1..Len(q) \/ i = n
    BY <1>1
  <1> HIDE DEF r, n
  <1>3. Places(r, x) = Places(q, x) \cup {n} /\ n \notin Places(q, x)
    BY <1>1, <1>2 DEF Places
  <1>4. \A o \in Objs \ {x} : Places(r, o) = Places(q, o)
    BY <1>1, <1>2 DEF Places
  <1>5. Cardinality(Places(r, x)) = Cardinality(Places(q, x)) + 1
    BY <1>3, PlacesCount, FS_AddElement
  <1> QED
    BY <1>1, <1>4, <1>5 DEF r

LEMMA QueueShrinks ==
  ASSUME NEW q \in Seq(Objs), q # <<>>
  PROVE  /\ Tail(q) \in Seq(Objs) /\ Head(q) \in Objs
         /\ Cardinality(Places(q, Head(q))) = Cardinality(Places(Tail(q), Head(q))) + 1
         /\ \A o \in Objs \ {Head(q)} : Cardinality(Places(Tail(q), o)) = Cardinality(Places(q, o))
  <1> DEFINE r == Tail(q)
             n == Len(q)
  <1>1. /\ n \in Nat /\ n > 0 /\ Head(q) = q[1] /\ Head(q) \in Objs
        /\ r \in Seq(Objs) /\ Len(r) = n - 1
        /\ DOMAIN q = 1..n /\ DOMAIN r = 1..(n - 1)
        /\ \A i \in 1..(n - 1) : r[i] = q[i + 1]
    BY HeadTailProperties, EmptySeq
  <1> HIDE DEF r, n
  <1>2. ASSUME NEW o \in Objs
        PROVE  Cardinality(Places(r, o)) = Cardinality(Places(q, o) \ {1})
    <2> DEFINE f == [i \in Places(r, o) |-> i + 1]
    <2>1. \A i \in Places(r, o) : i \in 1..(n - 1) /\ i \in Int /\ i + 1 \in Places(q, o) \ {1}
      BY <1>1 DEF Places
    <2>2. \A j \in Places(q, o) \ {1} : j - 1 \in Places(r, o) /\ f[j - 1] = j
      <3> SUFFICES ASSUME NEW j \in Places(q, o) \ {1}
                   PROVE  j - 1 \in Places(r, o) /\ f[j - 1] = j
        OBVIOUS
      <3>1. j \in 1..n /\ j # 1 /\ q[j] = o
        BY <1>1 DEF Places
      <3>2. j - 1 \in 1..(n - 1) /\ j - 1 + 1 = j
        BY <1>1, <3>1
      <3>3. j - 1 \in Places(r, o)
        BY <1>1, <3>1, <3>2 DEF Places
      <3> QED
        BY <3>2, <3>3
    <2>3. f \in Bijection(Places(r, o), Places(q, o) \ {1})
      <3>1. f \in [Places(r, o) -> Places(q, o) \ {1}]
        BY <2>1
      <3>2. \A i, j \in Places(r, o) : f[i] = f[j] => i = j
        BY <2>1
      <3>3. \A j \in Places(q, o) \ {1} : \E i \in Places(r, o) : f[i] = j
        BY <2>2
      <3> QED
        BY <3>1, <3>2, <3>3 DEF Bijection, Injection, Surjection, IsInjective
    <2>4. IsFiniteSet(Places(r, o))
      BY <1>1, PlacesCount
    <2> QED
      BY <2>3, <2>4, FS_Bijection DEF ExistsBijection
  <1>3. \A o \in Objs : 1 \in Places(q, o) <=> o = Head(q)
    BY <1>1 DEF Places
  <1>4. \A o \in Objs : Cardinality(Places(q, o) \ {1}) =
                          IF o = Head(q) THEN Cardinality(Places(q, o)) - 1 ELSE Cardinality(Places(q, o))
    BY <1>3, PlacesCount, FS_RemoveElement
  <1>5. \A o \in Objs : Cardinality(Places(q, o)) \in Nat
    BY PlacesCount
  <1>6. Cardinality(Places(q, Head(q))) = Cardinality(Places(r, Head(q))) + 1
    <2>1. /\ Cardinality(Places(r, Head(q))) = Cardinality(Places(q, Head(q)) \ {1})
          /\ Cardinality(Places(q, Head(q)) \ {1}) = Cardinality(Places(q, Head(q))) - 1
          /\ Cardinality(Places(q, Head(q))) \in Nat
      BY <1>1, <1>2, <1>4, <1>5
    <2> QED
      BY <2>1
  <1> QED
    BY <1>1, <1>2, <1>4, <1>6 DEF r

LEMMA ReferencesType ==
  ASSUME NEW h, NEW q \in Seq(Objs), NEW p, NEW a, Countable(h, p, a), NEW o \in Objs
  PROVE  /\ Cardinality(HandlesOf(h, o)) \in Nat
         /\ Cardinality(Places(q, o)) \in Nat
         /\ Cardinality(Pushers(p, a, o)) \in Nat
         /\ References(h, q, p, a, o) \in Nat
  <1>1. /\ Cardinality(HandlesOf(h, o)) \in Nat
        /\ Cardinality(Places(q, o)) \in Nat
        /\ Cardinality(Pushers(p, a, o)) \in Nat
    BY PlacesCount, FS_CardinalityType DEF Countable
  <1> QED
    BY <1>1 DEF References

(* One reference to o goes with a decref.                                  *)
LEMMA DecrefCounts ==
  ASSUME TypeOK, HandleInv, NEW o \in Objs, Decref(o), (queue \in Seq(Objs))',
         Countable(handles, pc, arg)',
         References(handles, queue, pc, arg, o) = References(handles, queue, pc, arg, o)' + 1,
         \A x \in Objs \ {o} : References(handles, queue, pc, arg, x)'
                                = References(handles, queue, pc, arg, x)
  PROVE  HandleInv'
  <1>1. References(handles, queue, pc, arg, o)' \in Nat
    BY ReferencesType
  <1>2. /\ refcnt'[o] = refcnt[o] - 1
        /\ \A x \in Objs \ {o} : refcnt'[x] = refcnt[x]
        /\ refcnt[o] = References(handles, queue, pc, arg, o)
    BY DEF Decref, TypeOK, HandleInv
  <1>3. o \in live' <=> refcnt'[o] > 0
    BY <1>1, <1>2 DEF HandleInv, Decref
  <1>4. refcnt'[o] = References(handles, queue, pc, arg, o)'
    BY <1>1, <1>2
  <1>5. \A x \in Objs \ {o} : x \in live' <=> refcnt'[x] > 0
    BY <1>2 DEF HandleInv, Decref
  <1>6. \A x \in Objs \ {o} : refcnt'[x] = References(handles, queue, pc, arg, x)'
    BY <1>2 DEF HandleInv
  <1> QED
    BY <1>3, <1>4, <1>5, <1>6 DEF HandleInv

-----------------------------------------------------------------------------
(* The invariant.                                                          *)

LEMMA InitHandleInv == Init => HandleInv
  <1> SUFFICES ASSUME Init, NEW o \in Objs
               PROVE  /\ HandlesOf(handles, o) = {} /\ Places(queue, o) = {}
                      /\ Pushers(pc, arg, o) = {} /\ refcnt[o] = 0 /\ live = {}
    BY FS_EmptySet DEF HandleInv, Countable, References
  <1>1. HandlesOf(handles, o) = {}
    BY DEF Init, HandlesOf
  <1> QED
    BY <1>1 DEF Init, Places, Pushers

(* A step of a thread that leaves objects, handles and the queue alone.    *)
LEMMA LockStepCounts ==
  ASSUME HandleInv, NEW t \in Threads, UNCHANGED <<queue, handles, refcnt, live>>,
         \A u \in Threads \ {t} : pc'[u] = pc[u] /\ arg'[u] = arg[u],
         pc[t] # "push", pc'[t] # "push"
  PROVE  HandleInv'
  <1>1. \A o \in Objs : Pushers(pc', arg', o) = Pushers(pc, arg, o)
    BY DEF Pushers
  <1> QED
    BY <1>1 DEF HandleInv, Countable, References

LEMMA AcquireCounts ==
  ASSUME HandleInv, TypeOK, NEW t \in Threads, NEW c, pc[t] = "run", Acquire(t, c)
  PROVE  HandleInv'
  <1>1. /\ UNCHANGED <<queue, handles, refcnt, live>>
        /\ \A u \in Threads \ {t} : pc'[u] = pc[u] /\ arg'[u] = arg[u]
        /\ pc'[t] # "push"
    BY DEF Acquire, Entered, objVars, TypeOK
  <1> QED
    BY <1>1, LockStepCounts

LEMMA LockCounts ==
  ASSUME HandleInv, TypeOK, NEW t \in Threads,
         \/ Lock(t) \/ StartFlush(t) \/ EndFlush(t) \/ SaveThread(t) \/ Leave(t)
         \/ WithGil(t) \/ Ensure(t) \/ RestoreThread(t)
  PROVE  HandleInv'
  <1>1. CASE Lock(t) \/ StartFlush(t) \/ EndFlush(t) \/ SaveThread(t) \/ Leave(t)
    <2>1. /\ UNCHANGED <<queue, handles, refcnt, live>>
          /\ \A u \in Threads \ {t} : pc'[u] = pc[u] /\ arg'[u] = arg[u]
          /\ pc[t] # "push" /\ pc'[t] # "push"
      BY <1>1 DEF Lock, StartFlush, EndFlush, SaveThread, Leave, Entered, Inside, CanOpen, objVars, TypeOK
    <2> QED
      BY <2>1, LockStepCounts
  <1>2. CASE WithGil(t) \/ Ensure(t) \/ RestoreThread(t)
    BY <1>2, AcquireCounts DEF WithGil, Ensure, RestoreThread, CanOpen
  <1> QED
    BY <1>1, <1>2

(* The drain applies the decrement at the head of the queue.               *)
LEMMA DrainOneCounts ==
  ASSUME GilInv, HandleInv, NEW t \in Threads, DrainOne(t)
  PROVE  HandleInv'
  <1>0. PICK o \in Objs : o = Head(queue)
    BY QueueShrinks DEF DrainOne, GilInv, TypeOK
  <1>1. /\ TypeOK /\ queue \in Seq(Objs) /\ queue # <<>>
        /\ queue' = Tail(queue) /\ Decref(o)
        /\ UNCHANGED <<handles, arg>>
        /\ arg[t] \notin Objs /\ \A u \in Threads \ {t} : pc'[u] = pc[u]
    BY <1>0 DEF DrainOne, GilInv, TypeOK, LockInv, Acquiring
  <1>2. /\ queue' \in Seq(Objs)
        /\ Cardinality(Places(queue, o)) = Cardinality(Places(queue', o)) + 1
        /\ \A x \in Objs \ {o} : Cardinality(Places(queue', x)) = Cardinality(Places(queue, x))
    BY <1>0, <1>1, QueueShrinks
  <1>3. \A x \in Objs : Pushers(pc', arg', x) = Pushers(pc, arg, x)
    BY <1>1 DEF Pushers
  <1>4. Countable(handles, pc, arg)'
    BY <1>1, <1>3 DEF HandleInv, Countable
  <1>5. /\ Cardinality(HandlesOf(handles, o)) \in Nat
        /\ Cardinality(Places(queue', o)) \in Nat
        /\ Cardinality(Pushers(pc, arg, o)) \in Nat
        /\ HandlesOf(handles', o) = HandlesOf(handles, o)
        /\ Pushers(pc', arg', o) = Pushers(pc, arg, o)
        /\ Cardinality(Places(queue, o)) = Cardinality(Places(queue', o)) + 1
    BY <1>1, <1>2, <1>3, ReferencesType, PlacesCount DEF HandleInv
  <1>6. References(handles, queue, pc, arg, o) = References(handles, queue, pc, arg, o)' + 1
    BY <1>5 DEF References
  <1>7. \A x \in Objs \ {o} : References(handles, queue, pc, arg, x)'
                              = References(handles, queue, pc, arg, x)
    BY <1>1, <1>2, <1>3 DEF References
  <1> QED
    BY <1>1, <1>2, <1>4, <1>6, <1>7, DecrefCounts

(* drop, with and without the lock, and queue_decref.                      *)
LEMMA DropNowCounts ==
  ASSUME GilInv, HandleInv, NEW t \in Threads, NEW o \in Objs, DropNow(t, o)
  PROVE  HandleInv'
  <1>0. /\ handles \in [Threads -> [Objs -> Nat]] /\ handles' \in [Threads -> [Objs -> Nat]]
        /\ OneMore(handles', handles, t, o)
        /\ IsFiniteSet(HandlesOf(handles, o))
    BY DEF DropNow, GilInv, TypeOK, HandleInv, Countable, OneMore
  <1>1. /\ TypeOK /\ queue \in Seq(Objs)
        /\ Decref(o) /\ UNCHANGED <<queue, pc, arg>>
        /\ Countable(handles, pc, arg)
    BY DEF DropNow, GilInv, TypeOK, HandleInv, Countable, lockVars
  <1>2. /\ \A x \in Objs \ {o} : HandlesOf(handles', x) = HandlesOf(handles, x)
        /\ IsFiniteSet(HandlesOf(handles', o))
        /\ Cardinality(HandlesOf(handles, o)) = Cardinality(HandlesOf(handles', o)) + 1
    BY <1>0, HandleGiven
  <1>3. Countable(handles, pc, arg)'
    BY <1>1, <1>2 DEF Countable
  <1>4. /\ Cardinality(HandlesOf(handles', o)) \in Nat
        /\ Cardinality(Places(queue, o)) \in Nat
        /\ Cardinality(Pushers(pc, arg, o)) \in Nat
        /\ Cardinality(HandlesOf(handles, o)) = Cardinality(HandlesOf(handles', o)) + 1
        /\ Places(queue', o) = Places(queue, o)
        /\ Pushers(pc', arg', o) = Pushers(pc, arg, o)
    BY <1>1, <1>2, ReferencesType, FS_CardinalityType
  <1>5. References(handles, queue, pc, arg, o) = References(handles, queue, pc, arg, o)' + 1
    BY <1>4 DEF References
  <1>6. \A x \in Objs \ {o} : References(handles, queue, pc, arg, x)'
                              = References(handles, queue, pc, arg, x)
    BY <1>1, <1>2 DEF References
  <1> QED
    BY <1>1, <1>3, <1>5, <1>6, DecrefCounts

LEMMA DropLaterCounts ==
  ASSUME GilInv, HandleInv, NEW t \in Threads, NEW o \in Objs, DropLater(t, o)
  PROVE  HandleInv'
  <1>0. /\ handles \in [Threads -> [Objs -> Nat]] /\ handles' \in [Threads -> [Objs -> Nat]]
        /\ OneMore(handles', handles, t, o)
        /\ IsFiniteSet(HandlesOf(handles, o)) /\ IsFiniteSet(Pushers(pc, arg, o))
    BY DEF DropLater, GilInv, TypeOK, HandleInv, Countable, OneMore
  <1>1. /\ queue \in Seq(Objs)
        /\ UNCHANGED <<queue, refcnt, live>>
        /\ pc[t] = "run" /\ pc'[t] = "push" /\ arg'[t] = o
        /\ \A u \in Threads \ {t} : pc'[u] = pc[u] /\ arg'[u] = arg[u]
        /\ Countable(handles, pc, arg)
    BY DEF DropLater, GilInv, TypeOK, HandleInv, Countable
  <1>2. /\ \A x \in Objs \ {o} : HandlesOf(handles', x) = HandlesOf(handles, x)
        /\ IsFiniteSet(HandlesOf(handles', o))
        /\ Cardinality(HandlesOf(handles, o)) = Cardinality(HandlesOf(handles', o)) + 1
    BY <1>0, HandleGiven
  <1>3. /\ t \notin Pushers(pc, arg, o) /\ Pushers(pc', arg', o) = Pushers(pc, arg, o) \cup {t}
        /\ \A x \in Objs \ {o} : Pushers(pc', arg', x) = Pushers(pc, arg, x)
    BY <1>1 DEF Pushers
  <1>4. /\ IsFiniteSet(Pushers(pc', arg', o))
        /\ Cardinality(Pushers(pc', arg', o)) = Cardinality(Pushers(pc, arg, o)) + 1
    BY <1>0, <1>3, FS_AddElement
  <1>5. Countable(handles, pc, arg)'
    BY <1>1, <1>2, <1>3, <1>4 DEF Countable
  <1>6. /\ Cardinality(HandlesOf(handles', o)) \in Nat
        /\ Cardinality(Places(queue, o)) \in Nat
        /\ Cardinality(Pushers(pc, arg, o)) \in Nat
        /\ Cardinality(HandlesOf(handles, o)) = Cardinality(HandlesOf(handles', o)) + 1
        /\ Places(queue', o) = Places(queue, o)
    BY <1>1, <1>2, ReferencesType, FS_CardinalityType
  <1>7. References(handles, queue, pc, arg, o)' = References(handles, queue, pc, arg, o)
    BY <1>4, <1>6 DEF References
  <1>8. \A x \in Objs \ {o} : References(handles, queue, pc, arg, x)'
                              = References(handles, queue, pc, arg, x)
    BY <1>1, <1>2, <1>3 DEF References
  <1> QED
    BY <1>1, <1>5, <1>7, <1>8 DEF HandleInv

LEMMA QueueDecrefCounts ==
  ASSUME GilInv, HandleInv, NEW t \in Threads, QueueDecref(t)
  PROVE  HandleInv'
  <1>0. PICK o \in Objs : o = arg[t]
    <2>1. pc[t] = "push" /\ qlock # t
      BY ThreadsAssumption DEF QueueDecref
    <2> QED
      BY <2>1 DEF GilInv, LockInv
  <1>1. /\ queue \in Seq(Objs)
        /\ queue' = Append(queue, o)
        /\ UNCHANGED <<handles, refcnt, live>>
        /\ pc[t] = "push" /\ arg[t] = o /\ pc'[t] = "run"
        /\ \A u \in Threads \ {t} : pc'[u] = pc[u] /\ arg'[u] = arg[u]
        /\ Countable(handles, pc, arg) /\ IsFiniteSet(Pushers(pc, arg, o))
    BY <1>0 DEF QueueDecref, GilInv, TypeOK, HandleInv, Countable
  <1>2. /\ queue' \in Seq(Objs)
        /\ Cardinality(Places(queue', o)) = Cardinality(Places(queue, o)) + 1
        /\ \A x \in Objs \ {o} : Places(queue', x) = Places(queue, x)
    BY <1>1, QueueGrows
  <1>3. /\ t \in Pushers(pc, arg, o) /\ Pushers(pc', arg', o) = Pushers(pc, arg, o) \ {t}
        /\ \A x \in Objs \ {o} : Pushers(pc', arg', x) = Pushers(pc, arg, x)
    BY <1>1 DEF Pushers
  <1>4. /\ IsFiniteSet(Pushers(pc', arg', o))
        /\ Cardinality(Pushers(pc', arg', o)) = Cardinality(Pushers(pc, arg, o)) - 1
    BY <1>1, <1>3, FS_RemoveElement
  <1>5. Countable(handles, pc, arg)'
    BY <1>1, <1>3, <1>4 DEF Countable
  <1>6. /\ Cardinality(HandlesOf(handles, o)) \in Nat
        /\ Cardinality(Places(queue, o)) \in Nat
        /\ Cardinality(Pushers(pc, arg, o)) \in Nat
        /\ HandlesOf(handles', o) = HandlesOf(handles, o)
    BY <1>1, ReferencesType
  <1>7. References(handles, queue, pc, arg, o)' = References(handles, queue, pc, arg, o)
    BY <1>2, <1>4, <1>6 DEF References
  <1>8. \A x \in Objs \ {o} : References(handles, queue, pc, arg, x)'
                              = References(handles, queue, pc, arg, x)
    BY <1>1, <1>2, <1>3 DEF References
  <1> QED
    BY <1>1, <1>5, <1>7, <1>8 DEF HandleInv

LEMMA CreateCounts ==
  ASSUME GilInv, HandleInv, NEW t \in Threads, NEW o \in Objs, Create(t, o)
  PROVE  HandleInv'
  <1>1. /\ queue \in Seq(Objs) /\ Countable(handles, pc, arg)
        /\ handles \in [Threads -> [Objs -> Nat]]
        /\ UNCHANGED <<queue, pc, arg>>
        /\ refcnt[o] = References(handles, queue, pc, arg, o) /\ ~(refcnt[o] > 0)
    BY DEF Create, GilInv, TypeOK, HandleInv, lockVars
  <1>2. /\ Cardinality(HandlesOf(handles, o)) \in Nat
        /\ Cardinality(Places(queue, o)) \in Nat
        /\ Cardinality(Pushers(pc, arg, o)) \in Nat
    BY <1>1, ReferencesType
  <1>3. /\ Cardinality(HandlesOf(handles, o)) = 0
        /\ Cardinality(Places(queue, o)) = 0
        /\ Cardinality(Pushers(pc, arg, o)) = 0
    BY <1>1, <1>2 DEF References
  <1>4. HandlesOf(handles, o) = {}
    BY <1>1, <1>3, FS_EmptySet DEF Countable
  <1>5. \A u \in Threads : handles[u][o] = 0
    BY <1>1, <1>4, HandlesMember
  <1>6. handles' \in [Threads -> [Objs -> Nat]] /\ OneMore(handles, handles', t, o)
    BY <1>1, <1>5 DEF Create, OneMore
  <1>7. /\ \A x \in Objs \ {o} : HandlesOf(handles', x) = HandlesOf(handles, x)
        /\ IsFiniteSet(HandlesOf(handles', o))
        /\ Cardinality(HandlesOf(handles', o)) = Cardinality(HandlesOf(handles, o)) + 1
    BY <1>1, <1>6, HandleTaken DEF Countable
  <1>8. Countable(handles, pc, arg)'
    BY <1>1, <1>7 DEF Countable
  <1>9. References(handles, queue, pc, arg, o)' = 1
    BY <1>1, <1>3, <1>7 DEF References
  <1>10. \A x \in Objs \ {o} : References(handles, queue, pc, arg, x)'
                               = References(handles, queue, pc, arg, x)
    BY <1>1, <1>7 DEF References
  <1>11. /\ refcnt'[o] = 1 /\ o \in live'
         /\ \A x \in Objs \ {o} : refcnt'[x] = refcnt[x] /\ (x \in live' <=> x \in live)
    BY DEF Create, GilInv, TypeOK
  <1> QED
    BY <1>8, <1>9, <1>10, <1>11 DEF HandleInv

(* u gets a clone of a handle of t.                                        *)
LEMMA CloneCounts ==
  ASSUME GilInv, HandleInv, NEW t \in Threads, NEW u \in Threads, NEW o \in Objs, Clone(t, u, o)
  PROVE  HandleInv'
  <1>1. /\ queue \in Seq(Objs) /\ Countable(handles, pc, arg)
        /\ UNCHANGED <<queue, pc, arg, live>>
    BY DEF Clone, GilInv, TypeOK, HandleInv, lockVars
  <1>2. /\ handles \in [Threads -> [Objs -> Nat]] /\ handles' \in [Threads -> [Objs -> Nat]]
        /\ OneMore(handles, handles', u, o) /\ IsFiniteSet(HandlesOf(handles, o))
    BY <1>1 DEF Clone, GilInv, TypeOK, OneMore, Countable
  <1>3. /\ \A x \in Objs \ {o} : HandlesOf(handles', x) = HandlesOf(handles, x)
        /\ IsFiniteSet(HandlesOf(handles', o))
        /\ Cardinality(HandlesOf(handles', o)) = Cardinality(HandlesOf(handles, o)) + 1
    BY <1>2, HandleTaken
  <1>4. Countable(handles, pc, arg)'
    BY <1>1, <1>3 DEF Countable
  <1>5. /\ Cardinality(HandlesOf(handles, o)) \in Nat
        /\ Cardinality(Places(queue, o)) \in Nat
        /\ Cardinality(Pushers(pc, arg, o)) \in Nat
        /\ Cardinality(HandlesOf(handles', o)) = Cardinality(HandlesOf(handles, o)) + 1
        /\ Places(queue', o) = Places(queue, o)
        /\ Pushers(pc', arg', o) = Pushers(pc, arg, o)
    BY <1>1, <1>3, ReferencesType
  <1>6. References(handles, queue, pc, arg, o)' = References(handles, queue, pc, arg, o) + 1
    BY <1>5 DEF References
  <1>7. \A x \in Objs \ {o} : References(handles, queue, pc, arg, x)'
                              = References(handles, queue, pc, arg, x)
    BY <1>1, <1>3 DEF References
  <1>8. refcnt[o] > 0 /\ o \in live
    <2>1. handles[t][o] > 0 /\ handles[t][o] \in Nat
      BY <1>2 DEF Clone
    <2>2. HandlesOf(handles, o) # {}
      <3>1. HandlesOf(handles, o) = {} => handles[t][o] = 0
        BY <1>2, HandlesMember
      <3> QED
        BY <2>1, <3>1
    <2>3. Cardinality(HandlesOf(handles, o)) # 0
      BY <1>2, <2>2, FS_EmptySet
    <2>4. refcnt[o] = References(handles, queue, pc, arg, o)
      BY DEF HandleInv
    <2>5. refcnt[o] > 0
      BY <1>5, <2>3, <2>4 DEF References
    <2> QED
      BY <2>5 DEF HandleInv
  <1>9. /\ refcnt'[o] = refcnt[o] + 1 /\ refcnt[o] \in Int
        /\ \A x \in Objs \ {o} : refcnt'[x] = refcnt[x]
    BY DEF Clone, GilInv, TypeOK
  <1>10. refcnt'[o] = References(handles, queue, pc, arg, o)' /\ refcnt'[o] > 0 /\ o \in live'
    BY <1>1, <1>6, <1>8, <1>9 DEF HandleInv
  <1>11. \A x \in Objs \ {o} : /\ refcnt'[x] = References(handles, queue, pc, arg, x)'
                               /\ x \in live' <=> refcnt'[x] > 0
    BY <1>1, <1>7, <1>9 DEF HandleInv
  <1> QED
    BY <1>4, <1>10, <1>11 DEF HandleInv

LEMMA NextHandleInv == GilInv /\ HandleInv /\ [Next]_vars => HandleInv'
  <1> SUFFICES ASSUME GilInv, HandleInv, [Next]_vars PROVE HandleInv'
    OBVIOUS
  <1>1. CASE Initialize
    BY <1>1, AcquireCounts, ThreadsAssumption DEF Initialize, GilInv
  <1>2. ASSUME NEW t \in Threads,
               \/ Lock(t) \/ StartFlush(t) \/ EndFlush(t) \/ SaveThread(t) \/ Leave(t)
               \/ WithGil(t) \/ Ensure(t) \/ RestoreThread(t)
        PROVE  HandleInv'
    BY <1>2, LockCounts DEF GilInv
  <1>3. ASSUME NEW t \in Threads, DrainOne(t) PROVE HandleInv'
    BY <1>3, DrainOneCounts
  <1>4. ASSUME NEW t \in Threads, QueueDecref(t) PROVE HandleInv'
    BY <1>4, QueueDecrefCounts
  <1>5. ASSUME NEW t \in Threads, NEW o \in Objs, Create(t, o) PROVE HandleInv'
    BY <1>5, CreateCounts
  <1>6. ASSUME NEW t \in Threads, NEW o \in Objs, DropNow(t, o) PROVE HandleInv'
    BY <1>6, DropNowCounts
  <1>7. ASSUME NEW t \in Threads, NEW o \in Objs, DropLater(t, o) PROVE HandleInv'
    BY <1>7, DropLaterCounts
  <1>8. ASSUME NEW t \in Threads, NEW o \in Objs, NEW u \in Threads, Clone(t, u, o) PROVE HandleInv'
    BY <1>8, CloneCounts
  <1>9. CASE UNCHANGED vars
    <2>1. UNCHANGED <<handles, queue, pc, arg, refcnt, live>>
      BY <1>9 DEF vars
    <2> QED
      BY <2>1 DEF HandleInv
  <1> QED
    BY <1>1, <1>2, <1>3, <1>4, <1>5, <1>6, <1>7, <1>8, <1>9 DEF Next

LEMMA HandleInvariant == Spec => [](GilInv /\ HandleInv)
  <1>1. Init => GilInv /\ HandleInv
    BY InitGilInv, InitHandleInv
  <1>2. GilInv /\ HandleInv /\ [Next]_vars => (GilInv /\ HandleInv)'
    BY NextGilInv, NextHandleInv
  <1> QED
    BY <1>1, <1>2, PTL DEF Spec

(* ob_refcnt counts the handles and the decrements that are put off, and   *)
(* an object lives exactly as long as its count is positive.               *)
THEOREM RefcountsAddUp == Spec => []RefcountsConserved
  <1>1. HandleInv => RefcountsConserved
    <2> SUFFICES ASSUME HandleInv, NEW o \in Objs
                 PROVE  /\ refcnt[o] = Owned(o) + Queued(o) + Pushing(o)
                        /\ o \in live <=> refcnt[o] > 0
      BY DEF RefcountsConserved
    <2> QED
      BY DEF HandleInv, References, HandlesOf, Places, Pushers, Owned, Queued, Pushing
  <1> QED
    BY <1>1, HandleInvariant, PTL

-----------------------------------------------------------------------------
(* The contract.                                                           *)

(* An object with no reference left has no handle.                         *)
LEMMA UnownedAtZero ==
  ASSUME NEW h \in [Threads -> [Objs -> Nat]], NEW q \in Seq(Objs), NEW p, NEW a,
         Countable(h, p, a), NEW o \in Objs, References(h, q, p, a, o) = 0
  PROVE  \A t \in Threads : h[t][o] = 0
  <1>1. IsFiniteSet(HandlesOf(h, o))
    BY DEF Countable
  <1>2. /\ Cardinality(HandlesOf(h, o)) \in Nat
        /\ Cardinality(Places(q, o)) \in Nat
        /\ Cardinality(Pushers(p, a, o)) \in Nat
    BY ReferencesType
  <1>3. Cardinality(HandlesOf(h, o)) = 0
    BY <1>2 DEF References
  <1>4. HandlesOf(h, o) = {}
    BY <1>1, <1>3, FS_EmptySet
  <1> QED
    BY <1>4, HandlesMember

(* What the contract knows of the lock.                                    *)
In == {t \in Threads : Inside(t)}

(* A step of t that leaves the objects alone is an Enter, an Exit or no    *)
(* step of the contract.                                                   *)
LEMMA LockStepContract ==
  ASSUME MutualExclusion', NEW t \in Threads, UNCHANGED <<handles, live>>,
         \A u \in Threads \ {t} : pc'[u] = pc[u] /\ scopes'[u] = scopes[u]
  PROVE  [Contract!Next]_(Contract!vars)
  <1>1. \A u \in Threads \ {t} : Inside(u)' <=> Inside(u)
    BY DEF Inside
  <1>2. CASE Inside(t)' <=> Inside(t)
    <2>1. In' = In
      BY <1>1, <1>2 DEF In
    <2> QED
      BY <2>1 DEF Contract!vars, In
  <1>3. CASE Inside(t) /\ ~Inside(t)'
    <2>1. t \in In /\ In' = In \ {t}
      BY <1>1, <1>3 DEF In
    <2>2. Contract!Exit(t)
      BY <2>1 DEF Contract!Exit, In
    <2> QED
      BY <2>2 DEF Contract!Next
  <1>4. CASE ~Inside(t) /\ Inside(t)'
    <2>1. \A u \in Threads \ {t} : ~Inside(u)'
      BY <1>4 DEF MutualExclusion
    <2>2. In = {} /\ In' = {t}
      BY <1>1, <1>4, <2>1 DEF In
    <2>3. Contract!Enter(t)
      BY <2>2 DEF Contract!Enter, In
    <2> QED
      BY <2>3 DEF Contract!Next
  <1> QED
    BY <1>2, <1>3, <1>4

LEMMA AcquireContract ==
  ASSUME TypeOK, MutualExclusion', NEW t \in Threads, NEW c, Acquire(t, c)
  PROVE  [Contract!Next]_(Contract!vars)
  <1>1. /\ UNCHANGED <<handles, live>>
        /\ \A u \in Threads \ {t} : pc'[u] = pc[u] /\ scopes'[u] = scopes[u]
    BY DEF Acquire, Entered, Push, Pop, objVars, TypeOK
  <1> QED
    BY <1>1, LockStepContract

LEMMA LockContract ==
  ASSUME TypeOK, MutualExclusion', NEW t \in Threads,
         \/ Lock(t) \/ StartFlush(t) \/ EndFlush(t) \/ SaveThread(t) \/ Leave(t)
         \/ QueueDecref(t) \/ WithGil(t) \/ Ensure(t) \/ RestoreThread(t)
  PROVE  [Contract!Next]_(Contract!vars)
  <1>1. CASE \/ Lock(t) \/ StartFlush(t) \/ EndFlush(t) \/ SaveThread(t) \/ Leave(t)
             \/ QueueDecref(t)
    <2>1. /\ UNCHANGED <<handles, live>>
          /\ \A u \in Threads \ {t} : pc'[u] = pc[u] /\ scopes'[u] = scopes[u]
      BY <1>1 DEF Lock, StartFlush, EndFlush, SaveThread, Leave, QueueDecref, Entered, Push, Pop,
                  objVars, TypeOK
    <2> QED
      BY <2>1, LockStepContract
  <1>2. CASE WithGil(t) \/ Ensure(t) \/ RestoreThread(t)
    BY <1>2, AcquireContract DEF WithGil, Ensure, RestoreThread
  <1> QED
    BY <1>1, <1>2

(* A drained decrement reclaims the object or is invisible.                *)
LEMMA DrainOneContract ==
  ASSUME GilInv, HandleInv, HandleInv', TypeOK', NEW t \in Threads, DrainOne(t)
  PROVE  [Contract!Next]_(Contract!vars)
  <1>1. PICK o \in Objs : o = Head(queue)
    BY QueueShrinks DEF DrainOne, GilInv, TypeOK
  <1>2. /\ Decref(o) /\ UNCHANGED <<handles, scopes>>
        /\ pc[t] = "drain" /\ pc'[t] # "run" /\ \A u \in Threads \ {t} : pc'[u] = pc[u]
    BY <1>1, ReentersAssumption DEF DrainOne, GilInv, TypeOK
  <1>3. In' = In
    BY <1>2 DEF In, Inside
  <1>4. CASE live' = live
    BY <1>2, <1>3, <1>4 DEF Contract!vars, In
  <1>5. CASE refcnt[o] = 1 /\ live' = live \ {o}
    <2>1. o \in live /\ refcnt'[o] = 0
      BY <1>2, <1>5 DEF HandleInv, Decref, GilInv, TypeOK
    <2>2. \A u \in Threads : handles'[u][o] = 0
      <3>1. /\ handles' \in [Threads -> [Objs -> Nat]] /\ queue' \in Seq(Objs)
            /\ Countable(handles', pc', arg')
            /\ References(handles', queue', pc', arg', o) = 0
        BY <2>1 DEF TypeOK, HandleInv
      <3> QED
        BY <3>1, UnownedAtZero
    <2>3. Contract!Reclaim(o)
      BY <1>2, <1>3, <1>5, <2>1, <2>2 DEF Contract!Reclaim, Contract!Unowned, In
    <2> QED
      BY <2>3 DEF Contract!Next
  <1> QED
    BY <1>2, <1>4, <1>5 DEF Decref

(* drop takes a handle away, and the object with the last one if it is     *)
(* decremented at once.                                                    *)
LEMMA DropContract ==
  ASSUME GilInv, HandleInv, HandleInv', TypeOK', NEW t \in Threads, NEW o \in Objs,
         DropNow(t, o) \/ DropLater(t, o)
  PROVE  Contract!Drop(t, o)
  <1>1. handles[t][o] > 0 /\ handles' = [handles EXCEPT ![t][o] = @ - 1]
    BY DEF DropNow, DropLater
  <1>2. CASE DropNow(t, o)
    <2>1. Decref(o) /\ UNCHANGED <<pc, scopes>>
      BY <1>2 DEF DropNow, lockVars
    <2>2. In' = In
      BY <2>1 DEF In, Inside
    <2>3. CASE live' = live
      BY <1>1, <2>2, <2>3 DEF Contract!Drop, In
    <2>4. CASE refcnt[o] = 1 /\ live' = live \ {o}
      <3>1. refcnt'[o] = 0
        BY <2>1, <2>4 DEF Decref, GilInv, TypeOK
      <3>2. /\ handles' \in [Threads -> [Objs -> Nat]] /\ queue' \in Seq(Objs)
            /\ Countable(handles', pc', arg')
            /\ References(handles', queue', pc', arg', o) = 0
        BY <3>1 DEF TypeOK, HandleInv
      <3>3. Contract!Unowned(handles', o)
        BY <3>2, UnownedAtZero DEF Contract!Unowned
      <3> QED
        BY <1>1, <2>2, <2>4, <3>3 DEF Contract!Drop, In
    <2> QED
      BY <2>1, <2>3, <2>4 DEF Decref
  <1>3. CASE DropLater(t, o)
    <2>1. /\ depth[t] = 0 /\ live' = live /\ scopes' = scopes /\ pc'[t] = "push"
          /\ \A u \in Threads \ {t} : pc'[u] = pc[u]
      BY <1>3 DEF DropLater, HeldByDepth, GilInv, TypeOK
    <2>2. ~Inside(t) /\ ~Inside(t)' /\ \A u \in Threads \ {t} : Inside(u)' <=> Inside(u)
      <3>1. Inside(t) => depth[t] > 0
        BY InsideDepth
      <3> QED
        BY <2>1, <3>1 DEF Inside
    <2>3. In' = In
      BY <2>2 DEF In
    <2> QED
      BY <1>1, <2>1, <2>3 DEF Contract!Drop, In
  <1> QED
    BY <1>2, <1>3

LEMMA NextContract ==
  ASSUME GilInv, GilInv', HandleInv, HandleInv', MutualExclusion', [Next]_vars
  PROVE  [Contract!Next]_(Contract!vars)
  <1> USE DEF GilInv
  <1>1. CASE Initialize
    BY <1>1, AcquireContract, ThreadsAssumption DEF Initialize
  <1>2. ASSUME NEW t \in Threads,
               \/ Lock(t) \/ StartFlush(t) \/ EndFlush(t) \/ SaveThread(t) \/ Leave(t)
               \/ QueueDecref(t) \/ WithGil(t) \/ Ensure(t) \/ RestoreThread(t)
        PROVE  [Contract!Next]_(Contract!vars)
    BY <1>2, LockContract
  <1>3. ASSUME NEW t \in Threads, DrainOne(t) PROVE [Contract!Next]_(Contract!vars)
    BY <1>3, DrainOneContract
  <1>4. ASSUME NEW t \in Threads, NEW o \in Objs, Create(t, o) PROVE Contract!Next
    <2>1. In' = In
      BY <1>4 DEF Create, lockVars, In, Inside
    <2>2. Contract!Create(t, o)
      BY <1>4, <2>1 DEF Create, Contract!Create, In
    <2> QED
      BY <2>2 DEF Contract!Next
  <1>5. ASSUME NEW t \in Threads, NEW o \in Objs, DropNow(t, o) \/ DropLater(t, o)
        PROVE  Contract!Next
    BY <1>5, DropContract DEF Contract!Next
  <1>6. ASSUME NEW t \in Threads, NEW o \in Objs, NEW u \in Threads, Clone(t, u, o)
        PROVE  Contract!Next
    <2>1. In' = In
      BY <1>6 DEF Clone, lockVars, In, Inside
    <2>2. Contract!Share(t, u, o)
      BY <1>6, <2>1 DEF Clone, Contract!Share, In
    <2> QED
      BY <2>2 DEF Contract!Next
  <1>7. CASE UNCHANGED vars
    <2>1. In' = In /\ UNCHANGED <<handles, live>>
      BY <1>7 DEF vars, In, Inside
    <2> QED
      BY <2>1 DEF Contract!vars, In
  <1> QED
    BY <1>1, <1>2, <1>3, <1>4, <1>5, <1>6, <1>7 DEF Next

(* The mutex, the depths and the queue implement the contract: one thread  *)
(* at a time is inside Python, and an object is reclaimed when the last    *)
(* handle has gone, once, whoever dropped it and wherever.                 *)
THEOREM LockImplementsContract == Spec => ImplementsContract
  <1>1. Init => Contract!Init
    <2> SUFFICES ASSUME Init PROVE Contract!Init
      OBVIOUS
    <2>1. In = {}
      BY DEF Init, In, Inside
    <2> QED
      BY <2>1 DEF Init, Contract!Init, In
  <1> DEFINE I == GilInv /\ HandleInv /\ MutualExclusion
  <1>2. I /\ I' /\ [Next]_vars => [Contract!Next]_(Contract!vars)
    BY NextContract
  <1>3. Spec => []I
    BY HandleInvariant, LockExcludes, PTL
  <1> HIDE DEF I
  <1>4. Spec => Contract!Init /\ [][Contract!Next]_(Contract!vars)
    BY <1>1, <1>2, <1>3, PTL DEF Spec
  <1> QED
    BY <1>4 DEF ImplementsContract, Contract!Spec

=============================================================================
