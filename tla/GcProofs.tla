------------------------------- MODULE GcProofs -------------------------------
(***************************************************************************)
(* Proofs about Gc, for any heap, any kinds of objects and whatever their  *)
(* finalizers do: the counts are exact, nothing dangles, the collector     *)
(* leaves alone all that the program can reach and misses no garbage.      *)
(***************************************************************************)
EXTENDS Gc, FiniteSetTheorems, TLAPS

USE KindsAssumption

In(o, S) == IF o \in S THEN 1 ELSE 0

HoldersIn(A, R, o) == {x \in A : o \in R[x]}

(* The heap with the objects A, their members R, the external references   *)
(* E and the counts r, where D are being deallocated, the collector shields *)
(* K, and tp_dealloc holds F around a finalizer: every count is exact, no  *)
(* reference leads to freed memory, a freed object has no members, and one *)
(* that is deallocated has no references but those a finalizer made.       *)
Heap(A, R, E, r, D, K, F) ==
  /\ A \subseteq Objs
  /\ R \in [Objs -> SUBSET Objs]
  /\ E \in [Objs -> 0..MaxExt]
  /\ r \in [Objs -> Nat]
  /\ D \subseteq A /\ F \subseteq D /\ K \subseteq A \ D
  /\ \A o \in A : r[o] = E[o] + Cardinality(HoldersIn(A, R, o)) + In(o, K) + In(o, F)
  /\ \A o \in Objs : E[o] > 0 => o \in A
  /\ \A o \in A : R[o] \subseteq A
  /\ \A o \in Objs \ A : R[o] = {}
  /\ \A o \in D \ F : r[o] = 0

(* Nothing outside U refers to an object of U.                             *)
CutOff(A, R, E, U) == \A u \in U : E[u] = 0 /\ \A x \in A \ U : u \notin R[x]

Shielded == IF phase = "drop" THEN todo ELSE unreachable

HeapInv == Heap(alive, refs, ext, refcnt, dying, Shielded, finalized)

(* What the collector clears is cut off from the rest, and has no members  *)
(* once it is cleared.                                                     *)
ClearCutOff ==
  phase = "clear" => /\ CutOff(alive, refs, ext, unreachable)
                     /\ \A u \in (unreachable \cap Clears) \ todo : refs[u] = {}

(* In the drop pass each object of a garbage that was all cleared has only *)
(* its shield, or is being freed, or is gone.                              *)
DropsAll ==
  phase = "drop" /\ unreachable \subseteq Clears \ Finalizes =>
    /\ dying \subseteq unreachable
    /\ \A u \in unreachable : /\ refs[u] = {} /\ ext[u] = 0
                              /\ \A x \in alive : u \notin refs[x]
                              /\ u \in todo \cup dying \/ u \notin alive

GcInv ==
  /\ TypeOK
  /\ HeapInv
  /\ finalized \subseteq Finalizes
  /\ phase = "idle" => unreachable = {}
  /\ ClearCutOff
  /\ DropsAll

-----------------------------------------------------------------------------
(* Counting holders.                                                       *)

LEMMA HoldersCount ==
  ASSUME NEW A \in SUBSET Objs, NEW R \in [Objs -> SUBSET Objs], NEW o
  PROVE  /\ IsFiniteSet(HoldersIn(A, R, o))
         /\ Cardinality(HoldersIn(A, R, o)) \in Nat
         /\ Cardinality(HoldersIn(A, R, o)) = 0 <=> \A x \in A : o \notin R[x]
  <1>1. HoldersIn(A, R, o) \in SUBSET Objs
    BY DEF HoldersIn
  <1>2. IsFiniteSet(HoldersIn(A, R, o))
    BY <1>1, FS_Subset
  <1>3. HoldersIn(A, R, o) = {} <=> \A x \in A : o \notin R[x]
    BY DEF HoldersIn
  <1> QED
    BY <1>2, <1>3, FS_CardinalityType, FS_EmptySet

(* One holder comes or goes.                                               *)
LEMMA HolderComes ==
  ASSUME NEW A \in SUBSET Objs, NEW R \in [Objs -> SUBSET Objs], NEW o,
         NEW G, NEW a, a \notin HoldersIn(A, R, o), G = HoldersIn(A, R, o) \cup {a}
  PROVE  Cardinality(G) = Cardinality(HoldersIn(A, R, o)) + 1
  BY HoldersCount, FS_AddElement

LEMMA HolderGoes ==
  ASSUME NEW A \in SUBSET Objs, NEW R \in [Objs -> SUBSET Objs], NEW o,
         NEW G, NEW a \in HoldersIn(A, R, o), G = HoldersIn(A, R, o) \ {a}
  PROVE  Cardinality(G) = Cardinality(HoldersIn(A, R, o)) - 1
  <1>1. IsFiniteSet(HoldersIn(A, R, o))
    BY HoldersCount
  <1> QED
    BY <1>1, FS_RemoveElement

(* What the counts of a heap say.                                          *)
LEMMA HeapCounts ==
  ASSUME NEW A, NEW R, NEW E, NEW r, NEW D, NEW K, NEW F, Heap(A, R, E, r, D, K, F),
         NEW o \in A
  PROVE  /\ Cardinality(HoldersIn(A, R, o)) \in Nat
         /\ E[o] \in Nat /\ r[o] \in Nat
         /\ r[o] = E[o] + Cardinality(HoldersIn(A, R, o)) + In(o, K) + In(o, F)
         /\ \A x \in A : o \in R[x] => Cardinality(HoldersIn(A, R, o)) > 0
         /\ E[o] > 0 \/ (\E x \in A : o \in R[x]) => r[o] > 0 /\ (o \in D => o \in F)
         /\ r[o] = 0 => E[o] = 0 /\ \A x \in A : o \notin R[x]
  <1>1. /\ A \in SUBSET Objs /\ R \in [Objs -> SUBSET Objs]
        /\ E[o] \in Nat /\ r[o] \in Nat
        /\ r[o] = E[o] + Cardinality(HoldersIn(A, R, o)) + In(o, K) + In(o, F)
        /\ \A x \in D \ F : r[x] = 0
    BY DEF Heap
  <1>2. In(o, K) \in Nat /\ In(o, F) \in Nat
    BY DEF In
  <1>3. /\ Cardinality(HoldersIn(A, R, o)) \in Nat
        /\ Cardinality(HoldersIn(A, R, o)) = 0 <=> \A x \in A : o \notin R[x]
    BY <1>1, HoldersCount
  <1>4. r[o] = 0 => E[o] = 0 /\ Cardinality(HoldersIn(A, R, o)) = 0
    BY <1>1, <1>2, <1>3
  <1>5. \A x \in A : o \in R[x] => Cardinality(HoldersIn(A, R, o)) > 0
    BY <1>3
  <1> QED
    BY <1>1, <1>3, <1>4, <1>5

-----------------------------------------------------------------------------
(* What can be done to a heap.                                             *)

(* An external reference is taken to x, or given up.                       *)
LEMMA TakeExternal ==
  ASSUME NEW A, NEW R, NEW E, NEW r, NEW D, NEW K, NEW F, Heap(A, R, E, r, D, K, F),
         NEW x \in A, E[x] < MaxExt, x \in D => x \in F
  PROVE  Heap(A, R, [E EXCEPT ![x] = @ + 1], Plus(r, {x}), D, K, F)
  <1>1. \A o \in A : /\ Cardinality(HoldersIn(A, R, o)) \in Nat
                     /\ In(o, K) \in Nat /\ In(o, F) \in Nat
    BY HeapCounts DEF In
  <1> QED
    BY <1>1 DEF Heap, Plus

LEMMA GiveExternal ==
  ASSUME NEW A, NEW R, NEW E, NEW r, NEW D, NEW K, NEW F, Heap(A, R, E, r, D, K, F),
         NEW x \in Objs, E[x] > 0, NEW Z, Z = {o \in {x} : r[o] = 1}
  PROVE  Heap(A, R, [E EXCEPT ![x] = @ - 1], Minus(r, {x}), D \cup Z, K, F)
  <1>1. \A o \in A : /\ Cardinality(HoldersIn(A, R, o)) \in Nat
                     /\ In(o, K) \in Nat /\ In(o, F) \in Nat
    BY HeapCounts DEF In
  <1>2. x \in A /\ r[x] > 0 /\ (x \in D => x \in F) /\ E[x] \in Nat
    <2>1. x \in A
      BY DEF Heap
    <2> QED
      BY <2>1, HeapCounts
  <1>3. x \in Z => x \notin K /\ x \notin D
    BY <1>1, <1>2 DEF Heap, In
  <1>4. D \cup Z \subseteq A /\ K \subseteq A \ (D \cup Z)
    BY <1>2, <1>3 DEF Heap
  <1>5. \A o \in (D \cup Z) \ F : Minus(r, {x})[o] = 0
    BY <1>2 DEF Heap, Minus
  <1>6. Minus(r, {x}) \in [Objs -> Nat]
    BY <1>2 DEF Heap, Minus
  <1>7. \A o \in A : Minus(r, {x})[o] = [E EXCEPT ![x] = @ - 1][o] + Cardinality(HoldersIn(A, R, o))
                                         + In(o, K) + In(o, F)
    BY <1>1, <1>2 DEF Heap, Minus
  <1>8. /\ [E EXCEPT ![x] = @ - 1] \in [Objs -> 0..MaxExt]
        /\ \A o \in Objs : [E EXCEPT ![x] = @ - 1][o] > 0 => o \in A
    BY <1>2 DEF Heap
  <1>9. F \subseteq D \cup Z
    BY DEF Heap
  <1> QED
    BY <1>4, <1>5, <1>6, <1>7, <1>8, <1>9 DEF Heap

(* a gets the member b.                                                    *)
LEMMA TakeMember ==
  ASSUME NEW A, NEW R, NEW E, NEW r, NEW D, NEW K, NEW F, Heap(A, R, E, r, D, K, F),
         NEW a \in A, NEW b \in A, b \notin R[a], b \in D => b \in F
  PROVE  Heap(A, [R EXCEPT ![a] = @ \cup {b}], E, Plus(r, {b}), D, K, F)
  <1> DEFINE Q == [R EXCEPT ![a] = @ \cup {b}]
  <1>1. \A o \in A : /\ Cardinality(HoldersIn(A, R, o)) \in Nat
                     /\ In(o, K) \in Nat /\ In(o, F) \in Nat
    BY HeapCounts DEF In
  <1>2. A \in SUBSET Objs /\ R \in [Objs -> SUBSET Objs] /\ Q \in [Objs -> SUBSET Objs]
    BY DEF Heap
  <1>3. a \notin HoldersIn(A, R, b) /\ HoldersIn(A, Q, b) = HoldersIn(A, R, b) \cup {a}
    BY <1>2 DEF HoldersIn
  <1>4. Cardinality(HoldersIn(A, Q, b)) = Cardinality(HoldersIn(A, R, b)) + 1
    BY <1>2, <1>3, HolderComes
  <1>5. \A o \in A \ {b} : HoldersIn(A, Q, o) = HoldersIn(A, R, o)
    BY <1>2 DEF HoldersIn
  <1>6. /\ \A o \in A : Q[o] \subseteq A
        /\ \A o \in Objs \ A : Q[o] = {}
    BY <1>2 DEF Heap
  <1> HIDE DEF Q
  <1>7. \A o \in A : Plus(r, {b})[o] = E[o] + Cardinality(HoldersIn(A, Q, o)) + In(o, K) + In(o, F)
    BY <1>1, <1>4, <1>5 DEF Heap, Plus
  <1>8. Plus(r, {b}) \in [Objs -> Nat] /\ \A o \in D \ F : Plus(r, {b})[o] = 0
    BY DEF Heap, Plus
  <1> QED
    BY <1>2, <1>6, <1>7, <1>8 DEF Heap, Q

(* a gives up the members S, in full or raw.                               *)
LEMMA GiveMembers ==
  ASSUME NEW A, NEW R, NEW E, NEW r, NEW D, NEW K, NEW F, Heap(A, R, E, r, D, K, F),
         NEW a \in A, NEW S \in SUBSET R[a], NEW Z, Z = {} \/ Z = {o \in S : r[o] = 1}
  PROVE  Heap(A, [R EXCEPT ![a] = @ \ S], E, Minus(r, S), D \cup Z, K, F)
  <1> DEFINE Q == [R EXCEPT ![a] = @ \ S]
  <1>1. \A o \in A : /\ Cardinality(HoldersIn(A, R, o)) \in Nat
                     /\ E[o] \in Nat /\ In(o, K) \in Nat /\ In(o, F) \in Nat
    BY HeapCounts DEF In
  <1>2. A \in SUBSET Objs /\ R \in [Objs -> SUBSET Objs] /\ Q \in [Objs -> SUBSET Objs]
    BY DEF Heap
  <1>3. S \subseteq A /\ \A o \in S : r[o] > 0 /\ (o \in D => o \in F)
                                     /\ Cardinality(HoldersIn(A, R, o)) > 0
    <2>1. S \subseteq A
      BY DEF Heap
    <2> QED
      BY <2>1, HeapCounts
  <1>4. \A o \in S : /\ a \in HoldersIn(A, R, o)
                     /\ HoldersIn(A, Q, o) = HoldersIn(A, R, o) \ {a}
    BY <1>2 DEF HoldersIn
  <1>5. ASSUME NEW o \in S
        PROVE  Cardinality(HoldersIn(A, Q, o)) = Cardinality(HoldersIn(A, R, o)) - 1
    <2> HIDE DEF Q
    <2>1. a \in HoldersIn(A, R, o) /\ HoldersIn(A, Q, o) = HoldersIn(A, R, o) \ {a}
      BY <1>4
    <2> QED
      BY <1>2, <2>1, HolderGoes
  <1>6. \A o \in A \ S : HoldersIn(A, Q, o) = HoldersIn(A, R, o)
    BY <1>2 DEF HoldersIn
  <1>7. /\ \A o \in A : Q[o] \subseteq A
        /\ \A o \in Objs \ A : Q[o] = {}
    BY <1>2 DEF Heap
  <1> HIDE DEF Q
  <1>8. \A o \in A : Minus(r, S)[o] = E[o] + Cardinality(HoldersIn(A, Q, o)) + In(o, K) + In(o, F)
    BY <1>1, <1>3, <1>5, <1>6 DEF Heap, Minus
  <1>9. \A o \in Z : o \in S /\ r[o] = 1 /\ o \notin K /\ o \notin D
    <2> SUFFICES ASSUME NEW o \in S, r[o] = 1 PROVE o \notin K /\ o \notin F
      BY <1>3
    <2>1. r[o] = E[o] + Cardinality(HoldersIn(A, R, o)) + In(o, K) + In(o, F)
      BY <1>3 DEF Heap
    <2>2. In(o, K) = 0 /\ In(o, F) = 0
      BY <2>1, <1>1, <1>3
    <2> QED
      BY <2>2 DEF In
  <1>10. /\ Minus(r, S) \in [Objs -> Nat]
         /\ \A o \in (D \cup Z) \ F : Minus(r, S)[o] = 0
    BY <1>3, <1>9 DEF Heap, Minus
  <1>11. D \cup Z \subseteq A /\ F \subseteq D \cup Z /\ K \subseteq A \ (D \cup Z)
    BY <1>3, <1>9 DEF Heap
  <1> QED
    BY <1>2, <1>7, <1>8, <1>10, <1>11 DEF Heap, Q

(* o is made, with an external reference or as a member of a.              *)
LEMMA MakeExternal ==
  ASSUME NEW A, NEW R, NEW E, NEW r, NEW D, NEW K, NEW F, Heap(A, R, E, r, D, K, F),
         NEW o \in Objs \ A, MaxExt > 0
  PROVE  Heap(A \cup {o}, R, [E EXCEPT ![o] = 1], [r EXCEPT ![o] = 1], D, K, F)
  <1> DEFINE B == A \cup {o}
             e == [E EXCEPT ![o] = 1]
             q == [r EXCEPT ![o] = 1]
  <1>1. A \in SUBSET Objs /\ B \in SUBSET Objs /\ R \in [Objs -> SUBSET Objs]
    BY DEF Heap
  <1>2. R[o] = {} /\ (\A x \in A : o \notin R[x]) /\ o \notin K /\ o \notin F /\ o \notin D
    BY DEF Heap
  <1>3. HoldersIn(B, R, o) = {} /\ \A x \in A : HoldersIn(B, R, x) = HoldersIn(A, R, x)
    BY <1>2 DEF HoldersIn
  <1>4. q[o] = e[o] + Cardinality(HoldersIn(B, R, o)) + In(o, K) + In(o, F)
    <2>1. q[o] = 1 /\ e[o] = 1
      BY DEF Heap
    <2>2. In(o, K) = 0 /\ In(o, F) = 0
      BY <1>2 DEF In
    <2>3. Cardinality(HoldersIn(B, R, o)) = 0
      BY <1>3, FS_EmptySet
    <2> QED
      BY <2>1, <2>2, <2>3
  <1>5. \A x \in A : q[x] = e[x] + Cardinality(HoldersIn(B, R, x)) + In(x, K) + In(x, F)
    BY <1>3 DEF Heap
  <1>6. e \in [Objs -> 0..MaxExt] /\ q \in [Objs -> Nat]
    BY DEF Heap
  <1> QED
    BY <1>1, <1>2, <1>4, <1>5, <1>6 DEF Heap

LEMMA MakeMember ==
  ASSUME NEW A, NEW R, NEW E, NEW r, NEW D, NEW K, NEW F, Heap(A, R, E, r, D, K, F),
         NEW a \in A, NEW o \in Objs \ A
  PROVE  Heap(A \cup {o}, [R EXCEPT ![a] = @ \cup {o}], E, [r EXCEPT ![o] = 1], D, K, F)
  <1> DEFINE B == A \cup {o}
             Q == [R EXCEPT ![a] = @ \cup {o}]
             q == [r EXCEPT ![o] = 1]
  <1>1. A \in SUBSET Objs /\ B \in SUBSET Objs /\ R \in [Objs -> SUBSET Objs]
        /\ Q \in [Objs -> SUBSET Objs]
    BY DEF Heap
  <1>2. /\ R[o] = {} /\ (\A x \in A : o \notin R[x]) /\ E[o] = 0
        /\ o \notin K /\ o \notin F /\ o \notin D
    BY DEF Heap
  <1>3. HoldersIn(B, Q, o) = {a}
    BY <1>1, <1>2 DEF HoldersIn
  <1>4. \A x \in A : HoldersIn(B, Q, x) = HoldersIn(A, R, x)
    BY <1>1, <1>2 DEF HoldersIn
  <1>5. q[o] = E[o] + Cardinality(HoldersIn(B, Q, o)) + In(o, K) + In(o, F)
    <2>1. q[o] = 1 /\ E[o] = 0
      BY <1>2 DEF Heap
    <2>2. In(o, K) = 0 /\ In(o, F) = 0
      BY <1>2 DEF In
    <2>3. Cardinality(HoldersIn(B, Q, o)) = 1
      BY <1>3, FS_Singleton
    <2> HIDE DEF Q, q, B
    <2> QED
      BY <2>1, <2>2, <2>3
  <1>6. \A x \in A : q[x] = E[x] + Cardinality(HoldersIn(B, Q, x)) + In(x, K) + In(x, F)
    BY <1>4 DEF Heap
  <1>7. q \in [Objs -> Nat] /\ \A x \in D \ F : q[x] = 0
    BY <1>2 DEF Heap
  <1>8. (\A x \in B : Q[x] \subseteq B) /\ \A x \in Objs \ B : Q[x] = {}
    BY <1>1, <1>2 DEF Heap
  <1> HIDE DEF q, Q
  <1>9. \A x \in B : q[x] = E[x] + Cardinality(HoldersIn(B, Q, x)) + In(x, K) + In(x, F)
    BY <1>5, <1>6
  <1>10. /\ D \subseteq B /\ F \subseteq D /\ K \subseteq B \ D
         /\ E \in [Objs -> 0..MaxExt] /\ \A x \in Objs : E[x] > 0 => x \in B
    BY DEF Heap
  <1>11. Heap(B, Q, E, q, D, K, F)
    BY <1>1, <1>7, <1>8, <1>9, <1>10 DEF Heap
  <1> QED
    BY <1>11 DEF q, Q

(* tp_dealloc of o holds it around the finalizer, and lets go of it when   *)
(* that took a reference.                                                  *)
LEMMA HoldDying ==
  ASSUME NEW A, NEW R, NEW E, NEW r, NEW D, NEW K, NEW F, Heap(A, R, E, r, D, K, F),
         NEW o \in D \ F
  PROVE  Heap(A, R, E, [r EXCEPT ![o] = 1], D, K, F \cup {o})
  <1>1. \A x \in A : /\ Cardinality(HoldersIn(A, R, x)) \in Nat
                     /\ E[x] \in Nat /\ In(x, K) \in Nat /\ In(x, F) \in Nat
    BY HeapCounts DEF In
  <1>2. o \in A /\ r[o] = 0 /\ In(o, F) = 0 /\ In(o, F \cup {o}) = 1
    BY DEF Heap, In
  <1>3. \A x \in A \ {o} : In(x, F \cup {o}) = In(x, F)
    BY DEF In
  <1> DEFINE q == [r EXCEPT ![o] = 1]
  <1>4. q[o] = 1 /\ (\A x \in A \ {o} : q[x] = r[x]) /\ q \in [Objs -> Nat]
    BY <1>2 DEF Heap
  <1> HIDE DEF q
  <1>5. \A x \in A : r[x] = E[x] + Cardinality(HoldersIn(A, R, x)) + In(x, K) + In(x, F)
    BY DEF Heap
  <1>6. \A x \in A : q[x] = E[x] + Cardinality(HoldersIn(A, R, x)) + In(x, K) + In(x, F \cup {o})
    <2> TAKE x \in A
    <2>1. CASE x = o
      BY <2>1, <1>1, <1>2, <1>4, <1>5
    <2>2. CASE x # o
      <3>1. x \in A \ {o}
        BY <2>2
      <3> QED
        BY <3>1, <1>3, <1>4, <1>5
    <2> QED
      BY <2>1, <2>2
  <1>7. Heap(A, R, E, q, D, K, F \cup {o})
    BY <1>4, <1>6 DEF Heap
  <1> QED
    BY <1>7 DEF q

LEMMA LetGo ==
  ASSUME NEW A, NEW R, NEW E, NEW r, NEW D, NEW K, NEW F, Heap(A, R, E, r, D, K, F),
         NEW o \in F, r[o] > 1
  PROVE  Heap(A, R, E, [r EXCEPT ![o] = @ - 1], D \ {o}, K, F \ {o})
  <1>1. \A x \in A : /\ Cardinality(HoldersIn(A, R, x)) \in Nat
                     /\ E[x] \in Nat /\ In(x, K) \in Nat /\ In(x, F) \in Nat
    BY HeapCounts DEF In
  <1>2. o \in A /\ In(o, F) = 1 /\ In(o, F \ {o}) = 0
    BY DEF Heap, In
  <1>3. \A x \in A \ {o} : In(x, F \ {o}) = In(x, F)
    BY DEF In
  <1> DEFINE q == [r EXCEPT ![o] = @ - 1]
  <1>4. q[o] = r[o] - 1 /\ (\A x \in A \ {o} : q[x] = r[x]) /\ q \in [Objs -> Nat]
    BY <1>2 DEF Heap
  <1>5. \A x \in D \ F : q[x] = 0
    BY DEF Heap
  <1> HIDE DEF q
  <1>6. \A x \in A : r[x] = E[x] + Cardinality(HoldersIn(A, R, x)) + In(x, K) + In(x, F)
    BY DEF Heap
  <1>7. \A x \in A : q[x] = E[x] + Cardinality(HoldersIn(A, R, x)) + In(x, K) + In(x, F \ {o})
    <2> TAKE x \in A
    <2>1. CASE x = o
      BY <2>1, <1>1, <1>2, <1>4, <1>6
    <2>2. CASE x # o
      <3>1. x \in A \ {o}
        BY <2>2
      <3> QED
        BY <3>1, <1>3, <1>4, <1>6
    <2> QED
      BY <2>1, <2>2
  <1>8. Heap(A, R, E, q, D \ {o}, K, F \ {o})
    BY <1>4, <1>5, <1>7 DEF Heap
  <1> QED
    BY <1>8 DEF q

(* An object that is being deallocated and was not resurrected has no      *)
(* reference from outside and no holder, and is freed.                     *)
LEMMA Unreferenced ==
  ASSUME NEW A, NEW R, NEW E, NEW r, NEW D, NEW K, NEW F, Heap(A, R, E, r, D, K, F),
         NEW o \in D, o \in F => r[o] <= 1
  PROVE  /\ o \in A /\ E[o] = 0 /\ o \notin K
         /\ \A x \in A : o \notin R[x]
  <1>1. o \in A /\ o \notin K /\ (o \notin F => r[o] = 0)
    BY DEF Heap
  <1>2. /\ Cardinality(HoldersIn(A, R, o)) \in Nat /\ E[o] \in Nat
        /\ r[o] = E[o] + Cardinality(HoldersIn(A, R, o)) + In(o, K) + In(o, F)
        /\ \A x \in A : o \in R[x] => Cardinality(HoldersIn(A, R, o)) > 0
    BY <1>1, HeapCounts
  <1>3. In(o, K) = 0 /\ (o \in F => In(o, F) = 1) /\ (o \notin F => In(o, F) = 0)
    BY <1>1 DEF In
  <1>4. E[o] = 0 /\ Cardinality(HoldersIn(A, R, o)) = 0
    <2>1. CASE o \in F
      BY <2>1, <1>2, <1>3
    <2>2. CASE o \notin F
      BY <2>2, <1>1, <1>2, <1>3
    <2> QED
      BY <2>1, <2>2
  <1> QED
    BY <1>1, <1>2, <1>4

LEMMA FreeDying ==
  ASSUME NEW A, NEW R, NEW E, NEW r, NEW D, NEW K, NEW F, Heap(A, R, E, r, D, K, F),
         NEW o \in D, o \in F => r[o] <= 1,
         NEW Z, Z = {} \/ Z = {x \in R[o] : r[x] = 1}
  PROVE  Heap(A \ {o}, [R EXCEPT ![o] = {}], E, [Minus(r, R[o]) EXCEPT ![o] = 0],
              (D \cup Z) \ {o}, K, F \ {o})
  <1> DEFINE B == A \ {o}
             P == [R EXCEPT ![o] = @ \ R[o]]
             Q == [R EXCEPT ![o] = {}]
             m == Minus(r, R[o])
             q == [m EXCEPT ![o] = 0]
  <1>1. /\ o \in A /\ E[o] = 0 /\ o \notin K /\ o \notin R[o]
        /\ \A x \in A : o \notin R[x]
    BY Unreferenced
  <1>2. Heap(A, P, E, m, D \cup Z, K, F)
    BY <1>1, GiveMembers
  <1>3. P = Q
    BY DEF Heap
  <1>4. Heap(A, Q, E, m, D \cup Z, K, F)
    BY <1>2, <1>3
  <1>5. /\ Q[o] = {} /\ (\A x \in A : o \notin Q[x])
        /\ q[o] = 0 /\ (\A x \in A \ {o} : q[x] = m[x]) /\ q \in [Objs -> Nat]
        /\ \A x \in (D \cup Z) \ F : q[x] = 0
    BY <1>1, <1>4 DEF Heap
  <1> HIDE DEF q, Q, m
  <1>6. \A x \in B : HoldersIn(B, Q, x) = HoldersIn(A, Q, x) /\ In(x, F \ {o}) = In(x, F)
    BY <1>5 DEF HoldersIn, In
  <1>7. \A x \in B : q[x] = E[x] + Cardinality(HoldersIn(B, Q, x)) + In(x, K) + In(x, F \ {o})
    BY <1>4, <1>5, <1>6 DEF Heap
  <1>8. /\ B \subseteq Objs /\ Q \in [Objs -> SUBSET Objs] /\ E \in [Objs -> 0..MaxExt]
        /\ (D \cup Z) \ {o} \subseteq B /\ F \ {o} \subseteq (D \cup Z) \ {o}
        /\ K \subseteq B \ ((D \cup Z) \ {o})
        /\ \A x \in ((D \cup Z) \ {o}) \ (F \ {o}) : q[x] = 0
    BY <1>1, <1>4, <1>5 DEF Heap
  <1>9. /\ \A x \in Objs : E[x] > 0 => x \in B
        /\ \A x \in B : Q[x] \subseteq B
        /\ \A x \in Objs \ B : Q[x] = {}
    BY <1>1, <1>4, <1>5 DEF Heap
  <1>10. Heap(B, Q, E, q, (D \cup Z) \ {o}, K, F \ {o})
    BY <1>5, <1>7, <1>8, <1>9 DEF Heap
  <1> QED
    BY <1>10 DEF q, Q, m

(* The collector shields the objects G, takes the shield away from all, or *)
(* from one.                                                               *)
LEMMA PutShield ==
  ASSUME NEW A, NEW R, NEW E, NEW r, NEW F, Heap(A, R, E, r, {}, {}, F), NEW G \in SUBSET A
  PROVE  Heap(A, R, E, Plus(r, G), {}, G, F)
  <1>1. \A x \in A : /\ Cardinality(HoldersIn(A, R, x)) \in Nat
                     /\ E[x] \in Nat /\ In(x, G) \in Nat /\ In(x, F) \in Nat
                     /\ In(x, {}) = 0
    BY HeapCounts DEF In
  <1>2. \A x \in A : Plus(r, G)[x] = r[x] + In(x, G)
    BY DEF Heap, Plus, In
  <1>3. \A x \in A : r[x] = E[x] + Cardinality(HoldersIn(A, R, x)) + In(x, {}) + In(x, F)
    BY DEF Heap
  <1>4. \A x \in A : Plus(r, G)[x] = E[x] + Cardinality(HoldersIn(A, R, x)) + In(x, G) + In(x, F)
    BY <1>1, <1>2, <1>3
  <1>5. Plus(r, G) \in [Objs -> Nat]
    BY DEF Heap, Plus
  <1> QED
    BY <1>4, <1>5 DEF Heap

LEMMA TakeShield ==
  ASSUME NEW A, NEW R, NEW E, NEW r, NEW K, NEW F, Heap(A, R, E, r, {}, K, F)
  PROVE  Heap(A, R, E, Minus(r, K), {}, {}, F)
  <1>1. \A x \in A : /\ Cardinality(HoldersIn(A, R, x)) \in Nat
                     /\ E[x] \in Nat /\ In(x, K) \in Nat /\ In(x, F) \in Nat
                     /\ In(x, {}) = 0
    BY HeapCounts DEF In
  <1>2. \A x \in A : Minus(r, K)[x] = r[x] - In(x, K)
    BY DEF Heap, Minus, In
  <1>3. \A x \in A : r[x] = E[x] + Cardinality(HoldersIn(A, R, x)) + In(x, K) + In(x, F)
    BY DEF Heap
  <1>4. \A x \in A : Minus(r, K)[x] = E[x] + Cardinality(HoldersIn(A, R, x)) + In(x, {}) + In(x, F)
    BY <1>1, <1>2, <1>3
  <1>5. \A x \in K : x \in A /\ r[x] > 0
    <2>1. \A x \in K : x \in A /\ In(x, K) = 1
      BY DEF Heap, In
    <2> QED
      BY <2>1, <1>1, <1>3
  <1>6. Minus(r, K) \in [Objs -> Nat]
    BY <1>5 DEF Heap, Minus
  <1> QED
    BY <1>4, <1>6 DEF Heap

LEMMA DropShield ==
  ASSUME NEW A, NEW R, NEW E, NEW r, NEW D, NEW K, NEW F, Heap(A, R, E, r, D, K, F),
         NEW o \in K, NEW Z, Z = {x \in {o} : r[x] = 1}
  PROVE  Heap(A, R, E, Minus(r, {o}), D \cup Z, K \ {o}, F)
  <1>1. \A x \in A : /\ Cardinality(HoldersIn(A, R, x)) \in Nat
                     /\ E[x] \in Nat /\ In(x, K) \in Nat /\ In(x, F) \in Nat
    BY HeapCounts DEF In
  <1>2. o \in A /\ o \notin D /\ o \notin F /\ In(o, K) = 1 /\ In(o, K \ {o}) = 0
    BY DEF Heap, In
  <1>3. \A x \in A \ {o} : In(x, K \ {o}) = In(x, K)
    BY DEF In
  <1>4. \A x \in A : r[x] = E[x] + Cardinality(HoldersIn(A, R, x)) + In(x, K) + In(x, F)
    BY DEF Heap
  <1> DEFINE q == Minus(r, {o})
  <1>5. q[o] = r[o] - 1 /\ \A x \in Objs \ {o} : q[x] = r[x]
    BY <1>2 DEF Heap, Minus
  <1>6. r[o] > 0
    BY <1>1, <1>2, <1>4
  <1>7. q \in [Objs -> Nat] /\ \A x \in (D \cup Z) \ F : q[x] = 0
    BY <1>2, <1>6 DEF Heap, Minus
  <1> HIDE DEF q
  <1>8. \A x \in A : q[x] = E[x] + Cardinality(HoldersIn(A, R, x)) + In(x, K \ {o}) + In(x, F)
    <2> TAKE x \in A
    <2>1. CASE x = o
      BY <2>1, <1>1, <1>2, <1>4, <1>5
    <2>2. CASE x # o
      <3>1. x \in Objs \ {o} /\ x \in A \ {o}
        BY <2>2 DEF Heap
      <3> QED
        BY <3>1, <1>3, <1>4, <1>5
    <2> QED
      BY <2>1, <2>2
  <1>9. D \cup Z \subseteq A /\ F \subseteq D \cup Z /\ K \ {o} \subseteq A \ (D \cup Z)
    BY <1>2 DEF Heap
  <1>10. Heap(A, R, E, q, D \cup Z, K \ {o}, F)
    BY <1>7, <1>8, <1>9 DEF Heap
  <1> QED
    BY <1>10 DEF q

-----------------------------------------------------------------------------
(* What a finalizer does.                                                  *)

(* It leaves the counts of a heap exact.                                   *)
LEMMA EffectHeap ==
  ASSUME NEW r, NEW K, NEW F, NEW o \in alive, o \in dying => o \in F,
         Heap(alive, refs, ext, r, dying, K, F), tracked \subseteq alive, Effect(o, r)
  PROVE  /\ Heap(alive', refs', ext', refcnt', dying', K, F)
         /\ alive \subseteq alive' /\ tracked' \subseteq alive'
  <1>1. o \in Objs /\ refs[o] \subseteq alive /\ o \notin Objs \ alive
    BY DEF Heap
  <1>2. ASSUME NEW x \in {o} \cup refs[o] PROVE x \in alive /\ (x \in dying => x \in F)
    <2>1. CASE x = o
      BY <2>1
    <2>2. CASE x \in refs[o]
      <3>1. x \in alive
        BY <2>2, <1>1
      <3> QED
        BY <2>2, <3>1, HeapCounts
    <2> QED
      BY <2>1, <2>2
  <1>3. CASE refcnt' = r /\ UNCHANGED <<alive, refs, ext, tracked, dying>>
    BY <1>3
  <1>4. ASSUME NEW x \in {o} \cup refs[o], ext[x] < MaxExt, ext' = [ext EXCEPT ![x] = @ + 1],
               refcnt' = Plus(r, {x}), UNCHANGED <<alive, refs, tracked, dying>>
        PROVE  Heap(alive', refs', ext', refcnt', dying', K, F)
    BY <1>2, <1>4, TakeExternal
  <1>5. ASSUME NEW g \in Objs, ext[g] > 0, o \notin refs[g],
               refs' = [refs EXCEPT ![g] = @ \cup {o}],
               refcnt' = Plus(r, {o}), UNCHANGED <<alive, ext, tracked, dying>>
        PROVE  Heap(alive', refs', ext', refcnt', dying', K, F)
    <2>1. g \in alive
      BY <1>5 DEF Heap
    <2> QED
      BY <1>5, <2>1, TakeMember
  <1>6. ASSUME NEW x \in refs[o], refs' = [refs EXCEPT ![o] = @ \ {x}],
               GiveUp(r, {x}, o \in Cascades), UNCHANGED <<alive, ext, tracked>>
        PROVE  Heap(alive', refs', ext', refcnt', dying', K, F)
    <2> DEFINE Z == IF o \in Cascades THEN {p \in {x} : r[p] = 1} ELSE {}
    <2>1. refcnt' = Minus(r, {x}) /\ dying' = dying \cup Z
      BY <1>6 DEF GiveUp
    <2>2. {x} \in SUBSET refs[o] /\ (Z = {} \/ Z = {p \in {x} : r[p] = 1})
      OBVIOUS
    <2> HIDE DEF Z
    <2>3. Heap(alive, [refs EXCEPT ![o] = @ \ {x}], ext, Minus(r, {x}), dying \cup Z, K, F)
      BY <2>2, GiveMembers
    <2> QED
      BY <1>6, <2>1, <2>3
  <1>7. ASSUME NEW x \in Objs, Allocate(x, r), refs' = [refs EXCEPT ![o] = @ \cup {x}],
               UNCHANGED <<ext, dying>>
        PROVE  /\ Heap(alive', refs', ext', refcnt', dying', K, F)
               /\ alive \subseteq alive' /\ tracked' \subseteq alive'
    <2>1. /\ x \in Objs \ alive /\ alive' = alive \cup {x} /\ tracked' = tracked \cup {x}
          /\ refcnt' = [r EXCEPT ![x] = 1]
      BY <1>7 DEF Allocate
    <2> QED
      BY <1>7, <2>1, MakeMember
  <1>8. ASSUME NEW x \in Objs, ext[x] > 0, ext' = [ext EXCEPT ![x] = @ - 1],
               GiveUp(r, {x}, TRUE), UNCHANGED <<alive, refs, tracked>>
        PROVE  Heap(alive', refs', ext', refcnt', dying', K, F)
    <2>1. refcnt' = Minus(r, {x}) /\ dying' = dying \cup {p \in {x} : r[p] = 1}
      BY <1>8 DEF GiveUp
    <2> QED
      BY <1>8, <2>1, GiveExternal
  <1> QED
    BY <1>3, <1>4, <1>5, <1>6, <1>7, <1>8 DEF Effect

(* It cannot come to what is cut off from its object.                      *)
LEMMA EffectCutOff ==
  ASSUME NEW r, NEW o \in alive, NEW U \in SUBSET alive, o \notin U,
         CutOff(alive, refs, ext, U), Effect(o, r),
         refs \in [Objs -> SUBSET Objs], ext \in [Objs -> 0..MaxExt],
         \A x \in Objs \ alive : refs[x] = {}, alive \subseteq Objs
  PROVE  /\ CutOff(alive', refs', ext', U)
         /\ \A u \in U : refs'[u] = refs[u]
  <1> USE DEF CutOff
  <1>1. CASE refcnt' = r /\ UNCHANGED <<alive, refs, ext, tracked, dying>>
    BY <1>1
  <1>2. ASSUME NEW x \in {o} \cup refs[o], ext' = [ext EXCEPT ![x] = @ + 1],
               UNCHANGED <<alive, refs>>
        PROVE  CutOff(alive', refs', ext', U) /\ \A u \in U : refs'[u] = refs[u]
    <2>1. x \notin U
      OBVIOUS
    <2>2. \A u \in U : ext'[u] = ext[u]
      BY <1>2, <2>1
    <2> QED
      BY <1>2, <2>2
  <1>3. ASSUME NEW g \in Objs, ext[g] > 0, refs' = [refs EXCEPT ![g] = @ \cup {o}],
               UNCHANGED <<alive, ext>>
        PROVE  CutOff(alive', refs', ext', U) /\ \A u \in U : refs'[u] = refs[u]
    <2>1. g \notin U
      BY <1>3
    <2> QED
      BY <1>3, <2>1
  <1>4. ASSUME NEW x \in refs[o], refs' = [refs EXCEPT ![o] = @ \ {x}], UNCHANGED <<alive, ext>>
        PROVE  CutOff(alive', refs', ext', U) /\ \A u \in U : refs'[u] = refs[u]
    BY <1>4
  <1>5. ASSUME NEW x \in Objs, Allocate(x, r), refs' = [refs EXCEPT ![o] = @ \cup {x}],
               UNCHANGED ext
        PROVE  CutOff(alive', refs', ext', U) /\ \A u \in U : refs'[u] = refs[u]
    <2>1. x \notin alive /\ alive' = alive \cup {x}
      BY <1>5 DEF Allocate
    <2> QED
      BY <1>5, <2>1
  <1>6. ASSUME NEW x \in Objs, ext[x] > 0, ext' = [ext EXCEPT ![x] = @ - 1],
               UNCHANGED <<alive, refs>>
        PROVE  CutOff(alive', refs', ext', U) /\ \A u \in U : refs'[u] = refs[u]
    <2>1. x \notin U
      BY <1>6
    <2>2. \A u \in U : ext'[u] = ext[u]
      BY <1>6, <2>1
    <2> QED
      BY <1>6, <2>2
  <1> HIDE DEF CutOff
  <1> QED
    BY <1>1, <1>2, <1>3, <1>4, <1>5, <1>6 DEF Effect

-----------------------------------------------------------------------------
(* The invariant.                                                          *)

LEMMA InitGcInv == Init => GcInv
  <1> SUFFICES ASSUME Init PROVE GcInv
    OBVIOUS
  <1>1. TypeOK
    BY DEF Init, TypeOK
  <1>2. HeapInv
    BY DEF Init, HeapInv, Heap, Shielded
  <1> QED
    BY <1>1, <1>2 DEF Init, GcInv, ClearCutOff, DropsAll

(* What the program does while the collector does not run.                 *)
LEMMA ProgramInv ==
  ASSUME GcInv, Running, UNCHANGED <<marked, finalized, phase, snapshot, unreachable, todo>>,
         alive \subseteq alive', tracked' \subseteq alive',
         Heap(alive', refs', ext', refcnt', dying', {}, finalized)
  PROVE  GcInv'
  <1>1. phase' = "idle" /\ Shielded' = {} /\ finalized' = finalized /\ unreachable' = {}
    BY DEF GcInv, Running, Shielded
  <1>2. TypeOK'
    BY <1>1 DEF GcInv, TypeOK, Heap
  <1>3. HeapInv'
    BY <1>1 DEF HeapInv
  <1> QED
    BY <1>1, <1>2, <1>3 DEF GcInv, ClearCutOff, DropsAll

LEMMA IdleHeap ==
  ASSUME GcInv, Running
  PROVE  /\ Heap(alive, refs, ext, refcnt, dying, {}, finalized)
         /\ Heap(alive, refs, ext, refcnt, {}, {}, {})
         /\ dying = {} /\ finalized = {} /\ tracked \subseteq alive /\ phase = "idle"
  <1>1. dying = {} /\ finalized = {} /\ Shielded = {} /\ phase = "idle" /\ tracked \subseteq alive
    BY DEF GcInv, Running, TypeOK, Shielded
  <1> QED
    BY <1>1 DEF GcInv, HeapInv

-----------------------------------------------------------------------------
(* The scans.                                                              *)

(* Reached is the least set that is closed and has the roots.              *)
LEMMA ReachedLeast ==
  ASSUME NEW from \in SUBSET Objs, NEW m
  PROVE  /\ from \subseteq Reached(from, m) /\ Reached(from, m) \subseteq Objs
         /\ Closed(Objs, m) => Closed(Reached(from, m), m)
         /\ \A S \in SUBSET Objs : from \subseteq S /\ Closed(S, m) => Reached(from, m) \subseteq S
  BY DEF Reached, Closed

LEMMA LiveLeast ==
  ASSUME NEW from \in SUBSET Objs, refs \in [Objs -> SUBSET Objs]
  PROVE  /\ from \subseteq ReachFrom(from)
         /\ \A x \in ReachFrom(from) : refs[x] \subseteq ReachFrom(from)
         /\ \A S \in SUBSET Objs : from \subseteq S /\ (\A x \in S : refs[x] \subseteq S)
                                  => ReachFrom(from) \subseteq S
  BY DEF ReachFrom

(* A root is held from outside the scan: by the program, or by an object.  *)
LEMMA RootHeld ==
  ASSUME NEW r, Heap(alive, refs, ext, r, {}, {}, {}), NEW S \in SUBSET alive, NEW o \in S
  PROVE  /\ GcRefs(r, S, o) \in Int
         /\ GcRefs(r, S, o) > 0 <=> ext[o] > 0 \/ \E x \in alive \ S : o \in refs[x]
  <1> DEFINE H == HoldersIn(alive, refs, o)
             I == HoldersIn(S, refs, o)
  <1>1. alive \in SUBSET Objs /\ S \in SUBSET Objs /\ refs \in [Objs -> SUBSET Objs] /\ o \in alive
    BY DEF Heap
  <1>2. IsFiniteSet(H) /\ Cardinality(H) \in Nat /\ Cardinality(I) \in Nat
    BY <1>1, HoldersCount
  <1>3. I \in SUBSET H /\ (I = H <=> \A x \in alive \ S : o \notin refs[x])
    BY DEF HoldersIn
  <1>4. Cardinality(I) <= Cardinality(H) /\ (Cardinality(H) = Cardinality(I) <=> I = H)
    BY <1>2, <1>3, FS_Subset
  <1>5. ext[o] \in Nat /\ r[o] = ext[o] + Cardinality(H) + In(o, {}) + In(o, {})
    BY <1>1, HeapCounts
  <1>6. In(o, {}) = 0
    BY DEF In
  <1>7. GcRefs(r, S, o) = r[o] - Cardinality(I)
    BY DEF GcRefs, HoldersIn
  <1> HIDE DEF H, I
  <1> QED
    BY <1>2, <1>3, <1>4, <1>5, <1>6, <1>7

(* What a scan does not reach is cut off from the rest of the heap.        *)
LEMMA GarbageCutOff ==
  ASSUME NEW r, Heap(alive, refs, ext, r, {}, {}, {}), tracked \subseteq alive,
         NEW S \in SUBSET tracked, NEW m, m \cap S = {}
  PROVE  /\ CutOff(alive, refs, ext, S \ Reached(GcRoots(r, S), m))
         /\ Reached(GcRoots(r, S), m) \subseteq alive
  <1> DEFINE R == Reached(GcRoots(r, S), m)
  <1>1. alive \in SUBSET Objs /\ S \in SUBSET alive /\ refs \in [Objs -> SUBSET Objs]
        /\ ext \in [Objs -> 0..MaxExt]
    BY DEF Heap
  <1>2. GcRoots(r, S) \subseteq S /\ GcRoots(r, S) \in SUBSET Objs
    BY <1>1 DEF GcRoots
  <1>3. Closed(alive, m) /\ Closed(Objs, m)
    BY <1>1 DEF Closed
  <1>4. GcRoots(r, S) \subseteq R /\ Closed(R, m) /\ R \subseteq alive
    BY <1>1, <1>2, <1>3, ReachedLeast
  <1>5. ASSUME NEW u \in S \ R
        PROVE  ext[u] = 0 /\ \A x \in alive \ (S \ R) : u \notin refs[x]
    <2>1. GcRefs(r, S, u) \in Int /\ ~(GcRefs(r, S, u) > 0)
      BY <1>1, <1>4, <1>5, RootHeld DEF GcRoots
    <2>2. ~(ext[u] > 0) /\ \A x \in alive \ S : u \notin refs[x]
      BY <1>1, <2>1, RootHeld
    <2>3. u \in tracked \ m
      BY <1>5
    <2>4. \A x \in R : u \notin refs[x]
      BY <1>4, <1>5, <2>3 DEF Closed
    <2>5. ext[u] \in 0..MaxExt
      BY <1>1, <1>5
    <2> QED
      BY <2>2, <2>4, <2>5
  <1> QED
    BY <1>4, <1>5 DEF CutOff

(* The steps that are left when the garbage g is known keep the invariant. *)
LEMMA DisposeInv ==
  ASSUME TypeOK, NEW r, Heap(alive, refs, ext, r, {}, {}, {}), dying = {}, finalized = {},
         NEW g \in SUBSET tracked, NEW S, NEW m \in SUBSET alive, CutOff(alive, refs, ext, g),
         Dispose(g, r, S, m), UNCHANGED <<alive, refs, ext, dying, finalized>>,
         g # {} => snapshot' \subseteq Objs /\ g \subseteq snapshot'
  PROVE  GcInv' /\ unreachable' = g
  <1> USE DEF Dispose
  <1>1. CASE g = {}
    <2>1. /\ phase' = "idle" /\ snapshot' = {} /\ refcnt' = r /\ marked' = m \ S
          /\ tracked' = tracked /\ unreachable' = {} /\ todo' = {}
      BY <1>1
    <2>2. TypeOK'
      BY <2>1 DEF TypeOK, Heap
    <2>3. HeapInv'
      BY <2>1 DEF HeapInv, Shielded
    <2> QED
      BY <1>1, <2>1, <2>2, <2>3 DEF GcInv, ClearCutOff, DropsAll
  <1>2. CASE g # {}
    <2>1. /\ phase' = "clear" /\ refcnt' = Plus(r, g) /\ marked' = m
          /\ tracked' = tracked \ g /\ unreachable' = g /\ todo' = g
      BY <1>2
    <2>2. Heap(alive, refs, ext, Plus(r, g), {}, g, {})
      BY PutShield DEF TypeOK
    <2>3. TypeOK'
      BY <1>2, <2>1, <2>2 DEF TypeOK, Heap
    <2>4. HeapInv'
      BY <2>1, <2>2 DEF HeapInv, Shielded
    <2>5. ClearCutOff'
      BY <2>1 DEF ClearCutOff, CutOff
    <2> QED
      BY <1>2, <2>1, <2>3, <2>4, <2>5 DEF GcInv, DropsAll
  <1> QED
    BY <1>1, <1>2

-----------------------------------------------------------------------------
(* Each action keeps the invariant.                                        *)

LEMMA CollectInv == ASSUME GcInv, Collect PROVE GcInv'
  <1> DEFINE S == tracked \ Dynamic
             m == marked \ S
             R == Reached(GcRoots(refcnt, S), m)
             g == S \ R
  <1>1. /\ Running
        /\ IF g \cap Finalizes # {}
           THEN /\ phase' = "finalize"
                /\ refcnt' = Plus(refcnt, g)
                /\ marked' = m \cup R
                /\ snapshot' = S /\ unreachable' = g /\ todo' = g \cap Finalizes
                /\ UNCHANGED tracked
           ELSE /\ Dispose(g, refcnt, S, m \cup R)
                /\ g # {} => snapshot' = S
        /\ UNCHANGED <<alive, refs, ext, dying, finalized>>
    BY DEF Collect
  <1>2. /\ Heap(alive, refs, ext, refcnt, {}, {}, {})
        /\ dying = {} /\ finalized = {} /\ tracked \subseteq alive
    BY <1>1, IdleHeap
  <1>3. TypeOK /\ marked \subseteq alive /\ alive \subseteq Objs
    BY DEF GcInv, TypeOK
  <1>4. S \in SUBSET tracked /\ m \cap S = {}
    OBVIOUS
  <1> HIDE DEF S, m
  <1>5. CutOff(alive, refs, ext, g) /\ R \subseteq alive
    BY <1>2, <1>4, GarbageCutOff
  <1>6. m \cup R \in SUBSET alive /\ g \in SUBSET tracked /\ g \subseteq S /\ S \subseteq Objs
    BY <1>2, <1>3, <1>4, <1>5 DEF m
  <1> HIDE DEF g, R
  <1>7. CASE g \cap Finalizes # {}
    <2>1. Heap(alive, refs, ext, Plus(refcnt, g), {}, g, {})
      BY <1>2, <1>6, PutShield
    <2>2. TypeOK'
      BY <1>1, <1>2, <1>3, <1>6, <1>7, <2>1 DEF TypeOK, Heap
    <2>3. HeapInv'
      BY <1>1, <1>2, <1>7, <2>1 DEF HeapInv, Shielded
    <2> QED
      BY <1>1, <1>2, <1>7, <2>2, <2>3 DEF GcInv, ClearCutOff, DropsAll
  <1>8. CASE g \cap Finalizes = {}
    <2>1. Dispose(g, refcnt, S, m \cup R) /\ (g # {} => snapshot' \subseteq Objs /\ g \subseteq snapshot')
      BY <1>1, <1>6, <1>8
    <2> QED
      BY <1>1, <1>2, <1>3, <1>5, <1>6, <2>1, DisposeInv
  <1> QED
    BY <1>7, <1>8

LEMMA EndFinalizeInv == ASSUME GcInv, EndFinalize PROVE GcInv'
  <1> DEFINE r == Minus(refcnt, unreachable)
             S == snapshot \cap tracked
             m == marked \ S
             R == Reached(GcRoots(r, S), m)
             g == S \ R
  <1>1. /\ phase = "finalize" /\ dying = {}
        /\ Dispose(g, r, S, m \cup R)
        /\ g # {} => UNCHANGED snapshot
        /\ UNCHANGED <<alive, refs, ext, dying, finalized>>
    BY DEF EndFinalize
  <1>2. TypeOK /\ tracked \subseteq alive /\ marked \subseteq alive /\ snapshot \subseteq Objs
    BY DEF GcInv, TypeOK
  <1>3. finalized = {} /\ Shielded = unreachable
    BY <1>1 DEF GcInv, TypeOK, Shielded
  <1>4. Heap(alive, refs, ext, refcnt, {}, unreachable, {})
    BY <1>1, <1>3 DEF GcInv, HeapInv
  <1>5. Heap(alive, refs, ext, r, {}, {}, {})
    BY <1>4, TakeShield
  <1>6. S \in SUBSET tracked /\ m \cap S = {} /\ S \subseteq snapshot
    OBVIOUS
  <1> HIDE DEF S, m, r
  <1>7. CutOff(alive, refs, ext, g) /\ R \subseteq alive
    BY <1>2, <1>5, <1>6, GarbageCutOff
  <1>8. /\ m \cup R \in SUBSET alive /\ g \in SUBSET tracked
        /\ g # {} => snapshot' \subseteq Objs /\ g \subseteq snapshot'
    BY <1>1, <1>2, <1>6, <1>7 DEF m
  <1> HIDE DEF g, R
  <1> QED
    BY <1>1, <1>2, <1>3, <1>5, <1>7, <1>8, DisposeInv

LEMMA CallFinalizerInv == ASSUME GcInv, NEW o \in Objs, CallFinalizer(o) PROVE GcInv'
  <1>1. /\ o \in dying /\ o \in Finalizes /\ o \notin finalized
        /\ Effect(o, [refcnt EXCEPT ![o] = 1])
        /\ finalized' = finalized \cup {o}
        /\ UNCHANGED <<marked, phase, snapshot, unreachable, todo>>
    BY DEF CallFinalizer
  <1>2. /\ Heap(alive, refs, ext, refcnt, dying, Shielded, finalized) /\ Shielded' = Shielded
        /\ tracked \subseteq alive /\ o \in alive
    BY <1>1 DEF GcInv, HeapInv, TypeOK, Shielded
  <1>3. Heap(alive, refs, ext, [refcnt EXCEPT ![o] = 1], dying, Shielded, finalized \cup {o})
    BY <1>1, <1>2, HoldDying
  <1>4. /\ Heap(alive', refs', ext', refcnt', dying', Shielded, finalized \cup {o})
        /\ alive \subseteq alive' /\ tracked' \subseteq alive'
    BY <1>1, <1>2, <1>3, EffectHeap
  <1>5. HeapInv'
    BY <1>1, <1>2, <1>4 DEF HeapInv
  <1>6. TypeOK'
    BY <1>1, <1>4 DEF GcInv, TypeOK, Heap
  <1>7. ClearCutOff'
    <2>1. CASE phase = "clear"
      <3>1. unreachable \in SUBSET alive /\ o \notin unreachable
        BY <1>1, <1>2, <2>1 DEF Shielded, Heap
      <3>2. /\ CutOff(alive', refs', ext', unreachable)
            /\ \A u \in unreachable : refs'[u] = refs[u]
        BY <1>1, <1>2, <2>1, <3>1, EffectCutOff DEF GcInv, ClearCutOff, Heap
      <3> QED
        BY <1>1, <2>1, <3>2 DEF GcInv, ClearCutOff
    <2> QED
      BY <1>1, <2>1 DEF ClearCutOff
  <1>8. DropsAll'
    BY <1>1 DEF GcInv, DropsAll
  <1> QED
    BY <1>1, <1>5, <1>6, <1>7, <1>8 DEF GcInv

LEMMA SurviveInv == ASSUME GcInv, NEW o \in Objs, Survive(o) PROVE GcInv'
  <1>1. /\ o \in dying /\ o \in finalized /\ refcnt[o] > 1
        /\ refcnt' = [refcnt EXCEPT ![o] = @ - 1]
        /\ dying' = dying \ {o} /\ finalized' = finalized \ {o}
        /\ UNCHANGED <<alive, refs, ext, tracked, marked, phase, snapshot, unreachable, todo>>
    BY DEF Survive, Resurrected
  <1>2. Heap(alive, refs, ext, refcnt, dying, Shielded, finalized) /\ Shielded' = Shielded
    BY <1>1 DEF GcInv, HeapInv, Shielded
  <1>3. Heap(alive, refs, ext, refcnt', dying', Shielded, finalized')
    BY <1>1, <1>2, LetGo
  <1>4. HeapInv'
    BY <1>1, <1>2, <1>3 DEF HeapInv
  <1>5. TypeOK'
    BY <1>1, <1>3 DEF GcInv, TypeOK, Heap
  <1>6. ClearCutOff'
    BY <1>1 DEF GcInv, ClearCutOff, CutOff
  <1>7. DropsAll'
    BY <1>1 DEF GcInv, DropsAll
  <1> QED
    BY <1>1, <1>4, <1>5, <1>6, <1>7 DEF GcInv

LEMMA FreeInv == ASSUME GcInv, NEW o \in Objs, Free(o) PROVE GcInv'
  <1> DEFINE Z == IF o \in Cascades THEN {x \in refs[o] : refcnt[x] = 1} ELSE {}
  <1>1. /\ o \in dying /\ ~(o \in finalized /\ refcnt[o] > 1)
        /\ alive' = alive \ {o} /\ tracked' = tracked \ {o} /\ marked' = marked \ {o}
        /\ refs' = [refs EXCEPT ![o] = {}]
        /\ refcnt' = [Minus(refcnt, refs[o]) EXCEPT ![o] = 0]
        /\ dying' = (dying \cup Z) \ {o} /\ finalized' = finalized \ {o}
        /\ UNCHANGED <<ext, phase, snapshot, unreachable, todo>>
    BY DEF Free, Resurrected
  <1>2. Z = {} \/ Z = {x \in refs[o] : refcnt[x] = 1}
    OBVIOUS
  <1>3. Z \subseteq refs[o]
    OBVIOUS
  <1> HIDE DEF Z
  <1>4. /\ Heap(alive, refs, ext, refcnt, dying, Shielded, finalized) /\ Shielded' = Shielded
        /\ o \in finalized => refcnt[o] <= 1
    BY <1>1 DEF GcInv, HeapInv, TypeOK, Shielded
  <1>5. Heap(alive', refs', ext, refcnt', dying', Shielded, finalized')
    BY <1>1, <1>2, <1>4, FreeDying
  <1>6. HeapInv'
    BY <1>1, <1>4, <1>5 DEF HeapInv
  <1>7. TypeOK'
    BY <1>1, <1>5 DEF GcInv, TypeOK, Heap
  <1>8. ClearCutOff'
    <2>1. phase = "clear" => o \notin unreachable
      BY <1>1, <1>4 DEF Heap, Shielded
    <2> QED
      BY <1>1, <1>4, <2>1 DEF GcInv, ClearCutOff, CutOff, Heap
  <1>9. DropsAll'
    BY <1>1, <1>3, <1>4 DEF GcInv, DropsAll, Heap
  <1> QED
    BY <1>1, <1>6, <1>7, <1>8, <1>9 DEF GcInv

LEMMA FinalizeOneInv == ASSUME GcInv, NEW o \in Objs, FinalizeOne(o) PROVE GcInv'
  <1>1. /\ phase = "finalize" /\ dying = {} /\ o \in todo /\ todo' = todo \ {o}
        /\ Effect(o, refcnt)
        /\ UNCHANGED <<marked, finalized, phase, snapshot, unreachable>>
    BY DEF FinalizeOne
  <1>2. /\ Heap(alive, refs, ext, refcnt, dying, Shielded, finalized)
        /\ Shielded = unreachable /\ Shielded' = unreachable
        /\ tracked \subseteq alive /\ finalized = {}
    BY <1>1 DEF GcInv, HeapInv, TypeOK, Shielded
  <1>3. o \in alive
    BY <1>1, <1>2 DEF GcInv, TypeOK, Heap
  <1>4. /\ Heap(alive', refs', ext', refcnt', dying', Shielded, finalized)
        /\ alive \subseteq alive' /\ tracked' \subseteq alive'
    BY <1>1, <1>2, <1>3, EffectHeap
  <1>5. HeapInv'
    BY <1>1, <1>2, <1>4 DEF HeapInv
  <1>6. TypeOK'
    BY <1>1, <1>4 DEF GcInv, TypeOK, Heap
  <1> QED
    BY <1>1, <1>5, <1>6 DEF GcInv, ClearCutOff, DropsAll

LEMMA ClearOneInv == ASSUME GcInv, NEW o \in Objs, ClearOne(o) PROVE GcInv'
  <1>1. /\ phase = "clear" /\ dying = {} /\ o \in todo /\ todo' = todo \ {o}
        /\ IF o \in Clears
           THEN refs' = [refs EXCEPT ![o] = {}] /\ GiveUp(refcnt, refs[o], o \in Cascades)
           ELSE UNCHANGED <<refs, refcnt, dying>>
        /\ UNCHANGED <<alive, ext, tracked, marked, finalized, phase, snapshot, unreachable>>
    BY DEF ClearOne
  <1>2. /\ Heap(alive, refs, ext, refcnt, dying, Shielded, finalized)
        /\ Shielded = unreachable /\ Shielded' = unreachable
    BY <1>1 DEF GcInv, HeapInv, Shielded
  <1>3. o \in unreachable /\ o \in alive
    BY <1>1, <1>2 DEF GcInv, TypeOK, Heap
  <1>4. Heap(alive', refs', ext', refcnt', dying', Shielded, finalized)
    <2>1. CASE o \in Clears
      <3> DEFINE Z == IF o \in Cascades THEN {p \in refs[o] : refcnt[p] = 1} ELSE {}
      <3>1. refcnt' = Minus(refcnt, refs[o]) /\ dying' = dying \cup Z
        BY <1>1, <2>1 DEF GiveUp
      <3>2. refs[o] \in SUBSET refs[o] /\ (Z = {} \/ Z = {p \in refs[o] : refcnt[p] = 1})
        OBVIOUS
      <3> HIDE DEF Z
      <3>3. Heap(alive, [refs EXCEPT ![o] = @ \ refs[o]], ext, Minus(refcnt, refs[o]),
                 dying \cup Z, Shielded, finalized)
        BY <1>2, <1>3, <3>2, GiveMembers
      <3>4. refs' = [refs EXCEPT ![o] = @ \ refs[o]]
        BY <1>1, <1>2, <2>1 DEF Heap
      <3> QED
        BY <1>1, <3>1, <3>3, <3>4
    <2>2. CASE o \notin Clears
      BY <1>1, <1>2, <2>2
    <2> QED
      BY <2>1, <2>2
  <1>5. HeapInv'
    BY <1>1, <1>2, <1>4 DEF HeapInv
  <1>6. TypeOK'
    BY <1>1, <1>4 DEF GcInv, TypeOK, Heap
  <1>7. \A x \in Objs : refs'[x] \subseteq refs[x] /\ (x = o /\ x \in Clears => refs'[x] = {})
    BY <1>1, <1>2 DEF Heap
  <1>8. ClearCutOff'
    <2>1. alive \subseteq Objs /\ unreachable \subseteq alive
      BY <1>2 DEF Heap
    <2>2. CutOff(alive, refs, ext, unreachable)
      BY <1>1 DEF GcInv, ClearCutOff
    <2>3. CutOff(alive', refs', ext', unreachable')
      BY <1>1, <1>7, <2>1, <2>2 DEF CutOff
    <2>4. \A u \in (unreachable \cap Clears) \ todo' : refs'[u] = {}
      BY <1>1, <1>7, <2>1 DEF GcInv, ClearCutOff
    <2> QED
      BY <1>1, <2>3, <2>4 DEF ClearCutOff
  <1> QED
    BY <1>1, <1>5, <1>6, <1>8 DEF GcInv, DropsAll

LEMMA EndClearInv == ASSUME GcInv, EndClear PROVE GcInv'
  <1>1. /\ phase = "clear" /\ dying = {} /\ todo = {} /\ phase' = "drop" /\ todo' = unreachable
        /\ UNCHANGED <<alive, refs, ext, refcnt, tracked, dying>>
        /\ UNCHANGED <<marked, finalized, snapshot, unreachable>>
    BY DEF EndClear, heap
  <1>2. HeapInv'
    BY <1>1 DEF GcInv, HeapInv, Shielded
  <1>3. TypeOK'
    BY <1>1 DEF GcInv, TypeOK
  <1>4. DropsAll'
    BY <1>1 DEF GcInv, ClearCutOff, CutOff, DropsAll
  <1> QED
    BY <1>1, <1>2, <1>3, <1>4 DEF GcInv, ClearCutOff

LEMMA DropOneInv == ASSUME GcInv, NEW o \in Objs, DropOne(o) PROVE GcInv'
  <1> DEFINE Z == {x \in {o} : refcnt[x] = 1}
  <1>1. /\ phase = "drop" /\ dying = {} /\ o \in todo /\ todo' = todo \ {o}
        /\ refcnt' = Minus(refcnt, {o}) /\ dying' = dying \cup Z
        /\ UNCHANGED <<alive, refs, ext, tracked, marked, finalized, phase, snapshot, unreachable>>
    BY DEF DropOne, GiveUp
  <1>2. /\ Heap(alive, refs, ext, refcnt, dying, Shielded, finalized)
        /\ Shielded = todo /\ Shielded' = todo \ {o} /\ finalized = {}
    BY <1>1 DEF GcInv, HeapInv, TypeOK, Shielded
  <1>3. Heap(alive, refs, ext, Minus(refcnt, {o}), dying \cup Z, todo \ {o}, finalized)
    BY <1>1, <1>2, DropShield
  <1>4. HeapInv'
    BY <1>1, <1>2, <1>3 DEF HeapInv
  <1>5. TypeOK'
    BY <1>1, <1>3 DEF GcInv, TypeOK, Heap
  <1>6. DropsAll'
    <2> SUFFICES ASSUME unreachable \subseteq Clears \ Finalizes
                 PROVE  /\ dying' \subseteq unreachable
                        /\ \A u \in unreachable : u = o => u \in dying'
      BY <1>1 DEF GcInv, DropsAll
    <2>1. o \in unreachable /\ ext[o] = 0 /\ \A x \in alive : o \notin refs[x]
      BY <1>1 DEF GcInv, TypeOK, DropsAll
    <2>2. /\ o \in alive /\ alive \in SUBSET Objs /\ refs \in [Objs -> SUBSET Objs]
          /\ In(o, todo) = 1 /\ In(o, finalized) = 0
      BY <1>1, <1>2 DEF Heap, In
    <2>3. Cardinality(HoldersIn(alive, refs, o)) = 0
      BY <2>1, <2>2, HoldersCount
    <2>4. refcnt[o] = 1
      BY <1>2, <2>1, <2>2, <2>3, HeapCounts
    <2> QED
      BY <1>1, <2>1, <2>4
  <1> QED
    BY <1>1, <1>4, <1>5, <1>6 DEF GcInv, ClearCutOff

LEMMA EndCollectInv == ASSUME GcInv, EndCollect PROVE GcInv'
  <1>1. /\ phase = "drop" /\ todo = {} /\ phase' = "idle" /\ marked' = marked \ tracked
        /\ snapshot' = {} /\ unreachable' = {}
        /\ UNCHANGED <<alive, refs, ext, refcnt, tracked, dying, finalized, todo>>
    BY DEF EndCollect, heap
  <1>2. HeapInv'
    BY <1>1 DEF GcInv, HeapInv, Shielded
  <1>3. TypeOK'
    BY <1>1 DEF GcInv, TypeOK
  <1> QED
    BY <1>1, <1>2, <1>3 DEF GcInv, ClearCutOff, DropsAll

(* What the program does is one of the changes above.                      *)
LEMMA ProgramStepInv ==
  ASSUME GcInv, NEW o \in Objs, NEW p \in Objs,
         \/ New(o) \/ Drop(o) \/ Track(o) \/ UnTrack(o)
         \/ Store(o, p) \/ Read(o, p) \/ Delete(o, p)
  PROVE  GcInv'
  <1>1. Running
    BY DEF New, Drop, Track, UnTrack, Store, Read, Delete
  <1>2. /\ Heap(alive, refs, ext, refcnt, dying, {}, finalized)
        /\ dying = {} /\ tracked \subseteq alive
        /\ \A x \in Objs : ext[x] > 0 => x \in alive
    BY <1>1, IdleHeap DEF Heap
  <1> SUFFICES /\ UNCHANGED <<marked, finalized, phase, snapshot, unreachable, todo>>
               /\ alive \subseteq alive' /\ tracked' \subseteq alive'
               /\ Heap(alive', refs', ext', refcnt', dying', {}, finalized)
    BY <1>1, ProgramInv
  <1>3. CASE New(o)
    <2>1. o \in Objs \ alive
      BY <1>3 DEF New, Allocate
    <2> QED
      BY <1>2, <1>3, <2>1, MakeExternal DEF New, Allocate
  <1>4. CASE Store(o, p)
    <2>1. o \in alive /\ p \in alive /\ p \notin dying
      BY <1>2, <1>4 DEF Store
    <2> QED
      BY <1>2, <1>4, <2>1, TakeMember DEF Store
  <1>5. CASE Read(o, p)
    <2>1. p \in alive /\ p \notin dying
      BY <1>2, <1>5 DEF Read, Heap
    <2> QED
      BY <1>2, <1>5, <2>1, TakeExternal DEF Read
  <1>6. CASE Delete(o, p)
    <2> DEFINE Z == IF o \in Cascades THEN {x \in {p} : refcnt[x] = 1} ELSE {}
    <2>1. /\ refs' = [refs EXCEPT ![o] = @ \ {p}] /\ refcnt' = Minus(refcnt, {p})
          /\ dying' = dying \cup Z /\ o \in alive /\ {p} \in SUBSET refs[o]
      BY <1>2, <1>6 DEF Delete, GiveUp
    <2>2. Z = {} \/ Z = {x \in {p} : refcnt[x] = 1}
      OBVIOUS
    <2> HIDE DEF Z
    <2>3. Heap(alive, [refs EXCEPT ![o] = @ \ {p}], ext, Minus(refcnt, {p}), dying \cup Z, {}, finalized)
      BY <1>2, <2>1, <2>2, GiveMembers
    <2> QED
      BY <1>2, <1>6, <2>1, <2>3 DEF Delete
  <1>7. CASE Drop(o)
    <2>1. refcnt' = Minus(refcnt, {o}) /\ dying' = dying \cup {x \in {o} : refcnt[x] = 1}
      BY <1>7 DEF Drop, GiveUp
    <2> QED
      BY <1>2, <1>7, <2>1, GiveExternal DEF Drop
  <1>8. CASE Track(o)
    BY <1>2, <1>8 DEF Track
  <1>9. CASE UnTrack(o)
    BY <1>2, <1>9 DEF UnTrack
  <1> QED
    BY <1>3, <1>4, <1>5, <1>6, <1>7, <1>8, <1>9

LEMMA NextGcInv == GcInv /\ [Next]_vars => GcInv'
  <1> SUFFICES ASSUME GcInv, [Next]_vars PROVE GcInv'
    OBVIOUS
  <1>1. CASE UNCHANGED vars
    <2>1. UNCHANGED <<alive, refs, ext, refcnt, tracked, marked, dying, finalized, phase,
                      snapshot, unreachable, todo>>
      BY <1>1 DEF vars
    <2>2. TypeOK' /\ HeapInv'
      BY <2>1 DEF GcInv, TypeOK, HeapInv, Shielded
    <2>3. ClearCutOff' /\ DropsAll'
      BY <2>1 DEF GcInv, ClearCutOff, DropsAll
    <2> QED
      BY <2>1, <2>2, <2>3 DEF GcInv
  <1>2. CASE Collect \/ EndFinalize \/ EndClear \/ EndCollect
    BY <1>2, CollectInv, EndFinalizeInv, EndClearInv, EndCollectInv
  <1>3. ASSUME NEW o \in Objs,
               \/ CallFinalizer(o) \/ Survive(o) \/ Free(o)
               \/ FinalizeOne(o) \/ ClearOne(o) \/ DropOne(o)
        PROVE  GcInv'
    BY <1>3, CallFinalizerInv, SurviveInv, FreeInv, FinalizeOneInv, ClearOneInv, DropOneInv
  <1>4. ASSUME NEW o \in Objs, New(o) \/ Drop(o) \/ Track(o) \/ UnTrack(o)
        PROVE  GcInv'
    BY <1>4, ProgramStepInv
  <1>5. ASSUME NEW o \in Objs, NEW p \in Objs, Store(o, p) \/ Read(o, p) \/ Delete(o, p)
        PROVE  GcInv'
    BY <1>5, ProgramStepInv
  <1> QED
    BY <1>1, <1>2, <1>3, <1>4, <1>5 DEF Next

LEMMA GcInvariant == Spec => []GcInv
  <1> QED
    BY InitGcInv, NextGcInv, PTL DEF Spec

-----------------------------------------------------------------------------
(* Theorems.                                                               *)

(* The variables keep their types; in particular no count is negative.     *)
THEOREM GcTyped == Spec => []TypeOK
  <1>1. GcInv => TypeOK
    BY DEF GcInv
  <1> QED
    BY <1>1, GcInvariant, PTL

(* ob_refcnt is the number of references there are, the shield of          *)
(* gc_collect_impl and the one around tp_finalize included.                *)
THEOREM CountsStayExact == Spec => []RefcountExact
  <1>1. ASSUME GcInv PROVE RefcountExact
    <2> SUFFICES ASSUME NEW o \in alive
                 PROVE  refcnt[o] = ext[o] + Holders(o) + Shield(o) + (IF o \in finalized THEN 1 ELSE 0)
      BY DEF RefcountExact
    <2>1. refcnt[o] = ext[o] + Cardinality(HoldersIn(alive, refs, o)) + In(o, Shielded) + In(o, finalized)
      BY <1>1 DEF GcInv, HeapInv, Heap
    <2>2. Holders(o) = Cardinality(HoldersIn(alive, refs, o))
      BY DEF Holders, HoldersIn
    <2>3. Shield(o) = In(o, Shielded)
      BY DEF Shield, In, Shielded
    <2> QED
      BY <2>1, <2>2, <2>3 DEF In
  <1> QED
    BY <1>1, GcInvariant, PTL

(* No object refers to one that dealloc_object has freed, nor does the     *)
(* program.                                                                *)
THEOREM NothingDangles == Spec => []NoDangling
  <1>1. GcInv => NoDangling
    BY DEF GcInv, HeapInv, Heap, NoDangling
  <1> QED
    BY <1>1, GcInvariant, PTL

(* What the passes of gc_collect_impl still have to visit is alive.        *)
THEOREM ShieldKeeps == Spec => []ShieldHolds
  <1>1. GcInv => ShieldHolds
    BY DEF GcInv, HeapInv, Heap, Shielded, ShieldHolds
  <1> QED
    BY <1>1, GcInvariant, PTL

(* The program cannot reach what is cut off from an object it holds.       *)
LEMMA LiveAvoids ==
  ASSUME GcInv, NEW U \in SUBSET Objs, CutOff(alive, refs, ext, U)
  PROVE  Live \cap U = {}
  <1> DEFINE from == {o \in Objs : ext[o] > 0}
             W == Objs \ U
  <1>1. refs \in [Objs -> SUBSET Objs] /\ \A x \in Objs \ alive : refs[x] = {}
    BY DEF GcInv, HeapInv, Heap
  <1>2. from \subseteq W
    BY DEF CutOff
  <1>3. \A x \in W : refs[x] \subseteq W
    BY <1>1 DEF CutOff
  <1>4. from \in SUBSET Objs /\ W \in SUBSET Objs
    OBVIOUS
  <1>5. Live = ReachFrom(from) /\ W \cap U = {}
    BY DEF Live
  <1> HIDE DEF from, W
  <1>6. ReachFrom(from) \subseteq W
    BY <1>2, <1>3, <1>4 DEF ReachFrom
  <1> QED
    BY <1>5, <1>6

(* The garbage of a scan is cut off; what is not is as it was.             *)
LEMMA ScanInvisible ==
  ASSUME GcInv, Collect \/ EndFinalize
  PROVE  /\ UNCHANGED <<alive, refs, ext>>
         /\ \E g \in SUBSET alive : /\ CutOff(alive, refs, ext, g)
                                    /\ tracked' = tracked \/ tracked' = tracked \ g
  <1>1. tracked \subseteq alive /\ dying = {} => finalized = {}
    BY DEF GcInv, TypeOK
  <1>2. CASE Collect
    <2> DEFINE S == tracked \ Dynamic
               m == marked \ S
               g == S \ Reached(GcRoots(refcnt, S), m)
    <2>1. /\ Running
          /\ UNCHANGED tracked \/ Dispose(g, refcnt, S, m \cup Reached(GcRoots(refcnt, S), m))
          /\ UNCHANGED <<alive, refs, ext>>
      BY <1>2 DEF Collect
    <2>2. Heap(alive, refs, ext, refcnt, {}, {}, {}) /\ tracked \subseteq alive
      BY <2>1, IdleHeap
    <2>3. S \in SUBSET tracked /\ m \cap S = {}
      OBVIOUS
    <2> HIDE DEF S, m
    <2>4. CutOff(alive, refs, ext, g) /\ g \in SUBSET alive
      BY <2>2, <2>3, GarbageCutOff
    <2>5. tracked' = tracked \/ tracked' = tracked \ g
      BY <2>1 DEF Dispose
    <2> QED
      BY <2>1, <2>4, <2>5
  <1>3. CASE EndFinalize
    <2> DEFINE r == Minus(refcnt, unreachable)
               S == snapshot \cap tracked
               m == marked \ S
               g == S \ Reached(GcRoots(r, S), m)
    <2>1. /\ phase = "finalize" /\ dying = {}
          /\ Dispose(g, r, S, m \cup Reached(GcRoots(r, S), m))
          /\ UNCHANGED <<alive, refs, ext>>
      BY <1>3 DEF EndFinalize
    <2>2. Heap(alive, refs, ext, refcnt, {}, unreachable, {}) /\ tracked \subseteq alive
      BY <2>1 DEF GcInv, HeapInv, TypeOK, Shielded
    <2>3. Heap(alive, refs, ext, r, {}, {}, {})
      BY <2>2, TakeShield
    <2>4. S \in SUBSET tracked /\ m \cap S = {}
      OBVIOUS
    <2> HIDE DEF S, m, r
    <2>5. CutOff(alive, refs, ext, g) /\ g \in SUBSET alive
      BY <2>2, <2>3, <2>4, GarbageCutOff
    <2>6. tracked' = tracked \/ tracked' = tracked \ g
      BY <2>1 DEF Dispose
    <2> QED
      BY <2>1, <2>5, <2>6
  <1> QED
    BY <1>2, <1>3

(* Whatever the heap and the finalizers, gc_collect_impl and the           *)
(* deallocations it starts free, clear and untrack nothing that the        *)
(* program can reach.                                                      *)
THEOREM CollectorInvisible == Spec => CollectionInvisible
  <1> DEFINE Same == /\ ext' = ext
                     /\ \A o \in Live : /\ o \in alive' /\ refs'[o] = refs[o]
                                        /\ o \in tracked' <=> o \in tracked
  <1>1. ASSUME GcInv, Collecting PROVE Same
    <2>1. Live \subseteq alive
      <3>1. alive \subseteq Objs /\ CutOff(alive, refs, ext, Objs \ alive)
        BY <1>1 DEF GcInv, HeapInv, Heap, CutOff
      <3> QED
        BY <1>1, <3>1, LiveAvoids DEF Live, ReachFrom
    <2>2. CASE Collect \/ EndFinalize
      <3>1. PICK g \in SUBSET alive : /\ CutOff(alive, refs, ext, g)
                                      /\ tracked' = tracked \/ tracked' = tracked \ g
        BY <1>1, <2>2, ScanInvisible
      <3>2. UNCHANGED <<alive, refs, ext>>
        BY <1>1, <2>2, ScanInvisible
      <3>3. g \in SUBSET Objs
        BY <1>1, <3>1 DEF GcInv, TypeOK
      <3>4. Live \cap g = {}
        BY <1>1, <3>1, <3>3, LiveAvoids
      <3> QED
        BY <2>1, <3>1, <3>2, <3>4
    <2>3. CASE EndClear \/ EndCollect
      BY <2>1, <2>3 DEF EndClear, EndCollect, heap
    <2>4. ASSUME NEW o \in Objs, ClearOne(o) PROVE Same
      <3>1. /\ phase = "clear" /\ o \in unreachable
            /\ refs' = refs \/ refs' = [refs EXCEPT ![o] = {}]
            /\ UNCHANGED <<alive, ext, tracked>>
        BY <1>1, <2>4 DEF ClearOne, GcInv, TypeOK
      <3>2. Live \cap unreachable = {}
        BY <1>1, <3>1, LiveAvoids DEF GcInv, ClearCutOff, TypeOK
      <3>3. \A x \in Live : refs'[x] = refs[x]
        BY <1>1, <2>1, <3>1, <3>2 DEF GcInv, TypeOK
      <3> QED
        BY <2>1, <3>1, <3>3
    <2>5. ASSUME NEW o \in Objs, DropOne(o) \/ Survive(o) PROVE Same
      BY <2>1, <2>5 DEF DropOne, Survive
    <2>6. ASSUME NEW o \in Objs, Free(o) PROVE Same
      <3>1. /\ o \in dying /\ (o \in finalized => refcnt[o] <= 1)
            /\ alive' = alive \ {o} /\ tracked' = tracked \ {o}
            /\ refs' = [refs EXCEPT ![o] = {}] /\ ext' = ext
        BY <1>1, <2>6 DEF Free, Resurrected, GcInv, TypeOK
      <3>2. /\ o \in alive /\ ext[o] = 0 /\ \A x \in alive : o \notin refs[x]
        BY <1>1, <3>1, Unreferenced DEF GcInv, HeapInv
      <3>3. CutOff(alive, refs, ext, {o})
        BY <3>2 DEF CutOff
      <3>4. o \notin Live
        BY <1>1, <3>3, LiveAvoids
      <3> QED
        BY <1>1, <2>1, <3>1, <3>4 DEF GcInv, TypeOK
    <2> QED
      BY <1>1, <2>2, <2>3, <2>4, <2>5, <2>6 DEF Collecting
  <1>2. GcInv /\ [Next]_vars
        => [Collecting => /\ ext' = ext
                          /\ \A o \in Live : /\ o \in alive' /\ refs'[o] = refs[o]
                                             /\ o \in tracked' <=> o \in tracked]_vars
    BY <1>1
  <1> QED
    BY <1>2, GcInvariant, PTL DEF Spec, CollectionInvisible

(* What a scan visits is reached from what holds it from outside.          *)
LEMMA VisitedIsHeld ==
  ASSUME NEW r, Heap(alive, refs, ext, r, {}, {}, {}), tracked \subseteq alive,
         NEW S \in SUBSET tracked, NEW m
  PROVE  Reached(GcRoots(r, S), m) \subseteq ReachFrom({x \in alive : ext[x] > 0 \/ x \notin S})
  <1> DEFINE from == {x \in alive : ext[x] > 0 \/ x \notin S}
             T == ReachFrom(from)
  <1>1. alive \in SUBSET Objs /\ S \in SUBSET alive /\ refs \in [Objs -> SUBSET Objs]
    BY DEF Heap
  <1>2. from \in SUBSET Objs /\ GcRoots(r, S) \in SUBSET Objs
    BY <1>1 DEF GcRoots
  <1>3. \A o \in GcRoots(r, S) : o \in S /\ (o \in from \/ \E x \in from : o \in refs[x])
    <2> SUFFICES ASSUME NEW o \in S, GcRefs(r, S, o) > 0
                 PROVE  o \in from \/ \E x \in from : o \in refs[x]
      BY DEF GcRoots
    <2>1. ext[o] > 0 \/ \E x \in alive \ S : o \in refs[x]
      BY <1>1, RootHeld
    <2> QED
      BY <1>1, <2>1
  <1> HIDE DEF from
  <1>4. /\ T \in SUBSET Objs /\ from \subseteq T
        /\ \A x \in T : refs[x] \subseteq T
    BY <1>1, <1>2, LiveLeast DEF ReachFrom
  <1> HIDE DEF T
  <1>5. GcRoots(r, S) \subseteq T /\ Closed(T, m)
    BY <1>3, <1>4 DEF Closed
  <1>6. Reached(GcRoots(r, S), m) \subseteq T
    BY <1>2, <1>4, <1>5, ReachedLeast
  <1> QED
    BY <1>6 DEF T, from

(* A scan takes for garbage all that neither the program nor an object     *)
(* outside the scan holds, whatever marks earlier collections have left.   *)
THEOREM ScansMissNothing == Spec => FindsAllGarbage
  <1> DEFINE Held(S) == ReachFrom({x \in alive : ext[x] > 0 \/ x \notin S})
             First == tracked \ Dynamic
             Second == snapshot \cap tracked
  <1>1. ASSUME GcInv, Collect, NEW o \in First \ unreachable' PROVE o \in Held(First)
    <2> DEFINE m == marked \ First
    <2>1. Running /\ unreachable' = First \ Reached(GcRoots(refcnt, First), m)
      BY <1>1 DEF Collect, Dispose
    <2>2. Heap(alive, refs, ext, refcnt, {}, {}, {}) /\ tracked \subseteq alive
      BY <1>1, <2>1, IdleHeap
    <2>3. First \in SUBSET tracked
      OBVIOUS
    <2> HIDE DEF First, m
    <2>4. Reached(GcRoots(refcnt, First), m) \subseteq Held(First)
      BY <2>2, <2>3, VisitedIsHeld
    <2> QED
      BY <1>1, <2>1, <2>4
  <1>2. ASSUME GcInv, EndFinalize, NEW o \in Second \ unreachable' PROVE o \in Held(Second)
    <2> DEFINE r == Minus(refcnt, unreachable)
               m == marked \ Second
    <2>1. /\ phase = "finalize" /\ dying = {}
          /\ unreachable' = Second \ Reached(GcRoots(r, Second), m)
      BY <1>2 DEF EndFinalize, Dispose
    <2>2. /\ Heap(alive, refs, ext, refcnt, {}, unreachable, {}) /\ tracked \subseteq alive
      BY <1>2, <2>1 DEF GcInv, HeapInv, TypeOK, Shielded
    <2>3. Heap(alive, refs, ext, r, {}, {}, {})
      BY <2>2, TakeShield
    <2>4. Second \in SUBSET tracked
      OBVIOUS
    <2> HIDE DEF Second, m, r
    <2>5. Reached(GcRoots(r, Second), m) \subseteq Held(Second)
      BY <2>2, <2>3, <2>4, VisitedIsHeld
    <2> QED
      BY <1>2, <2>1, <2>5
  <1>3. GcInv /\ [Next]_vars
        => [/\ Collect =>
                 \A o \in (tracked \ Dynamic) \ unreachable' :
                   o \in ReachFrom({x \in alive : ext[x] > 0 \/ x \notin tracked \ Dynamic})
            /\ EndFinalize =>
                 \A o \in (snapshot \cap tracked) \ unreachable' :
                   o \in ReachFrom({x \in alive : ext[x] > 0 \/ x \notin snapshot \cap tracked})]_vars
    BY <1>1, <1>2
  <1> QED
    BY <1>3, GcInvariant, PTL DEF Spec, FindsAllGarbage

(* A collection whose garbage all has tp_clear frees all of it.            *)
THEOREM GarbageGoes == Spec => CollectsGarbage
  <1>1. GcInv /\ [Next]_vars
        => [EndCollect /\ unreachable \subseteq Clears \ Finalizes
              => unreachable \cap alive = {}]_vars
    BY DEF GcInv, DropsAll, EndCollect
  <1> QED
    BY <1>1, GcInvariant, PTL DEF Spec, CollectsGarbage

=============================================================================
