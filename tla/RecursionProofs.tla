---------------------------- MODULE RecursionProofs ----------------------------
(***************************************************************************)
(* Recursive functions over data, without induction: a set of numbers has  *)
(* a least one, so what fails somewhere fails somewhere of least height;   *)
(* and the equations of a recursive function that looks only at lower      *)
(* arguments have a solution.                                              *)
(***************************************************************************)
EXTENDS Naturals, FiniteSetsExt, WellFoundedInduction, TLAPS

LEMMA LeastNumber ==
  ASSUME NEW S \in SUBSET Nat, S # {}
  PROVE  \E x \in S : \A y \in S : x <= y
  <1> DEFINE R == {ss \in Nat \X Nat : ss[1] < ss[2]}
  <1>1. OpToRel(<, Nat) = R
    BY Zenon DEF OpToRel
  <1>2. \E x \in S : \A y \in S : ~(<<y, x>> \in OpToRel(<, Nat))
    BY NatLessThanWellFounded, WFMin
  <1>3. PICK x \in S : \A y \in S : ~(<<y, x>> \in R)
    BY <1>1, <1>2, Zenon
  <1>4. ASSUME NEW y \in S PROVE x <= y
    <2>1. x \in Nat /\ y \in Nat /\ ~(<<y, x>> \in R)
      BY <1>3
    <2> QED BY <2>1
  <1> QED BY <1>4

LEMMA AllNumbers ==
  ASSUME NEW S \in SUBSET Nat, 0 \in S, \A n \in S : n + 1 \in S
  PROVE  S = Nat
  <1> DEFINE Bad == Nat \ S
  <1> SUFFICES ASSUME Bad # {} PROVE FALSE
    OBVIOUS
  <1>1. PICK n \in Bad : \A m \in Bad : n <= m
    BY LeastNumber
  <1>2. n \in Nat /\ n # 0 /\ n - 1 \in Nat /\ n - 1 + 1 = n /\ ~(n <= n - 1)
    BY <1>1
  <1>3. n - 1 \in S
    BY <1>1, <1>2
  <1> QED BY <1>1, <1>2, <1>3

LEMMA MinLeast ==
  ASSUME NEW S \in SUBSET Nat, S # {}
  PROVE  Min(S) \in S /\ \A y \in S : Min(S) <= y
  <1>1. \E x \in S : \A y \in S : x =< y
    BY LeastNumber
  <1> QED BY <1>1, Zenon DEF Min

LEMMA MaxGreatest ==
  ASSUME NEW S \in SUBSET Nat, S # {}, NEW B \in Nat, \A x \in S : x <= B
  PROVE  Max(S) \in S /\ \A y \in S : Max(S) >= y
  <1> DEFINE C == {B - x : x \in S}
  <1>1. C \in SUBSET Nat /\ C # {}
    <2>1. ASSUME NEW x \in S PROVE B - x \in Nat
      <3>1. x \in Nat /\ x <= B
        OBVIOUS
      <3> QED BY <3>1
    <2>2. PICK x \in S : TRUE
      OBVIOUS
    <2> QED BY <2>1, <2>2
  <1>2. PICK c \in C : \A y \in C : c <= y
    <2> HIDE DEF C
    <2> QED BY <1>1, LeastNumber
  <1>3. PICK x \in S : c = B - x
    OBVIOUS
  <1>4. ASSUME NEW y \in S PROVE x >= y
    <2>1. B - y \in C /\ x \in Nat /\ y \in Nat
      OBVIOUS
    <2> HIDE DEF C
    <2>2. c <= B - y
      BY <1>2, <2>1
    <2> QED BY <1>3, <2>1, <2>2
  <1>5. \E z \in S : \A y \in S : z >= y
    BY <1>4
  <1> QED BY <1>5, Zenon DEF Max

(* Where something fails, it fails somewhere of least height.              *)
LEMMA Lowest ==
  ASSUME NEW T, NEW h \in [T -> Nat], NEW S \in SUBSET T, S # {}
  PROVE  \E t \in S : \A u \in S : h[t] <= h[u]
  <1> DEFINE H == {h[t] : t \in S}
  <1>1. H \in SUBSET Nat /\ H # {}
    OBVIOUS
  <1>2. PICK x \in H : \A y \in H : x <= y
    <2> HIDE DEF H
    <2> QED BY <1>1, LeastNumber
  <1>3. PICK t \in S : x = h[t]
    OBVIOUS
  <1> QED BY <1>2, <1>3

(* A function whose value at t depends on its values below t exists.       *)
Solves(f, D, T) == \A t \in T : f[t] = D[<<t, f>>]

LooksBelow(D, T, X, h) ==
    \A t \in T, f, g \in [T -> X] :
        (\A u \in T : h[u] < h[t] => f[u] = g[u]) => D[<<t, f>>] = D[<<t, g>>]

(* Two functions that both do, up to some height, agree there.             *)
LEMMA OneSolution ==
  ASSUME NEW T, NEW X, NEW h \in [T -> Nat], NEW D, LooksBelow(D, T, X, h), NEW n \in Nat,
         NEW f \in [T -> X], \A t \in T : h[t] < n => f[t] = D[<<t, f>>],
         NEW g \in [T -> X], \A t \in T : h[t] < n => g[t] = D[<<t, g>>]
  PROVE  \A t \in T : h[t] < n => f[t] = g[t]
  <1> DEFINE Bad == {t \in T : h[t] < n /\ f[t] # g[t]}
  <1> SUFFICES ASSUME Bad # {} PROVE FALSE
    OBVIOUS
  <1>1. PICK t \in Bad : \A u \in Bad : h[t] <= h[u]
    BY Lowest
  <1>2. t \in T /\ h[t] \in Nat /\ h[t] < n /\ f[t] # g[t]
    OBVIOUS
  <1>3. ASSUME NEW u \in T, h[u] < h[t] PROVE f[u] = g[u]
    <2>1. h[u] \in Nat /\ ~(h[t] <= h[u]) /\ h[u] < n
      BY <1>2, <1>3
    <2> QED BY <1>1, <2>1
  <1>4. D[<<t, f>>] = D[<<t, g>>]
    BY <1>2, <1>3 DEF LooksBelow
  <1> QED BY <1>2, <1>4

LEMMA Solution ==
  ASSUME NEW T, NEW X, X # {}, NEW h \in [T -> Nat],
         NEW D \in [T \X [T -> X] -> X],
         LooksBelow(D, T, X, h)
  PROVE  \E f \in [T -> X] : Solves(f, D, T)
  <1> DEFINE Q(n) == \E f \in [T -> X] : \A t \in T : h[t] < n => f[t] = D[<<t, f>>]
             Bad == {n \in Nat : ~Q(n)}
  <1>1. Bad = {}
    <2> SUFFICES ASSUME Bad # {} PROVE FALSE
      OBVIOUS
    <2>1. PICK n \in Bad : \A m \in Bad : n <= m
      BY LeastNumber
    <2>2. Q(0)
      <3>1. PICK x \in X : TRUE
        OBVIOUS
      <3>2. [t \in T |-> x] \in [T -> X] /\ \A t \in T : ~(h[t] < 0)
        OBVIOUS
      <3> QED BY <3>2
    <2>3. n \in Nat /\ ~Q(n) /\ n - 1 \in Nat /\ Q(n - 1)
      <3> HIDE DEF Q
      <3>1. n \in Nat /\ ~Q(n) /\ \A m \in Nat : m < n => Q(m)
        BY <2>1
      <3>2. n - 1 \in Nat
        BY <2>2, <3>1
      <3> QED BY <3>1, <3>2
    <2>4. PICK f \in [T -> X] : \A t \in T : h[t] < n - 1 => f[t] = D[<<t, f>>]
      BY <2>3
    <2> DEFINE g == [t \in T |-> IF h[t] < n - 1 THEN f[t] ELSE D[<<t, f>>]]
    <2>5. g \in [T -> X]
      OBVIOUS
    <2>6. ASSUME NEW t \in T, h[t] < n PROVE g[t] = D[<<t, g>>]
      <3>1. g[t] = D[<<t, f>>]
        BY <2>4
      <3>2. \A u \in T : h[u] < h[t] => f[u] = g[u]
        BY <2>3, <2>6
      <3> HIDE DEF g
      <3> QED BY <2>5, <3>1, <3>2 DEF LooksBelow
    <2>7. Q(n)
      <3> HIDE DEF g
      <3> QED BY <2>5, <2>6
    <2> QED BY <2>3, <2>7
  <1>2. \A n \in Nat : Q(n)
    BY <1>1
  <1> DEFINE Below(f, n) == \A t \in T : h[t] < n => f[t] = D[<<t, f>>]
             part(n) == CHOOSE f \in [T -> X] : Below(f, n)
             f == [t \in T |-> part(h[t] + 1)[t]]
  <1>3. ASSUME NEW n \in Nat PROVE part(n) \in [T -> X] /\ Below(part(n), n)
    <2>1. \E g \in [T -> X] : Below(g, n)
      BY <1>2
    <2> HIDE DEF Below
    <2> QED BY <2>1
  <1> HIDE DEF part
  <1>4. f \in [T -> X]
    BY <1>3
  <1>5. ASSUME NEW t \in T PROVE f[t] = D[<<t, f>>]
    <2>1. PICK g : g = part(h[t] + 1)
      OBVIOUS
    <2>2. h[t] \in Nat /\ g \in [T -> X] /\ \A u \in T : h[u] < h[t] + 1 => g[u] = D[<<u, g>>]
      <3>1. h[t] \in Nat /\ h[t] + 1 \in Nat
        OBVIOUS
      <3>2. part(h[t] + 1) \in [T -> X] /\ Below(part(h[t] + 1), h[t] + 1)
        BY <1>3, <3>1
      <3> QED BY <2>1, <3>1, <3>2
    <2>3. f[t] = g[t] /\ g[t] = D[<<t, g>>]
      BY <2>1, <2>2
    <2>4. ASSUME NEW u \in T, h[u] < h[t] PROVE f[u] = g[u]
      <3>1. PICK k : k = part(h[u] + 1)
        OBVIOUS
      <3>2. /\ k \in [T -> X] /\ h[u] + 1 \in Nat /\ h[u] < h[u] + 1
            /\ \A v \in T : h[v] < h[u] + 1 => k[v] = D[<<v, k>>]
        <4>1. h[u] \in Nat /\ h[u] + 1 \in Nat /\ h[u] < h[u] + 1
          OBVIOUS
        <4>2. part(h[u] + 1) \in [T -> X] /\ Below(part(h[u] + 1), h[u] + 1)
          BY <1>3, <4>1
        <4> QED BY <3>1, <4>1, <4>2
      <3>3. \A v \in T : h[v] < h[u] + 1 => g[v] = D[<<v, g>>]
        <4>1. \A v \in T : h[v] < h[u] + 1 => h[v] < h[t] + 1
          BY <2>2, <2>4
        <4> QED BY <2>2, <4>1
      <3>4. k[u] = g[u]
        BY <2>2, <3>2, <3>3, OneSolution
      <3> QED BY <3>1, <3>4
    <2> HIDE DEF f
    <2>5. D[<<t, f>>] = D[<<t, g>>]
      BY <1>4, <2>2, <2>4 DEF LooksBelow
    <2> QED BY <2>3, <2>5
  <1> HIDE DEF f
  <1> QED BY <1>4, <1>5 DEF Solves
=============================================================================
