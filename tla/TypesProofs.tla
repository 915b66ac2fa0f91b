----------------------------- MODULE TypesProofs -----------------------------
(***************************************************************************)
(* Proofs about Types and about the one type whose objects have values     *)
(* here, Ints.                                                             *)
(*                                                                         *)
(* Ints, for any width of C values and of digits: integers are exact.      *)
(* ConversionsExact and ArithmeticExact are inductive with the types; the  *)
(* work is in what the operators compute.  Powers of two are known by      *)
(* their equation (Iterates), the digits of a number as those that stand   *)
(* for it (DigitsStandFor), the number read from digits as their value, or *)
(* nothing if it is too large (UpOf, ReadOf).                              *)
(*                                                                         *)
(* Types, for any types, declarations, specs and classes: a slot of a      *)
(* ready type is that of the nearest base that defines it, the look-ups of *)
(* attributes agree, and the dict of an instance of a class does not lie   *)
(* over its C base.                                                        *)
(*                                                                         *)
(* SlotsInherited is not inductive: PyType_Ready takes what the base has,  *)
(* so the base must be ready (ReadyAbove), a type that is not ready must   *)
(* have its own slots still (Prepared), and the chain of bases must end    *)
(* (Grounded).  Nor is LayoutsNest: it speaks of the C types far above a   *)
(* class, and create_vm_type looks at the bases only.  LayoutInv says what *)
(* it made of them (ClassLaid) and what was declared of the structs of     *)
(* static types (Structs); LayoutsHold carries that up the bases.          *)
(*                                                                         *)
(* LookupsAgree is about what the dicts above a type have; LookupInv says  *)
(* of each dict what its own type and its bases put there (Named), unless  *)
(* something above was assigned to since (Touched, of every set of types   *)
(* closed upwards, so that a step need not follow the recursion of Above). *)
(*                                                                         *)
(* What the recursive definitions compute is known by their equations      *)
(* (SlotsSolve, LineSolves, DefsSolve, LookedUpSolves, WalkSolves), which  *)
(* RecursionProofs!Solution gives; what holds of all types above one, from *)
(* the lowest where it would not (Upwards).                                *)
(***************************************************************************)
EXTENDS Types, Ints, RecursionProofs, FiniteSetTheorems, SequenceTheorems

-----------------------------------------------------------------------------
(* Integers.                                                                *)

(* What is made from a by taking g again and again exists, without         *)
(* induction over operators.                                               *)
LEMMA Iterates ==
  ASSUME NEW a \in Int, NEW g \in [Int -> Int]
  PROVE  \E f \in [Nat -> Int] : f = [k \in Nat |-> IF k = 0 THEN a ELSE g[f[k - 1]]]
  <1> DEFINE step(n, f) == IF n = 0 THEN a ELSE g[f[n - 1]]
             D == [p \in Nat \X [Nat -> Int] |-> step(p[1], p[2])]
             h == [n \in Nat |-> n]
  <1>1. \A n \in Nat, f \in [Nat -> Int] : step(n, f) \in Int /\ D[<<n, f>>] = step(n, f)
    OBVIOUS
  <1>2. D \in [Nat \X [Nat -> Int] -> Int]
    <2> HIDE DEF step
    <2> QED BY <1>1
  <1>3. LooksBelow(D, Nat, Int, h)
    <2> SUFFICES ASSUME NEW n \in Nat, NEW f \in [Nat -> Int], NEW e \in [Nat -> Int],
                        \A u \in Nat : h[u] < h[n] => f[u] = e[u]
                 PROVE  step(n, f) = step(n, e)
      BY <1>1 DEF LooksBelow
    <2>1. n # 0 => n - 1 \in Nat /\ h[n - 1] < h[n]
      OBVIOUS
    <2>2. n # 0 => f[n - 1] = e[n - 1]
      BY <2>1
    <2> HIDE DEF h
    <2> QED BY <2>2
  <1>4. h \in [Nat -> Nat] /\ Int # {}
    OBVIOUS
  <1>5. \E f \in [Nat -> Int] : Solves(f, D, Nat)
    <2> HIDE DEF D, h
    <2> QED BY <1>2, <1>3, <1>4, Solution
  <1>6. PICK f \in [Nat -> Int] : \A n \in Nat : f[n] = step(n, f)
    <2> HIDE DEF step
    <2> QED BY <1>1, <1>5 DEF Solves
  <1> QED BY <1>6

LEMMA PowerIs ==
  ASSUME NEW b \in Int
  PROVE  /\ Power(b, 0) = 1
         /\ \A n \in Nat : Power(b, n) \in Int /\ Power(b, n + 1) = b * Power(b, n)
  <1> DEFINE P == CHOOSE p : p = [k \in Nat |-> IF k = 0 THEN 1 ELSE b * p[k - 1]]
             g == [x \in Int |-> b * x]
  <1>1. g \in [Int -> Int] /\ \A x \in Int : g[x] = b * x
    OBVIOUS
  <1>2. PICK f \in [Nat -> Int] : f = [k \in Nat |-> IF k = 0 THEN 1 ELSE g[f[k - 1]]]
    <2> HIDE DEF g
    <2>1. 1 \in Int
      OBVIOUS
    <2> QED BY <1>1, <2>1, Iterates
  <1>3. \A k \in Nat : k # 0 => g[f[k - 1]] = b * f[k - 1]
    <2> HIDE DEF g
    <2>1. \A k \in Nat : k # 0 => k - 1 \in Nat /\ f[k - 1] \in Int
      OBVIOUS
    <2> QED BY <1>1, <2>1
  <1>4. f = [k \in Nat |-> IF k = 0 THEN 1 ELSE b * f[k - 1]]
    <2> HIDE DEF g
    <2> QED BY <1>2, <1>3, Zenon
  <1>5. P = [k \in Nat |-> IF k = 0 THEN 1 ELSE b * P[k - 1]]
    BY <1>4, Zenon
  <1>6. \A n \in Nat : Power(b, n) = P[n]
    BY Zenon DEF Power
  <1> HIDE DEF P
  <1>7. P[0] = 1 /\ \A n \in Nat : P[n + 1] = b * P[n]
    <2>1. \A n \in Nat : n + 1 \in Nat /\ n + 1 # 0 /\ n + 1 - 1 = n
      OBVIOUS
    <2> QED BY <1>5, <2>1
  <1>8. {n \in Nat : P[n] \in Int} = Nat
    <2> DEFINE S == {n \in Nat : P[n] \in Int}
    <2>1. S \in SUBSET Nat /\ 0 \in S /\ \A n \in S : n + 1 \in S
      BY <1>7
    <2> HIDE DEF S
    <2>2. S = Nat
      BY <2>1, AllNumbers
    <2> QED BY <2>2 DEF S
  <1>9. \A n \in Nat : n + 1 \in Nat
    OBVIOUS
  <1> QED BY <1>6, <1>7, <1>8, <1>9

(* Twice as many, and the powers of 2 are positive.                        *)
LEMMA PowersOf2 ==
         /\ Power(2, 0) = 1
         /\ \A n \in Nat : Power(2, n) \in Nat \ {0} /\ Power(2, n + 1) = 2 * Power(2, n)
  <1> DEFINE S == {n \in Nat : Power(2, n) \in Nat \ {0}}
  <1>1. /\ Power(2, 0) = 1
        /\ \A n \in Nat : Power(2, n) \in Int /\ Power(2, n + 1) = 2 * Power(2, n)
    BY PowerIs
  <1>2. S \in SUBSET Nat /\ 0 \in S /\ \A n \in S : n + 1 \in S
    BY <1>1
  <1>3. S = Nat
    <2> HIDE DEF S
    <2> QED BY <1>2, AllNumbers
  <1> QED BY <1>1, <1>3

LEMMA PowerSplits ==
  ASSUME NEW m \in Nat, NEW n \in Nat
  PROVE  Power(2, m + n) = Power(2, m) * Power(2, n)
  <1> DEFINE S == {k \in Nat : Power(2, m + k) = Power(2, m) * Power(2, k)}
  <1>1. 0 \in S
    BY PowersOf2
  <1>2. ASSUME NEW k \in S
        PROVE  k + 1 \in S
    <2>1. k \in Nat /\ m + k \in Nat /\ m + (k + 1) = (m + k) + 1 /\ k + 1 \in Nat
      OBVIOUS
    <2>2. Power(2, m + (k + 1)) = 2 * Power(2, m + k) /\ Power(2, k + 1) = 2 * Power(2, k)
      BY <2>1, PowersOf2
    <2>3. Power(2, m) \in Nat /\ Power(2, k) \in Nat /\ Power(2, m + k) = Power(2, m) * Power(2, k)
      BY <2>1, PowersOf2
    <2>4. \A a, b \in Nat : 2 * (a * b) = a * (2 * b)
      OBVIOUS
    <2>5. Power(2, m + (k + 1)) = Power(2, m) * Power(2, k + 1)
      BY <2>2, <2>3, <2>4
    <2> QED BY <2>1, <2>5
  <1>3. S = Nat
    <2>1. S \in SUBSET Nat
      OBVIOUS
    <2> HIDE DEF S
    <2> QED BY <1>1, <1>2, <2>1, AllNumbers
  <1> QED BY <1>3

-----------------------------------------------------------------------------
(* What IntAssumption says of words, and what of texts.                    *)
LEMMA WordFacts ==
  /\ Width \in Nat \ {0, 1} /\ Shift \in 1 .. Width
  /\ SmallMin \in Words /\ SmallMax \in Words /\ SmallMin <= 0 /\ 0 <= SmallMax
  /\ MaxValue \in Nat /\ MaxValue >= Power(2, Width) /\ Larges \subseteq -MaxValue .. MaxValue
  /\ Null \notin Int
  BY IntAssumption, Zenon

LEMMA TextFacts ==
  /\ Texts \subseteq [sign : {"none", "+", "-"}, digits : Seq(Characters)]
  /\ \A t \in Texts : Parsed(t, 10) # Null => Abs(Parsed(t, 10)) <= MaxValue
  BY IntAssumption, Zenon

(* The sizes of a C value and of a digit.                                  *)
Full == Power(2, Width)
Half == Power(2, Width - 1)

LEMMA Sizes ==
         /\ Full \in Nat /\ Half \in Nat /\ Base \in Nat
         /\ Half >= 2 /\ Base >= 2 /\ Full = 2 * Half
         /\ WordMin = -Half /\ WordMax = Half - 1
  <1>1. Width \in Nat /\ Shift \in Nat /\ Width - 1 \in Nat /\ Width - 2 \in Nat /\ Shift - 1 \in Nat
        /\ Width = (Width - 1) + 1 /\ Width - 1 = (Width - 2) + 1 /\ Shift = (Shift - 1) + 1
    BY WordFacts
  <1>2. Half = 2 * Power(2, Width - 2) /\ Full = 2 * Half /\ Base = 2 * Power(2, Shift - 1)
    BY <1>1, PowersOf2 DEF Half, Full, Base
  <1>3. Power(2, Width - 2) \in Nat \ {0} /\ Power(2, Shift - 1) \in Nat \ {0}
    BY <1>1, PowersOf2
  <1>4. Half \in Nat /\ Half >= 2 /\ Base \in Nat /\ Base >= 2
    BY <1>2, <1>3
  <1>5. WordMin = -Half /\ WordMax = Half - 1
    BY DEF WordMin, WordMax, Half
  <1> QED BY <1>2, <1>4, <1>5

LEMMA WordsAre ==
  Words \subseteq Int /\ 0 \in Words /\ -1 \in Words /\ Null \notin Words
  <1>1. Null \notin Int
    BY WordFacts
  <1> QED BY <1>1, Sizes DEF Words

LEMMA DigitsFill ==
         \E K \in Nat : K >= 1 /\ Full = K * Base
  <1>1. Shift \in Nat /\ Width - Shift \in Nat /\ (Width - Shift) + Shift = Width
    BY WordFacts
  <1>2. Full = Power(2, Width - Shift) * Base /\ Power(2, Width - Shift) \in Nat \ {0}
    BY <1>1, PowerSplits, PowersOf2 DEF Full, Base
  <1> QED BY <1>2

LEMMA Division ==
         \A n \in Int, m \in Nat \ {0} :
           /\ n % m \in 0 .. m - 1 /\ n \div m \in Int
           /\ n = (m * (n \div m)) + (n % m)
  OBVIOUS

LEMMA WordsUnique ==
  ASSUME NEW a \in Words, NEW b \in Words, NEW k \in Int, a = b + k * Full
  PROVE  a = b
  <1>1. a \in Int /\ b \in Int /\ -Full < a - b /\ a - b < Full /\ Full \in Nat
    BY Sizes DEF Words
  <1>2. k * Full = a - b /\ k * Full \in Int
    BY <1>1
  <1>3. k >= 1 => k * Full >= Full
    BY <1>1
  <1>4. k <= -1 => k * Full <= -Full
    BY <1>1
  <1>5. k = 0
    BY <1>1, <1>2, <1>3, <1>4
  <1> QED BY <1>1, <1>2, <1>5

LEMMA WrapIs ==
  ASSUME NEW n \in Int
  PROVE  Wrap(n) \in Words /\ \E k \in Int : Wrap(n) = n + k * Full
  <1> DEFINE q == (n - WordMin) \div Full
             r == (n - WordMin) % Full
  <1>1. Full \in Nat \ {0} /\ WordMin \in Int /\ n - WordMin \in Int
    BY Sizes
  <1>2. r \in 0 .. Full - 1 /\ q \in Int /\ n - WordMin = Full * q + r
    BY <1>1, Division
  <1>3. Wrap(n) = r + WordMin
    BY DEF Wrap, Full
  <1> HIDE DEF q, r
  <1>4. r + WordMin \in Words
    BY <1>1, <1>2, Sizes DEF Words
  <1>5. -q \in Int /\ Full * q = -((-q) * Full)
    BY <1>1, <1>2
  <1>6. r + WordMin = n + (-q) * Full
    BY <1>1, <1>2, <1>5
  <1> QED BY <1>3, <1>4, <1>5, <1>6

LEMMA WrapFits ==
  ASSUME NEW n \in Words
  PROVE  Wrap(n) = n
  <1>1. n \in Int
    BY Sizes DEF Words
  <1> QED BY <1>1, WrapIs, WordsUnique

-----------------------------------------------------------------------------
(* The operations on C values.                                             *)
LEMMA MultiplesApart ==
  ASSUME NEW p \in Int, NEW q \in Int, NEW r \in Int
  PROVE  /\ (p + 1) * r = p * r + r
         /\ (-p) * r = -(p * r) /\ (-p - 1) * r = -(p * r) - r /\ p * (-r) = -(p * r) /\ r * p = p * r
         /\ r > 0 /\ p >= q => p * r >= q * r
         /\ r < 0 /\ p >= q => p * r <= q * r
         /\ p * r \in Int
  <1>1. r > 0 /\ p >= q => p * r >= q * r
    OBVIOUS
  <1>2. r < 0 /\ p >= q => p * r <= q * r
    OBVIOUS
  <1>3. (p + 1) * r = p * r + r /\ (-p) * r = -(p * r) /\ (-p - 1) * r = -(p * r) - r
    OBVIOUS
  <1> QED BY <1>1, <1>2, <1>3

(* There is one quotient that rounds down.                                 *)
Floors(q, l, r) ==
  /\ r > 0 => q * r <= l /\ l < (q + 1) * r
  /\ r < 0 => q * r >= l /\ l > (q + 1) * r

LEMMA OneFloor ==
  ASSUME NEW p \in Int, NEW q \in Int, NEW l \in Int, NEW r \in Int, r # 0,
         Floors(p, l, r), Floors(q, l, r)
  PROVE  p = q
  <1>1. ASSUME NEW a \in Int, NEW b \in Int, Floors(a, l, r), Floors(b, l, r), a >= b + 1
        PROVE  FALSE
    <2>1. b + 1 \in Int /\ a * r \in Int /\ (b + 1) * r \in Int
      OBVIOUS
    <2>2. (r > 0 => a * r >= (b + 1) * r) /\ (r < 0 => a * r <= (b + 1) * r)
      BY <1>1, <2>1, MultiplesApart
    <2> QED BY <1>1, <2>1, <2>2 DEF Floors
  <1>2. p >= q + 1 \/ q >= p + 1 \/ p = q
    OBVIOUS
  <1> QED BY <1>1, <1>2

(* How C divides: the absolute values.                                     *)
LEMMA Divided ==
  ASSUME NEW l \in Words, NEW r \in Words, r # 0
  PROVE  \E q, m \in Nat :
           /\ Abs(l) \div Abs(r) = q
           /\ Abs(l) = q * Abs(r) + m /\ m < Abs(r) /\ q <= Abs(l)
           /\ Abs(r) >= 2 => 2 * q + m <= Abs(l)
  <1>1. Abs(l) \in Nat /\ Abs(r) \in Nat \ {0}
    BY Sizes DEF Abs, Words
  <1> DEFINE a == Abs(l)
             b == Abs(r)
             q == a \div b
             m == a % b
  <1>2. m \in 0 .. b - 1 /\ q \in Int /\ a = (b * q) + m
    <2>1. a \in Int /\ b \in Nat \ {0}
      BY <1>1
    <2> HIDE DEF a, b
    <2> QED BY <2>1, Division
  <1> HIDE DEF a, b, q, m
  <1>3. a \in Nat /\ b \in Nat \ {0}
    BY <1>1 DEF a, b
  <1>4. b * q = q * b /\ q * b \in Int
    BY <1>2, <1>3
  <1>5. q >= 0
    <2>1. q <= -1 => q * b <= -b
      BY <1>2, <1>3
    <2> QED BY <1>2, <1>3, <1>4, <2>1
  <1>6. q <= q * b /\ (b >= 2 => 2 * q <= q * b)
    BY <1>2, <1>3, <1>5
  <1>7. a = q * b + m /\ m < b /\ q <= a /\ (b >= 2 => 2 * q + m <= a) /\ q \in Nat /\ m \in Nat
    BY <1>2, <1>3, <1>4, <1>5, <1>6
  <1> QED BY <1>7 DEF a, b, q

LEMMA FloorDivIs ==
  ASSUME NEW l \in Words, NEW r \in Words, r # 0
  PROVE  /\ FloorDiv(l, r) \in Words
         /\ ~(l = WordMin /\ r = -1) => Floors(FloorDiv(l, r), l, r)
  <1>1. PICK q \in Nat, m \in Nat :
           /\ Abs(l) \div Abs(r) = q
           /\ Abs(l) = q * Abs(r) + m /\ m < Abs(r) /\ q <= Abs(l)
           /\ Abs(r) >= 2 => 2 * q + m <= Abs(l)
    BY Divided
  <1>2. l \in Int /\ r \in Int /\ -Half <= l /\ l <= Half - 1 /\ -Half <= r /\ r <= Half - 1 /\ Half \in Nat /\ Half >= 2
    BY Sizes DEF Words
  <1>3. q * r \in Int /\ (q + 1) * r = q * r + r /\ (-q) * r = -(q * r) /\ (-q - 1) * r = -(q * r) - r
        /\ q * (-r) = -(q * r)
    BY <1>2, MultiplesApart
  <1>4. (l < 0 => Abs(l) = -l) /\ (l >= 0 => Abs(l) = l) /\ (r < 0 => Abs(r) = -r) /\ (r >= 0 => Abs(r) = r)
    BY <1>2 DEF Abs
  <1>5. \A n \in Int : -Half <= n /\ n <= Half - 1 => n \in Words /\ Wrap(n) = n
    BY Sizes, WrapFits DEF Words
  <1>6. CASE ~SignsDiffer(l, r)
    <2>1. Quotient(l, r) = q
      BY <1>1, <1>6 DEF Quotient
    <2>2. FloorDiv(l, r) = Wrap(q)
      BY <1>6, <2>1 DEF FloorDiv
    <2>3. Wrap(q) \in Words
      BY WrapIs
    <2>4. (l < 0 /\ r < 0) \/ (l >= 0 /\ r > 0)
      BY <1>2, <1>6 DEF SignsDiffer
    <2>5. ASSUME ~(l = WordMin /\ r = -1)
          PROVE  Wrap(q) = q
      <3>1. q <= Half - 1
        <4>1. r = -1 => l # -Half
          BY <2>5, Sizes
        <4>2. Abs(r) >= 2 \/ r = -1 \/ l >= 0
          BY <1>2, <1>4, <2>4
        <4> QED BY <1>1, <1>2, <1>4, <4>1, <4>2
      <3> QED BY <1>2, <1>5, <3>1
    <2>6. Floors(q, l, r)
      <3>1. CASE l < 0 /\ r < 0
        <4>1. -l = -(q * r) + m /\ m < -r
          BY <1>1, <1>3, <1>4, <3>1
        <4>2. q * r >= l /\ l > q * r + r
          BY <1>2, <1>3, <4>1
        <4> QED BY <1>2, <1>3, <3>1, <4>2 DEF Floors
      <3>2. CASE l >= 0 /\ r > 0
        <4>1. l = q * r + m /\ m < r
          BY <1>1, <1>2, <1>3, <1>4, <3>2
        <4>2. q * r <= l /\ l < q * r + r
          BY <1>2, <1>3, <4>1
        <4> QED BY <1>2, <1>3, <3>2, <4>2 DEF Floors
      <3> QED BY <2>4, <3>1, <3>2
    <2> QED BY <2>2, <2>3, <2>5, <2>6
  <1>7. CASE SignsDiffer(l, r)
    <2>1. Quotient(l, r) = -q
      BY <1>1, <1>7 DEF Quotient
    <2>2. Wrap(-q) = -q /\ -q \in Words
      BY <1>1, <1>2, <1>4, <1>5
    <2>3. FloorDiv(l, r) = IF (-q) * r # l THEN -q - 1 ELSE -q
      BY <1>7, <2>1, <2>2 DEF FloorDiv
    <2>4. (l < 0 /\ r > 0) \/ (l >= 0 /\ r < 0)
      BY <1>2, <1>7 DEF SignsDiffer
    <2>5. CASE m = 0
      <3>1. l = -(q * r)
        BY <1>1, <1>2, <1>3, <1>4, <2>4, <2>5
      <3>2. FloorDiv(l, r) = -q
        BY <1>3, <2>3, <3>1
      <3>3. (-q + 1) * r = -(q * r) + r
        BY <1>2, <1>3
      <3>4. Floors(-q, l, r)
        BY <1>2, <1>3, <3>1, <3>3 DEF Floors
      <3> QED BY <2>2, <3>2, <3>4
    <2>6. CASE m # 0
      <3>1. (l >= 0 => l = -(q * r) + m /\ m < -r) /\ (l < 0 => l = -(q * r) - m /\ m < r)
        BY <1>1, <1>2, <1>3, <1>4, <2>4
      <3>2. FloorDiv(l, r) = -q - 1
        BY <1>2, <1>3, <2>3, <2>6, <3>1
      <3>3. Abs(r) >= 2
        BY <1>1, <1>4, <1>2, <2>6
      <3>4. -q - 1 \in Words
        BY <1>1, <1>2, <1>4, <1>5, <2>6, <3>3
      <3>5. (-q - 1 + 1) * r = -(q * r)
        <4>1. -q - 1 + 1 = -q
          OBVIOUS
        <4> QED BY <1>3, <4>1
      <3>6. Floors(-q - 1, l, r)
        BY <1>2, <1>3, <2>4, <2>6, <3>1, <3>5 DEF Floors
      <3> QED BY <3>2, <3>4, <3>6
    <2> QED BY <2>5, <2>6
  <1> QED BY <1>6, <1>7

LEMMA OneRemainder ==
  ASSUME NEW p \in Int, NEW q \in Int, NEW m \in Int, NEW n \in Int, NEW l \in Int, NEW r \in Int, r # 0,
         p * r + m = l, r > 0 => 0 <= m /\ m < r, r < 0 => r < m /\ m <= 0,
         q * r + n = l, r > 0 => 0 <= n /\ n < r, r < 0 => r < n /\ n <= 0
  PROVE  m = n
  <1>1. p * r \in Int /\ (p + 1) * r = p * r + r /\ q * r \in Int /\ (q + 1) * r = q * r + r
    BY MultiplesApart
  <1>2. Floors(p, l, r) /\ Floors(q, l, r)
    BY <1>1 DEF Floors
  <1>3. p = q
    BY <1>2, OneFloor
  <1> QED BY <1>1, <1>3

LEMMA ModIs ==
  ASSUME NEW l \in Words, NEW r \in Words, r # 0
  PROVE  /\ Mod(l, r) \in Words
         /\ r > 0 => 0 <= Mod(l, r) /\ Mod(l, r) < r
         /\ r < 0 => r < Mod(l, r) /\ Mod(l, r) <= 0
         /\ \E p \in Int : p * r + Mod(l, r) = l
  <1>1. PICK q \in Nat, m \in Nat :
           /\ Abs(l) \div Abs(r) = q
           /\ Abs(l) = q * Abs(r) + m /\ m < Abs(r) /\ q <= Abs(l)
           /\ Abs(r) >= 2 => 2 * q + m <= Abs(l)
    BY Divided
  <1>2. l \in Int /\ r \in Int /\ -Half <= l /\ l <= Half - 1 /\ -Half <= r /\ r <= Half - 1 /\ Half \in Nat /\ Half >= 2
    BY Sizes DEF Words
  <1>3. q * r \in Int /\ (q + 1) * r = q * r + r /\ (-q) * r = -(q * r) /\ (-q - 1) * r = -(q * r) - r
        /\ q * (-r) = -(q * r) /\ 1 * q = q /\ -1 * q = -q
    BY <1>2, MultiplesApart
  <1>4. (l < 0 => Abs(l) = -l) /\ (l >= 0 => Abs(l) = l) /\ (r < 0 => Abs(r) = -r) /\ (r >= 0 => Abs(r) = r)
    BY <1>2 DEF Abs
  <1>5. \A n \in Int : -Half <= n /\ n <= Half - 1 => n \in Words
    BY Sizes DEF Words
  <1>6. (SignsDiffer(l, r) => Quotient(l, r) = -q) /\ (~SignsDiffer(l, r) => Quotient(l, r) = q)
    BY <1>1, <1>3 DEF Quotient
  <1>7. CASE l >= 0 /\ r > 0
    <2>1. Remainder(l, r) = m /\ ~SignsDiffer(m, r) /\ l = q * r + m /\ m < r
      BY <1>1, <1>2, <1>3, <1>4, <1>6, <1>7 DEF Remainder, SignsDiffer
    <2>2. Mod(l, r) = m
      BY <2>1 DEF Mod
    <2> QED BY <1>2, <1>5, <1>7, <2>1, <2>2
  <1>8. CASE l >= 0 /\ r < 0
    <2>1. Remainder(l, r) = m /\ l = -(q * r) + m /\ m < -r
      BY <1>1, <1>2, <1>3, <1>4, <1>6, <1>8 DEF Remainder, SignsDiffer
    <2>2. SignsDiffer(m, r)
      BY <1>8 DEF SignsDiffer
    <2>3. Mod(l, r) = IF m # 0 THEN m + r ELSE m
      BY <2>1, <2>2 DEF Mod
    <2>4. \E p \in Int : p * r + Mod(l, r) = l
      <3>1. CASE m = 0
        <4>1. (-q) * r + Mod(l, r) = l /\ -q \in Int
          BY <1>2, <1>3, <2>1, <2>3, <3>1
        <4> QED BY <4>1
      <3>2. CASE m # 0
        <4>1. (-q - 1) * r + Mod(l, r) = l /\ -q - 1 \in Int
          BY <1>2, <1>3, <2>1, <2>3, <3>2
        <4> QED BY <4>1
      <3> QED BY <3>1, <3>2
    <2>5. r < Mod(l, r) /\ Mod(l, r) <= 0 /\ Mod(l, r) \in Int
      BY <1>2, <2>1, <2>3
    <2>6. Mod(l, r) \in Words
      BY <1>2, <1>5, <1>8, <2>5
    <2>7. ~(r > 0)
      BY <1>2, <1>8
    <2> QED BY <2>4, <2>5, <2>6, <2>7, Zenon
  <1>9. CASE l < 0 /\ r > 0
    <2>1. Remainder(l, r) = -m /\ l = -(q * r) - m /\ m < r
      BY <1>1, <1>2, <1>3, <1>4, <1>6, <1>9 DEF Remainder, SignsDiffer
    <2>2. m # 0 => SignsDiffer(-m, r)
      BY <1>2, <1>9 DEF SignsDiffer
    <2>3. Mod(l, r) = IF m # 0 THEN -m + r ELSE 0
      BY <2>1, <2>2 DEF Mod
    <2>4. \E p \in Int : p * r + Mod(l, r) = l
      <3>1. CASE m = 0
        <4>1. (-q) * r + Mod(l, r) = l /\ -q \in Int
          BY <1>2, <1>3, <2>1, <2>3, <3>1
        <4> QED BY <4>1
      <3>2. CASE m # 0
        <4>1. (-q - 1) * r + Mod(l, r) = l /\ -q - 1 \in Int
          BY <1>2, <1>3, <2>1, <2>3, <3>2
        <4> QED BY <4>1
      <3> QED BY <3>1, <3>2
    <2>5. 0 <= Mod(l, r) /\ Mod(l, r) < r /\ Mod(l, r) \in Int
      BY <1>2, <1>9, <2>1, <2>3
    <2>6. Mod(l, r) \in Words
      BY <1>2, <1>5, <1>9, <2>5
    <2>7. ~(r < 0)
      BY <1>2, <1>9
    <2> QED BY <2>4, <2>5, <2>6, <2>7, Zenon
  <1>10. CASE l < 0 /\ r < 0
    <2>1. Remainder(l, r) = -m /\ l = q * r - m /\ m < -r
      BY <1>1, <1>2, <1>3, <1>4, <1>6, <1>10 DEF Remainder, SignsDiffer
    <2>2. m # 0 => ~SignsDiffer(-m, r)
      BY <1>10 DEF SignsDiffer
    <2>3. Mod(l, r) = -m
      BY <2>1, <2>2 DEF Mod
    <2> QED BY <1>2, <1>5, <1>10, <2>1, <2>3
  <1> QED BY <1>2, <1>7, <1>8, <1>9, <1>10

(* Multiplying and wrapping each time is multiplying and wrapping once.    *)
LEMMA PowIs ==
  ASSUME NEW l \in Words
  PROVE  \A n \in Nat : Pow(l, n) \in Words /\ \E k \in Int : Pow(l, n) = Power(l, n) + k * Full
  <1> DEFINE P == CHOOSE p : p = [n \in Nat |-> IF n = 0 THEN 1 ELSE Wrap(p[n - 1] * l)]
             g == [x \in Int |-> Wrap(x * l)]
  <1>1. l \in Int /\ Full \in Int /\ Words \subseteq Int /\ 1 \in Words
    BY Sizes DEF Words
  <1>2. g \in [Int -> Int] /\ \A x \in Int : g[x] = Wrap(x * l)
    <2>1. \A x \in Int : x * l \in Int /\ Wrap(x * l) \in Int
      BY <1>1, WrapIs
    <2> QED BY <2>1
  <1>3. PICK f \in [Nat -> Int] : f = [k \in Nat |-> IF k = 0 THEN 1 ELSE g[f[k - 1]]]
    <2> HIDE DEF g
    <2>1. 1 \in Int
      OBVIOUS
    <2> QED BY <1>2, <2>1, Iterates
  <1>4. \A k \in Nat : k # 0 => g[f[k - 1]] = Wrap(f[k - 1] * l)
    <2> HIDE DEF g
    <2>1. \A k \in Nat : k # 0 => k - 1 \in Nat /\ f[k - 1] \in Int
      OBVIOUS
    <2> QED BY <1>2, <2>1
  <1>5. f = [k \in Nat |-> IF k = 0 THEN 1 ELSE Wrap(f[k - 1] * l)]
    <2> HIDE DEF g
    <2> QED BY <1>3, <1>4, Zenon
  <1>6. P = [k \in Nat |-> IF k = 0 THEN 1 ELSE Wrap(P[k - 1] * l)]
    BY <1>5, Zenon
  <1>7. \A n \in Nat : Pow(l, n) = P[n]
    BY Zenon DEF Pow
  <1> HIDE DEF P
  <1>8. P[0] = 1 /\ \A n \in Nat : P[n + 1] = Wrap(P[n] * l)
    <2>1. \A n \in Nat : n + 1 \in Nat /\ n + 1 # 0 /\ n + 1 - 1 = n
      OBVIOUS
    <2> QED BY <1>6, <2>1
  <1> DEFINE S == {n \in Nat : P[n] \in Words /\ \E k \in Int : P[n] = Power(l, n) + k * Full}
  <1>9. 0 \in S
    <2>1. Power(l, 0) = 1 /\ 1 = 1 + 0 * Full /\ 0 \in Int
      BY <1>1, PowerIs
    <2> QED BY <1>1, <1>8, <2>1
  <1>10. ASSUME NEW n \in S
         PROVE  n + 1 \in S
    <2>1. n \in Nat /\ P[n] \in Words /\ n + 1 \in Nat
      OBVIOUS
    <2>2. PICK k \in Int : P[n] = Power(l, n) + k * Full
      OBVIOUS
    <2>a. Power(l, n) \in Int /\ Power(l, n + 1) = l * Power(l, n)
      BY <1>1, <2>1, PowerIs, Zenon
    <2>b. P[n] * l \in Int
      <3>1. P[n] \in Int
        BY <1>1, <2>1
      <3> QED BY <1>1, <3>1
    <2>3. P[n] * l \in Int /\ Power(l, n) \in Int /\ Power(l, n + 1) = l * Power(l, n)
      BY <2>a, <2>b
    <2>4. PICK j \in Int : Wrap(P[n] * l) = P[n] * l + j * Full
      BY <2>3, WrapIs
    <2>5. P[n] * l = l * Power(l, n) + (k * l) * Full
      <3> DEFINE x == Power(l, n)
      <3>1. x \in Int
        BY <2>3
      <3> HIDE DEF x
      <3>2. (x + k * Full) * l = l * x + (k * l) * Full
        BY <1>1, <3>1
      <3> QED BY <2>2, <3>2 DEF x
    <2>6. k * l + j \in Int /\ (k * l) * Full + j * Full = (k * l + j) * Full
          /\ (k * l) * Full \in Int /\ j * Full \in Int
      BY <1>1
    <2>7. Wrap(P[n] * l) = Power(l, n + 1) + (k * l + j) * Full
      <3> DEFINE x == l * Power(l, n)
      <3>1. x \in Int
        BY <1>1, <2>3
      <3> HIDE DEF x
      <3>2. Wrap(P[n] * l) = (x + (k * l) * Full) + j * Full
        BY <2>4, <2>5 DEF x
      <3>3. Wrap(P[n] * l) = x + (k * l + j) * Full
        BY <2>6, <3>1, <3>2
      <3> QED BY <2>3, <3>3 DEF x
    <2>8. Wrap(P[n] * l) \in Words
      BY <2>3, WrapIs
    <2> QED BY <1>8, <2>1, <2>6, <2>7, <2>8
  <1>11. S = Nat
    <2>1. S \in SUBSET Nat
      OBVIOUS
    <2> HIDE DEF S
    <2> QED BY <1>9, <1>10, <2>1, AllNumbers
  <1> QED BY <1>7, <1>11

LEMMA ShiftsAre ==
  ASSUME NEW l \in Words, NEW r \in Words
  PROVE  /\ LShift(l, r) \in Words
         /\ RShift(l, r) \in Words
         /\ r \in 0 .. Width - 1 =>
              /\ l * Power(2, r) \in Words => LShift(l, r) = l * Power(2, r)
              /\ RShift(l, r) = l \div Power(2, r)
  <1>1. l \in Int /\ r \in Int /\ Width \in Nat \ {0} /\ -Half <= l /\ l <= Half - 1 /\ Half \in Nat
    BY WordFacts, Sizes DEF Words
  <1>2. r % Width \in Nat /\ (r \in 0 .. Width - 1 => r % Width = r)
    BY <1>1
  <1>3. PICK p \in Nat \ {0} : p = Power(2, r % Width)
    BY <1>2, PowersOf2
  <1>4. l * p \in Int
    BY <1>1
  <1>5. Wrap(l * p) \in Words /\ (l * p \in Words => Wrap(l * p) = l * p)
    BY <1>4, WrapIs, WrapFits
  <1>6. l \div p \in Words
    <2>1. PICK q \in Int, m \in 0 .. p - 1 : l \div p = q /\ l = (p * q) + m
      BY <1>1, Division
    <2>2. m \in Int /\ 0 <= m /\ m < p
      OBVIOUS
    <2>3. q >= 0 => p * q >= q
      OBVIOUS
    <2>4. q < 0 => p * (q + 1) <= q + 1
      OBVIOUS
    <2>5. p * (q + 1) = (p * q) + p /\ p * q \in Int
      OBVIOUS
    <2>6. -Half <= q /\ q <= Half - 1
      BY <1>1, <2>1, <2>2, <2>3, <2>4, <2>5
    <2> QED BY <2>1, <2>6, Sizes DEF Words
  <1> QED BY <1>2, <1>3, <1>5, <1>6 DEF LShift, RShift

(* What the interpreter computes is what Python says, if a C value holds   *)
(* it.                                                                     *)
LEMMA ResultsExact ==
  ASSUME NEW op \in Ops, NEW l \in Words, NEW r \in Words, Defined(op, l, r)
  PROVE  /\ Result(op, l, r) \in Words
         /\ \A n \in Exact(op, l, r) : n \in Words => Result(op, l, r) = n
  <1>1. l \in Int /\ r \in Int /\ -Half <= l /\ l <= Half - 1 /\ -Half <= r /\ r <= Half - 1
        /\ Half \in Nat /\ Half >= 2 /\ Full = 2 * Half /\ WordMin = -Half
    BY Sizes DEF Words
  <1>2. \A n \in Int : Wrap(n) \in Words /\ (n \in Words => Wrap(n) = n)
    BY WrapIs, WrapFits
  <1>3. CASE op = "add"
    <2>1. Result(op, l, r) = Wrap(l + r) /\ Exact(op, l, r) = {l + r} /\ l + r \in Int
      BY <1>1, <1>3 DEF Result, Exact
    <2> QED BY <1>2, <2>1, Zenon
  <1>4. CASE op = "sub"
    <2>1. Result(op, l, r) = Wrap(l - r) /\ Exact(op, l, r) = {l - r} /\ l - r \in Int
      BY <1>1, <1>4 DEF Result, Exact
    <2> QED BY <1>2, <2>1, Zenon
  <1>5. CASE op = "mul"
    <2>1. Result(op, l, r) = Wrap(l * r) /\ Exact(op, l, r) = {l * r} /\ l * r \in Int
      BY <1>1, <1>5 DEF Result, Exact
    <2> QED BY <1>2, <2>1, Zenon
  <1>6. CASE op = "floordiv"
    <2>1. Result(op, l, r) = FloorDiv(l, r) /\ r # 0
      BY <1>6 DEF Result, Defined
    <2>2. FloorDiv(l, r) \in Words /\ (~(l = WordMin /\ r = -1) => Floors(FloorDiv(l, r), l, r))
      BY <2>1, FloorDivIs
    <2>3. ASSUME NEW n \in Exact(op, l, r), n \in Words
          PROVE  FloorDiv(l, r) = n
      <3>1. n \in Int /\ FloorDiv(l, r) \in Int
        BY <2>2, <2>3, Sizes DEF Words
      <3>2. Floors(n, l, r)
        <4>1. n \in {q \in -Power(2, Width) .. Power(2, Width) :
                       /\ r > 0 => q * r <= l /\ l < (q + 1) * r
                       /\ r < 0 => q * r >= l /\ l > (q + 1) * r}
          BY <1>6, <2>3 DEF Exact
        <4> QED BY <4>1, Zenon DEF Floors
      <3>3. ~(l = WordMin /\ r = -1)
        <4> SUFFICES ASSUME l = -Half, r = -1
                     PROVE  FALSE
          BY <1>1
        <4>1. n * (-1) >= -Half /\ -Half > (n + 1) * (-1)
          BY <1>1, <3>2 DEF Floors
        <4>2. n = Half
          BY <1>1, <3>1, <4>1
        <4> QED BY <1>1, <2>3, <4>2, Sizes DEF Words
      <3> QED BY <1>1, <2>1, <2>2, <3>1, <3>2, <3>3, OneFloor
    <2> QED BY <2>1, <2>2, <2>3
  <1>7. CASE op = "mod"
    <2>1. Result(op, l, r) = Mod(l, r) /\ r # 0
      BY <1>7 DEF Result, Defined
    <2>2. Mod(l, r) \in Words
      BY <2>1, ModIs
    <2>3. ASSUME NEW n \in Exact(op, l, r), n \in Words
          PROVE  Mod(l, r) = n
      <3>1. n \in Int /\ Mod(l, r) \in Int
        BY <2>2, <2>3, Sizes DEF Words
      <3>2. n \in {m \in Words : /\ r > 0 => 0 <= m /\ m < r
                                 /\ r < 0 => r < m /\ m <= 0
                                 /\ \E q \in -Power(2, Width) .. Power(2, Width) : q * r + m = l}
        BY <1>7, <2>3 DEF Exact
      <3>3. PICK q \in Int : q * r + n = l
        <4>1. -Power(2, Width) .. Power(2, Width) \subseteq Int
          OBVIOUS
        <4> QED BY <3>2, <4>1, Zenon
      <3>4. (r > 0 => 0 <= n /\ n < r) /\ (r < 0 => r < n /\ n <= 0)
        BY <3>2, Zenon
      <3>5. PICK p \in Int : p * r + Mod(l, r) = l
        BY <2>1, ModIs
      <3>6. (r > 0 => 0 <= Mod(l, r) /\ Mod(l, r) < r) /\ (r < 0 => r < Mod(l, r) /\ Mod(l, r) <= 0)
        BY <2>1, ModIs
      <3> QED BY <1>1, <2>1, <3>1, <3>3, <3>4, <3>5, <3>6, OneRemainder
    <2> QED BY <2>1, <2>2, <2>3
  <1>8. CASE op = "pow"
    <2>1. Result(op, l, r) = Pow(l, r) /\ Exact(op, l, r) = {Power(l, r)} /\ r \in Nat
      <3>1. r \in 0 .. Width - 1
        BY <1>8 DEF Defined
      <3> QED BY <1>1, <1>8, <3>1 DEF Result, Exact
    <2>2. Pow(l, r) \in Words
      BY <2>1, PowIs
    <2>3. PICK k \in Int : Pow(l, r) = Power(l, r) + k * Full
      BY <2>1, PowIs
    <2>4. Power(l, r) \in Words => Pow(l, r) = Power(l, r)
      BY <2>2, <2>3, WordsUnique
    <2> QED BY <2>1, <2>2, <2>4
  <1>9. CASE op = "lshift"
    <2>1. Result(op, l, r) = LShift(l, r)
          /\ Exact(op, l, r) = IF r \in 0 .. Width - 1 THEN {l * Power(2, r)} ELSE {}
      BY <1>9 DEF Result, Exact
    <2>2. LShift(l, r) \in Words /\ (r \in 0 .. Width - 1 /\ l * Power(2, r) \in Words => LShift(l, r) = l * Power(2, r))
      BY ShiftsAre
    <2> QED BY <2>1, <2>2, Zenon
  <1>10. CASE op = "rshift"
    <2>1. Result(op, l, r) = RShift(l, r)
          /\ Exact(op, l, r) = IF r \in 0 .. Width - 1 THEN {l \div Power(2, r)} ELSE {}
      BY <1>10 DEF Result, Exact
    <2>2. RShift(l, r) \in Words /\ (r \in 0 .. Width - 1 => RShift(l, r) = l \div Power(2, r))
      BY ShiftsAre
    <2> QED BY <2>1, <2>2, Zenon
  <1> QED BY <1>3, <1>4, <1>5, <1>6, <1>7, <1>8, <1>9, <1>10 DEF Ops

-----------------------------------------------------------------------------
(* Digits.                                                                 *)
Digits == 0 .. Base - 1

LEMMA Divides ==
  ASSUME NEW n \in Nat
  PROVE  /\ n \div Base \in 0 .. n /\ n % Base \in Digits
         /\ n = (n % Base) + Base * (n \div Base)
         /\ n # 0 => n \div Base < n
  <1>1. Base \in Nat \ {0} /\ Base >= 2
    BY Sizes
  <1>2. PICK q \in Int, m \in 0 .. Base - 1 : n \div Base = q /\ n % Base = m /\ n = (Base * q) + m
    <2>1. n \in Int
      OBVIOUS
    <2>2. n % Base \in 0 .. Base - 1 /\ n \div Base \in Int /\ n = (Base * (n \div Base)) + (n % Base)
      BY <1>1, <2>1, Division
    <2> QED BY <2>2, Zenon
  <1>3. m \in Int /\ 0 <= m /\ m < Base /\ Base * q \in Int
    BY <1>1
  <1>4. q < 0 => Base * q <= -Base
    BY <1>1
  <1>5. q >= 0 => Base * q >= 2 * q
    BY <1>1
  <1>6. q >= 0 /\ 2 * q <= n
    BY <1>1, <1>2, <1>3, <1>4, <1>5
  <1> QED BY <1>1, <1>2, <1>3, <1>6 DEF Digits

LEMMA DigitsAre ==
  /\ DigitsOf \in [0 .. MaxValue -> Seq(Digits)]
  /\ \A n \in 0 .. MaxValue :
       DigitsOf[n] = IF n = 0 THEN <<>> ELSE <<n % Base>> \o DigitsOf[n \div Base]
  <1> DEFINE T == 0 .. MaxValue
             X == Seq(Digits)
             step(n, f) == IF n = 0 THEN <<>> ELSE <<n % Base>> \o f[n \div Base]
             D == [p \in T \X [T -> X] |-> step(p[1], p[2])]
             h == [n \in T |-> n]
  <1>1. \A n \in T : n \in Nat /\ n \div Base \in T /\ n % Base \in Digits /\ (n # 0 => n \div Base < n)
    <2>1. MaxValue \in Nat
      BY WordFacts
    <2> SUFFICES ASSUME NEW n \in T
                 PROVE  n \in Nat /\ n \div Base \in T /\ n % Base \in Digits /\ (n # 0 => n \div Base < n)
      OBVIOUS
    <2>2. n \in Nat /\ n <= MaxValue
      BY <2>1
    <2>3. n \div Base \in 0 .. n /\ n % Base \in Digits /\ (n # 0 => n \div Base < n)
      BY <2>2, Divides
    <2>4. n \div Base \in T
      BY <2>1, <2>2, <2>3
    <2> QED BY <2>2, <2>3, <2>4
  <1> HIDE DEF T
  <1>2. \A n \in T, f \in [T -> X] : step(n, f) \in X
    <2> SUFFICES ASSUME NEW n \in T, NEW f \in [T -> X]
                 PROVE  step(n, f) \in X
      OBVIOUS
    <2>1. n % Base \in Digits /\ f[n \div Base] \in X
      BY <1>1
    <2> QED BY <2>1
  <1> HIDE DEF X
  <1>3. \A n \in T, f \in [T -> X] : D[<<n, f>>] = step(n, f)
    OBVIOUS
  <1>4. D \in [T \X [T -> X] -> X]
    <2> HIDE DEF step
    <2> QED BY <1>2
  <1>5. LooksBelow(D, T, X, h)
    <2> SUFFICES ASSUME NEW n \in T, NEW f \in [T -> X], NEW e \in [T -> X],
                        \A u \in T : h[u] < h[n] => f[u] = e[u]
                 PROVE  step(n, f) = step(n, e)
      BY <1>3 DEF LooksBelow
    <2>1. n # 0 => n \div Base \in T /\ h[n \div Base] < h[n]
      BY <1>1
    <2>2. n # 0 => f[n \div Base] = e[n \div Base]
      BY <2>1
    <2> HIDE DEF h
    <2> QED BY <2>2
  <1>6. h \in [T -> Nat] /\ X # {}
    <2>1. <<>> \in X
      BY DEF X
    <2> QED BY <1>1, <2>1
  <1>7. \E f \in [T -> X] : Solves(f, D, T)
    <2> HIDE DEF D, h
    <2> QED BY <1>4, <1>5, <1>6, Solution
  <1>8. PICK f \in [T -> X] : \A n \in T : f[n] = step(n, f)
    <2> HIDE DEF step
    <2> QED BY <1>3, <1>7 DEF Solves
  <1>9. f = [n \in T |-> step(n, f)]
    <2> HIDE DEF step
    <2> QED BY <1>8
  <1>10. DigitsOf = CHOOSE g : g = [n \in T |-> step(n, g)]
    BY Zenon DEF DigitsOf, T
  <1>11. DigitsOf = [n \in T |-> step(n, DigitsOf)]
    <2> HIDE DEF step
    <2> QED BY <1>9, <1>10, Zenon
  <1>12. \A n \in T : DigitsOf[n] = step(n, DigitsOf)
    <2> HIDE DEF step
    <2> QED BY <1>11
  <1>13. \A n \in T : DigitsOf[n] \in X
    <2> SUFFICES ASSUME \E n \in T : DigitsOf[n] \notin X
                 PROVE  FALSE
      OBVIOUS
    <2>1. PICK n \in {m \in T : DigitsOf[m] \notin X} : \A k \in {m \in T : DigitsOf[m] \notin X} : n <= k
      <3> DEFINE S == {m \in T : DigitsOf[m] \notin X}
      <3>1. S \in SUBSET Nat /\ S # {}
        BY <1>1
      <3> HIDE DEF S
      <3>2. \E x \in S : \A y \in S : x <= y
        BY <3>1, LeastNumber
      <3> QED BY <3>2 DEF S
    <2>2. n \in T /\ DigitsOf[n] \notin X /\ DigitsOf[n] = step(n, DigitsOf)
      BY <1>12, <2>1
    <2>3. n # 0
      <3>1. <<>> \in X
        BY DEF X
      <3> QED BY <2>2, <3>1
    <2>4. n \in Nat /\ n \div Base \in T /\ n \div Base < n /\ n \div Base \in Nat /\ n % Base \in Digits
      BY <1>1, <2>2, <2>3
    <2>5. DigitsOf[n \div Base] \in X
      BY <2>1, <2>4
    <2>6. DigitsOf[n] = <<n % Base>> \o DigitsOf[n \div Base]
      BY <2>2, <2>3
    <2>7. <<n % Base>> \o DigitsOf[n \div Base] \in X
      BY <2>4, <2>5 DEF X
    <2> QED BY <2>2, <2>6, <2>7
  <1> QED BY <1>11, <1>12, <1>13 DEF T, X

(* What digits stand for, from each digit up.                              *)
UpIn(s, b) == CHOOSE up : up = [k \in 1 .. Len(s) + 1 |-> IF k > Len(s) THEN 0 ELSE s[k] + b * up[k + 1]]
UpOf(s) == UpIn(s, Base)

LEMMA UpInIs ==
  ASSUME NEW s \in Seq(Nat), NEW b \in Nat
  PROVE  /\ UpIn(s, b) \in [1 .. Len(s) + 1 -> Nat]
         /\ UpIn(s, b)[Len(s) + 1] = 0
         /\ \A k \in 1 .. Len(s) : UpIn(s, b)[k] = s[k] + b * UpIn(s, b)[k + 1]
  <1>1. PICK n \in Nat : n = Len(s)
    OBVIOUS
  <1> DEFINE T == 1 .. n + 1
             step(k, f) == IF k > n THEN 0 ELSE s[k] + b * f[k + 1]
             D == [p \in T \X [T -> Nat] |-> step(p[1], p[2])]
             h == [k \in T |-> n + 1 - k]
             U == UpIn(s, b)
  <1>2. \A k \in T : k \in Nat /\ n + 1 - k \in Nat /\ (~(k > n) => k + 1 \in T /\ s[k] \in Nat)
    <2>1. \A k \in 1 .. n : s[k] \in Nat
      BY <1>1
    <2>3. \A k \in T : ~(k > n) => k \in 1 .. n
      OBVIOUS
    <2>4. \A k \in T : k \in Nat /\ n + 1 - k \in Nat /\ (~(k > n) => k + 1 \in T)
      OBVIOUS
    <2> HIDE DEF T
    <2> QED BY <2>1, <2>3, <2>4
  <1>3. n + 1 \in T /\ n + 1 > n /\ (\A k \in 1 .. n : k \in T /\ ~(k > n))
    OBVIOUS
  <1>4. \A k \in T, l \in T : l = k + 1 => n + 1 - l < n + 1 - k
    OBVIOUS
  <1> HIDE DEF T
  <1>5. \A k \in T, f \in [T -> Nat] : step(k, f) \in Nat /\ D[<<k, f>>] = step(k, f)
    <2> SUFFICES ASSUME NEW k \in T, NEW f \in [T -> Nat]
                 PROVE  step(k, f) \in Nat /\ D[<<k, f>>] = step(k, f)
      OBVIOUS
    <2>1. ~(k > n) => f[k + 1] \in Nat /\ s[k] \in Nat
      BY <1>2
    <2>2. CASE k > n
      <3>1. step(k, f) = 0
        BY <2>2
      <3> HIDE DEF step
      <3> QED BY <3>1
    <2>3. CASE ~(k > n)
      <3>1. step(k, f) = s[k] + b * f[k + 1]
        BY <2>3
      <3>2. b * f[k + 1] \in Nat
        BY <2>1, <2>3
      <3>3. PICK y \in Nat : y = b * f[k + 1]
        BY <3>2
      <3>4. s[k] + y \in Nat
        BY <2>1, <2>3, <3>3
      <3> HIDE DEF step
      <3> QED BY <3>1, <3>3, <3>4
    <2> HIDE DEF step
    <2> QED BY <2>2, <2>3
  <1>6. D \in [T \X [T -> Nat] -> Nat]
    <2> HIDE DEF step
    <2> QED BY <1>5
  <1>7. LooksBelow(D, T, Nat, h)
    <2>1. ASSUME NEW k \in T, NEW f \in [T -> Nat], NEW e \in [T -> Nat],
                 \A u \in T : h[u] < h[k] => f[u] = e[u]
          PROVE  step(k, f) = step(k, e)
      <3>1. ~(k > n) => k + 1 \in T /\ h[k + 1] < h[k]
        BY <1>2, <1>4
      <3> HIDE DEF h
      <3>2. ~(k > n) => f[k + 1] = e[k + 1]
        BY <2>1, <3>1
      <3> QED BY <3>2
    <2> HIDE DEF step, D, h
    <2>2. ASSUME NEW k \in T, NEW f \in [T -> Nat], NEW e \in [T -> Nat],
                 \A u \in T : h[u] < h[k] => f[u] = e[u]
          PROVE  D[<<k, f>>] = D[<<k, e>>]
      <3>1. D[<<k, f>>] = step(k, f) /\ D[<<k, e>>] = step(k, e)
        BY <1>5, Zenon
      <3>2. step(k, f) = step(k, e)
        BY <2>1, <2>2, Zenon
      <3> QED BY <3>1, <3>2, Zenon
    <2> QED BY <2>2 DEF LooksBelow
  <1>8. h \in [T -> Nat] /\ Nat # {}
    BY <1>2
  <1>9. \E f \in [T -> Nat] : Solves(f, D, T)
    <2> HIDE DEF D, h
    <2> QED BY <1>6, <1>7, <1>8, Solution
  <1>10. PICK f \in [T -> Nat] : \A k \in T : f[k] = step(k, f)
    <2> HIDE DEF step
    <2> QED BY <1>5, <1>9 DEF Solves
  <1>11. f = [k \in T |-> step(k, f)]
    <2> HIDE DEF step
    <2> QED BY <1>10
  <1>12. U = CHOOSE up : up = [k \in T |-> step(k, up)]
    BY <1>1, Zenon DEF UpIn, T
  <1> HIDE DEF U
  <1>13. U = [k \in T |-> step(k, U)]
    <2> HIDE DEF step
    <2> QED BY <1>11, <1>12, Zenon
  <1>14. \A k \in T : U[k] = step(k, U)
    <2> HIDE DEF step
    <2> QED BY <1>13
  <1>15. U[n + 1] = 0 /\ \A k \in 1 .. n : U[k] = s[k] + b * U[k + 1]
    BY <1>3, <1>14, Zenon
  <1>16. \A k \in T : U[k] \in Nat
    <2> DEFINE S == {k \in T : U[k] \notin Nat}
    <2> SUFFICES ASSUME S # {}
                 PROVE  FALSE
      OBVIOUS
    <2>1. S \in SUBSET T
      OBVIOUS
    <2> HIDE DEF S
    <2>2. PICK k \in S : \A l \in S : h[k] <= h[l]
      <3> HIDE DEF h
      <3> QED BY <1>8, <2>1, Lowest
    <2>3. k \in T /\ U[k] \notin Nat /\ U[k] = step(k, U)
      BY <1>14, <2>2 DEF S
    <2>4. ~(k > n)
      BY <2>3
    <2>5. k + 1 \in T /\ ~(h[k] <= h[k + 1]) /\ s[k] \in Nat
      BY <1>2, <1>4, <2>3, <2>4
    <2>6. U[k + 1] \in Nat
      BY <2>2, <2>5 DEF S
    <2>8. step(k, U) = s[k] + b * U[k + 1]
      BY <2>4
    <2>9. b * U[k + 1] \in Nat
      BY <2>6
    <2> HIDE DEF step
    <2>10. s[k] + b * U[k + 1] \in Nat
      BY <2>5, <2>9
    <2> QED BY <2>3, <2>8, <2>10
  <1>17. U \in [T -> Nat]
    <2> HIDE DEF step
    <2> QED BY <1>13, <1>16
  <1> QED BY <1>1, <1>15, <1>17 DEF U, T

LEMMA UpIs ==
  ASSUME NEW s \in Seq(Digits)
  PROVE  /\ UpOf(s) \in [1 .. Len(s) + 1 -> Nat]
         /\ UpOf(s)[Len(s) + 1] = 0
         /\ \A k \in 1 .. Len(s) : UpOf(s)[k] = s[k] + Base * UpOf(s)[k + 1]
  <1>1. s \in Seq(Nat) /\ Base \in Nat
    <2>1. Digits \subseteq Nat
      BY Sizes DEF Digits
    <2>2. s \in Seq(Nat)
      BY <2>1, SeqMonotonic, Zenon
    <2>3. Base \in Nat
      BY Sizes, Zenon
    <2> QED BY <2>2, <2>3
  <1> QED BY <1>1, UpInIs DEF UpOf

(* A digit before the others.                                              *)
LEMMA UpPrepended ==
  ASSUME NEW s \in Seq(Digits), NEW d \in Digits
  PROVE  UpOf(<<d>> \o s)[1] = d + Base * UpOf(s)[1]
  <1> DEFINE t == <<d>> \o s
  <1>1. PICK n \in Nat : n = Len(s)
    OBVIOUS
  <1>2. t \in Seq(Digits) /\ Len(t) = n + 1 /\ t[1] = d /\ \A k \in 1 .. n : t[k + 1] = s[k]
    BY <1>1
  <1> HIDE DEF t
  <1>3. /\ UpOf(t)[n + 2] = 0
        /\ \A k \in 1 .. n + 1 : UpOf(t)[k] = t[k] + Base * UpOf(t)[k + 1]
    <2>1. n + 1 + 1 = n + 2
      OBVIOUS
    <2> QED BY <1>2, <2>1, UpIs
  <1>4. /\ UpOf(s)[n + 1] = 0
        /\ \A k \in 1 .. n : UpOf(s)[k] = s[k] + Base * UpOf(s)[k + 1]
    BY <1>1, UpIs
  <1> DEFINE T == 1 .. n + 1
             S == {k \in T : UpOf(t)[k + 1] # UpOf(s)[k]}
             h == [k \in T |-> n + 1 - k]
  <1>5. S = {}
    <2> SUFFICES ASSUME S # {}
                 PROVE  FALSE
      OBVIOUS
    <2>1. S \in SUBSET T /\ h \in [T -> Nat]
      OBVIOUS
    <2> HIDE DEF S
    <2>2. PICK k \in S : \A l \in S : h[k] <= h[l]
      <3> HIDE DEF h, T
      <3> QED BY <2>1, Lowest
    <2>3. k \in T /\ UpOf(t)[k + 1] # UpOf(s)[k]
      BY <2>2 DEF S
    <2>4. k # n + 1
      <3>1. n + 1 + 1 = n + 2
        OBVIOUS
      <3> QED BY <1>3, <1>4, <2>3, <3>1
    <2>5. k \in 1 .. n /\ k + 1 \in T /\ k + 1 + 1 = k + 2 /\ k + 1 \in 1 .. n + 1
      BY <2>3, <2>4
    <2>6. ~(h[k] <= h[k + 1])
      BY <2>3, <2>5
    <2>7. UpOf(t)[k + 1 + 1] = UpOf(s)[k + 1]
      BY <2>2, <2>5, <2>6 DEF S
    <2>8. UpOf(t)[k + 1] = t[k + 1] + Base * UpOf(t)[k + 1 + 1]
      BY <1>3, <2>5
    <2>9. UpOf(s)[k] = s[k] + Base * UpOf(s)[k + 1]
      BY <1>4, <2>5
    <2>10. t[k + 1] = s[k]
      BY <1>2, <2>5
    <2> QED BY <2>3, <2>7, <2>8, <2>9, <2>10
  <1>6. 1 \in T /\ 1 \in 1 .. n + 1 /\ 1 + 1 = 2
    OBVIOUS
  <1>7. UpOf(t)[2] = UpOf(s)[1]
    BY <1>5, <1>6
  <1>8. UpOf(t)[1] = t[1] + Base * UpOf(t)[2]
    BY <1>3, <1>6
  <1> QED BY <1>2, <1>7, <1>8 DEF t

(* The digits of a number stand for it, and the highest is not 0.          *)
LEMMA DigitsStandFor ==
  ASSUME NEW n \in 0 .. MaxValue
  PROVE  /\ DigitsOf[n] \in Seq(Digits)
         /\ UpOf(DigitsOf[n])[1] = n
         /\ n # 0 => DigitsOf[n] # <<>> /\ DigitsOf[n][Len(DigitsOf[n])] # 0
         /\ n = 0 => DigitsOf[n] = <<>>
  <1> DEFINE Good(m) == /\ UpOf(DigitsOf[m])[1] = m
                        /\ m # 0 => DigitsOf[m] # <<>> /\ DigitsOf[m][Len(DigitsOf[m])] # 0
             S == {m \in 0 .. MaxValue : ~Good(m)}
  <1>1. \A m \in 0 .. MaxValue : DigitsOf[m] \in Seq(Digits)
    BY DigitsAre, Zenon
  <1>2. S = {}
    <2> SUFFICES ASSUME S # {}
                 PROVE  FALSE
      OBVIOUS
    <2>1. S \in SUBSET Nat
      BY WordFacts
    <2> HIDE DEF S
    <2>2. PICK m \in S : \A k \in S : m <= k
      BY <2>1, LeastNumber
    <2>3. m \in 0 .. MaxValue /\ ~Good(m)
      BY <2>2 DEF S
    <2>4. m # 0
      <3> SUFFICES ASSUME m = 0
                   PROVE  FALSE
        OBVIOUS
      <3>1. DigitsOf[m] = <<>>
        BY <2>3, DigitsAre, Zenon
      <3>2. UpOf(<<>>)[1] = 0
        <4>1. <<>> \in Seq(Digits) /\ Len(<<>>) + 1 = 1
          OBVIOUS
        <4> QED BY <4>1, UpIs
      <3> QED BY <2>3, <3>1, <3>2
    <2>5. m \in Nat /\ MaxValue \in Nat
      BY <2>1, <2>2, WordFacts
    <2> DEFINE q == m \div Base
               d == m % Base
    <2>6. q \in 0 .. m /\ d \in Digits /\ m = d + Base * q /\ q < m
      BY <2>4, <2>5, Divides
    <2>7. DigitsOf[m] = <<d>> \o DigitsOf[q]
      BY <2>3, <2>4, DigitsAre, Zenon
    <2> HIDE DEF q, d
    <2>8. q \in 0 .. MaxValue /\ q \in Nat /\ ~(m <= q)
      BY <2>3, <2>5, <2>6
    <2>9. Good(q)
      <3> HIDE DEF Good
      <3> QED BY <2>2, <2>8 DEF S
    <2>10. DigitsOf[q] \in Seq(Digits)
      BY <1>1, <2>8
    <2>11. UpOf(DigitsOf[m])[1] = m
      BY <2>6, <2>7, <2>9, <2>10, UpPrepended
    <2>12. DigitsOf[m] # <<>> /\ DigitsOf[m][Len(DigitsOf[m])] # 0
      <3>1. CASE q = 0
        <4>1. DigitsOf[q] = <<>>
          BY <2>8, <3>1, DigitsAre, Zenon
        <4>2. DigitsOf[m] = <<d>>
          BY <2>7, <4>1
        <4>3. d # 0
          BY <2>4, <2>6, <3>1, Sizes
        <4> QED BY <4>2, <4>3
      <3>2. CASE q # 0
        <4>1. PICK s \in Seq(Digits) : s = DigitsOf[q] /\ s # <<>> /\ s[Len(s)] # 0
          BY <2>9, <2>10, <3>2
        <4>2. Len(<<d>> \o s) = Len(s) + 1 /\ Len(s) >= 1 /\ (<<d>> \o s)[Len(s) + 1] = s[Len(s)]
          BY <2>6, <4>1
        <4> QED BY <2>7, <4>1, <4>2
      <3> QED BY <3>1, <3>2
    <2> QED BY <2>3, <2>11, <2>12
  <1>3. Good(n)
    <2> HIDE DEF Good
    <2> QED BY <1>2
  <1>4. n = 0 => DigitsOf[n] = <<>>
    BY DigitsAre, Zenon
  <1> QED BY <1>1, <1>3, <1>4

-----------------------------------------------------------------------------
(* Reading an integer back.                                                *)
Fit(u) == IF u < Full THEN u ELSE Null

LEMMA ShiftedIs ==
  ASSUME NEW u \in Nat, NEW d \in Digits
  PROVE  Shifted(Fit(u), d) = Fit(d + Base * u)
  <1>1. Base \in Nat /\ Base >= 2 /\ Full \in Nat /\ d \in Int /\ 0 <= d /\ d < Base
    BY Sizes DEF Digits
  <1>2. PICK K \in Nat : K >= 1 /\ Full = K * Base
    BY DigitsFill
  <1>3. Base * u \in Int
    BY <1>1
  <1>4. u >= K => Base * u >= Full
    BY <1>1, <1>2
  <1>5. u <= K - 1 => Base * u <= Full - Base
    <2>1. (K - 1) * Base = Full - Base
      BY <1>1, <1>2
    <2>2. u <= K - 1 => Base * u <= (K - 1) * Base
      BY <1>1, <1>2
    <2> QED BY <2>1, <2>2
  <1>6. (Full - 1) \div Base = K - 1
    <2> DEFINE q == (Full - 1) \div Base
               m == (Full - 1) % Base
    <2>1. Full - 1 \in Int /\ Base \in Nat \ {0}
      BY <1>1
    <2>2. m \in 0 .. Base - 1 /\ q \in Int /\ Full - 1 = (Base * q) + m
      BY <2>1, Division
    <2> HIDE DEF q, m
    <2>3. m \in Int /\ 0 <= m /\ m <= Base - 1 /\ Base * q \in Int
      BY <1>1, <2>2
    <2>4. q >= K => Base * q >= Full
      BY <1>1, <1>2, <2>2
    <2>5. q <= K - 2 => Base * q <= Full - 2 * Base
      <3>1. (K - 2) * Base = Full - 2 * Base
        BY <1>1, <1>2
      <3>2. q <= K - 2 => Base * q <= (K - 2) * Base
        BY <1>1, <1>2, <2>2
      <3> QED BY <3>1, <3>2
    <2>6. q = K - 1
      BY <1>1, <1>2, <2>2, <2>3, <2>4, <2>5
    <2> QED BY <2>6 DEF q
  <1>7. \A x \in Nat : x # Null
    BY WordFacts
  <1>8. CASE u >= Full
    <2>1. Fit(u) = Null /\ Shifted(Null, d) = Null
      BY <1>1, <1>8 DEF Fit, Shifted
    <2>2. Base * u >= u
      BY <1>1
    <2>3. Fit(d + Base * u) = Null
      BY <1>1, <1>3, <1>8, <2>2 DEF Fit
    <2> QED BY <2>1, <2>3
  <1>9. CASE u < Full
    <2>1. Fit(u) = u /\ u # Null
      BY <1>7, <1>9 DEF Fit
    <2>2. Shifted(u, d) = IF u > K - 1 THEN Null ELSE ((u * Base) % Full) + d
      BY <1>6, <2>1 DEF Shifted, Full
    <2>3. CASE u > K - 1
      <3>1. Fit(d + Base * u) = Null
        BY <1>1, <1>2, <1>3, <1>4, <2>3 DEF Fit
      <3> QED BY <2>1, <2>2, <2>3, <3>1
    <2>4. CASE u <= K - 1
      <3>1. PICK x \in Nat : x = Base * u /\ x = u * Base
        BY <1>1
      <3>2. x < Full
        BY <1>1, <1>5, <2>4, <3>1
      <3>3. x % Full = x
        BY <1>1, <3>2
      <3>4. Fit(d + x) = d + x
        <4>1. x <= Full - Base
          BY <1>5, <2>4, <3>1
        <4>2. d + x < Full
          BY <1>1, <4>1
        <4> QED BY <4>2 DEF Fit
      <3>5. ~(u > K - 1)
        BY <1>2, <2>4
      <3>6. Shifted(u, d) = x + d
        BY <2>2, <3>1, <3>3, <3>5
      <3> QED BY <1>1, <2>1, <3>1, <3>4, <3>6
    <2> QED BY <1>2, <2>3, <2>4
  <1> QED BY <1>1, <1>8, <1>9

(* What the digits of i stand for, without its sign.                       *)
Magnitude(i) == UpOf(i.digits)[1]

LEMMA ValueIs ==
  ASSUME NEW i, i.digits \in Seq(Digits)
  PROVE  /\ Magnitude(i) \in Nat
         /\ Value(i) = IF i.negative THEN -Magnitude(i) ELSE Magnitude(i)
  <1>1. PICK s \in Seq(Digits) : s = i.digits
    OBVIOUS
  <1>2. 1 \in 1 .. Len(s) + 1 /\ UpOf(s) \in [1 .. Len(s) + 1 -> Nat]
    <2>1. Len(s) \in Nat
      OBVIOUS
    <2>2. UpOf(s) \in [1 .. Len(s) + 1 -> Nat]
      BY UpIs
    <2> QED BY <2>1, <2>2
  <1>3. UpOf(s)[1] \in Nat
    BY <1>2
  <1>4. Value(i) = IF i.negative THEN -UpOf(i.digits)[1] ELSE UpOf(i.digits)[1]
    BY Zenon DEF Value, Numeral, UpOf, UpIn
  <1> QED BY <1>1, <1>3, <1>4, Zenon DEF Magnitude

ReadOf(s) == CHOOSE acc : acc = [k \in 1 .. Len(s) + 1 |-> IF k > Len(s) THEN 0 ELSE Shifted(acc[k + 1], s[k])]

(* pylong_to_i64 is the value if a C value holds it, and nothing else.     *)
LEMMA ToWordIs ==
  ASSUME NEW i, i.digits \in Seq(Digits)
  PROVE  /\ Value(i) \in Int
         /\ ToWord(i) = IF Value(i) \in Words THEN Value(i) ELSE Null
  <1>1. PICK s \in Seq(Digits) : s = i.digits
    OBVIOUS
  <1>2. PICK n \in Nat : n = Len(s)
    OBVIOUS
  <1> DEFINE T == 1 .. n + 1
             A == ReadOf(s)
             up == UpOf(s)
             f == [k \in T |-> Fit(up[k])]
             h == [k \in T |-> n + 1 - k]
  <1>3. /\ \A k \in T : up[k] \in Nat
        /\ up[n + 1] = 0
        /\ \A k \in 1 .. n : up[k] = s[k] + Base * up[k + 1]
    BY <1>2, UpIs
  <1>4. \A k \in T : k \in Nat /\ (k > n => k = n + 1) /\ (~(k > n) => k \in 1 .. n /\ k + 1 \in T)
    OBVIOUS
  <1>5. n + 1 \in T /\ 1 \in T
    OBVIOUS
  <1>6. Fit(0) = 0
    BY Sizes DEF Fit
  <1>7. h \in [T -> Nat] /\ \A k \in T : ~(k > n) => ~(h[k] <= h[k + 1])
    OBVIOUS
  <1> HIDE DEF T, up, h
  <1>8. \A k \in T : ~(k > n) => Shifted(Fit(up[k + 1]), s[k]) = Fit(up[k])
    <2> SUFFICES ASSUME NEW k \in T, ~(k > n)
                 PROVE  Shifted(Fit(up[k + 1]), s[k]) = Fit(up[k])
      OBVIOUS
    <2>1. k \in 1 .. n /\ k + 1 \in T
      BY <1>4
    <2>2. s[k] \in Digits /\ up[k + 1] \in Nat /\ up[k] = s[k] + Base * up[k + 1]
      BY <1>2, <1>3, <2>1
    <2> QED BY <2>2, ShiftedIs
  <1>9. f = [k \in T |-> IF k > n THEN 0 ELSE Shifted(f[k + 1], s[k])]
    <2>1. \A k \in T : f[k] = Fit(up[k])
      OBVIOUS
    <2>2. \A k \in T : Fit(up[k]) = IF k > n THEN 0 ELSE Shifted(f[k + 1], s[k])
      <3> HIDE DEF f
      <3> SUFFICES ASSUME NEW k \in T
                   PROVE  Fit(up[k]) = IF k > n THEN 0 ELSE Shifted(f[k + 1], s[k])
        OBVIOUS
      <3>1. k > n => Fit(up[k]) = 0
        BY <1>3, <1>4, <1>6
      <3>2. ~(k > n) => f[k + 1] = Fit(up[k + 1])
        BY <1>4, <2>1
      <3>3. ~(k > n) => Shifted(f[k + 1], s[k]) = Fit(up[k])
        BY <1>8, <3>2
      <3> QED BY <3>1, <3>3
    <2> QED BY <2>2, Zenon
  <1> HIDE DEF f
  <1>10. A = [k \in T |-> IF k > n THEN 0 ELSE Shifted(A[k + 1], s[k])]
    <2>1. A = CHOOSE acc : acc = [k \in T |-> IF k > n THEN 0 ELSE Shifted(acc[k + 1], s[k])]
      BY <1>2, Zenon DEF ReadOf, T
    <2> HIDE DEF A
    <2> QED BY <1>9, <2>1, Zenon
  <1> HIDE DEF A
  <1>11. \A k \in T : A[k] = IF k > n THEN 0 ELSE Shifted(A[k + 1], s[k])
    BY <1>10, Zenon
  <1>12. \A k \in T : A[k] = Fit(up[k])
    <2> DEFINE S == {k \in T : A[k] # Fit(up[k])}
    <2> SUFFICES ASSUME S # {}
                 PROVE  FALSE
      OBVIOUS
    <2>1. S \in SUBSET T
      OBVIOUS
    <2> HIDE DEF S
    <2>2. PICK k \in S : \A l \in S : h[k] <= h[l]
      BY <1>7, <2>1, Lowest
    <2>3. k \in T /\ A[k] # Fit(up[k])
      BY <2>2 DEF S
    <2>4. ~(k > n)
      BY <1>3, <1>4, <1>6, <1>11, <2>3
    <2>5. k + 1 \in T /\ ~(h[k] <= h[k + 1])
      BY <1>4, <1>7, <2>3, <2>4
    <2>6. A[k + 1] = Fit(up[k + 1])
      BY <2>2, <2>5 DEF S
    <2>7. A[k] = Shifted(A[k + 1], s[k])
      BY <1>11, <2>3, <2>4
    <2> QED BY <1>8, <2>3, <2>4, <2>6, <2>7
  <1> DEFINE m == Magnitude(i)
  <1>13. m \in Nat /\ Value(i) = (IF i.negative THEN -m ELSE m) /\ A[1] = Fit(m)
    <2>1. up[1] = m
      BY <1>1 DEF up, Magnitude
    <2>2. A[1] = Fit(up[1])
      BY <1>5, <1>12
    <2>3. m \in Nat /\ Value(i) = (IF i.negative THEN -m ELSE m)
      BY ValueIs
    <2> HIDE DEF m
    <2> QED BY <2>1, <2>2, <2>3
  <1>14. ToWord(i) = IF A[1] = Null THEN Null
                     ELSE IF i.negative THEN (IF A[1] > WordMax + 1 THEN Null ELSE -A[1])
                     ELSE IF A[1] > WordMax THEN Null ELSE A[1]
    <2> DEFINE B == ReadOf(i.digits)
    <2>1. ToWord(i) = IF B[1] = Null THEN Null
                      ELSE IF i.negative THEN (IF B[1] > WordMax + 1 THEN Null ELSE -B[1])
                      ELSE IF B[1] > WordMax THEN Null ELSE B[1]
      BY Zenon DEF ToWord, ReadOf
    <2>2. B = A
      BY <1>1 DEF A
    <2> HIDE DEF B
    <2> QED BY <2>1, <2>2
  <1> HIDE DEF m
  <1>15. Full \in Nat /\ Half \in Nat /\ Full = 2 * Half /\ WordMax = Half - 1 /\ WordMin = -Half /\ Half >= 2
    BY Sizes
  <1>16. m # Null /\ -m \in Int
    BY <1>13, WordFacts
  <1>17. CASE m < Full
    <2>1. A[1] = m
      BY <1>13, <1>17 DEF Fit
    <2>2. CASE i.negative
      <3>1. ToWord(i) = IF m > Half THEN Null ELSE -m
        BY <1>14, <1>15, <1>16, <2>1, <2>2
      <3>2. Value(i) = -m
        BY <1>13, <2>2
      <3>3. (-m \in Words) = ~(m > Half)
        BY <1>13, <1>15 DEF Words
      <3> QED BY <1>16, <3>1, <3>2, <3>3
    <2>3. CASE ~i.negative
      <3>1. ToWord(i) = IF m > Half - 1 THEN Null ELSE m
        BY <1>14, <1>15, <1>16, <2>1, <2>3
      <3>2. Value(i) = m
        BY <1>13, <2>3
      <3>3. (m \in Words) = ~(m > Half - 1)
        BY <1>13, <1>15 DEF Words
      <3> QED BY <1>13, <3>1, <3>2, <3>3
    <2> QED BY <2>2, <2>3
  <1>18. CASE ~(m < Full)
    <2>1. ToWord(i) = Null
      BY <1>13, <1>14, <1>18 DEF Fit
    <2>2. -m \notin Words /\ m \notin Words
      BY <1>13, <1>15, <1>18 DEF Words
    <2> QED BY <1>13, <1>16, <2>1, <2>2
  <1> QED BY <1>17, <1>18

-----------------------------------------------------------------------------
(* Making integers.                                                        *)
Stands(i, n) ==
  /\ i.negative \in BOOLEAN /\ i.digits \in Seq(Digits)
  /\ i.digits # <<>> => i.digits[Len(i.digits)] # 0
  /\ Value(i) = n

LEMMA MadeOf ==
  ASSUME NEW n \in Int, Abs(n) <= MaxValue
  PROVE  Stands([negative |-> n < 0, digits |-> DigitsOf[Abs(n)]], n)
  <1> DEFINE i == [negative |-> n < 0, digits |-> DigitsOf[Abs(n)]]
  <1>1. Abs(n) \in 0 .. MaxValue /\ (n < 0 => Abs(n) = -n) /\ (~(n < 0) => Abs(n) = n)
    BY WordFacts DEF Abs
  <1>2. i.negative = (n < 0) /\ i.digits = DigitsOf[Abs(n)]
    OBVIOUS
  <1> HIDE DEF i
  <1>3. i.digits \in Seq(Digits) /\ UpOf(i.digits)[1] = Abs(n)
        /\ (Abs(n) # 0 => i.digits[Len(i.digits)] # 0) /\ (Abs(n) = 0 => i.digits = <<>>)
    <2> DEFINE a == Abs(n)
    <2>1. a \in 0 .. MaxValue
      BY <1>1
    <2> HIDE DEF a
    <2>2. DigitsOf[a] \in Seq(Digits) /\ UpOf(DigitsOf[a])[1] = a
          /\ (a # 0 => DigitsOf[a][Len(DigitsOf[a])] # 0) /\ (a = 0 => DigitsOf[a] = <<>>)
      BY <2>1, DigitsStandFor
    <2> QED BY <1>2, <2>2 DEF a
  <1>4. Value(i) = IF n < 0 THEN -Abs(n) ELSE Abs(n)
    BY <1>2, <1>3, ValueIs DEF Magnitude
  <1>5. Value(i) = n
    BY <1>1, <1>4
  <1>6. i.negative \in BOOLEAN
    BY <1>2
  <1>7. i.digits # <<>> => i.digits[Len(i.digits)] # 0
    BY <1>3
  <1>8. Stands(i, n)
    BY <1>3, <1>5, <1>6, <1>7 DEF Stands
  <1> QED BY <1>8 DEF i

LEMMA WithinMax ==
  ASSUME NEW n \in Int
  PROVE  (n \in Words => Abs(n) <= MaxValue) /\ (n \in Unsigned => Abs(n) <= MaxValue)
         /\ (n \in Larges => Abs(n) <= MaxValue)
  <1>1. MaxValue >= Full /\ Larges \subseteq -MaxValue .. MaxValue /\ MaxValue \in Nat
    BY WordFacts DEF Full
  <1>2. Full \in Nat /\ Half \in Nat /\ Full = 2 * Half /\ WordMax = Half - 1 /\ WordMin = -Half
    BY Sizes
  <1>3. n \in Words => Abs(n) <= MaxValue
    BY <1>1, <1>2 DEF Words, Abs
  <1>4. n \in Unsigned => Abs(n) <= MaxValue
    BY <1>1, <1>2 DEF Unsigned, Full, Abs
  <1>5. n \in Larges => Abs(n) <= MaxValue
    BY <1>1 DEF Abs
  <1> QED BY <1>3, <1>4, <1>5

LEMMA CreateLongIs ==
  ASSUME NEW v \in Words
  PROVE  Stands(CreateLong(v), v) /\ Stands(FromWord(v), v)
  <1>1. v \in Int /\ SmallMin \in Int /\ SmallMax \in Int
    BY WordFacts, Sizes DEF Words
  <1>2. Stands(FromWord(v), v)
    BY <1>1, WithinMax, MadeOf DEF FromWord
  <1>3. CASE v >= SmallMin /\ v <= SmallMax
    <2>1. v - SmallMin \in 0 .. SmallMax - SmallMin /\ SmallMin + (v - SmallMin) = v
      BY <1>1, <1>3
    <2>2. SmallInts[v - SmallMin] = FromWord(v)
      BY <2>1 DEF SmallInts
    <2> QED BY <1>2, <1>3, <2>2 DEF CreateLong
  <1>4. CASE ~(v >= SmallMin /\ v <= SmallMax)
    BY <1>2, <1>4 DEF CreateLong
  <1> QED BY <1>3, <1>4

LEMMA FromUnsignedIs ==
  ASSUME NEW v \in Unsigned
  PROVE  /\ \E n \in Int : Stands(FromUnsigned(v), n) /\ (v \in Words => n = v)
         /\ Stands(FromUnsignedLongLong(v), v)
         /\ v \in Int
  <1>1. v \in Int /\ v >= 0 /\ WordMax \in Int /\ WordMin <= 0
    BY Sizes DEF Unsigned
  <1>2. CASE v > WordMax
    <2>1. v \notin Words /\ Wrap(v) \in Words
      BY <1>1, <1>2, WrapIs DEF Words
    <2>2. Stands(FromUnsigned(v), Wrap(v)) /\ Wrap(v) \in Int
      <3>1. FromUnsigned(v) = FromWord(Wrap(v))
        BY <1>2 DEF FromUnsigned
      <3>2. Wrap(v) \in Int
        BY <2>1, Sizes DEF Words
      <3> QED BY <2>1, <3>1, <3>2, CreateLongIs
    <2>3. Stands(FromUnsignedLongLong(v), v)
      <3>1. ~(v < 0) /\ Abs(v) = v /\ Abs(v) <= MaxValue
        BY <1>1, WithinMax DEF Abs
      <3>a. (v < 0) = FALSE
        BY <3>1
      <3>2. FromUnsignedLongLong(v) = [negative |-> v < 0, digits |-> DigitsOf[Abs(v)]]
        BY <1>2, <3>1, <3>a, Zenon DEF FromUnsignedLongLong
      <3> QED BY <1>1, <3>1, <3>2, MadeOf
    <2> QED BY <1>1, <2>1, <2>2, <2>3
  <1>3. CASE ~(v > WordMax)
    <2>1. v \in Words
      BY <1>1, <1>3, Sizes DEF Words
    <2>2. FromUnsigned(v) = CreateLong(v) /\ FromUnsignedLongLong(v) = CreateLong(v)
      BY <1>3 DEF FromUnsigned, FromUnsignedLongLong
    <2> QED BY <1>1, <2>1, <2>2, CreateLongIs
  <1> QED BY <1>2, <1>3

LEMMA FromDoubleIs ==
  ASSUME NEW n \in Larges
  PROVE  /\ n \in Int
         /\ \E m \in Int : Stands(FromDouble(n), m) /\ (n \in Words => m = n)
  <1>1. n \in Int
    BY WordFacts
  <1>2. WordMin \in Int /\ WordMax \in Int /\ WordMin <= WordMax
    BY Sizes
  <1>3. PICK m \in Words : m = (IF n > WordMax THEN WordMax ELSE IF n < WordMin THEN WordMin ELSE n)
    BY <1>1, <1>2 DEF Words
  <1>4. FromDouble(n) = CreateLong(m)
    BY <1>3 DEF FromDouble
  <1>5. m \in Int /\ (n \in Words => m = n)
    BY <1>1, <1>2, <1>3 DEF Words
  <1> QED BY <1>1, <1>4, <1>5, CreateLongIs

(* A parse in base 10 gives a number whose digits can be taken.            *)
LEMMA ParsedIs ==
  ASSUME NEW t \in Texts
  PROVE  /\ t.digits \in Seq(Nat)
         /\ Parsed(t, 10) # Null => Parsed(t, 10) \in Int /\ Abs(Parsed(t, 10)) <= MaxValue
  <1>1. t.digits \in Seq(Characters)
    BY TextFacts
  <1>2. PICK s \in Seq(Nat) : s = t.digits
    <2>1. Characters \subseteq Nat
      BY DEF Characters
    <2>2. t.digits \in Seq(Nat)
      BY <1>1, <2>1, SeqMonotonic, Zenon
    <2> QED BY <2>2, Zenon
  <1>3. UpIn(s, 10)[1] \in Nat
    <2>1. Len(s) \in Nat
      OBVIOUS
    <2>2. 1 \in 1 .. Len(s) + 1
      BY <2>1
    <2> QED BY <2>2, UpInIs
  <1>4. Numeral(s, 10) = UpIn(s, 10)[1]
    BY Zenon DEF Numeral, UpIn
  <1>5. PICK n \in Nat : n = Numeral(t.digits, 10)
    BY <1>2, <1>3, <1>4
  <1>6. Parsed(t, 10) = Null \/ Parsed(t, 10) = -n \/ Parsed(t, 10) = n
    BY <1>5, Zenon DEF Parsed
  <1>7. Parsed(t, 10) # Null => Abs(Parsed(t, 10)) <= MaxValue
    BY TextFacts
  <1> QED BY <1>2, <1>6, <1>7

(* PyLong_FromString on a text that is not rejected.                       *)
Claimed(t, radix) ==
  /\ InPython(t, radix) # Null
  /\ Marks(t, radix) # {} => radix = 0 /\ t.sign = "none"
  /\ InPython(t, radix) \in Words \/ radix = 10 \/ (radix = 0 /\ Marks(t, radix) = {})

LEMMA FromStringIs ==
  ASSUME NEW t \in Texts, NEW radix \in Bases
  PROVE  /\ ~Rejected(t, radix) => \E m \in Int : Stands(FromString(t, radix), m)
         /\ Claimed(t, radix) => ~Rejected(t, radix) /\ Stands(FromString(t, radix), InPython(t, radix))
  <1> DEFINE w == ParsedWord(t, radix)
             d == Parsed(t, 10)
             found == {b \in {2, 8, 16} : radix = 0 /\ t.sign = "none" /\ Prefixed(t, b)}
             r == IF radix = 0 THEN 10 ELSE radix
             q == IF found # {} THEN Parsed(Stripped(t), CHOOSE b \in found : TRUE) ELSE Parsed(t, r)
             n == InPython(t, radix)
  <1>1. Null \notin Words /\ Words \subseteq Int
    BY WordsAre
  <1>2. w = IF q \in Words THEN q ELSE Null
    BY Zenon DEF ParsedWord
  <1>3. d # Null => d \in Int /\ Abs(d) <= MaxValue
    BY ParsedIs
  <1>4. ASSUME w # Null
        PROVE  w = q /\ w \in Words /\ ~Rejected(t, radix) /\ Stands(FromString(t, radix), w)
    <2>1. w = q /\ w \in Words
      BY <1>2, <1>4
    <2>2. FromString(t, radix) = CreateLong(w) /\ ~Rejected(t, radix)
      BY <1>4, Zenon DEF FromString, Rejected
    <2> HIDE DEF w
    <2> QED BY <2>1, <2>2, CreateLongIs
  <1>5. ASSUME w = Null, d # Null
        PROVE  ~Rejected(t, radix) /\ Stands(FromString(t, radix), d)
    <2>1. FromString(t, radix) = FromBigInt(d) /\ ~Rejected(t, radix)
      BY <1>5, Zenon DEF FromString, Rejected
    <2> HIDE DEF d
    <2>2. CASE d \in Words
      BY <2>1, <2>2, CreateLongIs DEF FromBigInt
    <2>3. CASE d \notin Words
      BY <1>3, <1>5, <2>1, <2>3, MadeOf DEF FromBigInt
    <2> QED BY <2>1, <2>2, <2>3
  <1>6. ~Rejected(t, radix) => w # Null \/ d # Null
    BY Zenon DEF Rejected
  <1>7. ~Rejected(t, radix) => \E m \in Int : Stands(FromString(t, radix), m)
    <2> HIDE DEF w
    <2> HIDE DEF d
    <2> QED BY <1>1, <1>3, <1>4, <1>5, <1>6
  <1>8. ASSUME Claimed(t, radix)
        PROVE  ~Rejected(t, radix) /\ Stands(FromString(t, radix), n)
    <2>1. CASE Marks(t, radix) # {}
      <3>1. radix = 0 /\ t.sign = "none" /\ n \in Words
        BY <1>8, <2>1 DEF Claimed
      <3>2. found = Marks(t, radix)
        <4>1. \A b \in {2, 8, 16} : radix \in {0, b}
          BY <3>1
        <4> QED BY <3>1, <4>1, Zenon DEF Marks
      <3>3. q = n
        <4>1. n = Parsed(Stripped(t), CHOOSE b \in Marks(t, radix) : TRUE)
          BY <2>1, Zenon DEF InPython
        <4>2. q = Parsed(Stripped(t), CHOOSE b \in found : TRUE)
          <5> HIDE DEF found
          <5> QED BY <2>1, <3>2
        <4> HIDE DEF q
        <4> HIDE DEF n
        <4> HIDE DEF found
        <4> QED BY <3>2, <4>1, <4>2
      <3>4. w = n /\ w # Null
        <4> HIDE DEF q
        <4> HIDE DEF w
        <4> HIDE DEF n
        <4> QED BY <1>1, <1>2, <3>1, <3>3, Zenon
      <3> QED BY <1>4, <3>4
    <2>2. CASE Marks(t, radix) = {}
      <3>1. found = {}
        BY <2>2 DEF Marks
      <3>2. n # Null /\ (n \in Words \/ radix = 10 \/ radix = 0)
        BY <1>8 DEF Claimed
      <3>3. n = Parsed(t, r)
        <4>1. CASE radix = 0
          BY <2>2, <3>2, <4>1, Zenon DEF InPython
        <4>2. CASE radix # 0
          BY <2>2, <4>2, Zenon DEF InPython
        <4> QED BY <4>1, <4>2
      <3>4. q = n
        BY <3>1, <3>3, Zenon
      <3>5. CASE n \in Words
        <4>1. w = n /\ w # Null
          <5> HIDE DEF q
          <5> HIDE DEF w
          <5> HIDE DEF n
          <5> QED BY <1>1, <1>2, <3>4, <3>5, Zenon
        <4> QED BY <1>4, <4>1
      <3>6. CASE n \notin Words
        <4>1. w = Null
          <5> HIDE DEF q
          <5> HIDE DEF w
          <5> HIDE DEF n
          <5> QED BY <1>2, <3>4, <3>6, Zenon
        <4>2. n = d
          <5>1. r = 10
            BY <3>2, <3>6
          <5> QED BY <3>3, <5>1
        <4> QED BY <1>5, <3>2, <4>1, <4>2
      <3> QED BY <3>5, <3>6
    <2> QED BY <2>1, <2>2
  <1> QED BY <1>7, <1>8

-----------------------------------------------------------------------------
(* Every integer the program has is one of those above, and the results    *)
(* are what the invariants of Ints say.                                    *)
LEMMA IntsInit ==
  IntInit => IntsTypeOK /\ IntegersExact
  <1> SUFFICES ASSUME IntInit
               PROVE  IntsTypeOK /\ IntegersExact
    OBVIOUS
  <1>1. 0 \in Words
    BY Sizes DEF Words
  <1>2. Stands(int, 0)
    BY <1>1, CreateLongIs DEF IntInit
  <1>3. done = [op |-> "start", left |-> 0, right |-> 0] /\ word = Null
    BY DEF IntInit
  <1>4. done.op = "start" /\ done.left = 0 /\ done.right = 0
    BY <1>3
  <1>5. IntsTypeOK
    BY <1>1, <1>2, <1>3, <1>4 DEF IntsTypeOK, Stands, Digits, OfTexts
  <1>6. ConversionsExact
    BY <1>2, <1>4 DEF ConversionsExact, Stands
  <1>7. ArithmeticExact
    BY <1>4 DEF ArithmeticExact, Ops
  <1>8. TextsExact
    <2>1. done.op \notin OfTexts
      BY <1>4 DEF OfTexts
    <2> QED BY <2>1, Zenon DEF TextsExact
  <1> QED BY <1>5, <1>6, <1>7, <1>8 DEF IntegersExact

(* What a step leaves when it makes an integer.                            *)
LEMMA MadeSo ==
  ASSUME NEW op, NEW l \in Int, NEW r \in Words, NEW n \in Int,
         Stands(int', n), Did(op, l, r, Null),
         \/ op \in Conversions \ OfTexts /\ (op \in {"from_unsigned", "from_double"} => (l \in Words => n = l))
                                         /\ (op \in {"from_long", "from_size"} => n = l)
         \/ op \in Ops /\ (l \in Words => \A m \in Exact(op, l, r) : m \in Words => n = m)
  PROVE  IntsTypeOK' /\ IntegersExact'
  <1>1. done' = [op |-> op, left |-> l, right |-> r] /\ word' = Null
    BY DEF Did
  <1>2. done'.op = op /\ done'.left = l /\ done'.right = r
    BY <1>1
  <1>3. op \in Conversions \cup Ops /\ op \notin OfTexts
    BY DEF Ops, OfTexts
  <1>4. IntsTypeOK'
    <2>1. int'.negative \in BOOLEAN /\ int'.digits \in Seq(0 .. Base - 1)
      BY DEF Stands, Digits
    <2>2. IntsTypeOK' = (/\ int'.negative \in BOOLEAN
                         /\ int'.digits \in Seq(0 .. Base - 1)
                         /\ done'.op \in {"start"} \cup Conversions \cup OfTexts \cup Ops \cup Reads
                         /\ IF done'.op \in OfTexts THEN done'.left \in Texts /\ done'.right \in Bases
                            ELSE done'.left \in Int /\ done'.right \in Words
                         /\ word' \in Words \cup {Null})
      BY DEF IntsTypeOK
    <2> QED BY <1>1, <1>2, <1>3, <2>1, <2>2
  <1>5. op \notin Reads /\ (op \in Conversions => op \notin Ops)
    BY <1>3 DEF Conversions, Ops, Reads
  <1>6. Value(int') = n
    BY DEF Stands
  <1>7. ConversionsExact'
    <2>1. int'.digits # <<>> => int'.digits[Len(int'.digits)] # 0
      BY DEF Stands
    <2>2. \/ op \in {"from_long", "from_size"}
          \/ op \in {"from_unsigned", "from_double"} /\ l \in Words
          => n = l
      BY DEF Ops, Conversions
    <2>3. op # "as_long" /\ op # "as_size"
      BY <1>5 DEF Reads
    <2>4. Value(int)' = n
      BY <1>6 DEF Value
    <2> QED BY <1>2, <2>1, <2>2, <2>3, <2>4 DEF ConversionsExact
  <1>8. ArithmeticExact'
    <2>1. Value(int)' = n
      BY <1>6 DEF Value
    <2>2. ArithmeticExact' = (done'.op \in Ops /\ done'.left \in Words =>
             \A m \in Exact(done'.op, done'.left, done'.right) : m \in Words => Value(int)' = m)
      BY DEF ArithmeticExact
    <2>3. op \in Ops /\ l \in Words => \A m \in Exact(op, l, r) : m \in Words => n = m
      BY <1>5
    <2> QED BY <1>2, <2>1, <2>2, <2>3
  <1>9. TextsExact'
    <2>1. done'.op \notin OfTexts
      BY <1>2, <1>3
    <2> QED BY <2>1, Zenon DEF TextsExact
  <1> QED BY <1>4, <1>7, <1>8, <1>9 DEF IntegersExact

LEMMA TextSo ==
  ASSUME IntsTypeOK, IntegersExact, NEW t \in Texts, NEW b \in Bases, NEW op \in OfTexts,
         Did(op, t, b, Null),
         \/ op = "from_string" /\ ~Rejected(t, b) /\ int' = FromString(t, b)
         \/ op = "no_integer" /\ Rejected(t, b) /\ int' = int
  PROVE  IntsTypeOK' /\ IntegersExact'
  <1>1. done' = [op |-> op, left |-> t, right |-> b] /\ word' = Null
    BY DEF Did
  <1>2. done'.op = op /\ done'.left = t /\ done'.right = b
    BY <1>1
  <1>3. op \notin Ops /\ op \notin Reads /\ (op = "no_integer" => op # "from_string")
        /\ op \notin {"from_long", "from_size", "from_unsigned", "from_double"}
    BY DEF OfTexts, Ops, Reads
  <1>4. /\ int'.negative \in BOOLEAN /\ int'.digits \in Seq(Digits)
        /\ int'.digits # <<>> => int'.digits[Len(int'.digits)] # 0
    <2>1. CASE op = "from_string"
      BY <1>3, <2>1, FromStringIs DEF Stands
    <2>2. CASE op # "from_string"
      BY <2>2 DEF IntsTypeOK, IntegersExact, ConversionsExact, Digits
    <2> QED BY <2>1, <2>2
  <1>5. IntsTypeOK'
    <2>1. int'.negative \in BOOLEAN /\ int'.digits \in Seq(0 .. Base - 1)
      BY <1>4 DEF Digits
    <2>2. IntsTypeOK' = (/\ int'.negative \in BOOLEAN
                         /\ int'.digits \in Seq(0 .. Base - 1)
                         /\ done'.op \in {"start"} \cup Conversions \cup OfTexts \cup Ops \cup Reads
                         /\ IF done'.op \in OfTexts THEN done'.left \in Texts /\ done'.right \in Bases
                            ELSE done'.left \in Int /\ done'.right \in Words
                         /\ word' \in Words \cup {Null})
      BY DEF IntsTypeOK
    <2> QED BY <1>1, <1>2, <2>1, <2>2
  <1>6. ConversionsExact'
    BY <1>2, <1>3, <1>4 DEF ConversionsExact, Reads
  <1>7. ArithmeticExact'
    BY <1>2, <1>3 DEF ArithmeticExact
  <1>8. TextsExact'
    <2>1. ASSUME Claimed(t, b)
          PROVE  op = "from_string" /\ Value(int') = InPython(t, b)
      <3>1. ~Rejected(t, b) /\ Stands(FromString(t, b), InPython(t, b))
        BY <2>1, FromStringIs
      <3> QED BY <3>1 DEF Stands
    <2>2. Value(int)' = Value(int')
      BY DEF Value
    <2>3. TextsExact' = (done'.op \in OfTexts => (Claimed(done'.left, done'.right) =>
                           done'.op = "from_string" /\ Value(int)' = InPython(done'.left, done'.right)))
      BY Zenon DEF TextsExact, Claimed
    <2> QED BY <1>2, <2>1, <2>2, <2>3
  <1> QED BY <1>5, <1>6, <1>7, <1>8 DEF IntegersExact

LEMMA ConvertKeeps ==
  ASSUME IntsTypeOK, IntegersExact, Convert
  PROVE  IntsTypeOK' /\ IntegersExact'
  <1>1. 0 \in Words /\ Words \subseteq Int
    BY Sizes DEF Words
  <1>2. ASSUME NEW v \in Words, int' = CreateLong(v), Did("from_long", v, 0, Null)
        PROVE  IntsTypeOK' /\ IntegersExact'
    BY <1>1, <1>2, CreateLongIs, MadeSo DEF Conversions, OfTexts
  <1>3. ASSUME NEW v \in Unsigned, int' = FromUnsigned(v), Did("from_unsigned", v, 0, Null)
        PROVE  IntsTypeOK' /\ IntegersExact'
    BY <1>1, <1>3, FromUnsignedIs, MadeSo DEF Conversions, OfTexts
  <1>4. ASSUME NEW v \in Unsigned, int' = FromUnsignedLongLong(v), Did("from_size", v, 0, Null)
        PROVE  IntsTypeOK' /\ IntegersExact'
    BY <1>1, <1>4, FromUnsignedIs, MadeSo DEF Conversions, OfTexts
  <1>5. ASSUME NEW n \in Larges, int' = FromDouble(n), Did("from_double", n, 0, Null)
        PROVE  IntsTypeOK' /\ IntegersExact'
    BY <1>1, <1>5, FromDoubleIs, MadeSo DEF Conversions, OfTexts
  <1>6. ASSUME NEW t \in Texts, NEW b \in Bases,
               \/ ~Rejected(t, b) /\ int' = FromString(t, b) /\ Did("from_string", t, b, Null)
               \/ Rejected(t, b) /\ UNCHANGED int /\ Did("no_integer", t, b, Null)
        PROVE  IntsTypeOK' /\ IntegersExact'
    BY <1>6, TextSo DEF OfTexts
  <1> QED BY <1>2, <1>3, <1>4, <1>5, <1>6, Zenon DEF Convert

LEMMA ComputeKeeps ==
  ASSUME IntsTypeOK, Compute
  PROVE  IntsTypeOK' /\ IntegersExact'
  <1>1. PICK op \in Ops, r \in Words :
          /\ Defined(op, AsOperand(int), r)
          /\ int' = CreateLong(Result(op, AsOperand(int), r))
          /\ Did(op, Value(int), r, Null)
    BY Zenon DEF Compute
  <1>2. int.digits \in Seq(Digits)
    BY DEF IntsTypeOK, Digits
  <1>3. Value(int) \in Int /\ ToWord(int) = IF Value(int) \in Words THEN Value(int) ELSE Null
    BY <1>2, ToWordIs
  <1>4. Words \subseteq Int /\ 0 \in Words /\ Null \notin Words
    BY WordsAre
  <1>5. AsOperand(int) \in Words /\ (Value(int) \in Words => AsOperand(int) = Value(int))
    BY <1>3, <1>4 DEF AsOperand
  <1>6. PICK l \in Words : l = AsOperand(int)
    BY <1>5
  <1>7. Result(op, l, r) \in Words /\ \A n \in Exact(op, l, r) : n \in Words => Result(op, l, r) = n
    BY <1>1, <1>6, ResultsExact
  <1>8. Stands(int', Result(op, l, r)) /\ Result(op, l, r) \in Int
    BY <1>1, <1>4, <1>6, <1>7, CreateLongIs
  <1>9. Value(int) \in Words => \A m \in Exact(op, Value(int), r) : m \in Words => Result(op, l, r) = m
    BY <1>5, <1>6, <1>7
  <1> QED BY <1>1, <1>3, <1>8, <1>9, MadeSo

LEMMA ReadKeeps ==
  ASSUME IntsTypeOK, IntegersExact, Read
  PROVE  IntsTypeOK' /\ IntegersExact'
  <1>1. int.digits \in Seq(Digits)
    BY DEF IntsTypeOK, Digits
  <1>2. Value(int) \in Int /\ ToWord(int) = IF Value(int) \in Words THEN Value(int) ELSE Null
    BY <1>1, ToWordIs
  <1>3. Words \subseteq Int /\ 0 \in Words /\ -1 \in Words /\ Null \notin Words
    BY WordsAre
  <1>4. PICK op \in Reads, w \in {AsSigned(int), AsUnsigned(int)} :
                               /\ Did(op, Value(int), 0, w)
                               /\ op = "as_long" => w = AsSigned(int)
                               /\ op = "as_size" => w = AsUnsigned(int)
    BY Zenon DEF Read, Reads
  <1>5. done' = [op |-> op, left |-> Value(int), right |-> 0] /\ word' = w /\ int' = int
    BY <1>4 DEF Did, Read
  <1>6. done'.op = op /\ done'.left = Value(int) /\ done'.right = 0
    BY <1>5
  <1>7. op = "as_long" => w = IF Value(int) \in Words THEN Value(int) ELSE -1
    BY <1>2, <1>3, <1>4 DEF AsSigned
  <1>8. op = "as_size" => w = IF Value(int) \in Words /\ Value(int) >= 0 THEN Value(int) ELSE 0
    BY <1>2, <1>3, <1>4 DEF AsUnsigned
  <1>9. w \in Words
    BY <1>3, <1>4, <1>7, <1>8 DEF Reads
  <1>10. op \notin Conversions /\ op \notin Ops /\ op \notin OfTexts
    BY <1>4 DEF Conversions, Ops, Reads, OfTexts
  <1>11. IntsTypeOK'
    <2>1. IntsTypeOK' = (/\ int'.negative \in BOOLEAN
                         /\ int'.digits \in Seq(0 .. Base - 1)
                         /\ done'.op \in {"start"} \cup Conversions \cup OfTexts \cup Ops \cup Reads
                         /\ IF done'.op \in OfTexts THEN done'.left \in Texts /\ done'.right \in Bases
                            ELSE done'.left \in Int /\ done'.right \in Words
                         /\ word' \in Words \cup {Null})
      BY DEF IntsTypeOK
    <2>2. int.negative \in BOOLEAN /\ int.digits \in Seq(0 .. Base - 1)
      BY DEF IntsTypeOK
    <2> QED BY <1>2, <1>3, <1>4, <1>5, <1>6, <1>9, <1>10, <2>1, <2>2
  <1>12. ConversionsExact'
    <2>1. int.digits # <<>> => int.digits[Len(int.digits)] # 0
      BY DEF IntegersExact, ConversionsExact
    <2>2. op \notin {"from_long", "from_size"} /\ op \notin {"from_unsigned", "from_double"}
      BY <1>10 DEF Conversions
    <2> QED BY <1>5, <1>6, <1>7, <1>8, <2>1, <2>2 DEF ConversionsExact
  <1>13. ArithmeticExact'
    BY <1>6, <1>10 DEF ArithmeticExact
  <1>14. TextsExact'
    <2>1. done'.op \notin OfTexts
      BY <1>6, <1>10
    <2> QED BY <2>1, Zenon DEF TextsExact
  <1> QED BY <1>11, <1>12, <1>13, <1>14 DEF IntegersExact

LEMMA IntsStep ==
  ASSUME IntsTypeOK, IntegersExact, [IntNext]_intVars
  PROVE  IntsTypeOK' /\ IntegersExact'
  <1>1. CASE Convert
    BY <1>1, ConvertKeeps
  <1>2. CASE Compute
    BY <1>2, ComputeKeeps
  <1>3. CASE Read
    BY <1>3, ReadKeeps
  <1>4. CASE UNCHANGED intVars
    <2>1. int' = int /\ done' = done /\ word' = word
      BY <1>4 DEF intVars
    <2>2. IntsTypeOK'
      BY <2>1, Zenon DEF IntsTypeOK
    <2>3. ConversionsExact'
      BY <2>1, Zenon DEF IntegersExact, ConversionsExact
    <2>4. ArithmeticExact'
      BY <2>1, Zenon DEF IntegersExact, ArithmeticExact
    <2>5. TextsExact'
      BY <2>1, Zenon DEF IntegersExact, TextsExact
    <2> QED BY <2>2, <2>3, <2>4, <2>5 DEF IntegersExact
  <1> QED BY <1>1, <1>2, <1>3, <1>4 DEF IntNext

(* An integer is a sign and digits below the base; reads give C values.    *)
THEOREM IntsTyped == IntSpec => []IntsTypeOK
  <1>1. IntInit => IntsTypeOK /\ IntegersExact
    BY IntsInit
  <1>2. IntsTypeOK /\ IntegersExact /\ [IntNext]_intVars => (IntsTypeOK /\ IntegersExact)'
    BY IntsStep
  <1> QED BY <1>1, <1>2, PTL DEF IntSpec

(* For C values of any width and digits of any size: an integer has the    *)
(* value it was made of in the one way there is, it is read back exactly   *)
(* or not at all (create_long, pylong_to_i64), and the arithmetic of the   *)
(* interpreter is Python's wherever a C value holds the result.            *)
THEOREM IntegersStayExact == IntSpec => []IntegersExact
  <1>1. IntInit => IntsTypeOK /\ IntegersExact
    BY IntsInit
  <1>2. IntsTypeOK /\ IntegersExact /\ [IntNext]_intVars => (IntsTypeOK /\ IntegersExact)'
    BY IntsStep
  <1> QED BY <1>1, <1>2, PTL DEF IntSpec

-----------------------------------------------------------------------------
(* Types.                                                                   *)

USE TypeAssumption, SpecsAssumption

(* h measures how far below object a type with fields F is.                *)
Heights(F, h, N) ==
    /\ N \in Nat /\ h \in [Types -> 0 .. N]
    /\ \A u \in Types \ {Object} : BaseOf(F[u]) \in Types /\ h[BaseOf(F[u])] < h[u]

SlotsFrom(f, todo, F, u) ==
    IF u \notin todo THEN F[u].slots ELSE Inherited(F[u].slots, f[BaseOf(F[u])])

LEMMA InheritedTyped ==
  ASSUME NEW a \in Functions, NEW b \in Functions
  PROVE  Inherited(a, b) \in Functions
  BY DEF Inherited, Functions

LEMMA SlotsSolve ==
  ASSUME NEW F, NEW h, NEW N, Heights(F, h, N), NEW todo, todo \subseteq Types \ {Object},
         \A u \in Types : F[u].slots \in Functions
  PROVE  /\ ReadySlots(todo, F) \in [Types -> Functions]
         /\ \A u \in Types : ReadySlots(todo, F)[u] = SlotsFrom(ReadySlots(todo, F), todo, F, u)
  <1>0. N \in Nat /\ h \in [Types -> 0 .. N] /\ h \in [Types -> Nat]
    BY DEF Heights
  <1> DEFINE D == [p \in Types \X [Types -> Functions] |-> SlotsFrom(p[2], todo, F, p[1])]
  <1>1. ASSUME NEW u \in Types, NEW f \in [Types -> Functions]
        PROVE  SlotsFrom(f, todo, F, u) \in Functions
    BY InheritedTyped DEF SlotsFrom, Heights
  <1>2. D \in [Types \X [Types -> Functions] -> Functions]
    BY <1>1
  <1>3. ASSUME NEW u \in Types, NEW f, NEW g,
               \A v \in Types : h[v] < h[u] => f[v] = g[v]
        PROVE  SlotsFrom(f, todo, F, u) = SlotsFrom(g, todo, F, u)
    BY <1>3 DEF SlotsFrom, Heights
  <1>4. PICK f \in [Types -> Functions] : \A u \in Types : f[u] = SlotsFrom(f, todo, F, u)
    <2>1. \A u \in Types, f \in [Types -> Functions] : D[<<u, f>>] = SlotsFrom(f, todo, F, u)
      OBVIOUS
    <2>2. LooksBelow(D, Types, Functions, h)
      BY <1>3, <2>1 DEF LooksBelow
    <2>3. Functions # {}
      BY DEF Functions
    <2> HIDE DEF D
    <2>4. \E f \in [Types -> Functions] : Solves(f, D, Types)
      BY <1>0, <1>2, <2>2, <2>3, Solution
    <2> QED BY <2>1, <2>4 DEF Solves
  <1>5. f = [u \in Types |-> SlotsFrom(f, todo, F, u)]
    BY <1>4
  <1> DEFINE r == ReadySlots(todo, F)
  <1>6. r = [u \in Types |-> SlotsFrom(r, todo, F, u)]
    BY <1>5, Zenon DEF ReadySlots, SlotsFrom
  <1> HIDE DEF r
  <1>7. \A u \in Types : r[u] = SlotsFrom(r, todo, F, u)
    BY <1>6
  <1>8. \A u \in Types : r[u] \in Functions
    <2> DEFINE Bad == {u \in Types : r[u] \notin Functions}
    <2> SUFFICES ASSUME Bad # {} PROVE FALSE
      OBVIOUS
    <2>1. PICK u \in Bad : \A v \in Bad : h[u] <= h[v]
      BY <1>0, Lowest
    <2>2. \A v \in Types : h[v] < h[u] => r[v] \in Functions
      BY <2>1 DEF Heights
    <2>3. u \in Types /\ r[u] \notin Functions
      OBVIOUS
    <2> HIDE DEF Bad
    <2>4. SlotsFrom(r, todo, F, u) \in Functions
      BY <2>2, <2>3, InheritedTyped DEF SlotsFrom, Heights
    <2> QED BY <1>7, <2>3, <2>4
  <1> QED BY <1>6, <1>7, <1>8 DEF r

SizesFrom(f, todo, F, u) ==
    IF u \in todo /\ F[u].size = 0 THEN f[BaseOf(F[u])] ELSE F[u].size

LEMMA SizesSolve ==
  ASSUME NEW F, NEW h, NEW N, Heights(F, h, N), NEW todo, todo \subseteq Types \ {Object},
         \A u \in Types : F[u].size \in Nat
  PROVE  /\ ReadySizes(todo, F) \in [Types -> Nat]
         /\ \A u \in Types : ReadySizes(todo, F)[u] = SizesFrom(ReadySizes(todo, F), todo, F, u)
  <1>0. N \in Nat /\ h \in [Types -> 0 .. N] /\ h \in [Types -> Nat]
    BY DEF Heights
  <1> DEFINE D == [p \in Types \X [Types -> Nat] |-> SizesFrom(p[2], todo, F, p[1])]
  <1>1. ASSUME NEW u \in Types, NEW f \in [Types -> Nat]
        PROVE  SizesFrom(f, todo, F, u) \in Nat
    BY DEF SizesFrom, Heights
  <1>2. D \in [Types \X [Types -> Nat] -> Nat]
    BY <1>1
  <1>3. ASSUME NEW u \in Types, NEW f, NEW g,
               \A v \in Types : h[v] < h[u] => f[v] = g[v]
        PROVE  SizesFrom(f, todo, F, u) = SizesFrom(g, todo, F, u)
    BY <1>3 DEF SizesFrom, Heights
  <1>4. PICK f \in [Types -> Nat] : \A u \in Types : f[u] = SizesFrom(f, todo, F, u)
    <2>1. \A u \in Types, f \in [Types -> Nat] : D[<<u, f>>] = SizesFrom(f, todo, F, u)
      OBVIOUS
    <2>2. LooksBelow(D, Types, Nat, h)
      BY <1>3, <2>1 DEF LooksBelow
    <2> HIDE DEF D
    <2>3. \E f \in [Types -> Nat] : Solves(f, D, Types)
      BY <1>0, <1>2, <2>2, Solution
    <2> QED BY <2>1, <2>3 DEF Solves
  <1>5. f = [u \in Types |-> SizesFrom(f, todo, F, u)]
    BY <1>4
  <1> DEFINE r == ReadySizes(todo, F)
  <1>6. r = [u \in Types |-> SizesFrom(r, todo, F, u)]
    BY <1>5, Zenon DEF ReadySizes, SizesFrom
  <1> HIDE DEF r
  <1>7. \A u \in Types : r[u] = SizesFrom(r, todo, F, u)
    BY <1>6
  <1>8. \A u \in Types : r[u] \in Nat
    <2> DEFINE Bad == {u \in Types : r[u] \notin Nat}
    <2> SUFFICES ASSUME Bad # {} PROVE FALSE
      OBVIOUS
    <2>1. PICK u \in Bad : \A v \in Bad : h[u] <= h[v]
      BY <1>0, Lowest
    <2>2. \A v \in Types : h[v] < h[u] => r[v] \in Nat
      BY <2>1 DEF Heights
    <2>3. u \in Types /\ r[u] \notin Nat
      OBVIOUS
    <2> HIDE DEF Bad
    <2>4. SizesFrom(r, todo, F, u) \in Nat
      BY <2>2, <2>3 DEF SizesFrom, Heights
    <2> QED BY <1>7, <2>3, <2>4
  <1> QED BY <1>6, <1>7, <1>8 DEF r

(* The types that a call of PyType_Ready makes ready.                      *)
ChainFrom(f, F, u) == IF u \in ready THEN {} ELSE {u} \cup f[BaseOf(F[u])]

Chained(S, t, F) ==
    /\ t \in S /\ S \subseteq Types \ ready
    /\ \A u \in S : BaseOf(F[u]) \in ready \cup S
    /\ \A u \in S \ {t} : \E v \in S : u = BaseOf(F[v])
    /\ BaseOf(F[t]) \in ready => S = {t}

LEMMA ChainSolves ==
  ASSUME NEW F, NEW h, NEW N, Heights(F, h, N), Object \in ready,
         NEW t \in Types \ ready
  PROVE  Chained(BaseChain(t, F), t, F)
  <1>0. N \in Nat /\ h \in [Types -> 0 .. N] /\ h \in [Types -> Nat]
    BY DEF Heights
  <1> DEFINE X == SUBSET Types
             D == [p \in Types \X [Types -> X] |-> ChainFrom(p[2], F, p[1])]
  <1>a. \A u \in Types \ ready : BaseOf(F[u]) \in Types /\ h[BaseOf(F[u])] < h[u]
    BY DEF Heights
  <1>1. ASSUME NEW u \in Types, NEW f \in [Types -> X]
        PROVE  ChainFrom(f, F, u) \in X
    BY <1>a DEF ChainFrom
  <1>2. D \in [Types \X [Types -> X] -> X]
    BY <1>1
  <1>3. ASSUME NEW u \in Types, NEW f, NEW g,
               \A v \in Types : h[v] < h[u] => f[v] = g[v]
        PROVE  ChainFrom(f, F, u) = ChainFrom(g, F, u)
    BY <1>3, <1>a DEF ChainFrom
  <1>4. PICK f \in [Types -> X] : \A u \in Types : f[u] = ChainFrom(f, F, u)
    <2>1. \A u \in Types, f \in [Types -> X] : D[<<u, f>>] = ChainFrom(f, F, u)
      OBVIOUS
    <2>2. X # {}
      OBVIOUS
    <2> HIDE DEF D
    <2> HIDE DEF X
    <2>3. LooksBelow(D, Types, X, h)
      BY <1>3, <2>1 DEF LooksBelow
    <2>4. \E f \in [Types -> X] : Solves(f, D, Types)
      BY <1>0, <1>2, <2>2, <2>3, Solution
    <2> QED BY <2>1, <2>4 DEF Solves
  <1>5. f = [u \in Types |-> ChainFrom(f, F, u)]
    BY <1>4
  <1> DEFINE r == CHOOSE r : r = [u \in Types |-> ChainFrom(r, F, u)]
  <1>6. r = [u \in Types |-> ChainFrom(r, F, u)] /\ BaseChain(t, F) = r[t]
    BY <1>5, Zenon DEF BaseChain, ChainFrom
  <1> HIDE DEF r
  <1>7. \A u \in Types : r[u] = ChainFrom(r, F, u)
    BY <1>6
  <1>8. \A u \in Types \ ready : Chained(r[u], u, F)
    <2> DEFINE Bad == {u \in Types \ ready : ~Chained(r[u], u, F)}
    <2> SUFFICES ASSUME Bad # {} PROVE FALSE
      OBVIOUS
    <2>1. PICK u \in Bad : \A v \in Bad : h[u] <= h[v]
      <3>1. Bad \in SUBSET Types
        OBVIOUS
      <3> HIDE DEF Bad
      <3> QED BY <1>0, <3>1, Lowest
    <2>2. \A v \in Types \ ready : h[v] < h[u] => Chained(r[v], v, F)
      BY <2>1, <1>0
    <2>3. u \in Types \ ready /\ ~Chained(r[u], u, F)
      OBVIOUS
    <2> HIDE DEF Bad
    <2> DEFINE b == BaseOf(F[u])
    <2>4. b \in Types /\ h[b] < h[u]
      BY <2>3, <1>a
    <2>5. r[u] = {u} \cup r[b]
      BY <1>7, <2>3 DEF ChainFrom
    <2> HIDE DEF b
    <2>6. CASE b \in ready
      <3>1. r[b] = {}
        BY <1>7, <2>4, <2>6 DEF ChainFrom
      <3> QED BY <2>3, <2>5, <2>6, <3>1 DEF Chained, b
    <2>7. CASE b \notin ready
      <3>1. Chained(r[b], b, F)
        BY <2>2, <2>4, <2>7
      <3> QED BY <2>3, <2>5, <3>1 DEF Chained, b
    <2> QED BY <2>6, <2>7
  <1> QED BY <1>6, <1>8

(* The type that defines the slot s of t.                                  *)
Bounded(h, N) ==
    /\ N \in Nat /\ h \in [Types -> 0 .. N]
    /\ \A t \in Types : base[t] # Null => base[t] \in Types /\ h[base[t]] < h[t]

Stops(t, s) ==
    own[t].slots[s] # Null \/ base[t] = Null \/ (kind[t] = "exception" /\ s \notin CopiedSlots)

DefinerFrom(f, s, t) == IF Stops(t, s) THEN own[t].slots[s] ELSE f[base[t]]

LEMMA DefinerSolves ==
  ASSUME NEW h, NEW N, Bounded(h, N), NEW s \in Slots,
         \A t \in Types : own[t].slots \in Functions
  PROVE  \A t \in Types :
            Definer(t, s) = IF Stops(t, s) THEN own[t].slots[s] ELSE Definer(base[t], s)
  <1>0. N \in Nat /\ h \in [Types -> 0 .. N] /\ h \in [Types -> Nat]
    BY DEF Bounded
  <1> DEFINE X == Types \cup {Null, VmInit}
             D == [p \in Types \X [Types -> X] |-> DefinerFrom(p[2], s, p[1])]
  <1>a. \A t \in Types : ~Stops(t, s) => base[t] \in Types /\ h[base[t]] < h[t]
    BY DEF Bounded, Stops
  <1>b. \A t \in Types : own[t].slots[s] \in X
    BY DEF Functions
  <1>1. ASSUME NEW t \in Types, NEW f \in [Types -> X]
        PROVE  DefinerFrom(f, s, t) \in X
    BY <1>a, <1>b DEF DefinerFrom
  <1>2. D \in [Types \X [Types -> X] -> X]
    BY <1>1
  <1>3. ASSUME NEW t \in Types, NEW f, NEW g,
               \A v \in Types : h[v] < h[t] => f[v] = g[v]
        PROVE  DefinerFrom(f, s, t) = DefinerFrom(g, s, t)
    BY <1>3, <1>a DEF DefinerFrom
  <1>4. PICK f \in [Types -> X] : \A t \in Types : f[t] = DefinerFrom(f, s, t)
    <2>1. \A t \in Types, f \in [Types -> X] : D[<<t, f>>] = DefinerFrom(f, s, t)
      OBVIOUS
    <2>2. X # {}
      OBVIOUS
    <2> HIDE DEF D
    <2> HIDE DEF X
    <2>3. LooksBelow(D, Types, X, h)
      BY <1>3, <2>1 DEF LooksBelow
    <2>4. \E f \in [Types -> X] : Solves(f, D, Types)
      BY <1>0, <1>2, <2>2, <2>3, Solution
    <2> QED BY <2>1, <2>4 DEF Solves
  <1>5. f = [t \in Types |-> DefinerFrom(f, s, t)]
    BY <1>4
  <1> DEFINE r == CHOOSE r : r = [t \in Types |-> DefinerFrom(r, s, t)]
  <1>6. r = [t \in Types |-> DefinerFrom(r, s, t)]
    BY <1>5, Zenon
  <1>7. \A t : Definer(t, s) = r[t]
    BY Zenon DEF Definer, DefinerFrom, Stops
  <1> HIDE DEF r
  <1>8. \A t \in Types : r[t] = DefinerFrom(r, s, t)
    BY <1>6
  <1> QED BY <1>7, <1>8 DEF DefinerFrom

-----------------------------------------------------------------------------
(* No type is above itself.                                                *)
Above0(h) == h[Object] = 0 /\ \A t \in Types \ {Object} : h[t] > 0

(* h also measures the types in tp_bases.                                  *)
Tupled(h) ==
    \A u \in Types : \A i \in DOMAIN bases[u] : bases[u][i] \in Types /\ h[bases[u][i]] < h[u]

Grounded == \E N, h : Bounded(h, N) /\ Above0(h) /\ Tupled(h)

(* Who is above a ready type is ready.                                     *)
ReadyAbove ==
    /\ Object \in ready /\ base[Object] = Null /\ kind[Object] = "static"
    /\ \A t \in ready \ {Object} : base[t] \in ready
    /\ \A t \in Types : \A i \in DOMAIN bases[t] : bases[t][i] \in ready

(* A type that is not ready is as it was declared.                         *)
Prepared ==
    \A t \in Types \ ready :
        /\ slots[t] = own[t].slots
        /\ base[t] # Null => kind[t] = "static" /\ kind[base[t]] = "static"
        /\ kind[t] # "static" => own[t].slots = Defines(t, {})
        /\ bases[t] = <<>>

SlotOf(t, s) == IF Stops(t, s) THEN own[t].slots[s] ELSE slots[base[t]][s]

SlotsLocal == \A t \in ready, s \in Slots : slots[t][s] = SlotOf(t, s)

TypeInv == TypesTypeOK /\ Grounded /\ ReadyAbove /\ Prepared /\ SlotsLocal

LEMMA LocalGlobal ==
  ASSUME TypeInv
  PROVE  SlotsInherited
  <1> SUFFICES ASSUME NEW s \in Slots
               PROVE  \A t \in ready : slots[t][s] = Definer(t, s)
    BY DEF SlotsInherited
  <1>1. PICK N, h : Bounded(h, N)
    BY DEF TypeInv, Grounded
  <1>2. h \in [Types -> Nat] /\ \A t \in Types : base[t] # Null => h[base[t]] < h[t]
    BY <1>1 DEF Bounded
  <1>3. \A t \in Types : Definer(t, s) = IF Stops(t, s) THEN own[t].slots[s] ELSE Definer(base[t], s)
    <2>1. \A t \in Types : own[t].slots \in Functions
      BY DEF TypeInv, TypesTypeOK
    <2> QED BY <1>1, <2>1, DefinerSolves
  <1>4. \A t \in ready : slots[t][s] = SlotOf(t, s)
    BY DEF TypeInv, SlotsLocal
  <1>5. /\ ready \subseteq Types
        /\ \A t \in ready : ~Stops(t, s) => base[t] \in ready /\ base[t] # Null
    BY DEF TypeInv, TypesTypeOK, ReadyAbove, Stops
  <1> DEFINE Bad == {t \in ready : slots[t][s] # Definer(t, s)}
  <1> SUFFICES ASSUME Bad # {} PROVE FALSE
    OBVIOUS
  <1>6. PICK t \in Bad : \A u \in Bad : h[t] <= h[u]
    <2>1. Bad \in SUBSET Types
      BY <1>5
    <2> HIDE DEF Bad
    <2> QED BY <1>2, <2>1, Lowest
  <1>7. t \in ready /\ slots[t][s] # Definer(t, s)
    OBVIOUS
  <1>8. \A u \in ready : h[u] < h[t] => slots[u][s] = Definer(u, s)
    BY <1>2, <1>5, <1>6
  <1> HIDE DEF Bad
  <1> QED BY <1>2, <1>3, <1>4, <1>5, <1>7, <1>8 DEF SlotOf

-----------------------------------------------------------------------------
FieldSet ==
    [base : Types \cup {Null}, bases : Seq(Types), slots : Functions, size : Nat,
     dictoffset : Nat]

(* The fields PyType_Ready finds.                                          *)
Given(t, f) == [u \in Types |-> IF u = t THEN f ELSE Fields(u)]

MayReady(t, f) ==
    /\ t \in Types \ ready /\ f \in FieldSet
    /\ f.base # Null => f.base \in ready \/ kind[f.base] = "static"
    /\ \A i \in DOMAIN f.bases : f.bases[i] \in ready
    /\ kind[t] = "static" => f = Fields(t)

(* A measure with which Heights holds also measures the types in tp_bases. *)
Climbs(F, h) ==
    \A u \in Types : \A i \in DOMAIN F[u].bases :
        F[u].bases[i] \in Types /\ h[F[u].bases[i]] < h[u]

LEMMA FieldsTyped ==
  ASSUME TypesTypeOK, NEW u \in Types
  PROVE  Fields(u) \in FieldSet
  BY DEF Fields, FieldSet, TypesTypeOK

LEMMA GivenTyped ==
  ASSUME TypesTypeOK, NEW t, NEW f \in FieldSet, NEW u \in Types
  PROVE  /\ Given(t, f)[u] \in FieldSet
         /\ Given(t, f)[u].size \in Nat /\ Given(t, f)[u].slots \in Functions
         /\ Given(t, f)[u].bases \in Seq(Types) /\ BaseOf(Given(t, f)[u]) \in Types
  <1>1. Given(t, f)[u] \in FieldSet
    BY FieldsTyped DEF Given
  <1> QED BY <1>1 DEF FieldSet, BaseOf

LEMMA ReadyHeights ==
  ASSUME TypeInv, NEW t, NEW f, MayReady(t, f)
  PROVE  \E N, h : /\ Heights(Given(t, f), h, N) /\ Above0(h) /\ Bounded(h, N)
                    /\ Climbs(Given(t, f), h)
  <1>1. PICK N, h : Bounded(h, N) /\ Above0(h) /\ Tupled(h)
    BY DEF TypeInv, Grounded
  <1>2. /\ TypesTypeOK /\ t \in Types \ ready /\ f \in FieldSet /\ t # Object /\ ready \subseteq Types
    BY DEF TypeInv, MayReady, ReadyAbove, TypesTypeOK
  <1>3. N \in Nat /\ h \in [Types -> 0 .. N] /\ h \in [Types -> Nat]
    BY <1>1 DEF Bounded
  <1>4. \A u \in Types : base[u] # Null => base[u] \in Types /\ h[base[u]] < h[u]
    BY <1>1 DEF Bounded
  <1>5. \A u \in Types : BaseOf(Given(t, f)[u]) \in Types
    BY <1>2, GivenTyped
  <1>6. h[Object] = 0 /\ \A u \in Types \ {Object} : h[u] > 0
    BY <1>1 DEF Above0
  <1>7. \A u \in Types : u # t => BaseOf(Given(t, f)[u]) = IF base[u] = Null THEN Object ELSE base[u]
    BY DEF Given, BaseOf, Fields
  <1>b. \A u \in Types : u # t => Given(t, f)[u].bases = bases[u]
    BY DEF Given, Fields
  <1>t. \A u \in Types : \A i \in DOMAIN bases[u] : bases[u][i] \in Types /\ h[bases[u][i]] < h[u]
    BY <1>1 DEF Tupled
  <1>r. \A u \in Types : \A i \in DOMAIN bases[u] : bases[u][i] \in ready
    BY DEF TypeInv, ReadyAbove
  <1>8. CASE kind[t] = "static"
    <2>1. BaseOf(Given(t, f)[t]) = IF base[t] = Null THEN Object ELSE base[t]
      BY <1>2, <1>8 DEF Given, BaseOf, Fields, MayReady
    <2>2. Heights(Given(t, f), h, N)
      BY <1>1, <1>3, <1>4, <1>5, <1>6, <1>7, <2>1 DEF Heights
    <2>3. \A u \in Types : Given(t, f)[u].bases = bases[u]
      BY <1>2, <1>8 DEF Given, Fields, MayReady
    <2>4. Climbs(Given(t, f), h)
      BY <1>t, <2>3 DEF Climbs
    <2> QED BY <1>1, <2>2, <2>4
  <1>9. CASE kind[t] # "static"
    <2> DEFINE b == BaseOf(f)
               k == [h EXCEPT ![t] = N + 1]
    <2>1. b \in Types /\ b # t /\ BaseOf(Given(t, f)[t]) = b
      <3>1. Given(t, f)[t] = f
        BY <1>2 DEF Given
      <3>2. b \in Types
        BY <1>2 DEF FieldSet, BaseOf
      <3>3. b # t
        BY <1>2, <1>9 DEF BaseOf, MayReady
      <3> QED BY <3>1, <3>2, <3>3
    <2>2. \A u \in Types : base[u] # t
      <3>1. \A u \in ready : base[u] # t
        BY <1>2 DEF TypeInv, ReadyAbove
      <3>2. \A u \in Types \ ready : base[u] # t
        BY <1>2, <1>9 DEF TypeInv, Prepared
      <3> QED BY <1>2, <3>1, <3>2
    <2>3. base[t] = Null
      BY <1>2, <1>9 DEF TypeInv, Prepared
    <2> HIDE DEF b
    <2>4. N + 1 \in Nat /\ k \in [Types -> 0 .. N + 1] /\ k[t] = N + 1
          /\ \A u \in Types \ {t} : k[u] = h[u]
      BY <1>2, <1>3, <2>1
    <2> HIDE DEF k
    <2>5. Bounded(k, N + 1)
      BY <1>4, <2>2, <2>3, <2>4 DEF Bounded
    <2>6. Above0(k)
      BY <1>2, <1>3, <1>6, <2>1, <2>4 DEF Above0
    <2>7. ASSUME NEW u \in Types \ {Object}
          PROVE  BaseOf(Given(t, f)[u]) \in Types /\ k[BaseOf(Given(t, f)[u])] < k[u]
      <3>1. CASE u = t
        BY <1>3, <2>1, <2>4, <3>1
      <3>2. CASE u # t
        BY <1>2, <1>3, <1>4, <1>5, <1>6, <1>7, <2>2, <2>4, <3>2
      <3> QED BY <3>1, <3>2
    <2>8. Heights(Given(t, f), k, N + 1)
      BY <2>4, <2>7 DEF Heights
    <2>9. ASSUME NEW u \in Types, NEW i \in DOMAIN Given(t, f)[u].bases
          PROVE  /\ Given(t, f)[u].bases[i] \in Types
                 /\ k[Given(t, f)[u].bases[i]] < k[u]
      <3>1. CASE u = t
        <4>1. PICK v : v = Given(t, f)[u].bases[i]
          OBVIOUS
        <4>2. v \in ready
          BY <1>2, <2>9, <3>1, <4>1 DEF Given, MayReady
        <4>3. v \in Types /\ v # t /\ k[v] = h[v] /\ h[v] \in 0 .. N
          BY <1>2, <1>3, <2>4, <4>2
        <4> QED BY <1>3, <2>4, <3>1, <4>1, <4>3
      <3>2. CASE u # t
        <4>1. PICK v : v = bases[u][i]
          OBVIOUS
        <4>2. Given(t, f)[u].bases = bases[u] /\ i \in DOMAIN bases[u]
          BY <1>b, <2>9, <3>2
        <4>3. v \in ready /\ v \in Types /\ h[v] < h[u]
          BY <1>t, <1>r, <2>9, <4>1, <4>2
        <4>4. k[v] = h[v] /\ k[u] = h[u]
          BY <1>2, <2>4, <3>2, <4>3
        <4> QED BY <4>1, <4>2, <4>3, <4>4
      <3> QED BY <3>1, <3>2
    <2>10. Climbs(Given(t, f), k)
      BY <2>9 DEF Climbs
    <2> QED BY <2>5, <2>6, <2>8, <2>10
  <1> QED BY <1>8, <1>9

(* What PyType_Ready does to the types it makes ready and to the others.   *)
MadeReady(t, f) ==
    /\ t \in ready' /\ ready \subseteq ready' /\ ready' \subseteq Types
    /\ \A u \in ready' \ ready :
          /\ u # t => kind[u] = "static"
          /\ base'[u] = BaseOf(Given(t, f)[u]) /\ base'[u] \in ready'
          /\ slots'[u] = Inherited(Given(t, f)[u].slots, slots'[base'[u]])
          /\ bases'[u] = IF Given(t, f)[u].bases = <<>> THEN <<base'[u]>> ELSE Given(t, f)[u].bases
          /\ size'[u] = IF Given(t, f)[u].size = 0 THEN size'[base'[u]] ELSE Given(t, f)[u].size
    /\ \A u \in Types : u \in ready \/ u \notin ready' =>
          base'[u] = base[u] /\ bases'[u] = bases[u] /\ slots'[u] = slots[u] /\ size'[u] = size[u]
    /\ dictoffset' = [dictoffset EXCEPT ![t] = f.dictoffset]
    /\ BaseOf(f) \in ready => ready' = ready \cup {t}

ReadyTyped ==
    /\ base' \in [Types -> Types \cup {Null}] /\ bases' \in [Types -> Seq(Types)]
    /\ slots' \in [Types -> Functions] /\ size' \in [Types -> Nat]
    /\ dictoffset' \in [Types -> Nat]

LEMMA ReadyStep ==
  ASSUME TypeInv, NEW t, NEW f, MayReady(t, f), Ready(t, f)
  PROVE  MadeReady(t, f) /\ ReadyTyped /\ Grounded'
  <1> DEFINE F == Given(t, f)
             todo == BaseChain(t, F)
  <1>1. /\ ready' = ready \cup todo
        /\ base' = [u \in Types |-> IF u \in todo THEN BaseOf(F[u]) ELSE base[u]]
        /\ bases' = [u \in Types |-> IF u \in todo /\ F[u].bases = <<>>
                                      THEN <<BaseOf(F[u])>> ELSE F[u].bases]
        /\ slots' = ReadySlots(todo, F)
        /\ size' = ReadySizes(todo, F)
        /\ dictoffset' = [dictoffset EXCEPT ![t] = f.dictoffset]
    BY DEF Ready, Given
  <1>2. /\ TypesTypeOK /\ t \in Types \ ready /\ f \in FieldSet
        /\ ready \subseteq Types /\ Object \in ready
    BY DEF TypeInv, MayReady, ReadyAbove, TypesTypeOK
  <1>3. PICK N, h : Heights(F, h, N) /\ Above0(h) /\ Bounded(h, N) /\ Climbs(F, h)
    BY ReadyHeights
  <1>4. Chained(todo, t, F)
    BY <1>2, <1>3, ChainSolves
  <1>5. \A u \in Types : /\ F[u].size \in Nat /\ F[u].slots \in Functions
                          /\ F[u].bases \in Seq(Types) /\ BaseOf(F[u]) \in Types
    BY <1>2, GivenTyped
  <1>6. \A u \in Types \ {t} : /\ F[u].slots = slots[u] /\ F[u].size = size[u]
                                /\ F[u].base = base[u] /\ F[u].bases = bases[u]
    BY DEF Given, Fields
  <1>7. F[t] = f
    BY <1>2 DEF Given
  <1> HIDE DEF F
  <1> HIDE DEF todo
  <1>8. todo \subseteq Types \ {Object}
    BY <1>2, <1>4 DEF Chained
  <1>9. /\ slots' \in [Types -> Functions]
        /\ \A u \in Types : slots'[u] = SlotsFrom(slots', todo, F, u)
    BY <1>1, <1>3, <1>5, <1>8, SlotsSolve
  <1>10. /\ size' \in [Types -> Nat]
         /\ \A u \in Types : size'[u] = SizesFrom(size', todo, F, u)
    BY <1>1, <1>3, <1>5, <1>8, SizesSolve
  <1>11. ReadyTyped
    <2>1. base' \in [Types -> Types \cup {Null}]
      BY <1>1, <1>2, <1>5 DEF TypesTypeOK
    <2>2. bases' \in [Types -> Seq(Types)]
      <3>1. ASSUME NEW u \in Types PROVE <<BaseOf(F[u])>> \in Seq(Types)
        BY <1>5
      <3> QED BY <1>1, <1>5, <3>1
    <2>3. dictoffset' \in [Types -> Nat]
      BY <1>1, <1>2 DEF TypesTypeOK, FieldSet
    <2> QED BY <1>9, <1>10, <2>1, <2>2, <2>3 DEF ReadyTyped
  <1>12. MadeReady(t, f)
    <2>1. /\ t \in todo /\ todo \subseteq Types \ ready
          /\ \A u \in todo : BaseOf(F[u]) \in ready \cup todo
      BY <1>4 DEF Chained
    <2>2. ASSUME NEW u \in todo, u # t PROVE kind[u] = "static"
      <3>1. PICK v \in todo : u = BaseOf(F[v])
        BY <1>4, <2>2 DEF Chained
      <3>2. u \notin ready /\ u # Object /\ v \in Types \ ready
        BY <1>2, <2>1
      <3>3. CASE v = t
        BY <1>7, <2>2, <3>1, <3>2, <3>3 DEF BaseOf, MayReady
      <3>4. CASE v # t
        BY <1>6, <3>1, <3>2, <3>4 DEF BaseOf, TypeInv, Prepared
      <3> QED BY <3>3, <3>4
    <2>3. ready' \ ready = todo /\ t \in ready' /\ ready \subseteq ready' /\ ready' \subseteq Types
      BY <1>1, <1>2, <2>1
    <2>4. ASSUME NEW u \in todo
          PROVE  /\ base'[u] = BaseOf(F[u]) /\ base'[u] \in ready'
                 /\ slots'[u] = Inherited(F[u].slots, slots'[base'[u]])
                 /\ bases'[u] = IF F[u].bases = <<>> THEN <<base'[u]>> ELSE F[u].bases
                 /\ size'[u] = IF F[u].size = 0 THEN size'[base'[u]] ELSE F[u].size
      <3>1. u \in Types /\ base'[u] = BaseOf(F[u])
        BY <1>1, <1>8
      <3>2. base'[u] \in ready'
        BY <1>1, <2>1, <3>1
      <3>3. slots'[u] = Inherited(F[u].slots, slots'[base'[u]])
        BY <1>9, <3>1 DEF SlotsFrom
      <3>4. bases'[u] = IF F[u].bases = <<>> THEN <<base'[u]>> ELSE F[u].bases
        BY <1>1, <3>1
      <3>5. size'[u] = IF F[u].size = 0 THEN size'[base'[u]] ELSE F[u].size
        BY <1>10, <3>1 DEF SizesFrom
      <3> QED BY <3>1, <3>2, <3>3, <3>4, <3>5
    <2>5. ASSUME NEW u \in Types, u \notin todo
          PROVE  base'[u] = base[u] /\ bases'[u] = bases[u] /\ slots'[u] = slots[u] /\ size'[u] = size[u]
      <3>1. u # t
        BY <2>1, <2>5
      <3>2. base'[u] = base[u] /\ bases'[u] = bases[u]
        BY <1>1, <1>6, <2>5, <3>1
      <3>3. slots'[u] = slots[u]
        BY <1>6, <1>9, <2>5, <3>1 DEF SlotsFrom
      <3>4. size'[u] = size[u]
        BY <1>6, <1>10, <2>5, <3>1 DEF SizesFrom
      <3> QED BY <3>2, <3>3, <3>4
    <2>6. BaseOf(f) \in ready => ready' = ready \cup {t}
      BY <1>1, <1>4, <1>7 DEF Chained
    <2> QED BY <1>1, <2>2, <2>3, <2>4, <2>5, <2>6 DEF MadeReady, F
  <1>13. Bounded(h, N)'
    <2>1. ASSUME NEW u \in Types, base'[u] # Null
          PROVE  base'[u] \in Types /\ h[base'[u]] < h[u]
      <3>1. CASE u \in todo
        BY <1>1, <1>3, <1>5, <1>8, <3>1 DEF Heights
      <3>2. CASE u \notin todo
        BY <1>1, <1>3, <2>1, <3>2 DEF Bounded
      <3> QED BY <3>1, <3>2
    <2> QED BY <1>3, <2>1 DEF Bounded
  <1>14. Tupled(h)'
    <2> SUFFICES ASSUME NEW u \in Types, NEW i \in DOMAIN bases'[u]
                 PROVE  bases'[u][i] \in Types /\ h[bases'[u][i]] < h[u]
      BY DEF Tupled
    <2>1. CASE u \in todo /\ F[u].bases = <<>>
      <3>1. bases'[u] = <<BaseOf(F[u])>> /\ u \in Types \ {Object}
        BY <1>1, <1>8, <2>1
      <3>2. bases'[u][i] = BaseOf(F[u])
        BY <3>1
      <3> QED BY <1>3, <3>1, <3>2 DEF Heights
    <2>2. CASE ~(u \in todo /\ F[u].bases = <<>>)
      <3>1. bases'[u] = F[u].bases
        BY <1>1, <2>2
      <3> QED BY <1>3, <3>1 DEF Climbs
    <2> QED BY <2>1, <2>2
  <1>15. Grounded'
    BY <1>3, <1>13, <1>14 DEF Grounded, Above0
  <1> QED BY <1>11, <1>12, <1>15

(* What the callers of PyType_Ready set besides.                           *)
OwnSlots(t, f) ==
    /\ own'[t].slots = f.slots
    /\ \A u \in Types \ {t} : own'[u].slots = own[u].slots

LEMMA ReadyInv ==
  ASSUME TypeInv, NEW t, NEW f, MayReady(t, f), Ready(t, f), kind[t] # "exception",
         UNCHANGED kind, OwnSlots(t, f), stale' \subseteq Types \X TypeAttrs,
         own' \in [Types -> [slots : Functions, attrs : Dicts]], attrs' \in [Types -> Dicts]
  PROVE  TypeInv'
  <1>1. MadeReady(t, f) /\ ReadyTyped /\ Grounded'
    BY ReadyStep
  <1>2. TypesTypeOK' /\ TypesTypeOK
    BY <1>1 DEF TypesTypeOK, ReadyTyped, MadeReady, TypeInv
  <1>3. /\ ready \subseteq Types /\ t \in Types \ ready /\ Object \in ready
        /\ ready' \subseteq Types /\ ready \subseteq ready' /\ t \in ready'
    BY <1>1, <1>2 DEF TypesTypeOK, MayReady, MadeReady, TypeInv, ReadyAbove
  <1>4. \A u \in Types : u \in ready \/ u \notin ready' =>
          /\ base'[u] = base[u] /\ bases'[u] = bases[u]
          /\ slots'[u] = slots[u] /\ own'[u].slots = own[u].slots
    BY <1>1, <1>3 DEF MadeReady, OwnSlots
  <1>5. ReadyAbove'
    <2>1. ASSUME NEW u \in ready' \ {Object} PROVE base'[u] \in ready'
      <3>1. CASE u \in ready
        BY <1>3, <1>4, <2>1, <3>1 DEF TypeInv, ReadyAbove
      <3>2. CASE u \notin ready
        BY <1>1, <2>1, <3>2 DEF MadeReady
      <3> QED BY <3>1, <3>2
    <2>2. Object \in ready' /\ base'[Object] = Null /\ kind'[Object] = "static"
      BY <1>3, <1>4 DEF TypeInv, ReadyAbove
    <2>3. ASSUME NEW u \in Types, NEW i \in DOMAIN bases'[u] PROVE bases'[u][i] \in ready'
      <3>1. CASE u \in ready \/ u \notin ready'
        BY <1>3, <1>4, <2>3, <3>1 DEF TypeInv, ReadyAbove
      <3>2. CASE u \in ready' \ ready
        <4>1. /\ base'[u] \in ready'
              /\ bases'[u] = IF Given(t, f)[u].bases = <<>> THEN <<base'[u]>>
                             ELSE Given(t, f)[u].bases
          BY <1>1, <3>2 DEF MadeReady
        <4>2. CASE Given(t, f)[u].bases = <<>>
          BY <2>3, <4>1, <4>2
        <4>3. CASE Given(t, f)[u].bases # <<>>
          <5>1. CASE u = t
            BY <1>3, <2>3, <4>1, <4>3, <5>1 DEF Given, MayReady
          <5>2. CASE u # t
            BY <3>2, <4>3, <5>2 DEF Given, Fields, TypeInv, Prepared
          <5> QED BY <5>1, <5>2
        <4> QED BY <4>2, <4>3
      <3> QED BY <3>1, <3>2
    <2> QED BY <2>1, <2>2, <2>3 DEF ReadyAbove
  <1>6. Prepared'
    <2> SUFFICES ASSUME NEW u \in Types, u \notin ready'
                 PROVE  /\ slots'[u] = own'[u].slots
                        /\ base'[u] # Null => kind[u] = "static" /\ kind[base'[u]] = "static"
                        /\ kind[u] # "static" => own'[u].slots = Defines(u, {})
                        /\ bases'[u] = <<>>
      BY DEF Prepared
    <2> QED BY <1>3, <1>4 DEF TypeInv, Prepared
  <1>7. SlotsLocal'
    <2> SUFFICES ASSUME NEW u \in ready', NEW s \in Slots
                 PROVE  slots'[u][s] = SlotOf(u, s)'
      BY DEF SlotsLocal
    <2>1. CASE u \in ready
      <3>1. slots[u][s] = SlotOf(u, s)
        BY <2>1 DEF TypeInv, SlotsLocal
      <3>2. ~Stops(u, s) => base[u] \in ready
        BY <2>1 DEF TypeInv, ReadyAbove, Stops
      <3>3. slots'[u] = slots[u] /\ own'[u].slots = own[u].slots /\ base'[u] = base[u]
        BY <1>3, <1>4, <2>1
      <3>4. Stops(u, s)' <=> Stops(u, s)
        BY <3>3 DEF Stops
      <3>5. ~Stops(u, s) => slots'[base[u]] = slots[base[u]]
        BY <1>3, <1>4, <3>2
      <3> QED BY <3>1, <3>3, <3>4, <3>5 DEF SlotOf
    <2>2. CASE u \notin ready
      <3>1. /\ kind[u] # "exception" /\ base'[u] \in ready'
            /\ slots'[u] = Inherited(Given(t, f)[u].slots, slots'[base'[u]])
        BY <1>1, <2>2 DEF MadeReady
      <3>2. Given(t, f)[u].slots = own'[u].slots
        BY <1>3, <2>2 DEF Given, Fields, OwnSlots, TypeInv, Prepared
      <3>3. base'[u] # Null
        BY <1>3, <3>1
      <3> QED BY <3>1, <3>2, <3>3 DEF Inherited, SlotOf, Stops
    <2> QED BY <2>1, <2>2
  <1> QED BY <1>1, <1>2, <1>5, <1>6, <1>7 DEF TypeInv

LEMMA Made ==
  ASSUME NEW k, Unmade(k) # {}
  PROVE  FreshType(k) \in Types \ ready /\ kind[FreshType(k)] = k
  BY DEF FreshType, Unmade

LEMMA DefinesTyped ==
  ASSUME NEW t \in Types, NEW S, NEW N
  PROVE  Defines(t, S) \in Functions /\ Binds(t, N) \in Dicts
  BY DEF Defines, Binds, Functions, Dicts

(* What the callers of PyType_Ready do, but for how large they make a type.*)
Readies(t, f, k) ==
    /\ MayReady(t, f) /\ Ready(t, f) /\ OwnSlots(t, f) /\ kind[t] = k
    /\ UNCHANGED kind /\ stale' \subseteq Types \X TypeAttrs
    /\ own' \in [Types -> [slots : Functions, attrs : Dicts]] /\ attrs' \in [Types -> Dicts]

(* The first of the bases is the base.                                     *)
Headed(f) == f.bases = <<>> \/ (f.base = f.bases[1] /\ f.base # Null)

LEMMA ReadiesInv ==
  ASSUME TypeInv, NEW t, NEW f, NEW k \in {"static", "spec", "class"}, Readies(t, f, k)
  PROVE  TypeInv'
  <1>1. kind[t] # "exception"
    BY DEF Readies
  <1> QED BY <1>1, ReadyInv DEF Readies

LEMMA ReadyStaticReadies ==
  ASSUME TypeInv, NEW t \in Types, ReadyStatic(t)
  PROVE  Readies(t, Fields(t), "static")
  <1>1. /\ kind[t] = "static" /\ t \in Types \ ready /\ Ready(t, Fields(t))
        /\ UNCHANGED <<kind, own, stale>> /\ TypesTypeOK
        /\ attrs' = [u \in Types |-> IF u \in ready' \ ready THEN own[u].attrs ELSE attrs[u]]
    BY DEF ReadyStatic, TypeInv
  <1>2. MayReady(t, Fields(t))
    <2>1. Fields(t) \in FieldSet /\ Fields(t).base = base[t]
      BY <1>1, FieldsTyped DEF Fields
    <2>2. Fields(t).bases = <<>>
      BY <1>1 DEF Fields, TypeInv, Prepared
    <2> QED BY <1>1, <2>1, <2>2 DEF MayReady, TypeInv, Prepared
  <1>3. OwnSlots(t, Fields(t))
    BY <1>1 DEF OwnSlots, Fields, TypeInv, Prepared
  <1>4. /\ stale' \subseteq Types \X TypeAttrs /\ attrs' \in [Types -> Dicts]
        /\ own' \in [Types -> [slots : Functions, attrs : Dicts]]
    BY <1>1 DEF TypesTypeOK
  <1>5. UNCHANGED kind
    BY <1>1
  <1> QED BY <1>1, <1>2, <1>3, <1>4, <1>5 DEF Readies

-----------------------------------------------------------------------------
(* What is computed with the least and the greatest of numbers.            *)
LEMMA FirstTyped ==
  ASSUME NEW X, NEW n \in Nat, NEW v \in [1 .. n -> X]
  PROVE  FirstOf(v) \in X \cup {Null}
  <1> DEFINE found == {i \in 1 .. n : v[i] # Null}
  <1>1. FirstOf(v) = IF found = {} THEN Null ELSE v[Min(found)]
    BY DEF FirstOf
  <1>2. found \in SUBSET Nat /\ found \subseteq 1 .. n
    OBVIOUS
  <1> HIDE DEF found
  <1>3. found # {} => Min(found) \in 1 .. n
    BY <1>2, MinLeast
  <1> QED BY <1>1, <1>3

LEMMA BaseListsTyped ==
  ASSUME ready \subseteq Types, NEW bs \in BaseLists
  PROVE  /\ bs \in Seq(ready) /\ bs \in Seq(Types)
         /\ Len(bs) \in 0 .. 2 /\ DOMAIN bs = 1 .. Len(bs)
         /\ bs # <<>> => Head(bs) \in ready
         /\ \A i \in 1 .. Len(bs) : bs[i] \in ready
  <1>1. PICK m \in 0 .. 2 : bs \in [1 .. m -> ready]
    BY DEF BaseLists, SeqOf
  <1>2. bs \in Seq(ready) /\ Len(bs) = m /\ DOMAIN bs = 1 .. m
    BY <1>1
  <1> QED BY <1>1, <1>2

(* Right behind the header, or behind the largest base, or where one of    *)
(* the bases has it.                                                       *)
RoomShape(bs, r) ==
    \/ r.dictoffset = Header /\ r.size = Header + Word
    \/ /\ r.dictoffset > Header + Word /\ r.size = r.dictoffset + Word
       /\ \A i \in 1 .. Len(bs) : r.dictoffset >= size[bs[i]]
       /\ \E i \in 1 .. Len(bs) : r.dictoffset = size[bs[i]]
    \/ \E i \in 1 .. Len(bs) :
          r.dictoffset = dictoffset[bs[i]] /\ r.dictoffset \notin {0, Header}

LEMMA RoomTyped ==
  ASSUME TypesTypeOK, NEW bs \in BaseLists
  PROVE  /\ Room(bs).size \in Nat /\ Room(bs).dictoffset \in Nat /\ RoomShape(bs, Room(bs))
         /\ \A i \in 1 .. Len(bs) : Room(bs).size >= size[bs[i]]
         /\ Room(bs).size >= Header + Word
  <1> DEFINE S == {Header + Word} \cup {size[b] : b \in Range(bs)}
             with == {i \in DOMAIN bs : dictoffset[bs[i]] > 0}
             largest == Max(S)
             offset == IF with = {} THEN Header ELSE dictoffset[bs[Max(with)]]
  <1>1. /\ ready \subseteq Types /\ size \in [Types -> Nat] /\ dictoffset \in [Types -> Nat]
    BY DEF TypesTypeOK
  <1>2. /\ bs \in Seq(Types) /\ Len(bs) \in 0 .. 2 /\ DOMAIN bs = 1 .. Len(bs)
        /\ \A i \in 1 .. Len(bs) : bs[i] \in Types
    BY <1>1, BaseListsTyped
  <1>3. Range(bs) = {bs[i] : i \in 1 .. Len(bs)}
    BY <1>2 DEF Range
  <1>4. S \in SUBSET Nat /\ Header + Word \in S /\ \A i \in 1 .. Len(bs) : size[bs[i]] \in S
    BY <1>1, <1>2, <1>3 DEF Header, Word
  <1>5. \E B \in Nat : \A x \in S : x <= B
    <2>1. CASE Len(bs) = 0
      <3>1. Range(bs) = {}
        BY <1>3, <2>1
      <3> QED BY <3>1 DEF Header, Word
    <2>2. CASE Len(bs) = 1
      <3>1. Range(bs) = {bs[1]} /\ size[bs[1]] \in Nat
        BY <1>1, <1>2, <1>3, <2>2
      <3>2. 3 + size[bs[1]] \in Nat /\ \A x \in S : x <= 3 + size[bs[1]]
        BY <3>1 DEF Header, Word
      <3> HIDE DEF S
      <3> QED BY <3>2
    <2>3. CASE Len(bs) = 2
      <3>1. Range(bs) = {bs[1], bs[2]} /\ size[bs[1]] \in Nat /\ size[bs[2]] \in Nat
        BY <1>1, <1>2, <1>3, <2>3
      <3> DEFINE B == 3 + size[bs[1]] + size[bs[2]]
      <3>2. B \in Nat /\ \A x \in S : x <= B
        BY <3>1 DEF Header, Word
      <3> HIDE DEF S, B
      <3> QED BY <3>2
    <2> QED BY <1>2, <2>1, <2>2, <2>3
  <1>a. \A x \in S : x = Header + Word \/ \E i \in 1 .. Len(bs) : x = size[bs[i]]
    BY <1>3
  <1> HIDE DEF S
  <1>6. largest \in Nat /\ largest \in S /\ \A y \in S : largest >= y
    BY <1>4, <1>5, MaxGreatest
  <1>b. \A i \in with : dictoffset[bs[i]] # 0
    BY <1>1, <1>2
  <1>7. with # {} => Max(with) \in with /\ Max(with) \in 1 .. Len(bs)
    <2>1. with \in SUBSET Nat /\ with \subseteq 1 .. Len(bs) /\ \A x \in with : x <= 2
      BY <1>2
    <2> HIDE DEF with
    <2> QED BY <2>1, MaxGreatest
  <1>c. largest = Header + Word \/ \E i \in 1 .. Len(bs) : largest = size[bs[i]]
    BY <1>6, <1>a
  <1> HIDE DEF largest
  <1> HIDE DEF with
  <1>d. offset = Header \/ \E i \in 1 .. Len(bs) : offset = dictoffset[bs[i]] /\ offset # 0
    BY <1>7, <1>b
  <1>8. offset \in Nat
    BY <1>1, <1>2, <1>7 DEF Header
  <1>9. Room(bs) = IF offset = Header /\ largest > Header + Word
                   THEN [size |-> largest + Word, dictoffset |-> largest]
                   ELSE [size |-> largest, dictoffset |-> offset]
    BY DEF Room, largest, with, S
  <1> HIDE DEF offset
  <1>10. largest >= Header + Word /\ \A i \in 1 .. Len(bs) : size[bs[i]] \in Nat /\ largest >= size[bs[i]]
    BY <1>1, <1>2, <1>4, <1>6
  <1>11. CASE offset = Header /\ largest > Header + Word
    <2>1. Room(bs).size = largest + Word /\ Room(bs).dictoffset = largest
      BY <1>9, <1>11
    <2>2. PICK i \in 1 .. Len(bs) : largest = size[bs[i]]
      BY <1>c, <1>6, <1>11 DEF Word, Header
    <2>3. RoomShape(bs, Room(bs))
      BY <1>10, <1>11, <2>1, <2>2 DEF RoomShape
    <2> QED BY <1>6, <1>10, <1>11, <2>1, <2>3 DEF Word, Header
  <1>12. CASE ~(offset = Header /\ largest > Header + Word)
    <2>1. Room(bs).size = largest /\ Room(bs).dictoffset = offset
      BY <1>9, <1>12
    <2>2. RoomShape(bs, Room(bs))
      <3>1. CASE offset = Header
        BY <1>6, <1>10, <1>12, <2>1, <3>1 DEF RoomShape, Word, Header
      <3>2. CASE offset # Header
        BY <1>d, <2>1, <3>2 DEF RoomShape
      <3> QED BY <3>1, <3>2
    <2> QED BY <1>6, <1>8, <1>10, <1>12, <2>1, <2>2 DEF Word, Header
  <1> QED BY <1>11, <1>12

LEMMA MergedTyped ==
  ASSUME TypesTypeOK, NEW bs \in BaseLists, NEW t \in Types, NEW N
  PROVE  Merged(t, bs, N) \in Dicts
  <1>1. ready \subseteq Types /\ attrs \in [Types -> Dicts]
    BY DEF TypesTypeOK
  <1>2. Len(bs) \in Nat /\ DOMAIN bs = 1 .. Len(bs) /\ \A i \in 1 .. Len(bs) : bs[i] \in Types
    BY <1>1, BaseListsTyped
  <1> DEFINE X == Types \cup {Null, Data}
  <1>3. ASSUME NEW n \in TypeAttrs
        PROVE  FirstOf([i \in DOMAIN bs |-> attrs[bs[i]][n]]) \in X
    <2> DEFINE v == [i \in DOMAIN bs |-> attrs[bs[i]][n]]
    <2>1. v \in [1 .. Len(bs) -> X]
      BY <1>1, <1>2 DEF Dicts
    <2> HIDE DEF v
    <2>2. FirstOf(v) \in X \cup {Null}
      BY <1>2, <2>1, FirstTyped
    <2> QED BY <2>2 DEF v
  <1> QED BY <1>3 DEF Merged, Dicts

-----------------------------------------------------------------------------
(* The other steps.                                                        *)
LEMMA FromSpecReadies ==
  ASSUME TypeInv, NEW b \in Types \cup {Null}, NEW bs, NEW s \in Specs, FromSpec(b, bs, s),
         b # Null => kind[b] = "static", b = Null \/ bs = <<>>,
         bs \in Seq(ready)
  PROVE  \E t, f : /\ Readies(t, f, "spec") /\ f.dictoffset = 0 /\ size'[t] >= size'[base'[t]]
                   /\ Headed(f) /\ \A u \in Types \ {t} : own'[u] = own[u]
  <1> DEFINE t == FreshType("spec")
             c == IF b # Null THEN b ELSE IF bs # <<>> THEN Head(bs) ELSE Null
             f == [base |-> c, bases |-> bs, slots |-> Defines(t, s.slots),
                   size |-> s.size, dictoffset |-> 0]
  <1>1. /\ Unmade("spec") # {} /\ Ready(t, f)
        /\ own' = [own EXCEPT ![t] = [slots |-> Defines(t, s.slots),
                                      attrs |-> Binds(t, s.attrs)]]
        /\ attrs' = [u \in Types |-> IF u \in ready' \ ready THEN own'[u].attrs ELSE attrs[u]]
        /\ UNCHANGED <<kind, stale>> /\ size'[t] >= size'[base'[t]]
    BY Zenon DEF FromSpec
  <1>2. t \in Types \ ready /\ kind[t] = "spec"
    BY <1>1, Made
  <1>3. TypesTypeOK /\ ready \subseteq Types
    BY DEF TypeInv, TypesTypeOK
  <1>4. /\ c \in Types \cup {Null} /\ (c # Null => c \in ready \/ kind[c] = "static")
        /\ bs \in Seq(Types) /\ \A i \in DOMAIN bs : bs[i] \in ready
    BY <1>3
  <1>h. bs = <<>> \/ (c = bs[1] /\ c # Null)
    <2>1. bs # <<>> => c = Head(bs) /\ Head(bs) \in Types /\ Head(bs) = bs[1]
      BY <1>3
    <2> QED BY <2>1, TypeAssumption
  <1>5. s.size \in Nat
    OBVIOUS
  <1>6. Defines(t, s.slots) \in Functions /\ Binds(t, s.attrs) \in Dicts
    BY <1>2, DefinesTyped
  <1> HIDE DEF t
  <1> HIDE DEF c
  <1>7. /\ f \in FieldSet /\ f.base = c /\ f.slots = Defines(t, s.slots) /\ f.bases = bs
        /\ f.dictoffset = 0
    BY <1>4, <1>5, <1>6 DEF FieldSet
  <1> HIDE DEF f
  <1>8. MayReady(t, f)
    BY <1>2, <1>4, <1>7 DEF MayReady
  <1>9. /\ own' \in [Types -> [slots : Functions, attrs : Dicts]]
        /\ own'[t].slots = Defines(t, s.slots) /\ \A u \in Types \ {t} : own'[u] = own[u]
    BY <1>1, <1>2, <1>3, <1>6 DEF TypesTypeOK
  <1>10. OwnSlots(t, f)
    BY <1>7, <1>9 DEF OwnSlots
  <1>11. attrs' \in [Types -> Dicts] /\ stale' \subseteq Types \X TypeAttrs
    BY <1>1, <1>3, <1>9 DEF TypesTypeOK
  <1>12. Readies(t, f, "spec")
    BY <1>1, <1>2, <1>8, <1>9, <1>10, <1>11 DEF Readies
  <1>13. Headed(f)
    BY <1>7, <1>h DEF Headed
  <1> QED BY <1>1, <1>7, <1>9, <1>12, <1>13

LEMMA BuildClassReadies ==
  ASSUME TypeInv, NEW bs \in BaseLists, NEW N \in SUBSET TypeAttrs, BuildClass(bs, N)
  PROVE  \E t, f : /\ Readies(t, f, "class") /\ f.bases = bs
                   /\ f.base = IF bs = <<>> THEN Object ELSE Head(bs)
                   /\ f.size = Room(bs).size /\ f.dictoffset = Room(bs).dictoffset
                   /\ own'[t].attrs = Binds(t, N) /\ attrs'[t] = Merged(t, bs, N)
                   /\ \A u \in Types \ {t} : own'[u] = own[u] /\ attrs'[u] = attrs[u]
                   /\ stale' = stale
  <1> DEFINE t == FreshType("class")
             mine == [Defines(t, {}) EXCEPT ![InitSlot] = VmInit]
             b == IF bs = <<>> THEN Object ELSE Head(bs)
             f == [base |-> b, bases |-> bs, slots |-> mine, size |-> Room(bs).size,
                   dictoffset |-> Room(bs).dictoffset]
  <1>1. /\ Unmade("class") # {} /\ Ready(t, f)
        /\ own' = [own EXCEPT ![t] = [slots |-> mine, attrs |-> Binds(t, N)]]
        /\ attrs' = [attrs EXCEPT ![t] = Merged(t, bs, N)]
        /\ UNCHANGED <<kind, stale>>
    BY Zenon DEF BuildClass
  <1>2. t \in Types \ ready /\ kind[t] = "class"
    BY <1>1, Made
  <1>3. TypesTypeOK /\ ready \subseteq Types /\ Object \in ready
    BY DEF TypeInv, TypesTypeOK, ReadyAbove
  <1>4. /\ bs \in Seq(Types) /\ (bs # <<>> => Head(bs) \in ready)
        /\ \A i \in DOMAIN bs : bs[i] \in ready
    BY <1>3, BaseListsTyped
  <1>5. mine \in Functions /\ Binds(t, N) \in Dicts
    <2>1. Defines(t, {}) \in Functions /\ Binds(t, N) \in Dicts
      BY <1>2, DefinesTyped
    <2> QED BY <2>1 DEF Functions
  <1>6. Room(bs).size \in Nat /\ Room(bs).dictoffset \in Nat
    BY <1>3, RoomTyped
  <1>7. Merged(t, bs, N) \in Dicts
    BY <1>2, <1>3, MergedTyped
  <1> HIDE DEF t
  <1> HIDE DEF mine
  <1>8. b \in ready /\ b \in Types
    BY <1>3, <1>4
  <1>0. b = IF bs = <<>> THEN Object ELSE Head(bs)
    OBVIOUS
  <1> HIDE DEF b
  <1>9. /\ f \in FieldSet /\ f.base = b /\ f.slots = mine /\ f.bases = bs
        /\ f.size = Room(bs).size /\ f.dictoffset = Room(bs).dictoffset
    BY <1>4, <1>5, <1>6, <1>8 DEF FieldSet
  <1> HIDE DEF f
  <1>10. MayReady(t, f)
    BY <1>2, <1>4, <1>8, <1>9 DEF MayReady
  <1>11. /\ own' \in [Types -> [slots : Functions, attrs : Dicts]]
         /\ own'[t].slots = mine /\ \A u \in Types \ {t} : own'[u] = own[u]
    BY <1>1, <1>2, <1>3, <1>5 DEF TypesTypeOK
  <1>12. OwnSlots(t, f)
    BY <1>9, <1>11 DEF OwnSlots
  <1>13. attrs' \in [Types -> Dicts] /\ stale' \subseteq Types \X TypeAttrs
    BY <1>1, <1>3, <1>7 DEF TypesTypeOK
  <1>14. Readies(t, f, "class")
    BY <1>1, <1>2, <1>10, <1>11, <1>12, <1>13 DEF Readies
  <1>15. /\ own'[t].attrs = Binds(t, N) /\ attrs'[t] = Merged(t, bs, N)
         /\ \A u \in Types \ {t} : own'[u] = own[u] /\ attrs'[u] = attrs[u]
    BY <1>1, <1>2, <1>3 DEF TypesTypeOK
  <1> QED BY <1>0, <1>1, <1>9, <1>14, <1>15

LEMMA NewExceptionInv ==
  ASSUME TypeInv, NEW b \in ready, NewException(b)
  PROVE  TypeInv'
  <1>0. PICK t, copy : /\ t = FreshType("exception")
                      /\ copy = [s \in Slots |-> IF s \in CopiedSlots THEN slots[b][s] ELSE Null]
    OBVIOUS
  <1>1. /\ Unmade("exception") # {}
        /\ ready' = ready \cup {t}
        /\ base' = [base EXCEPT ![t] = b]
        /\ bases' = [bases EXCEPT ![t] = <<b>>]
        /\ slots' = [slots EXCEPT ![t] = copy]
        /\ size' = [size EXCEPT ![t] = Header]
        /\ UNCHANGED <<kind, attrs, dictoffset, own, stale>>
    BY <1>0, Zenon DEF NewException
  <1>2. t \in Types \ ready /\ kind[t] = "exception"
    BY <1>0, <1>1, Made
  <1>3. TypesTypeOK /\ ready \subseteq Types /\ Object \in ready
    BY DEF TypeInv, TypesTypeOK, ReadyAbove
  <1>4. b \in Types /\ b # t /\ t # Object
    BY <1>2, <1>3
  <1>5. copy \in Functions
    <2>1. slots[b] \in Functions
      BY <1>3, <1>4 DEF TypesTypeOK
    <2> QED BY <1>0, <2>1 DEF Functions
  <1>6. \A s \in Slots : copy[s] = IF s \in CopiedSlots THEN slots[b][s] ELSE Null
    BY <1>0
  <1>7. own[t].slots = Defines(t, {}) /\ base[t] = Null
    BY <1>2 DEF TypeInv, Prepared
  <1>8. TypesTypeOK'
    <2>1. base' \in [Types -> Types \cup {Null}] /\ bases' \in [Types -> Seq(Types)]
      <3>1. base \in [Types -> Types \cup {Null}] /\ bases \in [Types -> Seq(Types)]
        BY <1>3 DEF TypesTypeOK
      <3>2. <<b>> \in Seq(Types)
        BY <1>4
      <3> QED BY <1>1, <1>4, <3>1, <3>2
    <2>2. slots' \in [Types -> Functions] /\ size' \in [Types -> Nat]
      BY <1>1, <1>3, <1>5 DEF TypesTypeOK, Header
    <2> QED BY <1>1, <1>2, <1>3, <2>1, <2>2 DEF TypesTypeOK
  <1>9. /\ base'[t] = b /\ slots'[t] = copy
        /\ \A u \in Types \ {t} : base'[u] = base[u] /\ slots'[u] = slots[u]
    BY <1>1, <1>2, <1>3 DEF TypesTypeOK
  <1>10. Grounded'
    <2> DEFINE f == [Fields(t) EXCEPT !.base = b, !.bases = <<b>>]
    <2>1. f \in FieldSet /\ f.base = b /\ f.bases = <<b>>
      <3>1. Fields(t) \in FieldSet /\ <<b>> \in Seq(Types)
        BY <1>2, <1>3, <1>4, FieldsTyped
      <3> QED BY <1>4, <3>1 DEF FieldSet
    <2> HIDE DEF f
    <2>2. MayReady(t, f)
      BY <1>2, <2>1 DEF MayReady
    <2>3. PICK N, h : /\ Heights(Given(t, f), h, N) /\ Above0(h) /\ Bounded(h, N)
                      /\ Climbs(Given(t, f), h)
      BY <2>2, ReadyHeights
    <2>4. BaseOf(Given(t, f)[t]) = b
      BY <1>2, <1>3, <1>4, <2>1 DEF Given, BaseOf
    <2>5. h[b] < h[t]
      BY <1>2, <1>4, <2>3, <2>4 DEF Heights
    <2>6. ASSUME NEW u \in Types, base'[u] # Null
          PROVE  base'[u] \in Types /\ h[base'[u]] < h[u]
      <3>1. CASE u = t
        BY <1>4, <1>9, <2>5, <3>1
      <3>2. CASE u # t
        BY <1>9, <2>3, <2>6, <3>2 DEF Bounded
      <3> QED BY <3>1, <3>2
    <2>7. Bounded(h, N)'
      BY <2>3, <2>6 DEF Bounded
    <2>8. \A u \in Types : bases'[u] = Given(t, f)[u].bases
      <3>1. bases \in [Types -> Seq(Types)]
        BY <1>3 DEF TypesTypeOK
      <3> QED BY <1>1, <1>2, <2>1, <3>1 DEF Given, Fields
    <2>9. Tupled(h)'
      BY <2>3, <2>8 DEF Tupled, Climbs
    <2> QED BY <2>3, <2>7, <2>9 DEF Grounded, Above0
  <1>b. bases'[t] = <<b>> /\ \A u \in Types \ {t} : bases'[u] = bases[u]
    <2>1. bases \in [Types -> Seq(Types)]
      BY <1>3 DEF TypesTypeOK
    <2> QED BY <1>1, <1>2, <2>1
  <1>11. ReadyAbove'
    <2>1. ASSUME NEW u \in Types, NEW i \in DOMAIN bases'[u] PROVE bases'[u][i] \in ready'
      <3>1. CASE u = t
        BY <1>1, <1>b, <2>1, <3>1
      <3>2. CASE u # t
        BY <1>1, <1>b, <2>1, <3>2 DEF TypeInv, ReadyAbove
      <3> QED BY <3>1, <3>2
    <2> QED BY <1>1, <1>2, <1>3, <1>4, <1>9, <2>1 DEF TypeInv, ReadyAbove
  <1>12. Prepared'
    BY <1>1, <1>9, <1>b DEF TypeInv, Prepared
  <1>13. SlotsLocal'
    <2> SUFFICES ASSUME NEW u \in ready', NEW s \in Slots
                 PROVE  slots'[u][s] = SlotOf(u, s)'
      BY DEF SlotsLocal
    <2>1. CASE u # t
      <3>1. u \in ready /\ u \in Types
        BY <1>1, <1>3, <2>1
      <3>2. slots[u][s] = SlotOf(u, s) /\ (~Stops(u, s) => base[u] \in ready)
        BY <3>1 DEF TypeInv, SlotsLocal, ReadyAbove, Stops
      <3>3. Stops(u, s)' <=> Stops(u, s)
        BY <1>1, <1>9, <2>1, <3>1 DEF Stops
      <3>4. ~Stops(u, s) => slots'[base[u]] = slots[base[u]]
        BY <1>2, <1>3, <1>9, <3>2
      <3> QED BY <1>1, <1>9, <2>1, <3>1, <3>2, <3>3, <3>4 DEF SlotOf
    <2>2. CASE u = t
      <3>1. own'[t].slots[s] = Null
        BY <1>1, <1>7 DEF Defines
      <3>2. base'[t] = b /\ b # Null /\ kind'[t] = "exception"
        BY <1>1, <1>2, <1>4, <1>9
      <3>3. Stops(t, s)' <=> s \notin CopiedSlots
        BY <3>1, <3>2 DEF Stops
      <3>4. slots'[b][s] = slots[b][s] /\ slots'[t][s] = copy[s]
        BY <1>4, <1>9
      <3>5. SlotOf(t, s)' = IF Stops(t, s)' THEN Null ELSE slots[b][s]
        BY <3>1, <3>2, <3>4 DEF SlotOf
      <3>6. copy[s] = IF s \in CopiedSlots THEN slots[b][s] ELSE Null
        BY <1>6
      <3> QED BY <2>2, <3>3, <3>4, <3>5, <3>6
    <2> QED BY <2>1, <2>2
  <1> QED BY <1>8, <1>10, <1>11, <1>12, <1>13 DEF TypeInv

LEMMA SameInv ==
  ASSUME TypeInv, UNCHANGED <<kind, ready, base, bases, slots>>, TypesTypeOK',
         \A u \in Types : own'[u].slots = own[u].slots
  PROVE  TypeInv'
  <1>1. Grounded'
    <2>1. PICK N, h : Bounded(h, N) /\ Above0(h) /\ Tupled(h)
      BY DEF TypeInv, Grounded
    <2>2. Bounded(h, N)' /\ Tupled(h)'
      BY <2>1 DEF Bounded, Tupled
    <2> QED BY <2>1, <2>2 DEF Grounded, Above0
  <1>2. ReadyAbove'
    BY DEF TypeInv, ReadyAbove
  <1>3. Prepared'
    BY DEF TypeInv, Prepared
  <1>4. SlotsLocal'
    BY DEF TypeInv, SlotsLocal, SlotOf, Stops, TypesTypeOK
  <1> QED BY <1>1, <1>2, <1>3, <1>4 DEF TypeInv

LEMMA StoreAttrInv ==
  ASSUME TypeInv, NEW t \in Types, NEW n \in TypeAttrs, StoreAttr(t, n)
  PROVE  TypeInv'
  <1>1. /\ attrs' = [attrs EXCEPT ![t][n] = Data]
        /\ own' = [own EXCEPT ![t].attrs[n] = Data]
        /\ stale' = stale \/ stale' = stale \cup {<<t, n>>}
        /\ UNCHANGED <<kind, ready, base, bases, slots, size, dictoffset>>
    BY Zenon DEF StoreAttr
  <1>2. TypesTypeOK
    BY DEF TypeInv
  <1>3. attrs' \in [Types -> Dicts]
    <2>1. [attrs[t] EXCEPT ![n] = Data] \in Dicts
      BY <1>2 DEF TypesTypeOK, Dicts
    <2> QED BY <1>1, <1>2, <2>1 DEF TypesTypeOK
  <1>4. own' \in [Types -> [slots : Functions, attrs : Dicts]]
    <2>1. own[t] \in [slots : Functions, attrs : Dicts]
      BY <1>2 DEF TypesTypeOK
    <2>2. [own[t].attrs EXCEPT ![n] = Data] \in Dicts
      BY <2>1 DEF Dicts
    <2>3. [own[t] EXCEPT !.attrs[n] = Data] \in [slots : Functions, attrs : Dicts]
      BY <2>1, <2>2
    <2> QED BY <1>1, <1>2, <2>3 DEF TypesTypeOK
  <1>5. \A u \in Types : own'[u].slots = own[u].slots
    BY <1>1, <1>2 DEF TypesTypeOK
  <1>6. TypesTypeOK'
    BY <1>1, <1>2, <1>3, <1>4 DEF TypesTypeOK
  <1> QED BY <1>1, <1>5, <1>6, SameInv

-----------------------------------------------------------------------------
(* Layouts.  What a class has from create_vm_type: its instances are as    *)
(* large as those of any base, and the pointer to the dict is right behind *)
(* the header, or behind the largest base, or where one of them has it.    *)
ClassLaid(u) ==
    /\ size[u] >= Header + Word
    /\ \A i \in DOMAIN bases[u] : size[u] >= size[bases[u][i]]
    /\ \/ dictoffset[u] = Header /\ size[u] = Header + Word
       \/ /\ dictoffset[u] > Header + Word /\ size[u] = dictoffset[u] + Word
          /\ \A i \in DOMAIN bases[u] : dictoffset[u] >= size[bases[u][i]]
          /\ \E i \in DOMAIN bases[u] : dictoffset[u] = size[bases[u][i]]
       \/ \E i \in DOMAIN bases[u] :
             dictoffset[u] = dictoffset[bases[u][i]] /\ dictoffset[u] \notin {0, Header}

Laid(u) ==
    /\ kind[u] \in {"static", "spec", "exception", "class"} /\ bases[u] # <<>>
    /\ kind[u] = "static" => bases[u] = <<base[u]>>
    /\ kind[u] = "spec" => dictoffset[u] = 0 /\ size[u] >= size[base[u]]
    /\ kind[u] = "class" => ClassLaid(u)

(* What was declared of the structs of static types holds of them, with    *)
(* the sizes that PyType_Ready fills in.                                   *)
Declared0(u, struct) ==
    LET b == BaseOf(Fields(u)) IN
    /\ b \in Types /\ kind[b] = "static" /\ struct[u] >= struct[b]
    /\ size[u] = struct[u] \/ (u \notin ready /\ size[u] = 0 /\ struct[u] = struct[b])
    /\ dictoffset[u] # 0 =>
          /\ dictoffset[u] >= Header /\ dictoffset[u] + Word <= struct[u]
          /\ dictoffset[u] >= struct[b] \/ dictoffset[u] = dictoffset[b]

Structs == \E struct \in [Types -> Nat] : \A u \in Types : kind[u] = "static" => Declared0(u, struct)

ObjectLaid == bases[Object] = <<>> /\ size[Object] = Header /\ dictoffset[Object] = 0

LayoutInv == ObjectLaid /\ Structs /\ \A u \in ready \ {Object} : Laid(u)

(* The types that were ready keep their layouts.                           *)
LEMMA LaidStays ==
  ASSUME TypeInv, LayoutInv, ready \subseteq ready', Structs',
         \A u \in ready : /\ base'[u] = base[u] /\ bases'[u] = bases[u] /\ kind'[u] = kind[u]
                          /\ size'[u] = size[u] /\ dictoffset'[u] = dictoffset[u],
         \A u \in ready' \ ready : Laid(u)'
  PROVE  LayoutInv'
  <1>1. /\ Object \in ready /\ ready \subseteq Types
        /\ \A u \in ready \ {Object} : base[u] \in ready
        /\ \A u \in ready : \A i \in DOMAIN bases[u] : bases[u][i] \in ready
    BY DEF TypeInv, ReadyAbove, TypesTypeOK
  <1>2. ASSUME NEW u \in ready \ {Object} PROVE Laid(u)'
    <2>1. Laid(u)
      BY DEF LayoutInv
    <2>2. /\ base'[u] = base[u] /\ bases'[u] = bases[u] /\ kind'[u] = kind[u]
          /\ size'[u] = size[u] /\ dictoffset'[u] = dictoffset[u]
          /\ size'[base[u]] = size[base[u]]
          /\ \A i \in DOMAIN bases[u] : /\ size'[bases[u][i]] = size[bases[u][i]]
                                        /\ dictoffset'[bases[u][i]] = dictoffset[bases[u][i]]
      BY <1>1
    <2>3. ClassLaid(u) => ClassLaid(u)'
      BY <2>2 DEF ClassLaid
    <2> QED BY <2>1, <2>2, <2>3 DEF Laid
  <1>3. ObjectLaid'
    BY <1>1 DEF LayoutInv, ObjectLaid
  <1>4. \A u \in ready' \ {Object} : Laid(u)'
    BY <1>2
  <1> QED BY <1>3, <1>4 DEF LayoutInv

LEMMA ReadyLayout ==
  ASSUME TypeInv, TypeInv', LayoutInv, NEW t, NEW f, NEW k, Readies(t, f, k),
         k # "static" => Laid(t)', k = "static" => f = Fields(t)
  PROVE  LayoutInv'
  <1>1. MadeReady(t, f) /\ ReadyTyped
    BY ReadyStep DEF Readies
  <1>2. /\ ready \subseteq Types /\ t \in Types \ ready /\ Object \in ready /\ UNCHANGED kind
        /\ ready' \subseteq Types /\ ready \subseteq ready' /\ t \in ready' /\ kind[t] = k
        /\ f \in FieldSet /\ dictoffset \in [Types -> Nat] /\ size \in [Types -> Nat]
    BY <1>1 DEF MadeReady, Readies, MayReady, TypeInv, TypesTypeOK, ReadyAbove
  <1>3. /\ \A u \in Types \ {t} : dictoffset'[u] = dictoffset[u]
        /\ k = "static" => dictoffset'[t] = dictoffset[t]
    BY <1>1, <1>2 DEF MadeReady, Fields
  <1>4. \A u \in ready' \ ready : kind[u] = "static" =>
           Given(t, f)[u] = Fields(u) /\ Fields(u).bases = <<>>
    <2>1. ASSUME NEW u \in ready' \ ready, kind[u] = "static"
          PROVE  Given(t, f)[u] = Fields(u)
      BY <1>2, <2>1 DEF Given
    <2>2. ASSUME NEW u \in ready' \ ready PROVE Fields(u).bases = <<>>
      BY <1>2 DEF Fields, TypeInv, Prepared
    <2> QED BY <2>1, <2>2
  <1>5. ASSUME NEW u \in ready' \ ready, kind[u] = "static"
        PROVE  /\ base'[u] = BaseOf(Fields(u)) /\ base'[u] \in ready'
               /\ bases'[u] = <<base'[u]>>
               /\ size'[u] = IF size[u] = 0 THEN size'[base'[u]] ELSE size[u]
    <2>1. /\ base'[u] = BaseOf(Given(t, f)[u]) /\ base'[u] \in ready'
          /\ bases'[u] = IF Given(t, f)[u].bases = <<>> THEN <<base'[u]>> ELSE Given(t, f)[u].bases
          /\ size'[u] = IF Given(t, f)[u].size = 0 THEN size'[base'[u]] ELSE Given(t, f)[u].size
      BY <1>1 DEF MadeReady
    <2>2. Fields(u).size = size[u]
      BY DEF Fields
    <2> QED BY <1>4, <1>5, <2>1, <2>2
  <1>6. PICK struct \in [Types -> Nat] :
           \A u \in Types : kind[u] = "static" => Declared0(u, struct)
    BY DEF LayoutInv, Structs
  <1>7. \A u \in Types : kind[u] = "static" => BaseOf(Fields(u))' = BaseOf(Fields(u))
    <2> SUFFICES ASSUME NEW u \in Types, kind[u] = "static"
                 PROVE  BaseOf(Fields(u))' = BaseOf(Fields(u))
      OBVIOUS
    <2>1. CASE u \in ready' \ ready
      <3>1. base'[u] # Null
        BY <1>2, <1>5, <2>1
      <3>2. BaseOf(Fields(u))' = base'[u]
        BY <3>1 DEF BaseOf, Fields
      <3> QED BY <1>5, <2>1, <3>2
    <2>2. CASE u \notin ready' \ ready
      <3>1. base'[u] = base[u]
        BY <1>1, <1>2, <2>2 DEF MadeReady
      <3> QED BY <3>1 DEF BaseOf, Fields
    <2> QED BY <2>1, <2>2
  <1>8. \A u \in ready : size'[u] = size[u]
    BY <1>1, <1>2 DEF MadeReady
  <1>9. \A u \in ready' \ ready : kind[u] = "static" => size'[u] = struct[u]
    <2>1. PICK N, h : Bounded(h, N)'
      BY DEF TypeInv, Grounded
    <2>2. h \in [Types -> Nat] /\ \A u \in Types : base'[u] # Null => h[base'[u]] < h[u]
      BY <2>1 DEF Bounded
    <2> DEFINE Bad == {u \in ready' \ ready : kind[u] = "static" /\ size'[u] # struct[u]}
    <2> SUFFICES ASSUME Bad # {} PROVE FALSE
      OBVIOUS
    <2>3. PICK u \in Bad : \A v \in Bad : h[u] <= h[v]
      <3>1. Bad \in SUBSET Types
        BY <1>2
      <3> HIDE DEF Bad
      <3> QED BY <2>2, <3>1, Lowest
    <2>4. u \in ready' \ ready /\ kind[u] = "static" /\ size'[u] # struct[u] /\ u \in Types
      BY <1>2
    <2>5. \A v \in ready' \ ready : kind[v] = "static" /\ h[v] < h[u] => size'[v] = struct[v]
      <3>1. \A v \in Types : h[v] \in Nat
        BY <2>2
      <3> QED BY <1>2, <2>3, <2>4, <3>1
    <2> HIDE DEF Bad
    <2>6. PICK b : b = BaseOf(Fields(u))
      OBVIOUS
    <2>7. /\ b \in Types /\ kind[b] = "static" /\ struct[u] >= struct[b]
          /\ size[u] = struct[u] \/ (size[u] = 0 /\ struct[u] = struct[b])
      BY <1>6, <2>4, <2>6 DEF Declared0
    <2>8. /\ base'[u] = b /\ b \in ready'
          /\ size'[u] = IF size[u] = 0 THEN size'[b] ELSE size[u]
      BY <1>5, <2>4, <2>6
    <2>9. h[b] < h[u]
      BY <1>2, <2>2, <2>4, <2>7, <2>8
    <2>10. size'[b] = struct[b]
      <3>1. CASE b \in ready
        <4>1. Declared0(b, struct)
          BY <1>6, <2>7
        <4>2. size[b] = struct[b]
          BY <3>1, <4>1 DEF Declared0
        <4> QED BY <1>8, <3>1, <4>2
      <3>2. CASE b \notin ready
        BY <2>5, <2>7, <2>8, <2>9, <3>2
      <3> QED BY <3>1, <3>2
    <2>11. struct[u] \in Nat /\ struct[b] \in Nat /\ size[u] \in Nat
      BY <1>2, <1>6, <2>4, <2>7
    <2> QED BY <2>4, <2>7, <2>8, <2>10, <2>11
  <1>10. Structs'
    <2> SUFFICES ASSUME NEW u \in Types, kind'[u] = "static"
                 PROVE  Declared0(u, struct)'
      BY <1>6 DEF Structs
    <2>0. kind[u] = "static"
      BY <1>2
    <2>1. PICK b : b = BaseOf(Fields(u))
      OBVIOUS
    <2>2. /\ b \in Types /\ kind[b] = "static" /\ struct[u] >= struct[b]
          /\ size[u] = struct[u] \/ (u \notin ready /\ size[u] = 0 /\ struct[u] = struct[b])
          /\ dictoffset[u] # 0 =>
                /\ dictoffset[u] >= Header /\ dictoffset[u] + Word <= struct[u]
                /\ dictoffset[u] >= struct[b] \/ dictoffset[u] = dictoffset[b]
      BY <1>6, <2>0, <2>1 DEF Declared0
    <2>3. BaseOf(Fields(u))' = b
      BY <1>7, <2>0, <2>1
    <2>4. dictoffset'[u] = dictoffset[u] /\ dictoffset'[b] = dictoffset[b]
      BY <1>2, <1>3, <2>0, <2>2
    <2>5. kind'[b] = "static"
      BY <1>2, <2>2
    <2>6. size'[u] = struct[u] \/ (u \notin ready' /\ size'[u] = 0 /\ struct[u] = struct[b])
      <3>1. CASE u \in ready
        BY <1>8, <2>2, <3>1
      <3>2. CASE u \in ready' \ ready
        BY <1>9, <2>0, <3>2
      <3>3. CASE u \notin ready'
        <4>1. size'[u] = size[u]
          BY <1>1, <3>3 DEF MadeReady
        <4> QED BY <1>2, <2>2, <3>3, <4>1
      <3> QED BY <3>1, <3>2, <3>3
    <2> QED BY <2>2, <2>3, <2>4, <2>5, <2>6 DEF Declared0
  <1>11. \A u \in ready' \ ready : Laid(u)'
    <2> SUFFICES ASSUME NEW u \in ready' \ ready PROVE Laid(u)'
      OBVIOUS
    <2>1. CASE kind[u] = "static"
      <3>1. bases'[u] = <<base'[u]>> /\ kind'[u] = "static"
        BY <1>2, <1>5, <2>1
      <3>2. <<base'[u]>> # <<>>
        OBVIOUS
      <3> QED BY <3>1, <3>2 DEF Laid
    <2>2. CASE kind[u] # "static"
      <3>1. u = t /\ k # "static"
        BY <1>1, <1>2, <2>2 DEF MadeReady
      <3> QED BY <3>1
    <2> QED BY <2>1, <2>2
  <1>12. \A u \in ready : /\ base'[u] = base[u] /\ bases'[u] = bases[u] /\ kind'[u] = kind[u]
                          /\ size'[u] = size[u] /\ dictoffset'[u] = dictoffset[u]
    <2>1. ASSUME NEW u \in ready
          PROVE  base'[u] = base[u] /\ bases'[u] = bases[u] /\ size'[u] = size[u]
      BY <1>1, <1>2 DEF MadeReady
    <2>2. \A u \in ready : kind'[u] = kind[u] /\ dictoffset'[u] = dictoffset[u]
      BY <1>2, <1>3
    <2> QED BY <2>1, <2>2
  <1> QED BY <1>2, <1>10, <1>11, <1>12, LaidStays

LEMMA StaticLayout ==
  ASSUME TypeInv, TypeInv', LayoutInv, NEW t \in Types, ReadyStatic(t)
  PROVE  LayoutInv'
  BY ReadyStaticReadies, ReadyLayout

LEMMA SpecLayout ==
  ASSUME TypeInv, TypeInv', LayoutInv, NEW t, NEW f, Readies(t, f, "spec"), f.dictoffset = 0,
         size'[t] >= size'[base'[t]]
  PROVE  LayoutInv'
  <1>1. MadeReady(t, f) /\ t \in Types \ ready /\ kind'[t] = "spec"
    BY ReadyStep DEF Readies, MayReady
  <1>2. dictoffset'[t] = 0
    BY <1>1 DEF MadeReady, TypeInv, TypesTypeOK
  <1>3. bases'[t] # <<>>
    <2>1. bases'[t] = IF Given(t, f)[t].bases = <<>> THEN <<base'[t]>> ELSE Given(t, f)[t].bases
      BY <1>1 DEF MadeReady
    <2>2. <<base'[t]>> # <<>>
      OBVIOUS
    <2> QED BY <2>1, <2>2
  <1>4. Laid(t)'
    BY <1>1, <1>2, <1>3 DEF Laid
  <1> QED BY <1>4, ReadyLayout

LEMMA ClassLayout ==
  ASSUME TypeInv, TypeInv', LayoutInv, NEW bs \in BaseLists, NEW t, NEW f,
         Readies(t, f, "class"), f.bases = bs, f.base = IF bs = <<>> THEN Object ELSE Head(bs),
         f.size = Room(bs).size, f.dictoffset = Room(bs).dictoffset
  PROVE  LayoutInv'
  <1>0. /\ TypesTypeOK /\ ready \subseteq Types /\ Object \in ready
        /\ dictoffset \in [Types -> Nat]
    BY DEF TypeInv, TypesTypeOK, ReadyAbove
  <1>1. MadeReady(t, f) /\ t \in Types \ ready /\ kind'[t] = "class"
    BY ReadyStep DEF Readies, MayReady
  <1>2. Given(t, f)[t] = f
    BY <1>1 DEF Given
  <1>3. PICK r : r = Room(bs)
    OBVIOUS
  <1>4. /\ r.size \in Nat /\ r.dictoffset \in Nat /\ RoomShape(bs, r)
        /\ \A i \in 1 .. Len(bs) : r.size >= size[bs[i]]
        /\ r.size >= Header + Word
    BY <1>0, <1>3, RoomTyped
  <1>5. /\ Len(bs) \in Nat /\ DOMAIN bs = 1 .. Len(bs) /\ bs \in Seq(Types)
        /\ \A i \in 1 .. Len(bs) : bs[i] \in ready
    BY <1>0, BaseListsTyped
  <1>6. dictoffset'[t] = r.dictoffset
    BY <1>0, <1>1, <1>3 DEF MadeReady
  <1>7. size'[t] = r.size
    <2>1. size'[t] = IF f.size = 0 THEN size'[base'[t]] ELSE f.size
      BY <1>1, <1>2 DEF MadeReady
    <2> QED BY <1>3, <1>4, <2>1 DEF Header, Word
  <1>8. \A u \in ready : size'[u] = size[u] /\ dictoffset'[u] = dictoffset[u]
    BY <1>0, <1>1 DEF MadeReady
  <1>9. bases'[t] # <<>> /\ ClassLaid(t)'
    <2>1. base'[t] = (IF f.base = Null THEN Object ELSE f.base)
          /\ bases'[t] = IF bs = <<>> THEN <<base'[t]>> ELSE bs
      BY <1>1, <1>2 DEF MadeReady, BaseOf
    <2>2. CASE bs = <<>>
      <3>1. f.base = Object /\ base'[t] = Object /\ bases'[t] = <<Object>>
        BY <2>1, <2>2
      <3>2. size'[Object] = Header
        BY <1>0, <1>8 DEF LayoutInv, ObjectLaid
      <3>3. ~\E i \in 1 .. Len(bs) : TRUE
        BY <2>2
      <3>4. r.dictoffset = Header /\ r.size = Header + Word
        BY <1>4, <3>3 DEF RoomShape
      <3>5. \A i \in DOMAIN bases'[t] : size'[bases'[t][i]] = Header
        BY <3>1, <3>2
      <3>6. \A i \in DOMAIN bases'[t] : size'[t] >= size'[bases'[t][i]]
        BY <1>7, <3>4, <3>5 DEF Header, Word
      <3>7. bases'[t] # <<>>
        BY <3>1
      <3> QED BY <1>4, <1>6, <1>7, <3>4, <3>6, <3>7 DEF ClassLaid
    <2>3. CASE bs # <<>>
      <3>1. bases'[t] = bs
        BY <2>1, <2>3
      <3>2. \A i \in 1 .. Len(bs) : size'[bs[i]] = size[bs[i]] /\ dictoffset'[bs[i]] = dictoffset[bs[i]]
        BY <1>5, <1>8
      <3>3. size'[t] >= Header + Word /\ \A i \in DOMAIN bs : size'[t] >= size'[bs[i]]
        BY <1>4, <1>5, <1>7, <3>2
      <3>4. \/ dictoffset'[t] = Header /\ size'[t] = Header + Word
            \/ /\ dictoffset'[t] > Header + Word /\ size'[t] = dictoffset'[t] + Word
               /\ \A i \in DOMAIN bs : dictoffset'[t] >= size'[bs[i]]
               /\ \E i \in DOMAIN bs : dictoffset'[t] = size'[bs[i]]
            \/ \E i \in DOMAIN bs :
                  dictoffset'[t] = dictoffset'[bs[i]] /\ dictoffset'[t] \notin {0, Header}
        BY <1>4, <1>5, <1>6, <1>7, <3>2 DEF RoomShape
      <3> QED BY <2>3, <3>1, <3>3, <3>4 DEF ClassLaid
    <2> QED BY <2>2, <2>3
  <1>10. Laid(t)'
    BY <1>1, <1>9 DEF Laid
  <1> QED BY <1>10, ReadyLayout

(* Where nothing changes that layouts are made of.                         *)
LEMMA StructsStay ==
  ASSUME Structs, UNCHANGED kind, ready \subseteq ready',
         \A u \in Types : kind[u] = "static" => u \in ready \/ u \notin ready',
         \A u \in Types : kind[u] = "static" =>
            base'[u] = base[u] /\ size'[u] = size[u] /\ dictoffset'[u] = dictoffset[u]
  PROVE  Structs'
  <1>1. PICK struct \in [Types -> Nat] :
           \A u \in Types : kind[u] = "static" => Declared0(u, struct)
    BY DEF Structs
  <1>2. ASSUME NEW u \in Types, kind[u] = "static" PROVE Declared0(u, struct)'
    <2>1. Declared0(u, struct)
      BY <1>1, <1>2
    <2>2. BaseOf(Fields(u))' = BaseOf(Fields(u))
      BY <1>2 DEF BaseOf, Fields
    <2>3. PICK b : b = BaseOf(Fields(u))
      OBVIOUS
    <2>4. b \in Types /\ kind[b] = "static" /\ dictoffset'[b] = dictoffset[b]
      BY <2>1, <2>3 DEF Declared0
    <2>5. size'[u] = size[u] /\ dictoffset'[u] = dictoffset[u] /\ kind'[b] = "static"
      BY <1>2, <2>4
    <2>6. (u \notin ready) => (u \notin ready')
      BY <1>2
    <2> QED BY <2>1, <2>2, <2>3, <2>4, <2>5, <2>6 DEF Declared0
  <1> QED BY <1>1, <1>2 DEF Structs

LEMMA ExceptionLayout ==
  ASSUME TypeInv, TypeInv', LayoutInv, NEW b \in ready, NewException(b)
  PROVE  LayoutInv'
  <1>0. PICK t : t = FreshType("exception")
    OBVIOUS
  <1>1. /\ Unmade("exception") # {}
        /\ ready' = ready \cup {t}
        /\ base' = [base EXCEPT ![t] = b]
        /\ bases' = [bases EXCEPT ![t] = <<b>>]
        /\ size' = [size EXCEPT ![t] = Header]
        /\ UNCHANGED <<kind, dictoffset>>
    BY <1>0, Zenon DEF NewException
  <1>2. t \in Types \ ready /\ kind[t] = "exception"
    BY <1>0, <1>1, Made
  <1>3. /\ base \in [Types -> Types \cup {Null}] /\ bases \in [Types -> Seq(Types)]
        /\ size \in [Types -> Nat] /\ ready \subseteq Types
    BY DEF TypeInv, TypesTypeOK
  <1>4. /\ bases'[t] = <<b>>
        /\ \A u \in Types \ {t} : base'[u] = base[u] /\ bases'[u] = bases[u] /\ size'[u] = size[u]
    BY <1>1, <1>2, <1>3
  <1>5. Laid(t)'
    <2>1. <<b>> # <<>>
      OBVIOUS
    <2>2. kind'[t] = "exception"
      BY <1>1, <1>2
    <2> QED BY <1>4, <2>1, <2>2 DEF Laid
  <1>6. Structs'
    <2>1. \A u \in Types : kind[u] = "static" => u # t
      BY <1>2
    <2>2. \A u \in Types : kind[u] = "static" =>
             base'[u] = base[u] /\ size'[u] = size[u] /\ dictoffset'[u] = dictoffset[u]
      BY <1>1, <1>4, <2>1
    <2>3. Structs /\ UNCHANGED kind /\ ready \subseteq ready'
      BY <1>1 DEF LayoutInv
    <2>4. \A u \in Types : kind[u] = "static" => u \in ready \/ u \notin ready'
      BY <1>1, <2>1
    <2> QED BY <2>2, <2>3, <2>4, StructsStay
  <1>7. \A u \in ready : /\ base'[u] = base[u] /\ bases'[u] = bases[u] /\ kind'[u] = kind[u]
                         /\ size'[u] = size[u] /\ dictoffset'[u] = dictoffset[u]
    BY <1>1, <1>2, <1>3, <1>4
  <1>8. ready \subseteq ready' /\ ready' \ ready = {t}
    BY <1>1, <1>2
  <1> QED BY <1>5, <1>6, <1>7, <1>8, LaidStays

LEMMA SameLayout ==
  ASSUME TypeInv, LayoutInv, UNCHANGED <<kind, ready, base, bases, size, dictoffset>>
  PROVE  LayoutInv'
  <1>1. Structs'
    BY StructsStay DEF LayoutInv
  <1>2. ready' \ ready = {} /\ ready \subseteq ready'
    OBVIOUS
  <1> QED BY <1>1, <1>2, LaidStays

-----------------------------------------------------------------------------
LEMMA TypeInitInv ==
  ASSUME TypeInit
  PROVE  TypeInv
  <1>1. PICK p \in Declarations :
           /\ kind = [t \in Types |-> p[t].kind]
           /\ ready = {Object}
           /\ base = [t \in Types |-> p[t].base]
           /\ bases = [t \in Types |-> <<>>]
           /\ slots = [t \in Types |-> Defines(t, p[t].slots)]
           /\ attrs = [t \in Types |-> Binds(t, IF t = Object THEN p[t].attrs ELSE {})]
           /\ size = [t \in Types |-> p[t].size]
           /\ dictoffset = [t \in Types |-> p[t].dictoffset]
           /\ own = [t \in Types |-> [slots |-> Defines(t, p[t].slots),
                                      attrs |-> Binds(t, p[t].attrs)]]
           /\ stale = {}
    BY DEF TypeInit
  <1>2. /\ \A t \in Types : p[t] \in Declaration
        /\ p[Object].kind = "static" /\ p[Object].base = Null
        /\ \A t \in Types :
              /\ p[t].kind # "static" => p[t].base = Null /\ p[t].slots = {}
              /\ p[t].base # Null => p[p[t].base].kind = "static"
        /\ \E height \in [Types -> 0 .. Cardinality(Types)] :
              \A t \in Types : p[t].base # Null => height[p[t].base] < height[t]
    BY DeclarationsAssumption
  <1>3. \A t \in Types :
           /\ p[t].kind \in {"static", "spec", "exception", "class", "unused"}
           /\ p[t].base \in Types \cup {Null} /\ p[t].size \in Nat /\ p[t].dictoffset \in Nat
    BY <1>2 DEF Declaration
  <1>4. TypesTypeOK
    <2>1. kind \in [Types -> {"static", "spec", "exception", "class", "unused"}]
          /\ ready \subseteq Types /\ base \in [Types -> Types \cup {Null}]
          /\ size \in [Types -> Nat] /\ dictoffset \in [Types -> Nat]
          /\ stale \subseteq Types \X TypeAttrs
      BY <1>1, <1>3
    <2>2. bases \in [Types -> Seq(Types)]
      BY <1>1
    <2>3. slots \in [Types -> Functions] /\ attrs \in [Types -> Dicts]
          /\ own \in [Types -> [slots : Functions, attrs : Dicts]]
      BY <1>1, DefinesTyped
    <2> QED BY <2>1, <2>2, <2>3 DEF TypesTypeOK
  <1>5. Grounded
    <2> DEFINE N == Cardinality(Types)
    <2>1. PICK h \in [Types -> 0 .. N] :
             \A t \in Types : p[t].base # Null => h[p[t].base] < h[t]
      BY <1>2
    <2>2. N \in Nat
      BY FS_CardinalityType
    <2> HIDE DEF N
    <2>3. PICK k : k = [t \in Types |-> IF t = Object THEN 0 ELSE h[t] + 1]
      OBVIOUS
    <2>4. k \in [Types -> 0 .. N + 1] /\ N + 1 \in Nat
      BY <2>1, <2>2, <2>3
    <2>5. ASSUME NEW t \in Types, base[t] # Null
          PROVE  base[t] \in Types /\ k[base[t]] < k[t]
      <3>1. base[t] = p[t].base /\ base[t] \in Types /\ t # Object
        BY <1>1, <1>2, <1>3, <2>5
      <3>2. h[base[t]] < h[t] /\ h[t] \in Nat /\ h[base[t]] \in Nat
        BY <2>1, <2>2, <2>5, <3>1
      <3>3. k[t] = h[t] + 1 /\ k[base[t]] \in {0, h[base[t]] + 1}
        BY <2>3, <3>1
      <3> QED BY <3>1, <3>2, <3>3
    <2>6. Bounded(k, N + 1)
      BY <2>4, <2>5 DEF Bounded
    <2>7. Above0(k)
      BY <2>1, <2>2, <2>3 DEF Above0
    <2>8. \A t \in Types : DOMAIN bases[t] = {}
      BY <1>1
    <2>9. Tupled(k)
      BY <2>8 DEF Tupled
    <2> QED BY <2>6, <2>7, <2>9 DEF Grounded
  <1>6. ReadyAbove
    <2>1. \A t \in Types : DOMAIN bases[t] = {}
      BY <1>1
    <2> QED BY <1>1, <1>2, <2>1 DEF ReadyAbove
  <1>7. Prepared
    <2>1. ASSUME NEW t \in Types
          PROVE  /\ slots[t] = Defines(t, p[t].slots) /\ own[t].slots = Defines(t, p[t].slots)
                 /\ base[t] = p[t].base /\ kind[t] = p[t].kind
      BY <1>1
    <2>2. \A t \in Types : p[t].base # Null => p[t].base \in Types
      BY <1>3
    <2> SUFFICES ASSUME NEW t \in Types
                 PROVE  /\ slots[t] = own[t].slots
                        /\ base[t] # Null => kind[t] = "static" /\ kind[base[t]] = "static"
                        /\ kind[t] # "static" => own[t].slots = Defines(t, {})
                        /\ bases[t] = <<>>
      BY DEF Prepared
    <2>3. slots[t] = own[t].slots
      BY <2>1
    <2>4. base[t] # Null => kind[t] = "static" /\ kind[base[t]] = "static"
      <3> SUFFICES ASSUME base[t] # Null PROVE kind[t] = "static" /\ kind[base[t]] = "static"
        OBVIOUS
      <3>1. base[t] = p[t].base /\ p[t].base # Null /\ p[t].base \in Types
        BY <2>1, <2>2
      <3>2. p[p[t].base].kind = "static" /\ p[t].kind = "static"
        BY <1>2, <3>1
      <3> QED BY <2>1, <3>1, <3>2
    <2>5. kind[t] # "static" => own[t].slots = Defines(t, {})
      <3> SUFFICES ASSUME kind[t] # "static" PROVE own[t].slots = Defines(t, {})
        OBVIOUS
      <3>1. p[t].kind # "static"
        BY <2>1
      <3>2. p[t].slots = {}
        BY <1>2, <3>1
      <3> QED BY <2>1, <3>2
    <2>6. bases[t] = <<>>
      BY <1>1
    <2> QED BY <2>3, <2>4, <2>5, <2>6
  <1>8. SlotsLocal
    <2>1. ready = {Object} /\ base[Object] = Null /\ slots[Object] = own[Object].slots
      BY <1>1, <1>2
    <2> QED BY <2>1 DEF SlotsLocal, SlotOf, Stops
  <1> QED BY <1>4, <1>5, <1>6, <1>7, <1>8 DEF TypeInv

LEMMA TypeNextInv ==
  ASSUME TypeInv, [TypeNext]_typeVars
  PROVE  TypeInv'
  <1>0. ready \subseteq Types
    BY DEF TypeInv, TypesTypeOK
  <1>1. ASSUME NEW t \in Types, ReadyStatic(t) PROVE TypeInv'
    BY <1>1, ReadyStaticReadies, ReadiesInv
  <1>2. ASSUME NEW bs \in BaseLists, NEW s \in Specs, FromSpec(Null, bs, s) PROVE TypeInv'
    <2>1. PICK t, f : Readies(t, f, "spec")
      BY <1>0, <1>2, BaseListsTyped, FromSpecReadies
    <2> QED BY <2>1, ReadiesInv
  <1>3. ASSUME NEW b \in Types, NEW s \in Specs, kind[b] = "static", FromSpec(b, <<>>, s)
        PROVE  TypeInv'
    <2>1. b \in Types \cup {Null} /\ <<>> \in Seq(ready)
      OBVIOUS
    <2>2. PICK t, f : Readies(t, f, "spec")
      BY <1>3, <2>1, FromSpecReadies
    <2> QED BY <2>2, ReadiesInv
  <1>4. ASSUME NEW b \in ready, NewException(b) PROVE TypeInv'
    BY <1>4, NewExceptionInv
  <1>5. ASSUME NEW bs \in BaseLists, NEW N \in SUBSET TypeAttrs, BuildClass(bs, N) PROVE TypeInv'
    <2>1. PICK t, f : Readies(t, f, "class")
      BY <1>5, BuildClassReadies
    <2> QED BY <2>1, ReadiesInv
  <1>6. ASSUME NEW t \in Types, NEW n \in TypeAttrs, StoreAttr(t, n) PROVE TypeInv'
    BY <1>6, StoreAttrInv
  <1>7. CASE UNCHANGED typeVars
    <2>1. UNCHANGED <<kind, ready, base, bases, slots, attrs, size, dictoffset, own, stale>>
      BY <1>7 DEF typeVars
    <2>2. TypesTypeOK'
      BY <2>1 DEF TypeInv, TypesTypeOK
    <2> QED BY <2>1, <2>2, SameInv
  <1> QED BY <1>1, <1>2, <1>3, <1>4, <1>5, <1>6, <1>7 DEF TypeNext

LEMMA LayoutInit ==
  ASSUME TypeInit
  PROVE  LayoutInv
  <1>1. PICK p \in Declarations :
           /\ kind = [t \in Types |-> p[t].kind]
           /\ ready = {Object}
           /\ base = [t \in Types |-> p[t].base]
           /\ bases = [t \in Types |-> <<>>]
           /\ size = [t \in Types |-> p[t].size]
           /\ dictoffset = [t \in Types |-> p[t].dictoffset]
    BY DEF TypeInit
  <1>2. /\ \A t \in Types : p[t] \in Declaration
        /\ p[Object].kind = "static" /\ p[Object].base = Null
        /\ \A t \in Types : p[t].base # Null => p[p[t].base].kind = "static"
        /\ p[Object].size = Header /\ p[Object].dictoffset = 0
    BY DeclarationsAssumption
  <1>3. PICK struct \in [Types -> {p[t].size : t \in Types}] :
              \A t \in Types :
                p[t].kind = "static" =>
                  /\ struct[t] >= struct[BaseOf(p[t])]
                  /\ struct[t] = IF p[t].size = 0 THEN struct[BaseOf(p[t])] ELSE p[t].size
                  /\ p[t].dictoffset # 0 =>
                        /\ p[t].dictoffset \in Header .. struct[t] - Word
                        /\ \/ p[t].dictoffset >= struct[BaseOf(p[t])]
                           \/ p[t].dictoffset = p[BaseOf(p[t])].dictoffset
    BY DeclarationsAssumption
  <1>4. \A t \in Types : p[t].base \in Types \cup {Null} /\ p[t].size \in Nat /\ p[t].dictoffset \in Nat
    BY <1>2 DEF Declaration
  <1>5. struct \in [Types -> Nat]
    BY <1>3, <1>4
  <1>6. \A t \in Types : p[t].kind = "static" => p[BaseOf(p[t])].kind = "static" /\ BaseOf(p[t]) \in Types
    BY <1>2, <1>4 DEF BaseOf
  <1>7. struct[Object] = Header
    BY <1>2, <1>3 DEF Header
  <1>8. ASSUME NEW u \in Types, kind[u] = "static" PROVE Declared0(u, struct)
    <2>1. PICK b : b = BaseOf(p[u])
      OBVIOUS
    <2>2. BaseOf(Fields(u)) = b
      BY <1>1, <2>1 DEF BaseOf, Fields
    <2>3. kind[u] = p[u].kind /\ size[u] = p[u].size /\ dictoffset[u] = p[u].dictoffset
      BY <1>1
    <2>4. b \in Types /\ kind[b] = "static" /\ dictoffset[b] = p[b].dictoffset
      BY <1>1, <1>6, <1>8, <2>1, <2>3
    <2>5. /\ struct[u] >= struct[b]
          /\ struct[u] = IF size[u] = 0 THEN struct[b] ELSE size[u]
          /\ dictoffset[u] # 0 =>
                /\ dictoffset[u] \in Header .. struct[u] - Word
                /\ dictoffset[u] >= struct[b] \/ dictoffset[u] = dictoffset[b]
      BY <1>3, <1>8, <2>1, <2>3, <2>4
    <2>6. struct[u] \in Nat
      BY <1>5
    <2>7. dictoffset[u] # 0 => dictoffset[u] >= Header /\ dictoffset[u] + Word <= struct[u]
      BY <2>5, <2>6 DEF Header, Word
    <2>8. size[u] = struct[u] \/ (u \notin ready /\ size[u] = 0 /\ struct[u] = struct[b])
      <3>1. CASE u = Object
        BY <1>2, <1>7, <2>3, <3>1
      <3>2. CASE u # Object
        BY <1>1, <2>5, <3>2
      <3> QED BY <3>1, <3>2
    <2> QED BY <2>2, <2>4, <2>5, <2>7, <2>8 DEF Declared0
  <1>9. Structs
    BY <1>5, <1>8 DEF Structs
  <1>10. ObjectLaid
    BY <1>1, <1>2 DEF ObjectLaid
  <1>11. ready \ {Object} = {}
    BY <1>1
  <1> QED BY <1>9, <1>10, <1>11 DEF LayoutInv

LEMMA LayoutNext ==
  ASSUME TypeInv, TypeInv', LayoutInv, [TypeNext]_typeVars
  PROVE  LayoutInv'
  <1>0. ready \subseteq Types
    BY DEF TypeInv, TypesTypeOK
  <1>1. ASSUME NEW t \in Types, ReadyStatic(t) PROVE LayoutInv'
    BY <1>1, StaticLayout
  <1>2. ASSUME NEW bs \in BaseLists, NEW s \in Specs, FromSpec(Null, bs, s) PROVE LayoutInv'
    <2>1. PICK t, f : Readies(t, f, "spec") /\ f.dictoffset = 0 /\ size'[t] >= size'[base'[t]]
      BY <1>0, <1>2, BaseListsTyped, FromSpecReadies
    <2> QED BY <2>1, SpecLayout
  <1>3. ASSUME NEW b \in Types, NEW s \in Specs, kind[b] = "static", FromSpec(b, <<>>, s)
        PROVE  LayoutInv'
    <2>1. b \in Types \cup {Null} /\ <<>> \in Seq(ready)
      OBVIOUS
    <2>2. PICK t, f : Readies(t, f, "spec") /\ f.dictoffset = 0 /\ size'[t] >= size'[base'[t]]
      BY <1>3, <2>1, FromSpecReadies
    <2> QED BY <2>2, SpecLayout
  <1>4. ASSUME NEW b \in ready, NewException(b) PROVE LayoutInv'
    BY <1>4, ExceptionLayout
  <1>5. ASSUME NEW bs \in BaseLists, NEW N \in SUBSET TypeAttrs, BuildClass(bs, N) PROVE LayoutInv'
    <2>1. PICK t, f : /\ Readies(t, f, "class") /\ f.bases = bs
                      /\ f.base = IF bs = <<>> THEN Object ELSE Head(bs)
                      /\ f.size = Room(bs).size /\ f.dictoffset = Room(bs).dictoffset
      BY <1>5, BuildClassReadies
    <2> QED BY <2>1, ClassLayout
  <1>6. ASSUME NEW t \in Types, NEW n \in TypeAttrs, StoreAttr(t, n) PROVE LayoutInv'
    <2>1. UNCHANGED <<kind, ready, base, bases, slots, size, dictoffset>>
      BY <1>6, Zenon DEF StoreAttr
    <2> QED BY <2>1, SameLayout
  <1>7. CASE UNCHANGED typeVars
    <2>1. UNCHANGED <<kind, ready, base, bases, slots, attrs, size, dictoffset, own, stale>>
      BY <1>7 DEF typeVars
    <2> QED BY <2>1, SameLayout
  <1> QED BY <1>1, <1>2, <1>3, <1>4, <1>5, <1>6, <1>7 DEF TypeNext

-----------------------------------------------------------------------------
(* What follows of a type from the layouts of the types it derives from.   *)
Measured(h) ==
    /\ h \in [Types -> Nat]
    /\ \A u \in Types : \A i \in DOMAIN Walked(u) : Walked(u)[i] \in Types /\ h[Walked(u)[i]] < h[u]

LEMMA MeasureExists ==
  ASSUME TypeInv
  PROVE  \E h : Measured(h)
  <1>1. PICK N, h : Bounded(h, N) /\ Tupled(h)
    BY DEF TypeInv, Grounded
  <1>2. h \in [Types -> Nat]
    BY <1>1 DEF Bounded
  <1>3. ASSUME NEW u \in Types, NEW i \in DOMAIN Walked(u)
        PROVE  Walked(u)[i] \in Types /\ h[Walked(u)[i]] < h[u]
    <2>1. CASE bases[u] # <<>>
      BY <1>1, <1>3, <2>1 DEF Tupled, Walked
    <2>2. CASE bases[u] = <<>>
      <3>1. base[u] # Null /\ Walked(u) = <<base[u]>>
        BY <1>3, <2>2 DEF Walked
      <3>2. Walked(u)[i] = base[u]
        BY <3>1
      <3> QED BY <1>1, <3>1, <3>2 DEF Bounded
    <2> QED BY <2>1, <2>2
  <1> QED BY <1>2, <1>3 DEF Measured

(* A type, and the lines of its bases.                                     *)
LineFrom(f, u) == {u} \cup UNION {f[Walked(u)[i]] : i \in DOMAIN Walked(u)}

LEMMA LineSolves ==
  ASSUME TypeInv, NEW t \in Types
  PROVE  Line(t) = {t} \cup UNION {Line(Walked(t)[i]) : i \in DOMAIN Walked(t)}
  <1>0. PICK h : Measured(h)
    BY MeasureExists
  <1>m. /\ h \in [Types -> Nat]
        /\ \A u \in Types : \A i \in DOMAIN Walked(u) :
              Walked(u)[i] \in Types /\ h[Walked(u)[i]] < h[u]
    BY <1>0 DEF Measured
  <1> DEFINE X == SUBSET Types
             D == [p \in Types \X [Types -> X] |-> LineFrom(p[2], p[1])]
  <1>1. ASSUME NEW u \in Types, NEW f \in [Types -> X]
        PROVE  LineFrom(f, u) \in X
    BY <1>m DEF LineFrom
  <1>2. D \in [Types \X [Types -> X] -> X]
    BY <1>1
  <1>3. ASSUME NEW u \in Types, NEW f, NEW g,
               \A v \in Types : h[v] < h[u] => f[v] = g[v]
        PROVE  LineFrom(f, u) = LineFrom(g, u)
    <2>1. \A i \in DOMAIN Walked(u) : f[Walked(u)[i]] = g[Walked(u)[i]]
      BY <1>3, <1>m
    <2> QED BY <2>1 DEF LineFrom
  <1>4. PICK f \in [Types -> X] : \A u \in Types : f[u] = LineFrom(f, u)
    <2>1. \A u \in Types, f \in [Types -> X] : D[<<u, f>>] = LineFrom(f, u)
      OBVIOUS
    <2>2. X # {}
      OBVIOUS
    <2> HIDE DEF D
    <2> HIDE DEF X
    <2>3. LooksBelow(D, Types, X, h)
      BY <1>3, <2>1 DEF LooksBelow
    <2>4. \E f \in [Types -> X] : Solves(f, D, Types)
      BY <1>m, <1>2, <2>2, <2>3, Solution
    <2> QED BY <2>1, <2>4 DEF Solves
  <1>5. f = [u \in Types |-> LineFrom(f, u)]
    BY <1>4
  <1> DEFINE r == CHOOSE r : r = [u \in Types |-> LineFrom(r, u)]
  <1>6. r = [u \in Types |-> LineFrom(r, u)]
    BY <1>5, Zenon
  <1>7. \A u : Above(u) = r[u] \ {u}
    BY Zenon DEF Above, LineFrom
  <1> HIDE DEF r
  <1>8. \A u \in Types : r[u] = LineFrom(r, u) /\ u \in r[u]
    <2>1. \A u \in Types : r[u] = LineFrom(r, u)
      BY <1>6
    <2> QED BY <2>1 DEF LineFrom
  <1>9. \A u \in Types : Line(u) = r[u]
    BY <1>7, <1>8 DEF Line
  <1>10. \A i \in DOMAIN Walked(t) : Line(Walked(t)[i]) = r[Walked(t)[i]]
    BY <1>9, <1>m
  <1>11. r[t] = {t} \cup UNION {r[Walked(t)[i]] : i \in DOMAIN Walked(t)}
    BY <1>8 DEF LineFrom
  <1> QED BY <1>9, <1>10, <1>11

LEMMA OnLine ==
  ASSUME TypeInv, LayoutInv, NEW t \in ready \ {Object}
  PROVE  /\ \A c : c \in Line(t) <=> c = t \/ \E i \in DOMAIN bases[t] : c \in Line(bases[t][i])
         /\ Walked(t) = bases[t]
         /\ \A i \in DOMAIN bases[t] : bases[t][i] \in ready
  <1>1. t \in Types /\ \A i \in DOMAIN bases[t] : bases[t][i] \in ready
    BY DEF TypeInv, TypesTypeOK, ReadyAbove
  <1>2. Walked(t) = bases[t]
    BY DEF LayoutInv, Laid, Walked
  <1>3. Line(t) = {t} \cup UNION {Line(Walked(t)[i]) : i \in DOMAIN Walked(t)}
    BY <1>1, LineSolves
  <1> QED BY <1>1, <1>2, <1>3

LEMMA LineOfObject ==
  ASSUME TypeInv, LayoutInv
  PROVE  Line(Object) = {Object}
  <1>1. Walked(Object) = <<>>
    BY DEF LayoutInv, ObjectLaid, Walked, TypeInv, ReadyAbove
  <1>2. Line(Object) = {Object} \cup UNION {Line(Walked(Object)[i]) : i \in DOMAIN Walked(Object)}
    BY LineSolves
  <1> QED BY <1>1, <1>2

(* What holds of a type when it holds of its bases holds of all.           *)
LEMMA Upwards ==
  ASSUME TypeInv, LayoutInv, NEW Bad, Bad \subseteq ready, Bad # {}
  PROVE  \E t \in Bad : t = Object \/ \A i \in DOMAIN bases[t] : bases[t][i] \in ready \ Bad
  <1>1. PICK h : Measured(h)
    BY MeasureExists
  <1>2. h \in [Types -> Nat]
    BY <1>1 DEF Measured
  <1>3. Bad \in SUBSET Types
    BY DEF TypeInv, TypesTypeOK
  <1>4. PICK t \in Bad : \A u \in Bad : h[t] <= h[u]
    BY <1>2, <1>3, Lowest
  <1> SUFFICES ASSUME t # Object, NEW i \in DOMAIN bases[t] PROVE bases[t][i] \in ready \ Bad
    BY <1>4
  <1>5. Walked(t) = bases[t] /\ bases[t][i] \in ready
    BY OnLine
  <1>6. bases[t][i] \in Types /\ h[bases[t][i]] < h[t] /\ t \in Types
    BY <1>1, <1>3, <1>5 DEF Measured
  <1>7. ~(h[t] <= h[bases[t][i]])
    BY <1>2, <1>6
  <1> QED BY <1>4, <1>5, <1>7

LEMMA LineReady ==
  ASSUME TypeInv, LayoutInv, NEW t \in ready
  PROVE  Line(t) \subseteq ready /\ t \in Line(t)
  <1> DEFINE Bad == {u \in ready : ~(Line(u) \subseteq ready)}
  <1>1. t \in Line(t)
    BY DEF Line
  <1>2. Bad = {}
    <2> SUFFICES ASSUME Bad # {} PROVE FALSE
      OBVIOUS
    <2>1. PICK u \in Bad : u = Object \/ \A i \in DOMAIN bases[u] : bases[u][i] \in ready \ Bad
      <3>1. Bad \subseteq ready
        OBVIOUS
      <3> HIDE DEF Bad
      <3> QED BY <3>1, Upwards
    <2>2. CASE u = Object
      BY <2>2, LineOfObject
    <2>3. CASE u # Object
      <3>1. \A i \in DOMAIN bases[u] : Line(bases[u][i]) \subseteq ready
        BY <2>1, <2>3
      <3>2. Line(u) \subseteq ready
        BY <2>3, <3>1, OnLine
      <3> QED BY <3>2
    <2> QED BY <2>2, <2>3
  <1> QED BY <1>1, <1>2

-----------------------------------------------------------------------------
(* The types in C that t derives from, itself included.                    *)
Native(t) == {c \in Line(t) \ {Object} : kind[c] \in {"static", "spec"}}

(* What LayoutsNest asks of a class, of any type.                          *)
Nestable(t) ==
    /\ \A u \in Line(t) : kind[u] # "exception"
    /\ \A u \in Line(t) : \A i, j \in DOMAIN bases[u] :
          Native(bases[u][i]) # {} /\ Native(bases[u][j]) # {} => i = j
    /\ \A c \in Native(t) : bases[c] = <<base[c]>> /\ size[c] # Header + Word

LEMMA NestableAbove ==
  ASSUME TypeInv, LayoutInv, NEW t \in ready \ {Object}, Nestable(t), NEW i \in DOMAIN bases[t]
  PROVE  Nestable(bases[t][i]) /\ bases[t][i] \in ready /\ Line(bases[t][i]) \subseteq Line(t)
         /\ Native(bases[t][i]) \subseteq Native(t)
  <1>1. bases[t][i] \in ready /\ Line(bases[t][i]) \subseteq Line(t)
    BY OnLine
  <1>2. Native(bases[t][i]) \subseteq Native(t)
    BY <1>1 DEF Native
  <1> QED BY <1>1, <1>2 DEF Nestable

(* Structs grow downwards.                                                 *)
LEMMA StaticLaid ==
  ASSUME TypeInv, LayoutInv, NEW t \in ready \ {Object}, kind[t] = "static"
  PROVE  /\ base[t] \in ready /\ kind[base[t]] = "static" /\ bases[t] = <<base[t]>>
         /\ size[t] >= size[base[t]]
         /\ dictoffset[t] # 0 =>
               /\ dictoffset[t] >= Header /\ dictoffset[t] + Word <= size[t]
               /\ dictoffset[t] >= size[base[t]] \/ dictoffset[t] = dictoffset[base[t]]
  <1>1. base[t] \in ready /\ ready \subseteq Types /\ base[t] # Null
    BY DEF TypeInv, TypesTypeOK, ReadyAbove
  <1>2. bases[t] = <<base[t]>>
    BY DEF LayoutInv, Laid
  <1>3. PICK struct \in [Types -> Nat] :
           \A u \in Types : kind[u] = "static" => Declared0(u, struct)
    BY DEF LayoutInv, Structs
  <1>4. BaseOf(Fields(t)) = base[t]
    BY <1>1 DEF BaseOf, Fields
  <1>5. /\ kind[base[t]] = "static" /\ struct[t] >= struct[base[t]] /\ size[t] = struct[t]
        /\ dictoffset[t] # 0 =>
              /\ dictoffset[t] >= Header /\ dictoffset[t] + Word <= struct[t]
              /\ dictoffset[t] >= struct[base[t]] \/ dictoffset[t] = dictoffset[base[t]]
    BY <1>1, <1>3, <1>4 DEF Declared0
  <1>6. size[base[t]] = struct[base[t]]
    BY <1>1, <1>3, <1>5 DEF Declared0
  <1> QED BY <1>1, <1>2, <1>5, <1>6

LEMMA Grows ==
  ASSUME TypeInv, LayoutInv, NEW t \in ready \ {Object},
         kind[t] # "exception", kind[t] \in {"static", "spec"} => bases[t] = <<base[t]>>
  PROVE  \A i \in DOMAIN bases[t] : size[t] >= size[bases[t][i]]
  <1>1. CASE kind[t] = "static"
    BY <1>1, StaticLaid
  <1>2. CASE kind[t] = "spec"
    BY <1>2 DEF LayoutInv, Laid
  <1>3. CASE kind[t] = "class"
    BY <1>3 DEF LayoutInv, Laid, ClassLaid
  <1> QED BY <1>1, <1>2, <1>3 DEF LayoutInv, Laid

LEMMA SizesTyped ==
  ASSUME TypeInv, NEW t \in ready
  PROVE  size[t] \in Nat /\ dictoffset[t] \in Nat
  BY DEF TypeInv, TypesTypeOK

LEMMA Largest ==
  ASSUME TypeInv, LayoutInv, NEW t \in ready, Nestable(t), NEW c \in Line(t)
  PROVE  size[c] <= size[t]
  <1> DEFINE Bad == {u \in ready : Nestable(u) /\ \E d \in Line(u) : ~(size[d] <= size[u])}
  <1>1. Bad = {}
    <2> SUFFICES ASSUME Bad # {} PROVE FALSE
      OBVIOUS
    <2>1. PICK u \in Bad : u = Object \/ \A i \in DOMAIN bases[u] : bases[u][i] \in ready \ Bad
      <3>1. Bad \subseteq ready
        OBVIOUS
      <3> HIDE DEF Bad
      <3> QED BY <3>1, Upwards
    <2>2. PICK d \in Line(u) : ~(size[d] <= size[u])
      OBVIOUS
    <2>3. u \in ready /\ Nestable(u) /\ size[u] \in Nat /\ size[d] \in Nat
      BY SizesTyped, LineReady
    <2>4. u # Object /\ d # u
      BY <2>2, <2>3, LineOfObject
    <2>5. PICK i \in DOMAIN bases[u] : d \in Line(bases[u][i])
      BY <2>3, <2>4, OnLine
    <2>6. Nestable(bases[u][i]) /\ bases[u][i] \in ready
      BY <2>3, <2>4, NestableAbove
    <2>7. size[d] <= size[bases[u][i]]
      BY <2>1, <2>4, <2>5, <2>6
    <2>8. size[u] >= size[bases[u][i]]
      <3>1. u \in Line(u)
        BY <2>3, LineReady
      <3>2. kind[u] # "exception" /\ (kind[u] \in {"static", "spec"} => bases[u] = <<base[u]>>)
        BY <2>3, <2>4, <3>1 DEF Nestable, Native
      <3> QED BY <2>3, <2>4, <3>2, Grows
    <2>9. size[bases[u][i]] \in Nat
      BY <2>6, SizesTyped
    <2> QED BY <2>2, <2>3, <2>7, <2>8, <2>9
  <1> QED BY <1>1

(* Where no C type is above, the dict is right behind the header.          *)
LEMMA PureLaid ==
  ASSUME TypeInv, LayoutInv, NEW t \in ready \ {Object}, Nestable(t), Native(t) = {}
  PROVE  size[t] = Header + Word /\ dictoffset[t] = Header
  <1> DEFINE Simple(u) == /\ size[u] \in {Header, Header + Word}
                          /\ dictoffset[u] \in {0, Header}
             Bad == {u \in ready \ {Object} : Nestable(u) /\ Native(u) = {} /\
                       ~(size[u] = Header + Word /\ dictoffset[u] = Header)}
  <1>1. Bad = {}
    <2> SUFFICES ASSUME Bad # {} PROVE FALSE
      OBVIOUS
    <2>1. PICK u \in Bad : u = Object \/ \A i \in DOMAIN bases[u] : bases[u][i] \in ready \ Bad
      <3>1. Bad \subseteq ready
        OBVIOUS
      <3> HIDE DEF Bad
      <3> QED BY <3>1, Upwards
    <2>2. /\ u \in ready \ {Object} /\ Nestable(u) /\ Native(u) = {}
          /\ ~(size[u] = Header + Word /\ dictoffset[u] = Header)
      OBVIOUS
    <2>3. ASSUME NEW i \in DOMAIN bases[u] PROVE Simple(bases[u][i])
      <3>a. Nestable(bases[u][i]) /\ Native(bases[u][i]) \subseteq Native(u)
        BY <2>2, NestableAbove, Zenon
      <3>b. bases[u][i] \in ready \ Bad
        BY <2>1, <2>2
      <3>1. Nestable(bases[u][i]) /\ Native(bases[u][i]) = {} /\ bases[u][i] \in ready \ Bad
        BY <2>2, <3>a, <3>b
      <3>2. CASE bases[u][i] = Object
        BY <3>2 DEF LayoutInv, ObjectLaid
      <3>3. CASE bases[u][i] # Object
        BY <3>1, <3>3
      <3> QED BY <3>2, <3>3
    <2>4. ClassLaid(u)
      <3>1. u \in Line(u)
        BY <2>2, LineReady
      <3>2. kind[u] # "exception" /\ kind[u] \notin {"static", "spec"}
        BY <2>2, <3>1 DEF Nestable, Native
      <3> QED BY <2>2, <3>2 DEF LayoutInv, Laid
    <2> HIDE DEF Bad
    <2>5. ~(/\ dictoffset[u] > Header + Word
            /\ \E i \in DOMAIN bases[u] : dictoffset[u] = size[bases[u][i]])
      BY <2>3 DEF Header, Word
    <2>6. ~\E i \in DOMAIN bases[u] :
             dictoffset[u] = dictoffset[bases[u][i]] /\ dictoffset[u] \notin {0, Header}
      BY <2>3
    <2> QED BY <2>2, <2>4, <2>5, <2>6 DEF ClassLaid
  <1> QED BY <1>1

LEMMA StaticNests ==
  ASSUME TypeInv, LayoutInv, NEW t \in ready, kind[t] = "static", NEW c \in Line(t)
  PROVE  /\ size[c] <= size[t]
         /\ dictoffset[t] = 0 \/ dictoffset[t] >= size[c] \/ dictoffset[t] = dictoffset[c]
  <1> DEFINE Fine(u, d) ==
               /\ size[d] <= size[u]
               /\ dictoffset[u] = 0 \/ dictoffset[u] >= size[d] \/ dictoffset[u] = dictoffset[d]
             Bad == {u \in ready : kind[u] = "static" /\ \E d \in Line(u) : ~Fine(u, d)}
  <1>1. Bad = {}
    <2> SUFFICES ASSUME Bad # {} PROVE FALSE
      OBVIOUS
    <2>1. PICK u \in Bad : u = Object \/ \A i \in DOMAIN bases[u] : bases[u][i] \in ready \ Bad
      <3>1. Bad \subseteq ready
        OBVIOUS
      <3> HIDE DEF Bad
      <3> QED BY <3>1, Upwards
    <2>2. PICK d \in Line(u) : ~Fine(u, d)
      OBVIOUS
    <2>3. u \in ready /\ kind[u] = "static"
      OBVIOUS
    <2>4. d \in ready /\ size[u] \in Nat /\ size[d] \in Nat /\ dictoffset[u] \in Nat
      BY <2>3, SizesTyped, LineReady
    <2>5. d # u
      BY <2>2, <2>4
    <2>6. u # Object
      BY <2>2, <2>5, LineOfObject
    <2>7. PICK b : b = base[u]
      OBVIOUS
    <2>8. /\ b \in ready /\ kind[b] = "static" /\ bases[u] = <<b>> /\ size[u] >= size[b]
          /\ dictoffset[u] # 0 => dictoffset[u] >= size[b] \/ dictoffset[u] = dictoffset[b]
      BY <2>3, <2>6, <2>7, StaticLaid
    <2>9. d \in Line(b)
      <3>1. \A i \in DOMAIN bases[u] : bases[u][i] = b
        BY <2>8
      <3> QED BY <2>3, <2>5, <2>6, <3>1, OnLine
    <2>10. b \notin Bad
      <3>1. 1 \in DOMAIN bases[u] /\ bases[u][1] = b
        BY <2>8
      <3> HIDE DEF Bad
      <3> QED BY <2>1, <2>6, <3>1
    <2>11. Fine(b, d)
      BY <2>8, <2>9, <2>10
    <2>12. size[b] \in Nat
      BY <2>8, SizesTyped
    <2> HIDE DEF Bad
    <2> QED BY <2>2, <2>4, <2>8, <2>11, <2>12
  <1> QED BY <1>1

Nested(t) ==
    /\ dictoffset[t] >= Header /\ dictoffset[t] + Word <= size[t]
    /\ \A c \in Native(t) : dictoffset[t] >= size[c] \/ dictoffset[t] = dictoffset[c]

LEMMA Nests ==
  ASSUME TypeInv, LayoutInv, NEW t \in ready, kind[t] = "class", Nestable(t)
  PROVE  Nested(t)
  <1> DEFINE Bad == {u \in ready : kind[u] = "class" /\ Nestable(u) /\ ~Nested(u)}
  <1>1. Bad = {}
    <2> SUFFICES ASSUME Bad # {} PROVE FALSE
      OBVIOUS
    <2>1. PICK u \in Bad : u = Object \/ \A i \in DOMAIN bases[u] : bases[u][i] \in ready \ Bad
      <3>1. Bad \subseteq ready
        OBVIOUS
      <3> HIDE DEF Bad
      <3> QED BY <3>1, Upwards
    <2>2. u \in ready /\ kind[u] = "class" /\ Nestable(u) /\ ~Nested(u)
      OBVIOUS
    <2>3. u # Object /\ ClassLaid(u)
      <3>1. kind[Object] = "static"
        BY DEF TypeInv, ReadyAbove
      <3>2. u # Object
        BY <2>2, <3>1
      <3> QED BY <2>2, <3>2 DEF LayoutInv, Laid
    <2>4. \A i \in DOMAIN bases[u] : bases[u][i] \in ready \ Bad
      BY <2>1, <2>3
    <2>5. \A b \in ready \ Bad : kind[b] = "class" /\ Nestable(b) => Nested(b)
      OBVIOUS
    <2> HIDE DEF Bad
    <2>6. size[u] \in Nat /\ dictoffset[u] \in Nat
      BY <2>2, SizesTyped
    <2>7. \A c \in Native(u) : /\ size[c] <= size[u] /\ size[c] # Header + Word
                              /\ size[c] \in Nat /\ dictoffset[c] \in Nat
      <3>1. Native(u) \subseteq Line(u) /\ Line(u) \subseteq ready
        BY <2>2, LineReady DEF Native
      <3>2. \A c \in Native(u) : size[c] # Header + Word
        BY <2>2 DEF Nestable
      <3> QED BY <2>2, <3>1, <3>2, Largest, SizesTyped
    <2>8. ASSUME NEW c \in Native(u)
          PROVE  \E i \in DOMAIN bases[u] : c \in Native(bases[u][i])
      <3>1. c \in Line(u) /\ c # u /\ c # Object /\ kind[c] \in {"static", "spec"}
        BY <2>2 DEF Native
      <3> QED BY <2>2, <2>3, <3>1, OnLine DEF Native
    <2>9. CASE dictoffset[u] = Header /\ size[u] = Header + Word
      BY <2>2, <2>7, <2>9 DEF Nested, Header, Word
    <2>10. CASE /\ dictoffset[u] > Header + Word /\ size[u] = dictoffset[u] + Word
                /\ \A i \in DOMAIN bases[u] : dictoffset[u] >= size[bases[u][i]]
      <3>1. ASSUME NEW c \in Native(u) PROVE dictoffset[u] >= size[c]
        <4>1. PICK i \in DOMAIN bases[u] : c \in Native(bases[u][i])
          BY <2>8, <3>1
        <4>2. Nestable(bases[u][i]) /\ bases[u][i] \in ready
          BY <2>2, <2>3, NestableAbove
        <4>3. size[c] <= size[bases[u][i]] /\ size[bases[u][i]] \in Nat
          BY <4>1, <4>2, Largest, SizesTyped DEF Native
        <4>4. dictoffset[u] >= size[bases[u][i]] /\ size[c] \in Nat
          BY <2>7, <2>10, <3>1
        <4> QED BY <2>6, <4>3, <4>4
      <3> QED BY <2>2, <2>6, <2>10, <3>1 DEF Nested, Header, Word
    <2>11. ASSUME NEW i \in DOMAIN bases[u],
                  dictoffset[u] = dictoffset[bases[u][i]], dictoffset[u] \notin {0, Header}
           PROVE  FALSE
      <3>1. PICK b : b = bases[u][i]
        OBVIOUS
      <3>2. Nestable(b) /\ b \in ready \ Bad /\ size[b] <= size[u]
        BY <2>2, <2>3, <2>4, <3>1, NestableAbove DEF ClassLaid
      <3>3. b # Object
        BY <2>11, <3>1 DEF LayoutInv, ObjectLaid
      <3>4. Native(b) # {}
        BY <2>11, <3>1, <3>2, <3>3, PureLaid
      <3>5. ASSUME NEW c \in Native(u) PROVE c \in Native(b)
        <4>1. PICK j \in DOMAIN bases[u] : c \in Native(bases[u][j])
          BY <2>8, <3>5
        <4>2. u \in Line(u)
          BY <2>2, LineReady
        <4>3. j = i
          BY <2>2, <3>1, <3>4, <4>1, <4>2 DEF Nestable
        <4> QED BY <3>1, <4>1, <4>3
      <3>6. kind[b] # "exception" /\ b \in Line(b)
        BY <3>2, LineReady DEF Nestable
      <3>7. size[b] \in Nat
        BY <3>2, SizesTyped
      <3>8. CASE kind[b] = "class"
        <4>1. Nested(b)
          BY <2>5, <3>2, <3>8
        <4>2. dictoffset[u] >= Header /\ dictoffset[u] + Word <= size[u]
          BY <2>6, <2>11, <3>1, <3>2, <3>7, <4>1 DEF Nested, Header, Word
        <4>3. \A c \in Native(u) : dictoffset[u] >= size[c] \/ dictoffset[u] = dictoffset[c]
          BY <2>11, <3>1, <3>5, <4>1 DEF Nested
        <4> QED BY <2>2, <4>2, <4>3 DEF Nested
      <3>9. CASE kind[b] = "spec"
        BY <2>11, <3>1, <3>2, <3>3, <3>9 DEF LayoutInv, Laid
      <3>10. CASE kind[b] = "static"
        <4>1. dictoffset[b] >= Header /\ dictoffset[b] + Word <= size[b]
          BY <2>11, <3>1, <3>2, <3>3, <3>10, StaticLaid
        <4>2. dictoffset[u] >= Header /\ dictoffset[u] + Word <= size[u]
          BY <2>6, <2>11, <3>1, <3>2, <3>7, <4>1 DEF Header, Word
        <4>3. \A c \in Native(u) : dictoffset[u] >= size[c] \/ dictoffset[u] = dictoffset[c]
          BY <2>11, <3>1, <3>2, <3>5, <3>10, StaticNests DEF Native
        <4> QED BY <2>2, <4>2, <4>3 DEF Nested
      <3> QED BY <3>2, <3>3, <3>6, <3>8, <3>9, <3>10 DEF LayoutInv, Laid
    <2> QED BY <2>3, <2>9, <2>10, <2>11 DEF ClassLaid
  <1> QED BY <1>1

(* At most one of a finite number.                                         *)
LEMMA AtMostOne ==
  ASSUME NEW n \in Nat, NEW S, S \subseteq 1 .. n, Cardinality(S) <= 1, NEW i \in S, NEW j \in S
  PROVE  i = j
  <1> SUFFICES ASSUME i # j PROVE FALSE
    OBVIOUS
  <1>1. IsFiniteSet(S)
    <2>1. IsFiniteSet(1 .. n)
      BY FS_Interval
    <2> QED BY <2>1, FS_Subset
  <1>2. {i, j} \subseteq S /\ IsFiniteSet({i, j}) /\ Cardinality({i, j}) = 2
    <2>1. IsFiniteSet({i}) /\ Cardinality({i}) = 1
      BY FS_Singleton
    <2>2. {i, j} = {i} \cup {j} /\ j \notin {i}
      OBVIOUS
    <2>3. IsFiniteSet({i} \cup {j}) /\ Cardinality({i} \cup {j}) = Cardinality({i}) + 1
      BY <2>1, <2>2, FS_AddElement
    <2> QED BY <2>1, <2>2, <2>3
  <1>3. Cardinality({i, j}) <= Cardinality(S) /\ Cardinality(S) \in Nat
    BY <1>1, <1>2, FS_Subset, FS_CardinalityType
  <1> QED BY <1>2, <1>3

LEMMA LayoutsHold ==
  ASSUME TypeInv, LayoutInv
  PROVE  LayoutsNest
  <1> SUFFICES ASSUME NEW t \in ready, kind[t] = "class",
                      \A u \in Line(t) : kind[u] # "exception",
                      \A u \in Line(t) :
                         Cardinality({i \in DOMAIN bases[u] : Native(bases[u][i]) # {}}) <= 1,
                      \A c \in Native(t) : Single(c) /\ size[c] # Header + Word
               PROVE  Nested(t)
    BY DEF LayoutsNest, Native, Nested
  <1>1. Line(t) \subseteq ready /\ ready \subseteq Types /\ bases \in [Types -> Seq(Types)]
    BY LineReady DEF TypeInv, TypesTypeOK
  <1>2. ASSUME NEW u \in Line(t), NEW i \in DOMAIN bases[u], NEW j \in DOMAIN bases[u],
               Native(bases[u][i]) # {}, Native(bases[u][j]) # {}
        PROVE  i = j
    <2>1. PICK S : S = {k \in DOMAIN bases[u] : Native(bases[u][k]) # {}}
      OBVIOUS
    <2>2. Cardinality(S) <= 1
      BY <2>1
    <2>3. bases[u] \in Seq(Types)
      BY <1>1
    <2>4. Len(bases[u]) \in Nat /\ S \subseteq 1 .. Len(bases[u])
      BY <2>1, <2>3
    <2>5. i \in S /\ j \in S
      BY <1>2, <2>1
    <2> QED BY <2>2, <2>4, <2>5, AtMostOne
  <1>3. ASSUME NEW c \in Native(t) PROVE bases[c] = <<base[c]>> /\ size[c] # Header + Word
    <2>1. c \in Line(c) /\ c # Object
      BY DEF Line, Native
    <2>2. Single(c)
      OBVIOUS
    <2> QED BY <2>1, <2>2 DEF Single
  <1>4. Nestable(t)
    BY <1>2, <1>3 DEF Nestable
  <1> QED BY <1>4, Nests

-----------------------------------------------------------------------------
(* Look-ups.  What attributes a type has: those of an assignment or of its *)
(* own, or of a class what its bases had when it was made, and have still  *)
(* unless one above it was assigned to since.                              *)
Merging(u, n) == FirstOf([i \in DOMAIN bases[u] |-> attrs[bases[u][i]][n]])

Upset(S) == \A v \in S : \A i \in DOMAIN bases[v] : bases[v][i] \in S

Touched(u, n) ==
    \A S \in SUBSET Types : u \in S /\ Upset(S) => \E a \in S : <<a, n>> \in stale

Named(u, n) ==
    \/ /\ attrs[u][n] = own[u].attrs[n]
       /\ kind[u] = "class" /\ own[u].attrs[n] = Null => bases[u] = <<Object>>
    \/ /\ kind[u] = "class" /\ own[u].attrs[n] = Null
       /\ attrs[u][n] = Merging(u, n) \/ Touched(u, n)

LookupInv ==
    /\ \A u \in ready, n \in TypeAttrs : Named(u, n)
    /\ \A u \in ready \ {Object} : base[u] = bases[u][1]
    /\ \A u \in Types \ ready : kind[u] = "exception" => attrs[u] = own[u].attrs

(* The types that were ready keep their names.                             *)
LEMMA TouchedStays ==
  ASSUME TypeInv, NEW u \in ready, NEW n,
         \A v \in ready : bases'[v] = bases[v], stale \subseteq stale', Touched(u, n)
  PROVE  Touched(u, n)'
  <1> SUFFICES ASSUME NEW S \in SUBSET Types, u \in S, Upset(S)'
               PROVE  \E a \in S : <<a, n>> \in stale'
    BY DEF Touched
  <1> DEFINE T == S \cap ready
  <1>1. ASSUME NEW v \in T, NEW i \in DOMAIN bases[v] PROVE bases[v][i] \in T
    <2>1. bases[v][i] \in ready /\ v \in Types
      BY DEF TypeInv, TypesTypeOK, ReadyAbove
    <2>2. bases'[v] = bases[v] /\ v \in S
      OBVIOUS
    <2>3. bases[v][i] \in S
      BY <2>2 DEF Upset
    <2> QED BY <2>1, <2>3
  <1>2. T \in SUBSET Types /\ u \in T /\ Upset(T)
    BY <1>1 DEF Upset
  <1> QED BY <1>2 DEF Touched

LEMMA MergingStays ==
  ASSUME TypeInv, NEW u \in ready, NEW n, bases'[u] = bases[u],
         \A i \in DOMAIN bases[u] : attrs'[bases[u][i]][n] = attrs[bases[u][i]][n]
  PROVE  Merging(u, n)' = Merging(u, n)
  <1>1. [i \in DOMAIN bases'[u] |-> attrs'[bases'[u][i]][n]] = [i \in DOMAIN bases[u] |-> attrs[bases[u][i]][n]]
    OBVIOUS
  <1>2. Merging(u, n)' = FirstOf([i \in DOMAIN bases'[u] |-> attrs'[bases'[u][i]][n]])
    BY DEF Merging, FirstOf
  <1> QED BY <1>1, <1>2 DEF Merging

LEMMA NamedStays ==
  ASSUME TypeInv, NEW u \in ready, NEW n, Named(u, n), \A v \in ready : bases'[v] = bases[v],
         kind'[u] = kind[u], stale \subseteq stale', attrs'[u][n] = attrs[u][n],
         own'[u].attrs[n] = own[u].attrs[n],
         \A i \in DOMAIN bases[u] : attrs'[bases[u][i]][n] = attrs[bases[u][i]][n]
  PROVE  Named(u, n)'
  <1>1. Merging(u, n)' = Merging(u, n)
    BY MergingStays
  <1>2. Touched(u, n) => Touched(u, n)'
    BY TouchedStays
  <1>3. bases'[u] = bases[u]
    OBVIOUS
  <1> QED BY <1>1, <1>2, <1>3 DEF Named

LEMMA NamesStay ==
  ASSUME TypeInv, LookupInv, ready \subseteq ready', ready' \subseteq Types,
         \A u \in ready : /\ base'[u] = base[u] /\ bases'[u] = bases[u] /\ kind'[u] = kind[u]
                          /\ attrs'[u] = attrs[u] /\ own'[u] = own[u],
         stale' = stale,
         \A u \in Types \ ready' : kind'[u] = kind[u] /\ attrs'[u] = attrs[u] /\ own'[u] = own[u],
         \A u \in ready' \ ready : /\ base'[u] = bases'[u][1]
                                   /\ \A n \in TypeAttrs : Named(u, n)'
  PROVE  LookupInv'
  <1>1. ASSUME NEW u \in ready, NEW n \in TypeAttrs PROVE Named(u, n)'
    <2>1. \A i \in DOMAIN bases[u] : bases[u][i] \in ready
      BY DEF TypeInv, TypesTypeOK, ReadyAbove
    <2>2. \A i \in DOMAIN bases[u] : attrs'[bases[u][i]][n] = attrs[bases[u][i]][n]
      BY <2>1
    <2>3. /\ Named(u, n) /\ kind'[u] = kind[u] /\ attrs'[u][n] = attrs[u][n]
          /\ own'[u].attrs[n] = own[u].attrs[n] /\ \A v \in ready : bases'[v] = bases[v]
          /\ stale \subseteq stale'
      BY DEF LookupInv
    <2> QED BY <2>2, <2>3, NamedStays
  <1>2. \A u \in ready', n \in TypeAttrs : Named(u, n)'
    BY <1>1
  <1>3. \A u \in ready' \ {Object} : base'[u] = bases'[u][1]
    BY DEF LookupInv
  <1>4. \A u \in Types \ ready' : kind'[u] = "exception" => attrs'[u] = own'[u].attrs
    BY DEF LookupInv
  <1> QED BY <1>2, <1>3, <1>4 DEF LookupInv

(* What PyType_Ready and what goes with it do to names.                    *)
BasesMade(t, f, k) ==
    /\ ready \subseteq ready' /\ ready' \subseteq Types /\ t \in ready' \ ready
    /\ \A u \in ready : base'[u] = base[u] /\ bases'[u] = bases[u] /\ kind'[u] = kind[u]
    /\ \A u \in ready' \ ready : base'[u] = bases'[u][1] /\ (u # t => kind'[u] = "static")
    /\ kind'[t] = k /\ kind' = kind
    /\ bases'[t] = IF f.bases = <<>> THEN <<BaseOf(f)>> ELSE f.bases
    /\ BaseOf(f) \in ready => ready' = ready \cup {t}

LEMMA ReadyBases ==
  ASSUME TypeInv, NEW t, NEW f, NEW k, Readies(t, f, k), Headed(f)
  PROVE  BasesMade(t, f, k)
  <1>1. MadeReady(t, f) /\ t \in Types \ ready /\ kind' = kind /\ kind[t] = k
    BY ReadyStep DEF Readies, MayReady
  <1>2. Given(t, f)[t] = f /\ \A u \in Types \ {t} : Given(t, f)[u] = Fields(u)
    BY <1>1 DEF Given
  <1>a. /\ t \in ready' \ ready
        /\ \A u \in ready' \ ready : /\ base'[u] = BaseOf(Given(t, f)[u])
                                      /\ bases'[u] = IF Given(t, f)[u].bases = <<>> THEN <<base'[u]>>
                                                     ELSE Given(t, f)[u].bases
    BY <1>1, Zenon DEF MadeReady
  <1>3. base'[t] = BaseOf(f) /\ bases'[t] = IF f.bases = <<>> THEN <<BaseOf(f)>> ELSE f.bases
    BY <1>2, <1>a
  <1>4. base'[t] = bases'[t][1]
    <2>1. CASE f.bases = <<>>
      BY <1>3, <2>1
    <2>2. CASE f.bases # <<>>
      BY <1>3, <2>2 DEF Headed, BaseOf
    <2> QED BY <2>1, <2>2
  <1>5. ASSUME NEW u \in ready' \ ready, u # t PROVE base'[u] = bases'[u][1]
    <2>1. u \in Types \ ready
      BY <1>1 DEF MadeReady
    <2>2. bases[u] = <<>> /\ Given(t, f)[u] = Fields(u)
      BY <1>2, <1>5, <2>1 DEF TypeInv, Prepared
    <2>3. Given(t, f)[u].bases = <<>>
      BY <2>2 DEF Fields
    <2>4. bases'[u] = <<base'[u]>>
      BY <1>5, <1>a, <2>3
    <2> QED BY <2>4
  <1>6. \A u \in ready : base'[u] = base[u] /\ bases'[u] = bases[u]
    BY <1>1 DEF MadeReady, TypeInv, TypesTypeOK
  <1>7. /\ ready \subseteq ready' /\ ready' \subseteq Types /\ t \in ready' \ ready
        /\ \A u \in ready' \ ready : u # t => kind[u] = "static"
        /\ BaseOf(f) \in ready => ready' = ready \cup {t}
    BY <1>1 DEF MadeReady
  <1> QED BY <1>1, <1>3, <1>4, <1>5, <1>6, <1>7 DEF BasesMade

LEMMA MadeLookup ==
  ASSUME TypeInv, LookupInv, NEW t, NEW f, NEW k \in {"static", "spec"}, Readies(t, f, k),
         Headed(f), \A u \in Types \ {t} : own'[u] = own[u], stale' = stale,
         attrs' = [u \in Types |-> IF u \in ready' \ ready THEN own'[u].attrs ELSE attrs[u]]
  PROVE  LookupInv'
  <1>0. BasesMade(t, f, k)
    BY ReadyBases
  <1>1. /\ ready \subseteq ready' /\ ready' \subseteq Types /\ t \in ready' \ ready
        /\ \A u \in ready : base'[u] = base[u] /\ bases'[u] = bases[u] /\ kind'[u] = kind[u]
        /\ \A u \in ready' \ ready : base'[u] = bases'[u][1] /\ (u # t => kind'[u] = "static")
        /\ kind'[t] = k /\ kind' = kind
    BY <1>0 DEF BasesMade
  <1>2. ready \subseteq Types
    BY DEF TypeInv, TypesTypeOK
  <1>3. ASSUME NEW u \in ready' \ ready, NEW n \in TypeAttrs PROVE Named(u, n)'
    <2>1. kind'[u] # "class" /\ attrs'[u] = own'[u].attrs
      BY <1>1
    <2> QED BY <2>1 DEF Named
  <1>4. \A u \in ready : attrs'[u] = attrs[u] /\ own'[u] = own[u]
    BY <1>1, <1>2
  <1>5. \A u \in Types \ ready' : kind'[u] = kind[u] /\ attrs'[u] = attrs[u] /\ own'[u] = own[u]
    BY <1>1, <1>2
  <1> QED BY <1>1, <1>3, <1>4, <1>5, NamesStay

LEMMA StaticLookup ==
  ASSUME TypeInv, LookupInv, NEW t \in Types, ReadyStatic(t)
  PROVE  LookupInv'
  <1>1. Readies(t, Fields(t), "static")
    BY ReadyStaticReadies
  <1>2. Fields(t).bases = <<>>
    BY DEF ReadyStatic, Fields, TypeInv, Prepared
  <1>3. /\ own' = own /\ stale' = stale
        /\ attrs' = [u \in Types |-> IF u \in ready' \ ready THEN own[u].attrs ELSE attrs[u]]
    BY DEF ReadyStatic
  <1>4. attrs' = [u \in Types |-> IF u \in ready' \ ready THEN own'[u].attrs ELSE attrs[u]]
    BY <1>3
  <1> QED BY <1>1, <1>2, <1>3, <1>4, MadeLookup DEF Headed

LEMMA SpecLookup ==
  ASSUME TypeInv, LookupInv, NEW b \in Types \cup {Null}, NEW bs, NEW s \in Specs, FromSpec(b, bs, s),
         b # Null => kind[b] = "static", b = Null \/ bs = <<>>, bs \in Seq(ready)
  PROVE  LookupInv'
  <1>1. PICK t, f : /\ Readies(t, f, "spec") /\ Headed(f) /\ \A u \in Types \ {t} : own'[u] = own[u]
    BY FromSpecReadies
  <1>2. /\ stale' = stale
        /\ attrs' = [u \in Types |-> IF u \in ready' \ ready THEN own'[u].attrs ELSE attrs[u]]
    BY Zenon DEF FromSpec
  <1> QED BY <1>1, <1>2, MadeLookup

LEMMA ClassLookup ==
  ASSUME TypeInv, LookupInv, NEW bs \in BaseLists, NEW N \in SUBSET TypeAttrs, BuildClass(bs, N)
  PROVE  LookupInv'
  <1>0. ready \subseteq Types /\ Object \in ready
    BY DEF TypeInv, TypesTypeOK, ReadyAbove
  <1>1. PICK t, f : /\ Readies(t, f, "class") /\ f.bases = bs
                    /\ f.base = IF bs = <<>> THEN Object ELSE Head(bs)
                    /\ own'[t].attrs = Binds(t, N) /\ attrs'[t] = Merged(t, bs, N)
                    /\ \A u \in Types \ {t} : own'[u] = own[u] /\ attrs'[u] = attrs[u]
                    /\ stale' = stale
    BY BuildClassReadies
  <1>2. /\ bs \in Seq(Types) /\ DOMAIN bs = 1 .. Len(bs)
        /\ bs # <<>> => Head(bs) \in ready
        /\ \A i \in 1 .. Len(bs) : bs[i] \in ready
    BY <1>0, BaseListsTyped
  <1>3. bs # <<>> => Head(bs) = bs[1]
    BY <1>2
  <1>4. f.base \in ready /\ f.base # Null
    BY <1>0, <1>1, <1>2, TypeAssumption
  <1>5. Headed(f) /\ BaseOf(f) = f.base
    BY <1>1, <1>3, <1>4 DEF Headed, BaseOf
  <1>a. BasesMade(t, f, "class")
    BY <1>1, <1>5, ReadyBases
  <1>6. /\ ready \subseteq ready' /\ ready' \subseteq Types /\ t \in ready' \ ready
        /\ \A u \in ready : base'[u] = base[u] /\ bases'[u] = bases[u] /\ kind'[u] = kind[u]
        /\ \A u \in ready' \ ready : base'[u] = bases'[u][1]
        /\ kind'[t] = "class" /\ kind' = kind
        /\ bases'[t] = IF bs = <<>> THEN <<BaseOf(f)>> ELSE bs
        /\ BaseOf(f) \in ready => ready' = ready \cup {t}
    <2>1. f.bases = bs
      BY <1>1
    <2> QED BY <1>a, <2>1 DEF BasesMade
  <1>7. ready' \ ready = {t} /\ t \notin ready /\ t \in Types
    BY <1>4, <1>5, <1>6
  <1>8. ASSUME NEW n \in TypeAttrs PROVE Named(t, n)'
    <2>1. /\ own'[t].attrs[n] = IF n \in N THEN t ELSE Null
          /\ attrs'[t][n] = IF n \in N THEN t ELSE FirstOf([i \in DOMAIN bs |-> attrs[bs[i]][n]])
      BY <1>1 DEF Binds, Merged
    <2>2. CASE n \in N
      <3>1. t # Null
        BY <1>7, TypeAssumption
      <3> QED BY <2>1, <2>2, <3>1 DEF Named
    <2>3. CASE n \notin N /\ bs = <<>>
      <3>1. FirstOf([i \in DOMAIN bs |-> attrs[bs[i]][n]]) = Null
        <4>1. DOMAIN bs = {}
          BY <1>2, <2>3
        <4> QED BY <4>1 DEF FirstOf
      <3>2. bases'[t] = <<Object>>
        BY <1>1, <1>5, <1>6, <2>3
      <3> QED BY <2>1, <2>3, <3>1, <3>2 DEF Named
    <2>4. CASE n \notin N /\ bs # <<>>
      <3>1. bases'[t] = bs
        BY <1>6, <2>4
      <3>2. \A i \in DOMAIN bs : attrs'[bs[i]][n] = attrs[bs[i]][n]
        BY <1>0, <1>1, <1>2, <1>7
      <3>3. [i \in DOMAIN bases'[t] |-> attrs'[bases'[t][i]][n]] = [i \in DOMAIN bs |-> attrs[bs[i]][n]]
        BY <3>1, <3>2
      <3>4. Merging(t, n)' = FirstOf([i \in DOMAIN bases'[t] |-> attrs'[bases'[t][i]][n]])
        BY DEF Merging, FirstOf
      <3>5. attrs'[t][n] = Merging(t, n)' /\ own'[t].attrs[n] = Null
        BY <2>1, <2>4, <3>3, <3>4
      <3> QED BY <1>6, <3>5 DEF Named
    <2> QED BY <2>2, <2>3, <2>4
  <1>9. \A u \in ready : attrs'[u] = attrs[u] /\ own'[u] = own[u]
    BY <1>0, <1>1, <1>7
  <1>10. \A u \in Types \ ready' : kind'[u] = kind[u] /\ attrs'[u] = attrs[u] /\ own'[u] = own[u]
    BY <1>1, <1>6
  <1>11. \A u \in ready' \ ready : /\ base'[u] = bases'[u][1]
                                   /\ \A n \in TypeAttrs : Named(u, n)'
    BY <1>6, <1>7, <1>8
  <1> QED BY <1>1, <1>6, <1>9, <1>10, <1>11, NamesStay

LEMMA ExceptionLookup ==
  ASSUME TypeInv, LookupInv, NEW b \in ready, NewException(b)
  PROVE  LookupInv'
  <1>0. PICK t : t = FreshType("exception")
    OBVIOUS
  <1>1. /\ Unmade("exception") # {}
        /\ ready' = ready \cup {t}
        /\ base' = [base EXCEPT ![t] = b]
        /\ bases' = [bases EXCEPT ![t] = <<b>>]
        /\ UNCHANGED <<kind, attrs, own, stale>>
    BY <1>0, Zenon DEF NewException
  <1>2. t \in Types \ ready /\ kind[t] = "exception"
    BY <1>0, <1>1, Made
  <1>3. /\ base \in [Types -> Types \cup {Null}] /\ bases \in [Types -> Seq(Types)] /\ ready \subseteq Types
    BY DEF TypeInv, TypesTypeOK
  <1>4. /\ bases'[t] = <<b>> /\ base'[t] = b
        /\ \A u \in Types \ {t} : base'[u] = base[u] /\ bases'[u] = bases[u]
    BY <1>1, <1>2, <1>3
  <1>5. ASSUME NEW n \in TypeAttrs PROVE Named(t, n)'
    <2>1. attrs'[t] = own'[t].attrs /\ kind'[t] # "class"
      BY <1>1, <1>2 DEF LookupInv
    <2> QED BY <2>1 DEF Named
  <1>6. \A u \in ready' \ ready : base'[u] = bases'[u][1] /\ \A n \in TypeAttrs : Named(u, n)'
    <2>1. bases'[t][1] = b
      BY <1>4
    <2> QED BY <1>1, <1>4, <1>5, <2>1
  <1>7. \A u \in ready : /\ base'[u] = base[u] /\ bases'[u] = bases[u] /\ kind'[u] = kind[u]
                         /\ attrs'[u] = attrs[u] /\ own'[u] = own[u]
    BY <1>1, <1>2, <1>3, <1>4
  <1>8. /\ ready \subseteq ready' /\ ready' \subseteq Types /\ stale' = stale
        /\ \A u \in Types \ ready' : kind'[u] = kind[u] /\ attrs'[u] = attrs[u] /\ own'[u] = own[u]
    BY <1>1, <1>2, <1>3
  <1> QED BY <1>6, <1>7, <1>8, NamesStay

(* An assignment marks what it does not change.                            *)
LEMMA LineLeast ==
  ASSUME TypeInv, LayoutInv, NEW t \in ready, NEW S, t \in S, Upset(S)
  PROVE  Line(t) \subseteq S
  <1> DEFINE Bad == {u \in ready : u \in S /\ ~(Line(u) \subseteq S)}
  <1>1. Bad = {}
    <2> SUFFICES ASSUME Bad # {} PROVE FALSE
      OBVIOUS
    <2>1. PICK u \in Bad : u = Object \/ \A i \in DOMAIN bases[u] : bases[u][i] \in ready \ Bad
      <3>1. Bad \subseteq ready
        OBVIOUS
      <3> HIDE DEF Bad
      <3> QED BY <3>1, Upwards
    <2>2. CASE u = Object
      BY <2>2, LineOfObject
    <2>3. CASE u # Object
      <3>1. \A i \in DOMAIN bases[u] : bases[u][i] \in S
        BY DEF Upset
      <3>2. \A i \in DOMAIN bases[u] : Line(bases[u][i]) \subseteq S
        BY <2>1, <2>3, <3>1
      <3>3. u \in ready \ {Object} /\ u \in S
        BY <2>3
      <3>4. \A c \in Line(u) : c = u \/ \E i \in DOMAIN bases[u] : c \in Line(bases[u][i])
        BY <3>3, OnLine
      <3>5. Line(u) \subseteq S
        BY <3>2, <3>3, <3>4
      <3> QED BY <3>5
    <2> QED BY <2>2, <2>3
  <1> QED BY <1>1

LEMMA BasesAbove ==
  ASSUME TypeInv, LayoutInv, NEW t \in ready, NEW i \in DOMAIN bases[t]
  PROVE  bases[t][i] \in Above(t)
  <1>1. t # Object
    BY DEF LayoutInv, ObjectLaid
  <1>2. PICK h : Measured(h)
    BY MeasureExists
  <1>3. Walked(t) = bases[t] /\ bases[t][i] \in ready /\ Line(bases[t][i]) \subseteq Line(t)
    BY <1>1, OnLine
  <1>4. t \in Types /\ h[bases[t][i]] < h[t] /\ h[t] \in Nat
    BY <1>2, <1>3 DEF Measured, TypeInv, TypesTypeOK
  <1>5. bases[t][i] # t
    BY <1>4
  <1>6. bases[t][i] \in Line(t)
    BY <1>3 DEF Line
  <1> QED BY <1>5, <1>6 DEF Line

LEMMA StoreLookup ==
  ASSUME TypeInv, LayoutInv, LookupInv, NEW t \in Types, NEW n \in TypeAttrs, StoreAttr(t, n)
  PROVE  LookupInv'
  <1>1. /\ t \in ready /\ attrs' = [attrs EXCEPT ![t][n] = Data]
        /\ own' = [own EXCEPT ![t].attrs[n] = Data]
        /\ stale' = IF \E u \in ready : kind[u] = "class" /\ t \in Above(u)
                    THEN stale \cup {<<t, n>>} ELSE stale
        /\ UNCHANGED <<kind, ready, base, bases>>
    BY Zenon DEF StoreAttr
  <1>2. /\ ready \subseteq Types /\ attrs \in [Types -> Dicts]
        /\ own \in [Types -> [slots : Functions, attrs : Dicts]]
    BY DEF TypeInv, TypesTypeOK
  <1>3. stale \subseteq stale'
    BY <1>1
  <1>4. /\ \A u \in Types, m \in TypeAttrs : ~(u = t /\ m = n) =>
              attrs'[u][m] = attrs[u][m] /\ own'[u].attrs[m] = own[u].attrs[m]
        /\ attrs'[t][n] = Data /\ own'[t].attrs[n] = Data
        /\ \A u \in Types \ {t} : attrs'[u] = attrs[u] /\ own'[u] = own[u]
    BY <1>1, <1>2 DEF Dicts
  <1>5. ASSUME NEW u \in ready, NEW m \in TypeAttrs PROVE Named(u, m)'
    <2>0. Named(u, m) /\ \A i \in DOMAIN bases[u] : bases[u][i] \in Types
      BY <1>2 DEF LookupInv, TypeInv, TypesTypeOK, ReadyAbove
    <2>1. CASE u = t /\ m = n
      BY <1>4, <2>1, TypeAssumption DEF Named
    <2>2. CASE ~(u = t /\ m = n)
      <3>1. CASE m = n /\ t \in Above(u) /\ kind[u] = "class"
        <4>1. <<t, n>> \in stale'
          BY <1>1, <3>1
        <4>2. ASSUME NEW S \in SUBSET Types, u \in S, Upset(S)' PROVE t \in S
          <5>1. Upset(S)
            BY <1>1, <4>2 DEF Upset
          <5>2. Line(u) \subseteq S
            BY <4>2, <5>1, LineLeast
          <5> QED BY <3>1, <5>2 DEF Line
        <4>3. Touched(u, n)'
          BY <4>1, <4>2 DEF Touched
        <4> QED BY <1>1, <1>2, <1>4, <2>0, <2>2, <3>1, <4>3 DEF Named
      <3>2. CASE m # n \/ t \notin Above(u)
        <4>1. \A i \in DOMAIN bases[u] : attrs'[bases[u][i]][m] = attrs[bases[u][i]][m]
          BY <1>4, <2>0, <3>2, BasesAbove
        <4>2. /\ attrs'[u][m] = attrs[u][m] /\ own'[u].attrs[m] = own[u].attrs[m]
              /\ \A v \in ready : bases'[v] = bases[v]
          BY <1>1, <1>2, <1>4, <2>2
        <4> QED BY <1>1, <1>3, <2>0, <4>1, <4>2, NamedStays
      <3>3. CASE kind[u] # "class"
        <4>1. attrs'[u][m] = attrs[u][m] /\ own'[u].attrs[m] = own[u].attrs[m]
          BY <1>2, <1>4, <2>2
        <4> QED BY <1>1, <2>0, <3>3, <4>1 DEF Named
      <3> QED BY <3>1, <3>2, <3>3
    <2> QED BY <2>1, <2>2
  <1>6. \A u \in ready' \ {Object} : base'[u] = bases'[u][1]
    BY <1>1 DEF LookupInv
  <1>7. \A u \in Types \ ready' : kind'[u] = "exception" => attrs'[u] = own'[u].attrs
    BY <1>1, <1>2, <1>4 DEF LookupInv
  <1> QED BY <1>1, <1>5, <1>6, <1>7 DEF LookupInv

LEMMA LookupInit ==
  ASSUME TypeInit
  PROVE  LookupInv
  <1>1. PICK p \in Declarations :
           /\ kind = [t \in Types |-> p[t].kind]
           /\ ready = {Object}
           /\ attrs = [t \in Types |-> Binds(t, IF t = Object THEN p[t].attrs ELSE {})]
           /\ own = [t \in Types |-> [slots |-> Defines(t, p[t].slots),
                                      attrs |-> Binds(t, p[t].attrs)]]
    BY DEF TypeInit
  <1>2. p[Object].kind = "static" /\ \A t \in Types : p[t].kind # "static" => p[t].attrs = {}
    BY DeclarationsAssumption
  <1>3. Object \in Types
    BY TypeAssumption
  <1>4. \A n \in TypeAttrs : Named(Object, n)
    <2>1. attrs[Object] = own[Object].attrs /\ kind[Object] # "class"
      BY <1>1, <1>2, <1>3
    <2> QED BY <2>1 DEF Named
  <1>5. ASSUME NEW u \in Types \ ready, kind[u] = "exception" PROVE attrs[u] = own[u].attrs
    BY <1>1, <1>2, <1>5
  <1>6. ready \ {Object} = {} /\ \A u \in ready : u = Object
    BY <1>1
  <1> QED BY <1>4, <1>5, <1>6 DEF LookupInv

LEMMA LookupNext ==
  ASSUME TypeInv, LayoutInv, LookupInv, [TypeNext]_typeVars
  PROVE  LookupInv'
  <1>0. ready \subseteq Types
    BY DEF TypeInv, TypesTypeOK
  <1>1. ASSUME NEW t \in Types, ReadyStatic(t) PROVE LookupInv'
    BY <1>1, StaticLookup
  <1>2. ASSUME NEW bs \in BaseLists, NEW s \in Specs, FromSpec(Null, bs, s) PROVE LookupInv'
    <2>1. bs \in Seq(ready) /\ Null \in Types \cup {Null}
      BY <1>0, BaseListsTyped
    <2> QED BY <1>2, <2>1, SpecLookup
  <1>3. ASSUME NEW b \in Types, NEW s \in Specs, kind[b] = "static", FromSpec(b, <<>>, s)
        PROVE  LookupInv'
    <2>1. b \in Types \cup {Null} /\ <<>> \in Seq(ready)
      OBVIOUS
    <2> QED BY <1>3, <2>1, SpecLookup
  <1>4. ASSUME NEW b \in ready, NewException(b) PROVE LookupInv'
    BY <1>4, ExceptionLookup
  <1>5. ASSUME NEW bs \in BaseLists, NEW N \in SUBSET TypeAttrs, BuildClass(bs, N) PROVE LookupInv'
    BY <1>5, ClassLookup
  <1>6. ASSUME NEW t \in Types, NEW n \in TypeAttrs, StoreAttr(t, n) PROVE LookupInv'
    BY <1>6, StoreLookup
  <1>7. CASE UNCHANGED typeVars
    <2>1. UNCHANGED <<kind, ready, base, bases, attrs, own, stale>>
      BY <1>7 DEF typeVars
    <2>2. ready' \ ready = {} /\ ready \subseteq ready' /\ ready' \subseteq Types
      BY <1>0, <2>1
    <2> QED BY <2>1, <2>2, NamesStay
  <1> QED BY <1>1, <1>2, <1>3, <1>4, <1>5, <1>6, <1>7 DEF TypeNext

-----------------------------------------------------------------------------
(* What is closed upwards.                                                 *)
LEMMA LineUpset ==
  ASSUME TypeInv, LayoutInv, NEW t \in ready
  PROVE  Upset(Line(t))
  <1> DEFINE Bad == {u \in ready : ~Upset(Line(u))}
  <1>1. Bad = {}
    <2> SUFFICES ASSUME Bad # {} PROVE FALSE
      OBVIOUS
    <2>1. PICK u \in Bad : u = Object \/ \A i \in DOMAIN bases[u] : bases[u][i] \in ready \ Bad
      <3>1. Bad \subseteq ready
        OBVIOUS
      <3> HIDE DEF Bad
      <3> QED BY <3>1, Upwards
    <2>2. CASE u = Object
      <3>1. Line(u) = {Object} /\ bases[Object] = <<>>
        BY <2>2, LineOfObject DEF LayoutInv, ObjectLaid
      <3> QED BY <3>1 DEF Upset
    <2>3. CASE u # Object
      <3>1. u \in ready \ {Object} /\ ~Upset(Line(u))
        BY <2>3
      <3>2. /\ \A c : c \in Line(u) <=> c = u \/ \E i \in DOMAIN bases[u] : c \in Line(bases[u][i])
            /\ \A i \in DOMAIN bases[u] : bases[u][i] \in ready
        BY <3>1, OnLine
      <3>3. \A i \in DOMAIN bases[u] : Upset(Line(bases[u][i])) /\ bases[u][i] \in Line(bases[u][i])
        BY <2>1, <2>3, LineReady
      <3> HIDE DEF Bad
      <3>4. ASSUME NEW v \in Line(u), NEW j \in DOMAIN bases[v] PROVE bases[v][j] \in Line(u)
        <4>1. CASE v = u
          BY <3>2, <3>3, <4>1
        <4>2. CASE v # u
          <5>1. PICK i \in DOMAIN bases[u] : v \in Line(bases[u][i])
            BY <3>2, <4>2
          <5>2. bases[v][j] \in Line(bases[u][i])
            BY <3>3, <5>1 DEF Upset
          <5> QED BY <3>2, <5>2
        <4> QED BY <4>1, <4>2
      <3> QED BY <3>1, <3>4 DEF Upset
    <2> QED BY <2>2, <2>3
  <1> QED BY <1>1

LEMMA LineAbove ==
  ASSUME TypeInv, LayoutInv, NEW t \in ready, NEW u \in Line(t)
  PROVE  u \in ready /\ Line(u) \subseteq Line(t)
  <1>1. u \in ready
    BY LineReady
  <1>2. Upset(Line(t))
    BY LineUpset
  <1> QED BY <1>1, <1>2, LineLeast

LEMMA TouchedOnLine ==
  ASSUME TypeInv, LayoutInv, NEW t \in ready, NEW n, Touched(t, n)
  PROVE  \E a \in Line(t) : <<a, n>> \in stale
  <1>1. Upset(Line(t)) /\ Line(t) \subseteq ready /\ t \in Line(t)
    BY LineUpset, LineReady
  <1>2. Line(t) \in SUBSET Types
    BY <1>1 DEF TypeInv, TypesTypeOK
  <1> QED BY <1>1, <1>2 DEF Touched

LEMMA LineBelow ==
  ASSUME TypeInv, LayoutInv, NEW h, Measured(h), NEW t \in ready
  PROVE  \A c \in Line(t) : c \in Types /\ h[c] <= h[t]
  <1>0. h \in [Types -> Nat] /\ ready \subseteq Types
    BY DEF Measured, TypeInv, TypesTypeOK
  <1> DEFINE Bad == {u \in ready : \E c \in Line(u) : ~(h[c] <= h[u])}
  <1>1. Bad = {}
    <2> SUFFICES ASSUME Bad # {} PROVE FALSE
      OBVIOUS
    <2>1. PICK u \in Bad : u = Object \/ \A i \in DOMAIN bases[u] : bases[u][i] \in ready \ Bad
      <3>1. Bad \subseteq ready
        OBVIOUS
      <3> HIDE DEF Bad
      <3> QED BY <3>1, Upwards
    <2>2. PICK c \in Line(u) : ~(h[c] <= h[u])
      OBVIOUS
    <2>3. u \in ready
      OBVIOUS
    <2>4. c # u
      BY <1>0, <2>2, <2>3
    <2>5. u # Object
      BY <2>2, <2>4, LineOfObject
    <2>6. PICK i \in DOMAIN bases[u] : c \in Line(bases[u][i])
      <3>1. u \in ready \ {Object}
        BY <2>3, <2>5
      <3> QED BY <2>2, <2>4, <3>1, OnLine
    <2>7. bases[u][i] \in ready \ Bad
      BY <2>1, <2>5
    <2>8. h[c] <= h[bases[u][i]] /\ bases[u][i] \in Types
      BY <1>0, <2>6, <2>7
    <2>9. h[bases[u][i]] < h[u]
      <3>1. Walked(u) = bases[u]
        BY <2>3, <2>5, OnLine
      <3> QED BY <1>0, <2>3, <3>1 DEF Measured
    <2>10. c \in Types
      BY <1>0, <2>6, <2>7, LineReady
    <2>11. h[c] \in Nat /\ h[u] \in Nat /\ h[bases[u][i]] \in Nat
      BY <1>0, <2>3, <2>8, <2>10
    <2> HIDE DEF Bad
    <2> QED BY <2>2, <2>8, <2>9, <2>11
  <1>2. \A c \in Line(t) : h[c] <= h[t]
    BY <1>1
  <1> QED BY <1>0, <1>2, LineReady

-----------------------------------------------------------------------------
(* The first that is not NULL.                                             *)
LEMMA FirstBehind ==
  ASSUME NEW k \in Nat, NEW v, v = [i \in 1 .. k |-> v[i]], NEW x
  PROVE  FirstOf(<<x>> \o v) = IF x # Null THEN x ELSE FirstOf(v)
  <1> DEFINE X == {x} \cup {v[i] : i \in 1 .. k}
             w == <<x>> \o v
             above == {i \in DOMAIN w : w[i] # Null}
             found == {i \in DOMAIN v : v[i] # Null}
  <1>1. v \in Seq(X) /\ Len(v) = k /\ DOMAIN v = 1 .. k
    <2>1. v \in [1 .. k -> X]
      OBVIOUS
    <2> HIDE DEF X
    <2> QED BY <2>1
  <1>2. <<x>> \in Seq(X) /\ Len(<<x>>) = 1
    OBVIOUS
  <1> HIDE DEF X
  <1>3. DOMAIN w = 1 .. k + 1 /\ w[1] = x /\ \A i \in 1 .. k : w[i + 1] = v[i]
    BY <1>1, <1>2
  <1>4. /\ FirstOf(w) = IF above = {} THEN Null ELSE w[Min(above)]
        /\ FirstOf(v) = IF found = {} THEN Null ELSE v[Min(found)]
    BY DEF FirstOf
  <1>5. /\ \A i : i \in above <=> i \in 1 .. k + 1 /\ w[i] # Null
        /\ \A i : i \in found <=> i \in 1 .. k /\ v[i] # Null
    BY <1>1, <1>3
  <1> HIDE DEF w
  <1> HIDE DEF above
  <1> HIDE DEF found
  <1>6. above \in SUBSET Nat /\ found \in SUBSET Nat
    <2>1. above \subseteq 1 .. k + 1 /\ found \subseteq 1 .. k
      BY <1>5
    <2>2. 1 .. k + 1 \subseteq Nat /\ 1 .. k \subseteq Nat
      OBVIOUS
    <2> QED BY <2>1, <2>2
  <1>7. /\ above # {} => Min(above) \in above /\ \A i \in above : Min(above) <= i
        /\ found # {} => Min(found) \in found /\ \A i \in found : Min(found) <= i
    BY <1>6, MinLeast
  <1>8. CASE x # Null
    <2>1. 1 \in above
      BY <1>3, <1>5, <1>8
    <2>2. Min(above) \in 1 .. k + 1 /\ Min(above) <= 1
      BY <1>5, <1>7, <2>1
    <2>3. Min(above) = 1
      BY <2>2
    <2> QED BY <1>3, <1>4, <1>8, <2>1, <2>3 DEF w
  <1>9. CASE x = Null
    <2>1. \A i \in above : i - 1 \in found
      <3> SUFFICES ASSUME NEW i \in above PROVE i - 1 \in found
        OBVIOUS
      <3>1. i \in 1 .. k + 1 /\ w[i] # Null /\ i # 1
        BY <1>3, <1>5, <1>9
      <3>2. i - 1 \in 1 .. k /\ (i - 1) + 1 = i
        BY <3>1
      <3>3. w[i] = v[i - 1]
        BY <1>3, <3>2
      <3> QED BY <1>5, <3>1, <3>2, <3>3
    <2>2. \A i \in found : i + 1 \in above
      <3> SUFFICES ASSUME NEW i \in found PROVE i + 1 \in above
        OBVIOUS
      <3>1. i \in 1 .. k /\ v[i] # Null
        BY <1>5
      <3> QED BY <1>3, <1>5, <3>1
    <2>3. CASE found = {}
      <3>1. above = {}
        BY <2>1, <2>3
      <3> QED BY <1>4, <1>9, <2>3, <3>1 DEF w
    <2>4. CASE found # {}
      <3>1. above # {} /\ Min(found) \in found
        BY <1>7, <2>2, <2>4
      <3>2. Min(above) <= Min(found) + 1 /\ Min(found) <= Min(above) - 1
        BY <1>7, <2>1, <2>2, <3>1
      <3>3. Min(found) \in 1 .. k /\ Min(above) \in Nat
        BY <1>5, <1>6, <1>7, <3>1
      <3>4. Min(above) = Min(found) + 1
        BY <3>2, <3>3
      <3>5. w[Min(above)] = v[Min(found)]
        BY <1>3, <3>3, <3>4
      <3> QED BY <1>4, <1>9, <2>4, <3>1, <3>5 DEF w
    <2> QED BY <2>3, <2>4
  <1> QED BY <1>8, <1>9

LEMMA FirstNull ==
  ASSUME NEW k \in Nat, NEW v, DOMAIN v = 1 .. k
  PROVE  FirstOf(v) = Null <=> \A i \in 1 .. k : v[i] = Null
  <1> DEFINE found == {i \in DOMAIN v : v[i] # Null}
  <1>1. FirstOf(v) = IF found = {} THEN Null ELSE v[Min(found)]
    BY DEF FirstOf
  <1>2. /\ found \in SUBSET Nat /\ \A i \in found : v[i] # Null
        /\ found = {} <=> \A i \in 1 .. k : v[i] = Null
    OBVIOUS
  <1> HIDE DEF found
  <1>3. found # {} => Min(found) \in found
    BY <1>2, MinLeast
  <1> QED BY <1>1, <1>2, <1>3

LEMMA FirstOne ==
  ASSUME NEW v, DOMAIN v = 1 .. 1
  PROVE  FirstOf(v) = v[1]
  <1> DEFINE found == {i \in DOMAIN v : v[i] # Null}
  <1>1. FirstOf(v) = IF found = {} THEN Null ELSE v[Min(found)]
    BY DEF FirstOf
  <1>2. found \in SUBSET Nat /\ (found = {} => v[1] = Null) /\ \A i \in found : i = 1
    OBVIOUS
  <1> HIDE DEF found
  <1>3. found # {} => Min(found) \in found
    BY <1>2, MinLeast
  <1> QED BY <1>1, <1>2, <1>3

-----------------------------------------------------------------------------
(* What the look-ups compute.                                              *)
AttrValues == Types \cup {Null, Data}

WalkOver(f, u) == [i \in DOMAIN Walked(u) |-> f[Walked(u)[i]]]

GoFrom(f, a, S, u) == IF u \in S THEN Null ELSE FirstOf(<<a[u]>> \o WalkOver(f, u))

LEMMA WalkedTyped ==
  ASSUME TypeInv, NEW u \in Types
  PROVE  Walked(u) \in Seq(Types) /\ Len(Walked(u)) \in Nat /\ DOMAIN Walked(u) = 1 .. Len(Walked(u))
  <1>1. bases[u] \in Seq(Types) /\ base[u] \in Types \cup {Null}
    BY DEF TypeInv, TypesTypeOK
  <1>2. Walked(u) \in Seq(Types)
    <2>1. CASE bases[u] # <<>>
      BY <1>1, <2>1 DEF Walked
    <2>2. CASE bases[u] = <<>> /\ base[u] = Null
      BY <2>2 DEF Walked
    <2>3. CASE bases[u] = <<>> /\ base[u] # Null
      <3>1. Walked(u) = <<base[u]>> /\ base[u] \in Types
        BY <1>1, <2>3 DEF Walked
      <3> QED BY <3>1
    <2> QED BY <2>1, <2>2, <2>3
  <1> QED BY <1>2

LEMMA WalkOverIs ==
  ASSUME TypeInv, NEW u \in Types, NEW f
  PROVE  /\ WalkOver(f, u) = [i \in 1 .. Len(Walked(u)) |-> WalkOver(f, u)[i]]
         /\ DOMAIN WalkOver(f, u) = 1 .. Len(Walked(u)) /\ Len(Walked(u)) \in Nat
         /\ \A i \in 1 .. Len(Walked(u)) : WalkOver(f, u)[i] = f[Walked(u)[i]] /\ Walked(u)[i] \in Types
  <1>1. Walked(u) \in Seq(Types) /\ Len(Walked(u)) \in Nat /\ DOMAIN Walked(u) = 1 .. Len(Walked(u))
    BY WalkedTyped
  <1>2. WalkOver(f, u) = [i \in 1 .. Len(Walked(u)) |-> f[Walked(u)[i]]]
    BY <1>1 DEF WalkOver
  <1>3. \A i \in 1 .. Len(Walked(u)) : Walked(u)[i] \in Types
    BY <1>1
  <1> QED BY <1>1, <1>2, <1>3

LEMMA WalkOverSame ==
  ASSUME TypeInv, NEW u \in Types, NEW f, NEW g,
         \A i \in DOMAIN Walked(u) : f[Walked(u)[i]] = g[Walked(u)[i]]
  PROVE  WalkOver(f, u) = WalkOver(g, u)
  BY DEF WalkOver

LEMMA GoSolves ==
  ASSUME TypeInv, NEW a \in [Types -> AttrValues], NEW S
  PROVE  \E f \in [Types -> AttrValues] : \A u \in Types : f[u] = GoFrom(f, a, S, u)
  <1>0. PICK h : Measured(h)
    BY MeasureExists
  <1>m. /\ h \in [Types -> Nat]
        /\ \A u \in Types : \A i \in DOMAIN Walked(u) :
              Walked(u)[i] \in Types /\ h[Walked(u)[i]] < h[u]
    BY <1>0 DEF Measured
  <1> DEFINE D == [p \in Types \X [Types -> AttrValues] |-> GoFrom(p[2], a, S, p[1])]
  <1>1. ASSUME NEW u \in Types, NEW f \in [Types -> AttrValues]
        PROVE  GoFrom(f, a, S, u) \in AttrValues
    <2>1. Len(Walked(u)) \in Nat /\ WalkOver(f, u) \in [1 .. Len(Walked(u)) -> AttrValues]
      <3>1. /\ WalkOver(f, u) = [i \in 1 .. Len(Walked(u)) |-> WalkOver(f, u)[i]]
            /\ Len(Walked(u)) \in Nat
            /\ \A i \in 1 .. Len(Walked(u)) : WalkOver(f, u)[i] = f[Walked(u)[i]] /\ Walked(u)[i] \in Types
        BY WalkOverIs
      <3>2. \A i \in 1 .. Len(Walked(u)) : WalkOver(f, u)[i] \in AttrValues
        BY <3>1
      <3> QED BY <3>1, <3>2
    <2>2. PICK k \in Nat : k = Len(Walked(u))
      BY <2>1
    <2>3. PICK v \in [1 .. k -> AttrValues] : v = WalkOver(f, u)
      BY <2>1, <2>2
    <2>4. FirstOf(v) \in AttrValues
      BY FirstTyped DEF AttrValues
    <2>5. FirstOf(<<a[u]>> \o v) = IF a[u] # Null THEN a[u] ELSE FirstOf(v)
      <3>1. v = [i \in 1 .. k |-> v[i]]
        OBVIOUS
      <3> QED BY <3>1, FirstBehind
    <2>6. a[u] \in AttrValues
      OBVIOUS
    <2> QED BY <2>3, <2>4, <2>5, <2>6 DEF GoFrom, AttrValues
  <1>2. D \in [Types \X [Types -> AttrValues] -> AttrValues]
    BY <1>1
  <1>3. ASSUME NEW u \in Types, NEW f, NEW g,
               \A v \in Types : h[v] < h[u] => f[v] = g[v]
        PROVE  GoFrom(f, a, S, u) = GoFrom(g, a, S, u)
    <2>1. \A i \in DOMAIN Walked(u) : f[Walked(u)[i]] = g[Walked(u)[i]]
      BY <1>3, <1>m
    <2>2. WalkOver(f, u) = WalkOver(g, u)
      BY <2>1, WalkOverSame
    <2> QED BY <2>2 DEF GoFrom
  <1>4. \A u \in Types, f \in [Types -> AttrValues] : D[<<u, f>>] = GoFrom(f, a, S, u)
    OBVIOUS
  <1>5. AttrValues # {}
    BY DEF AttrValues
  <1> HIDE DEF D
  <1>6. LooksBelow(D, Types, AttrValues, h)
    BY <1>3, <1>4 DEF LooksBelow
  <1>7. \E f \in [Types -> AttrValues] : Solves(f, D, Types)
    BY <1>m, <1>2, <1>5, <1>6, Solution
  <1> QED BY <1>4, <1>7 DEF Solves

(* The names a class or its bases define, which Expected begins with.      *)
Defs(n) ==
    CHOOSE defs : defs = [u \in Types |->
        IF u = Object THEN Null
        ELSE FirstOf(<<own[u].attrs[n]>> \o [i \in DOMAIN Walked(u) |-> defs[Walked(u)[i]]])]

LookedUp(n) ==
    CHOOSE found : found = [u \in Types |->
        FirstOf(<<attrs[u][n]>> \o [i \in DOMAIN Walked(u) |-> found[Walked(u)[i]]])]

LEMMA DefsSolve ==
  ASSUME TypeInv, NEW n \in TypeAttrs, NEW u \in Types
  PROVE  Defs(n)[u] = IF u = Object THEN Null
                      ELSE IF own[u].attrs[n] # Null THEN own[u].attrs[n] ELSE FirstOf(WalkOver(Defs(n), u))
  <1> DEFINE a == [v \in Types |-> own[v].attrs[n]]
  <1>1. a \in [Types -> AttrValues]
    BY DEF TypeInv, TypesTypeOK, Dicts, AttrValues
  <1>2. PICK f \in [Types -> AttrValues] : \A v \in Types : f[v] = GoFrom(f, a, {Object}, v)
    BY <1>1, GoSolves
  <1>3. f = [v \in Types |-> IF v = Object THEN Null
                             ELSE FirstOf(<<own[v].attrs[n]>> \o WalkOver(f, v))]
    BY <1>2 DEF GoFrom
  <1>4. f = [v \in Types |-> IF v = Object THEN Null
               ELSE FirstOf(<<own[v].attrs[n]>> \o [i \in DOMAIN Walked(v) |-> f[Walked(v)[i]]])]
    BY <1>3, Zenon DEF WalkOver
  <1>5. Defs(n) = [v \in Types |-> IF v = Object THEN Null
               ELSE FirstOf(<<own[v].attrs[n]>> \o [i \in DOMAIN Walked(v) |-> Defs(n)[Walked(v)[i]]])]
    BY <1>4, Zenon DEF Defs
  <1>6. Defs(n) = [v \in Types |-> IF v = Object THEN Null
                             ELSE FirstOf(<<own[v].attrs[n]>> \o WalkOver(Defs(n), v))]
    BY <1>5, Zenon DEF WalkOver
  <1>7. Defs(n)[u] = IF u = Object THEN Null ELSE FirstOf(<<own[u].attrs[n]>> \o WalkOver(Defs(n), u))
    BY <1>6
  <1>8. FirstOf(<<own[u].attrs[n]>> \o WalkOver(Defs(n), u))
           = IF own[u].attrs[n] # Null THEN own[u].attrs[n] ELSE FirstOf(WalkOver(Defs(n), u))
    BY WalkOverIs, FirstBehind
  <1> QED BY <1>7, <1>8

LEMMA LookedUpSolves ==
  ASSUME TypeInv, NEW n \in TypeAttrs, NEW u \in Types
  PROVE  /\ TypeLookup(u, n) = LookedUp(n)[u]
         /\ LookedUp(n)[u] = IF attrs[u][n] # Null THEN attrs[u][n] ELSE FirstOf(WalkOver(LookedUp(n), u))
  <1> DEFINE a == [v \in Types |-> attrs[v][n]]
  <1>1. a \in [Types -> AttrValues]
    BY DEF TypeInv, TypesTypeOK, Dicts, AttrValues
  <1>2. PICK f \in [Types -> AttrValues] : \A v \in Types : f[v] = GoFrom(f, a, {}, v)
    BY <1>1, GoSolves
  <1>3. f = [v \in Types |-> FirstOf(<<attrs[v][n]>> \o WalkOver(f, v))]
    BY <1>2 DEF GoFrom
  <1>4. f = [v \in Types |-> FirstOf(<<attrs[v][n]>> \o [i \in DOMAIN Walked(v) |-> f[Walked(v)[i]]])]
    BY <1>3, Zenon DEF WalkOver
  <1>5. LookedUp(n) = [v \in Types |->
               FirstOf(<<attrs[v][n]>> \o [i \in DOMAIN Walked(v) |-> LookedUp(n)[Walked(v)[i]]])]
    BY <1>4, Zenon DEF LookedUp
  <1>6. LookedUp(n) = [v \in Types |-> FirstOf(<<attrs[v][n]>> \o WalkOver(LookedUp(n), v))]
    BY <1>5, Zenon DEF WalkOver
  <1>7. LookedUp(n)[u] = FirstOf(<<attrs[u][n]>> \o WalkOver(LookedUp(n), u))
    BY <1>6
  <1>8. FirstOf(<<attrs[u][n]>> \o WalkOver(LookedUp(n), u))
           = IF attrs[u][n] # Null THEN attrs[u][n] ELSE FirstOf(WalkOver(LookedUp(n), u))
    BY WalkOverIs, FirstBehind
  <1>9. TypeLookup(u, n) = LookedUp(n)[u]
    BY Zenon DEF TypeLookup, LookedUp
  <1> QED BY <1>7, <1>8, <1>9

UpFrom(f, n, u) ==
    IF attrs[u][n] # Null THEN attrs[u][n] ELSE IF base[u] = Null THEN Null ELSE f[base[u]]

LEMMA BaseLookupSolves ==
  ASSUME TypeInv, NEW n \in TypeAttrs, NEW t \in Types
  PROVE  BaseLookup(t, n) = IF attrs[t][n] # Null THEN attrs[t][n]
                            ELSE IF base[t] = Null THEN Null ELSE BaseLookup(base[t], n)
  <1>0. PICK N, h : Bounded(h, N)
    BY DEF TypeInv, Grounded
  <1>m. h \in [Types -> Nat] /\ \A u \in Types : base[u] # Null => base[u] \in Types /\ h[base[u]] < h[u]
    BY <1>0 DEF Bounded, TypeInv, TypesTypeOK
  <1>t. attrs \in [Types -> Dicts]
    BY DEF TypeInv, TypesTypeOK
  <1> DEFINE D == [p \in Types \X [Types -> AttrValues] |-> UpFrom(p[2], n, p[1])]
  <1>1. ASSUME NEW u \in Types, NEW f \in [Types -> AttrValues]
        PROVE  UpFrom(f, n, u) \in AttrValues
    BY <1>m, <1>t DEF UpFrom, Dicts, AttrValues
  <1>2. D \in [Types \X [Types -> AttrValues] -> AttrValues]
    BY <1>1
  <1>3. ASSUME NEW u \in Types, NEW f, NEW g,
               \A v \in Types : h[v] < h[u] => f[v] = g[v]
        PROVE  UpFrom(f, n, u) = UpFrom(g, n, u)
    BY <1>3, <1>m DEF UpFrom
  <1>4. PICK f \in [Types -> AttrValues] : \A u \in Types : f[u] = UpFrom(f, n, u)
    <2>1. \A u \in Types, f \in [Types -> AttrValues] : D[<<u, f>>] = UpFrom(f, n, u)
      OBVIOUS
    <2>2. AttrValues # {}
      BY DEF AttrValues
    <2> HIDE DEF D
    <2>3. LooksBelow(D, Types, AttrValues, h)
      BY <1>3, <2>1 DEF LooksBelow
    <2>4. \E f \in [Types -> AttrValues] : Solves(f, D, Types)
      BY <1>m, <1>2, <2>2, <2>3, Solution
    <2> QED BY <2>1, <2>4 DEF Solves
  <1>5. f = [u \in Types |-> UpFrom(f, n, u)]
    BY <1>4
  <1> DEFINE r == CHOOSE r : r = [u \in Types |-> UpFrom(r, n, u)]
  <1>6. r = [u \in Types |-> UpFrom(r, n, u)]
    BY <1>5, Zenon
  <1>7. \A u : BaseLookup(u, n) = r[u]
    BY Zenon DEF BaseLookup, UpFrom
  <1> HIDE DEF r
  <1>8. r[t] = UpFrom(r, n, t)
    BY <1>6
  <1> QED BY <1>7, <1>8 DEF UpFrom

LEMMA ExpectedIs ==
  ASSUME NEW n, NEW t
  PROVE  Expected(t, n) = IF Defs(n)[t] # Null THEN Defs(n)[t] ELSE own[Object].attrs[n]
  <1>1. Expected(t, n) = FirstOf(<<Defs(n)[t], own[Object].attrs[n]>>)
    BY Zenon DEF Expected, Defs
  <1>2. PICK x, y : x = Defs(n)[t] /\ y = own[Object].attrs[n]
    OBVIOUS
  <1>3. PICK w : w = <<x, y>>
    OBVIOUS
  <1>4. DOMAIN w = {1, 2} /\ w[1] = x /\ w[2] = y
    BY <1>3
  <1> DEFINE found == {i \in DOMAIN w : w[i] # Null}
  <1>5. FirstOf(w) = IF found = {} THEN Null ELSE w[Min(found)]
    BY DEF FirstOf
  <1>6. found \in SUBSET Nat /\ \A i : i \in found <=> i \in {1, 2} /\ w[i] # Null
    BY <1>4
  <1> HIDE DEF found
  <1>7. found # {} => Min(found) \in found /\ \A i \in found : Min(found) <= i
    BY <1>6, MinLeast
  <1>8. FirstOf(w) = IF x # Null THEN x ELSE y
    <2>1. CASE x # Null
      <3>1. 1 \in found
        BY <1>4, <1>6, <2>1
      <3>2. Min(found) = 1
        BY <1>6, <1>7, <3>1
      <3> QED BY <1>4, <1>5, <2>1, <3>1, <3>2
    <2>2. CASE x = Null
      BY <1>4, <1>5, <1>6, <1>7, <2>2
    <2> QED BY <2>1, <2>2
  <1> QED BY <1>1, <1>2, <1>3, <1>8

-----------------------------------------------------------------------------
(* Where nothing was assigned to too late.                                 *)
Clean(t, n) == \A a \in Line(t) : <<a, n>> \notin stale

Derived(u, n) ==
    \/ /\ attrs[u][n] = own[u].attrs[n]
       /\ kind[u] = "class" /\ own[u].attrs[n] = Null => bases[u] = <<Object>>
    \/ own[u].attrs[n] = Null /\ attrs[u][n] = Merging(u, n)

LEMMA CleanKept ==
  ASSUME TypeInv, LayoutInv, LookupInv, NEW t \in ready, NEW n \in TypeAttrs, Clean(t, n),
         NEW u \in Line(t)
  PROVE  Derived(u, n) /\ u \in ready /\ Line(u) \subseteq Line(t) /\ Clean(u, n)
  <1>1. u \in ready /\ Line(u) \subseteq Line(t)
    BY LineAbove
  <1>2. Clean(u, n)
    BY <1>1 DEF Clean
  <1>3. ~Touched(u, n)
    BY <1>1, <1>2, TouchedOnLine DEF Clean
  <1>4. Named(u, n)
    BY <1>1 DEF LookupInv
  <1> QED BY <1>1, <1>2, <1>3, <1>4 DEF Named, Derived

LEMMA ObjectFound ==
  ASSUME TypeInv, LayoutInv, LookupInv, NEW n \in TypeAttrs
  PROVE  /\ attrs[Object][n] = own[Object].attrs[n] /\ LookedUp(n)[Object] = own[Object].attrs[n]
         /\ BaseLookup(Object, n) = own[Object].attrs[n] /\ Defs(n)[Object] = Null
  <1>1. Object \in Types /\ Object \in ready /\ base[Object] = Null /\ kind[Object] = "static"
    BY TypeAssumption DEF TypeInv, ReadyAbove
  <1>2. attrs[Object][n] = own[Object].attrs[n]
    <2>1. Named(Object, n)
      BY <1>1 DEF LookupInv
    <2> QED BY <1>1, <2>1 DEF Named
  <1>3. Walked(Object) = <<>> /\ Len(Walked(Object)) = 0
    BY <1>1 DEF LayoutInv, ObjectLaid, Walked
  <1>4. DOMAIN WalkOver(LookedUp(n), Object) = 1 .. 0
    BY <1>1, <1>3, WalkOverIs
  <1>5. FirstOf(WalkOver(LookedUp(n), Object)) = Null
    BY <1>4, FirstNull
  <1>6. LookedUp(n)[Object] = IF attrs[Object][n] # Null THEN attrs[Object][n] ELSE Null
    BY <1>1, <1>5, LookedUpSolves
  <1>7. BaseLookup(Object, n) = IF attrs[Object][n] # Null THEN attrs[Object][n] ELSE Null
    BY <1>1, BaseLookupSolves
  <1>8. Defs(n)[Object] = Null
    BY <1>1, DefsSolve
  <1> QED BY <1>2, <1>6, <1>7, <1>8

(* Among Python classes the dict of each has what the class and its bases  *)
(* define, and every look-up ends there.                                   *)
Whole(u, n) ==
    /\ attrs[u][n] = Defs(n)[u] /\ LookedUp(n)[u] = Defs(n)[u] /\ BaseLookup(u, n) = Defs(n)[u]

LEMMA ClassWhole ==
  ASSUME TypeInv, LayoutInv, LookupInv, NEW n \in TypeAttrs, NEW u \in ready \ {Object},
         kind[u] = "class", Derived(u, n), own[Object].attrs[n] = Null,
         \A i \in DOMAIN bases[u] : bases[u][i] \in ready /\ Whole(bases[u][i], n)
  PROVE  Whole(u, n)
  <1>1. u \in Types /\ Walked(u) = bases[u] /\ bases[u] # <<>> /\ ready \subseteq Types
    BY OnLine DEF TypeInv, TypesTypeOK, LayoutInv, Laid
  <1> DEFINE k == Len(bases[u])
             theirs == WalkOver(Defs(n), u)
             found == WalkOver(LookedUp(n), u)
  <1>2. k \in Nat /\ DOMAIN bases[u] = 1 .. k /\ k # 0
    <2>1. bases[u] \in Seq(Types)
      BY <1>1 DEF TypeInv, TypesTypeOK
    <2> QED BY <1>1, <2>1
  <1>3. /\ DOMAIN theirs = 1 .. k /\ DOMAIN found = 1 .. k
        /\ \A i \in 1 .. k : theirs[i] = Defs(n)[bases[u][i]] /\ found[i] = LookedUp(n)[bases[u][i]]
    BY <1>1, WalkOverIs
  <1>4. Merging(u, n) = FirstOf(theirs)
    <2>1. \A i \in DOMAIN bases[u] : attrs[bases[u][i]][n] = Defs(n)[bases[u][i]]
      BY DEF Whole
    <2>2. [i \in DOMAIN bases[u] |-> attrs[bases[u][i]][n]] = [i \in DOMAIN bases[u] |-> Defs(n)[bases[u][i]]]
      BY <2>1
    <2> QED BY <1>1, <2>2 DEF Merging, WalkOver
  <1>5. Defs(n)[u] = IF own[u].attrs[n] # Null THEN own[u].attrs[n] ELSE FirstOf(theirs)
    BY <1>1, DefsSolve
  <1>6. LookedUp(n)[u] = IF attrs[u][n] # Null THEN attrs[u][n] ELSE FirstOf(found)
    BY <1>1, LookedUpSolves
  <1>7. BaseLookup(u, n) = IF attrs[u][n] # Null THEN attrs[u][n] ELSE BaseLookup(bases[u][1], n)
    <2>1. base[u] = bases[u][1] /\ base[u] # Null
      BY <1>1, TypeAssumption DEF LookupInv, TypeInv, ReadyAbove
    <2> QED BY <1>1, <2>1, BaseLookupSolves
  <1> HIDE DEF theirs
  <1> HIDE DEF found
  <1> HIDE DEF k
  <1>8. attrs[u][n] = Defs(n)[u]
    <2>1. CASE own[u].attrs[n] # Null
      BY <1>5, <2>1 DEF Derived
    <2>2. CASE own[u].attrs[n] = Null /\ attrs[u][n] = Merging(u, n)
      BY <1>4, <1>5, <2>2
    <2>3. CASE own[u].attrs[n] = Null /\ attrs[u][n] = Null /\ bases[u] = <<Object>>
      <3>1. DOMAIN bases[u] = 1 .. 1 /\ bases[u][1] = Object
        BY <2>3
      <3>2. DOMAIN theirs = 1 .. 1 /\ theirs[1] = Defs(n)[Object]
        BY <1>2, <1>3, <3>1
      <3>3. FirstOf(theirs) = Null
        BY <3>2, FirstOne, ObjectFound
      <3> QED BY <1>5, <2>3, <3>3
    <2> QED BY <2>1, <2>2, <2>3 DEF Derived
  <1>9. CASE attrs[u][n] # Null
    BY <1>6, <1>7, <1>8, <1>9 DEF Whole
  <1>10. CASE attrs[u][n] = Null
    <2>1. FirstOf(theirs) = Null
      BY <1>5, <1>8, <1>10
    <2>2. \A i \in 1 .. k : theirs[i] = Null
      BY <1>2, <1>3, <2>1, FirstNull
    <2>3. \A i \in 1 .. k : Defs(n)[bases[u][i]] = Null
      BY <1>3, <2>2
    <2>4. \A i \in 1 .. k : LookedUp(n)[bases[u][i]] = Null /\ BaseLookup(bases[u][i], n) = Null
      BY <1>2, <2>3 DEF Whole
    <2>5. FirstOf(found) = Null
      <3>1. \A i \in 1 .. k : found[i] = Null
        BY <1>3, <2>4
      <3> QED BY <1>2, <1>3, <3>1, FirstNull
    <2>6. BaseLookup(bases[u][1], n) = Null
      BY <1>2, <2>4
    <2> QED BY <1>6, <1>7, <1>8, <1>10, <2>5, <2>6 DEF Whole
  <1> QED BY <1>9, <1>10

LEMMA ClassesAgree ==
  ASSUME TypeInv, LayoutInv, LookupInv, NEW t \in ready, NEW n \in TypeAttrs, Clean(t, n),
         own[Object].attrs[n] = Null, \A v \in Line(t) \ {Object} : kind[v] = "class"
  PROVE  Whole(t, n)
  <1> DEFINE Bad == {u \in Line(t) : ~Whole(u, n)}
  <1>1. Line(t) \subseteq ready /\ t \in Line(t) /\ Upset(Line(t))
    BY LineReady, LineUpset
  <1>2. Bad = {}
    <2> SUFFICES ASSUME Bad # {} PROVE FALSE
      OBVIOUS
    <2>1. PICK u \in Bad : u = Object \/ \A i \in DOMAIN bases[u] : bases[u][i] \in ready \ Bad
      <3>1. Bad \subseteq ready
        BY <1>1
      <3> HIDE DEF Bad
      <3> QED BY <3>1, Upwards
    <2>2. u \in Line(t) /\ ~Whole(u, n)
      OBVIOUS
    <2>3. u # Object
      BY <2>2, ObjectFound DEF Whole
    <2>4. \A i \in DOMAIN bases[u] : bases[u][i] \in ready /\ bases[u][i] \in Line(t) \ Bad
      BY <1>1, <2>1, <2>2, <2>3 DEF Upset
    <2>5. \A i \in DOMAIN bases[u] : bases[u][i] \in ready /\ Whole(bases[u][i], n)
      BY <2>4
    <2>6. Derived(u, n) /\ u \in ready \ {Object} /\ kind[u] = "class"
      BY <1>1, <2>2, <2>3, CleanKept
    <2> QED BY <2>2, <2>5, <2>6, ClassWhole
  <1> QED BY <1>1, <1>2

(* Along single bases each dict has what the type defines, or what the     *)
(* dict of its base has.                                                   *)
Agreed(u, n) == LookedUp(n)[u] = Expected(u, n) /\ BaseLookup(u, n) = Expected(u, n)

LEMMA OneBaseAgrees ==
  ASSUME TypeInv, LayoutInv, LookupInv, NEW n \in TypeAttrs, NEW u \in ready \ {Object},
         bases[u] = <<base[u]>>, Derived(u, n), Agreed(base[u], n)
  PROVE  Agreed(u, n)
  <1>1. u \in Types /\ Walked(u) = bases[u] /\ base[u] \in Types /\ base[u] # Null
    BY OnLine, TypeAssumption DEF TypeInv, TypesTypeOK, ReadyAbove
  <1>2. Len(bases[u]) = 1 /\ DOMAIN bases[u] = 1 .. 1 /\ bases[u][1] = base[u]
    OBVIOUS
  <1>3. ASSUME NEW f PROVE FirstOf(WalkOver(f, u)) = f[base[u]]
    <2>1. DOMAIN WalkOver(f, u) = 1 .. 1 /\ WalkOver(f, u)[1] = f[base[u]]
      BY <1>1, <1>2, WalkOverIs
    <2> QED BY <2>1, FirstOne
  <1>4. Merging(u, n) = attrs[base[u]][n]
    <2> DEFINE v == [i \in DOMAIN bases[u] |-> attrs[bases[u][i]][n]]
    <2>1. DOMAIN v = 1 .. 1 /\ v[1] = attrs[base[u]][n]
      BY <1>2
    <2>2. Merging(u, n) = FirstOf(v)
      BY DEF Merging
    <2> HIDE DEF v
    <2> QED BY <2>1, <2>2, FirstOne
  <1>5. Defs(n)[u] = IF own[u].attrs[n] # Null THEN own[u].attrs[n] ELSE Defs(n)[base[u]]
    <2>1. u # Object
      OBVIOUS
    <2> QED BY <1>1, <1>3, <2>1, DefsSolve
  <1>6. LookedUp(n)[u] = IF attrs[u][n] # Null THEN attrs[u][n] ELSE LookedUp(n)[base[u]]
    BY <1>1, <1>3, LookedUpSolves
  <1>7. BaseLookup(u, n) = IF attrs[u][n] # Null THEN attrs[u][n] ELSE BaseLookup(base[u], n)
    BY <1>1, BaseLookupSolves
  <1>8. Expected(u, n) = IF own[u].attrs[n] # Null THEN own[u].attrs[n] ELSE Expected(base[u], n)
    BY <1>5, ExpectedIs
  <1>9. CASE own[u].attrs[n] # Null
    BY <1>6, <1>7, <1>8, <1>9 DEF Agreed, Derived
  <1>10. CASE own[u].attrs[n] = Null /\ attrs[u][n] = Null
    BY <1>6, <1>7, <1>8, <1>10 DEF Agreed
  <1>11. CASE own[u].attrs[n] = Null /\ attrs[u][n] # Null
    <2>1. attrs[u][n] = attrs[base[u]][n]
      BY <1>4, <1>11 DEF Derived
    <2>2. LookedUp(n)[base[u]] = attrs[base[u]][n] /\ BaseLookup(base[u], n) = attrs[base[u]][n]
      BY <1>1, <1>11, <2>1, LookedUpSolves, BaseLookupSolves
    <2> QED BY <1>6, <1>7, <1>8, <1>11, <2>1, <2>2 DEF Agreed
  <1> QED BY <1>9, <1>10, <1>11

LEMMA PlainAgrees ==
  ASSUME TypeInv, LayoutInv, LookupInv, NEW t \in ready, NEW n \in TypeAttrs, Clean(t, n),
         Plain(t, n)
  PROVE  \A u \in Line(t) : TypeLookup(u, n) = Expected(u, n) /\ BaseLookup(u, n) = Expected(u, n)
  <1> DEFINE Bad == {u \in Line(t) : ~Agreed(u, n)}
  <1>1. Line(t) \subseteq ready /\ Upset(Line(t)) /\ ready \subseteq Types
    BY LineReady, LineUpset DEF TypeInv, TypesTypeOK
  <1>2. Bad = {}
    <2> SUFFICES ASSUME Bad # {} PROVE FALSE
      OBVIOUS
    <2>1. PICK u \in Bad : u = Object \/ \A i \in DOMAIN bases[u] : bases[u][i] \in ready \ Bad
      <3>1. Bad \subseteq ready
        BY <1>1
      <3> HIDE DEF Bad
      <3> QED BY <3>1, Upwards
    <2>2. u \in Line(t) /\ ~Agreed(u, n)
      OBVIOUS
    <2>3. Derived(u, n) /\ u \in ready /\ Line(u) \subseteq Line(t) /\ Clean(u, n)
      BY <2>2, CleanKept
    <2>4. u # Object
      BY <2>2, ObjectFound, ExpectedIs DEF Agreed
    <2>5. CASE bases[u] = <<base[u]>>
      <3>1. 1 \in DOMAIN bases[u] /\ bases[u][1] = base[u]
        BY <2>5
      <3>2. base[u] \in Line(t) \ Bad
        BY <1>1, <2>1, <2>2, <2>4, <3>1 DEF Upset
      <3>3. Agreed(base[u], n)
        BY <3>2
      <3> QED BY <2>2, <2>3, <2>4, <2>5, <3>3, OneBaseAgrees
    <2>6. CASE bases[u] # <<base[u]>>
      <3>1. (\A v \in Line(u) \ {Object} : kind[v] = "class") /\ own[Object].attrs[n] = Null
        BY <2>2, <2>4, <2>6 DEF Plain
      <3>2. Whole(u, n)
        BY <2>3, <3>1, ClassesAgree
      <3>3. Expected(u, n) = Defs(n)[u]
        BY <3>1, ExpectedIs
      <3> QED BY <2>2, <3>2, <3>3 DEF Whole, Agreed
    <2> QED BY <2>5, <2>6
  <1>3. ASSUME NEW u \in Line(t) PROVE TypeLookup(u, n) = LookedUp(n)[u] /\ Agreed(u, n)
    BY <1>1, <1>2, LookedUpSolves
  <1> QED BY <1>3 DEF Agreed

-----------------------------------------------------------------------------
(* What super() starts from.                                               *)
FlatFrom(f, v, i) == IF i = 1 THEN v[i] ELSE f[i - 1] \o v[i]

LEMMA FlattenTyped ==
  ASSUME NEW X, NEW k \in Nat, NEW v \in [1 .. k -> Seq(X)]
  PROVE  FlattenSeq(v) \in Seq(X) /\ (k = 1 => FlattenSeq(v) = v[1])
  <1>1. v \in Seq(Seq(X)) /\ Len(v) = k
    <2>1. PICK Y : Y = Seq(X)
      OBVIOUS
    <2>2. v \in Seq(Y) /\ Len(v) = k
      BY <2>1
    <2> QED BY <2>1, <2>2
  <1>2. CASE k = 0
    <2>1. FlattenSeq(v) = v
      BY <1>1, <1>2 DEF FlattenSeq
    <2>2. v \in [1 .. 0 -> X]
      BY <1>2
    <2>3. v \in Seq(X)
      BY <2>2
    <2> QED BY <1>2, <2>1, <2>3
  <1>3. CASE k # 0
    <2> DEFINE T == 1 .. k
               Y == Seq(X)
               h == [i \in T |-> i]
               D == [p \in T \X [T -> Y] |-> FlatFrom(p[2], v, p[1])]
    <2>h. h \in [T -> Nat] /\ \A i \in T : h[i] = i
      OBVIOUS
    <2>1. ASSUME NEW i \in T, NEW f, i # 1 => f[i - 1] \in Seq(X)
          PROVE  FlatFrom(f, v, i) \in Seq(X)
      <3>1. v[i] \in Seq(X)
        OBVIOUS
      <3> QED BY <2>1, <3>1 DEF FlatFrom
    <2>2. D \in [T \X [T -> Y] -> Y]
      <3>1. ASSUME NEW i \in T, NEW f \in [T -> Y] PROVE FlatFrom(f, v, i) \in Y
        <4>1. i # 1 => i - 1 \in T
          OBVIOUS
        <4>2. i # 1 => f[i - 1] \in Seq(X)
          BY <4>1
        <4> QED BY <2>1, <4>2
      <3> QED BY <3>1
    <2>3. ASSUME NEW i \in T, NEW f, NEW g, \A j \in T : h[j] < h[i] => f[j] = g[j]
          PROVE  FlatFrom(f, v, i) = FlatFrom(g, v, i)
      <3>1. i # 1 => i - 1 \in T /\ i - 1 < i
        OBVIOUS
      <3> QED BY <2>3, <3>1 DEF FlatFrom
    <2>4. PICK f \in [T -> Y] : \A i \in T : f[i] = FlatFrom(f, v, i)
      <3>1. \A i \in T, f \in [T -> Y] : D[<<i, f>>] = FlatFrom(f, v, i)
        OBVIOUS
      <3>2. Y # {}
        <4>1. <<>> \in Seq(X)
          OBVIOUS
        <4> QED BY <4>1
      <3> HIDE DEF D
      <3> HIDE DEF T
      <3> HIDE DEF Y
      <3> HIDE DEF h
      <3>3. LooksBelow(D, T, Y, h)
        BY <2>3, <3>1 DEF LooksBelow
      <3>4. \E f \in [T -> Y] : Solves(f, D, T)
        BY <2>2, <2>h, <3>2, <3>3, Solution
      <3> QED BY <3>1, <3>4 DEF Solves
    <2>5. f = [i \in 1 .. k |-> FlatFrom(f, v, i)]
      BY <2>4
    <2> DEFINE r == CHOOSE r : r = [i \in 1 .. k |-> FlatFrom(r, v, i)]
    <2>6. r = [i \in 1 .. k |-> FlatFrom(r, v, i)]
      BY <2>5, Zenon
    <2>7. FlattenSeq(v) = r[k]
      <3>1. FlattenSeq(v) = (CHOOSE q : q = [i \in 1 .. Len(v) |-> FlatFrom(q, v, i)])[Len(v)]
        <4>1. Len(v) # 0
          BY <1>1, <1>3
        <4> QED BY <4>1, Zenon DEF FlattenSeq, FlatFrom
      <3> QED BY <1>1, <3>1, Zenon
    <2> HIDE DEF r
    <2>8. \A i \in T : r[i] = FlatFrom(r, v, i)
      BY <2>6
    <2>9. \A i \in T : r[i] \in Seq(X)
      <3> DEFINE Bad == {i \in T : r[i] \notin Seq(X)}
      <3> SUFFICES ASSUME Bad # {} PROVE FALSE
        OBVIOUS
      <3>1. Bad \in SUBSET Nat
        OBVIOUS
      <3>2. PICK i \in Bad : \A j \in Bad : i <= j
        <4> HIDE DEF Bad
        <4> QED BY <3>1, LeastNumber
      <3>3. i \in T /\ r[i] \notin Seq(X)
        OBVIOUS
      <3>4. i # 1 => i - 1 \in T /\ ~(i <= i - 1)
        BY <3>3
      <3>5. i # 1 => r[i - 1] \in Seq(X)
        BY <3>2, <3>4
      <3>6. FlatFrom(r, v, i) \in Seq(X)
        BY <2>1, <3>3, <3>5
      <3> QED BY <2>8, <3>3, <3>6
    <2>10. r[k] \in Seq(X)
      <3>1. k \in T
        BY <1>3
      <3> QED BY <2>9, <3>1
    <2>11. k = 1 => r[k] = v[1]
      <3>1. 1 \in T
        BY <1>3
      <3> QED BY <2>8, <3>1 DEF FlatFrom
    <2> QED BY <2>7, <2>10, <2>11
  <1> QED BY <1>2, <1>3

WalkFrom(f, u) == <<u>> \o FlattenSeq(WalkOver(f, u))

LEMMA WalkFromTyped ==
  ASSUME TypeInv, NEW u \in Types, NEW f, \A i \in DOMAIN Walked(u) : f[Walked(u)[i]] \in Seq(Types)
  PROVE  WalkFrom(f, u) \in Seq(Types)
  <1>1. /\ WalkOver(f, u) = [i \in 1 .. Len(Walked(u)) |-> WalkOver(f, u)[i]]
        /\ Len(Walked(u)) \in Nat /\ DOMAIN Walked(u) = 1 .. Len(Walked(u))
        /\ \A i \in 1 .. Len(Walked(u)) : WalkOver(f, u)[i] = f[Walked(u)[i]]
    BY WalkOverIs, WalkedTyped
  <1>2. \A i \in 1 .. Len(Walked(u)) : WalkOver(f, u)[i] \in Seq(Types)
    BY <1>1
  <1>3. WalkOver(f, u) \in [1 .. Len(Walked(u)) -> Seq(Types)]
    BY <1>1, <1>2
  <1>4. FlattenSeq(WalkOver(f, u)) \in Seq(Types)
    BY <1>1, <1>3, FlattenTyped
  <1>5. <<u>> \in Seq(Types)
    OBVIOUS
  <1> QED BY <1>4, <1>5 DEF WalkFrom

LEMMA WalkSolves ==
  ASSUME TypeInv
  PROVE  \E r : \A u \in Types : Walk(u) = r[u] /\ r[u] = WalkFrom(r, u) /\ r[u] \in Seq(Types)
  <1>0. PICK h : Measured(h)
    BY MeasureExists
  <1>m. /\ h \in [Types -> Nat]
        /\ \A u \in Types : \A i \in DOMAIN Walked(u) :
              Walked(u)[i] \in Types /\ h[Walked(u)[i]] < h[u]
    BY <1>0 DEF Measured
  <1> DEFINE Y == Seq(Types)
             D == [p \in Types \X [Types -> Y] |-> WalkFrom(p[2], p[1])]
  <1>1. ASSUME NEW u \in Types, NEW f \in [Types -> Y]
        PROVE  WalkFrom(f, u) \in Y
    BY <1>m, WalkFromTyped
  <1>2. D \in [Types \X [Types -> Y] -> Y]
    BY <1>1
  <1>3. ASSUME NEW u \in Types, NEW f, NEW g,
               \A v \in Types : h[v] < h[u] => f[v] = g[v]
        PROVE  WalkFrom(f, u) = WalkFrom(g, u)
    <2>1. \A i \in DOMAIN Walked(u) : f[Walked(u)[i]] = g[Walked(u)[i]]
      BY <1>3, <1>m
    <2>2. WalkOver(f, u) = WalkOver(g, u)
      BY <2>1, WalkOverSame
    <2> QED BY <2>2 DEF WalkFrom
  <1>4. PICK f \in [Types -> Y] : \A u \in Types : f[u] = WalkFrom(f, u)
    <2>1. \A u \in Types, f \in [Types -> Y] : D[<<u, f>>] = WalkFrom(f, u)
      OBVIOUS
    <2>2. Y # {}
      <3>1. <<>> \in Seq(Types)
        OBVIOUS
      <3> QED BY <3>1
    <2> HIDE DEF D
    <2> HIDE DEF Y
    <2>3. LooksBelow(D, Types, Y, h)
      BY <1>3, <2>1 DEF LooksBelow
    <2>4. \E f \in [Types -> Y] : Solves(f, D, Types)
      BY <1>m, <1>2, <2>2, <2>3, Solution
    <2> QED BY <2>1, <2>4 DEF Solves
  <1>5. f = [u \in Types |-> WalkFrom(f, u)]
    BY <1>4
  <1> DEFINE r == CHOOSE r : r = [u \in Types |-> WalkFrom(r, u)]
  <1>6. r = [u \in Types |-> WalkFrom(r, u)]
    BY <1>5, Zenon
  <1>7. \A u : Walk(u) = r[u]
    BY Zenon DEF Walk, WalkFrom, WalkOver
  <1> HIDE DEF r
  <1>8. \A u \in Types : r[u] = WalkFrom(r, u)
    BY <1>6
  <1>9. \A u \in Types : r[u] \in Seq(Types)
    <2> DEFINE Bad == {u \in Types : r[u] \notin Seq(Types)}
    <2> SUFFICES ASSUME Bad # {} PROVE FALSE
      OBVIOUS
    <2>1. PICK u \in Bad : \A v \in Bad : h[u] <= h[v]
      <3>1. Bad \in SUBSET Types
        OBVIOUS
      <3> HIDE DEF Bad
      <3> QED BY <1>m, <3>1, Lowest
    <2>2. u \in Types /\ r[u] \notin Seq(Types)
      OBVIOUS
    <2>3. \A v \in Types : h[v] < h[u] => r[v] \in Seq(Types)
      BY <1>m, <2>1
    <2> HIDE DEF Bad
    <2>4. \A i \in DOMAIN Walked(u) : r[Walked(u)[i]] \in Seq(Types)
      BY <1>m, <2>2, <2>3
    <2>5. WalkFrom(r, u) \in Seq(Types)
      BY <2>2, <2>4, WalkFromTyped
    <2> QED BY <1>8, <2>2, <2>5
  <1> QED BY <1>7, <1>8, <1>9

LEMMA WalkAlone ==
  ASSUME TypeInv, NEW u \in Types, Walked(u) = <<>>
  PROVE  Walk(u) = <<u>>
  <1>1. PICK r : \A v \in Types : Walk(v) = r[v] /\ r[v] = WalkFrom(r, v) /\ r[v] \in Seq(Types)
    BY WalkSolves
  <1>2. WalkOver(r, u) = <<>>
    <2>1. DOMAIN Walked(u) = {}
      OBVIOUS
    <2>2. WalkOver(r, u) = [i \in {} |-> r[Walked(u)[i]]]
      BY <2>1 DEF WalkOver
    <2>3. WalkOver(r, u) \in [1 .. 0 -> {}]
      BY <2>2
    <2>4. WalkOver(r, u) \in Seq({}) /\ Len(WalkOver(r, u)) = 0
      BY <2>3
    <2> QED BY <2>4
  <1>3. FlattenSeq(WalkOver(r, u)) = <<>>
    <2>1. Len(<<>>) = 0
      OBVIOUS
    <2>2. FlattenSeq(<<>>) = <<>>
      BY <2>1, Zenon DEF FlattenSeq
    <2> QED BY <1>2, <2>2
  <1>4. Walk(u) = <<u>> \o <<>>
    BY <1>1, <1>3 DEF WalkFrom
  <1> QED BY <1>4

LEMMA WalkOne ==
  ASSUME TypeInv, NEW u \in Types, NEW b \in Types, Walked(u) = <<b>>
  PROVE  Walk(u) = <<u>> \o Walk(b) /\ Walk(b) \in Seq(Types)
  <1>1. PICK r : \A v \in Types : Walk(v) = r[v] /\ r[v] = WalkFrom(r, v) /\ r[v] \in Seq(Types)
    BY WalkSolves
  <1>2. DOMAIN WalkOver(r, u) = 1 .. 1 /\ WalkOver(r, u)[1] = r[b]
        /\ WalkOver(r, u) = [i \in 1 .. 1 |-> WalkOver(r, u)[i]]
    <2>1. Len(Walked(u)) = 1 /\ Walked(u)[1] = b
      OBVIOUS
    <2> QED BY <2>1, WalkOverIs
  <1>3. WalkOver(r, u) \in [1 .. 1 -> Seq(Types)]
    BY <1>1, <1>2
  <1>4. FlattenSeq(WalkOver(r, u)) = r[b]
    BY <1>2, <1>3, FlattenTyped
  <1> QED BY <1>1, <1>4 DEF WalkFrom

(* A walk along single bases comes to each type of the line once, and from *)
(* each to its base.                                                       *)
Ascends(w, u) ==
    /\ w \in Seq(Types) /\ Len(w) >= 1 /\ w[1] = u
    /\ \A i \in 1 .. Len(w) : /\ w[i] \in Line(u)
                              /\ w[i] = Object \/ (i < Len(w) /\ w[i + 1] = base[w[i]])
    /\ \A c \in Line(u) : \E i \in 1 .. Len(w) : w[i] = c
    /\ \A i, j \in 1 .. Len(w) : w[i] = w[j] => i = j

LEMMA ChainLonger ==
  ASSUME NEW u \in Types, u # Object, NEW b, b = base[u], NEW v, Ascends(v, b), u \notin Line(b),
         \A c : c \in Line(u) <=> c = u \/ c \in Line(b)
  PROVE  Ascends(<<u>> \o v, u)
  <1> DEFINE w == <<u>> \o v
             k == Len(v)
  <1>1. v \in Seq(Types) /\ k \in Nat /\ k >= 1
    BY DEF Ascends
  <1>2. <<u>> \in Seq(Types) /\ Len(<<u>>) = 1
    OBVIOUS
  <1>3. /\ w \in Seq(Types) /\ Len(w) = k + 1 /\ w[1] = u
        /\ \A i \in 1 .. k : w[i + 1] = v[i]
    BY <1>1, <1>2
  <1>4. /\ v[1] = b
        /\ \A i \in 1 .. k : v[i] \in Line(b) /\ (v[i] = Object \/ (i < k /\ v[i + 1] = base[v[i]]))
        /\ \A c \in Line(b) : \E i \in 1 .. k : v[i] = c
        /\ \A i, j \in 1 .. k : v[i] = v[j] => i = j
    BY DEF Ascends
  <1> HIDE DEF w
  <1> HIDE DEF k
  <1>5. \A i \in 1 .. k + 1 : i # 1 => i - 1 \in 1 .. k /\ (i - 1) + 1 = i
    BY <1>1
  <1>6. \A i \in 1 .. k + 1 : i # 1 => w[i] = v[i - 1] /\ w[i] \in Line(b)
    <2> SUFFICES ASSUME NEW i \in 1 .. k + 1, i # 1
                 PROVE  w[i] = v[i - 1] /\ w[i] \in Line(b)
      OBVIOUS
    <2>1. PICK j \in 1 .. k : j = i - 1 /\ j + 1 = i
      BY <1>5
    <2>2. w[j + 1] = v[j] /\ v[j] \in Line(b)
      BY <1>3, <1>4
    <2> QED BY <2>1, <2>2
  <1>7. ASSUME NEW i \in 1 .. k + 1
        PROVE  w[i] \in Line(u) /\ (w[i] = Object \/ (i < k + 1 /\ w[i + 1] = base[w[i]]))
    <2>1. CASE i = 1
      <3>1. 1 \in 1 .. k
        BY <1>1
      <3>2. w[2] = b /\ 1 < k + 1
        BY <1>1, <1>3, <1>4, <3>1
      <3> QED BY <1>3, <2>1, <3>2
    <2>2. CASE i # 1
      <3>1. i - 1 \in 1 .. k /\ w[i] = v[i - 1] /\ w[i] \in Line(b) /\ (i - 1) + 1 = i
        BY <1>5, <1>6, <2>2
      <3>2. v[i - 1] = Object \/ (i - 1 < k /\ v[i] = base[v[i - 1]])
        BY <1>4, <3>1
      <3>3. i - 1 < k => i \in 1 .. k /\ i < k + 1
        BY <1>1, <3>1
      <3>4. i - 1 < k => w[i + 1] = v[i]
        BY <1>3, <3>3
      <3> QED BY <3>1, <3>2, <3>3, <3>4
    <2> QED BY <2>1, <2>2
  <1>8. ASSUME NEW c \in Line(u) PROVE \E i \in 1 .. k + 1 : w[i] = c
    <2>1. CASE c = u
      <3>1. 1 \in 1 .. k + 1
        BY <1>1
      <3> QED BY <1>3, <2>1, <3>1
    <2>2. CASE c # u
      <3>1. PICK i \in 1 .. k : v[i] = c
        BY <1>4, <2>2
      <3>2. i + 1 \in 1 .. k + 1
        BY <1>1
      <3> QED BY <1>3, <3>1, <3>2
    <2> QED BY <2>1, <2>2
  <1>9. ASSUME NEW i \in 1 .. k + 1, NEW j \in 1 .. k + 1, w[i] = w[j] PROVE i = j
    <2>1. CASE i = 1 \/ j = 1
      BY <1>3, <1>6, <1>9, <2>1
    <2>2. CASE i # 1 /\ j # 1
      <3>1. i - 1 = j - 1
        BY <1>4, <1>5, <1>6, <1>9, <2>2
      <3> QED BY <3>1
    <2> QED BY <2>1, <2>2
  <1>10. k + 1 >= 1
    BY <1>1
  <1>11. Ascends(w, u)
    BY <1>3, <1>7, <1>8, <1>9, <1>10 DEF Ascends
  <1> QED BY <1>11 DEF w

LEMMA SingleChain ==
  ASSUME TypeInv, LayoutInv, NEW t \in ready, Single(t)
  PROVE  Ascends(Walk(t), t)
  <1> DEFINE Bad == {u \in Line(t) : ~Ascends(Walk(u), u)}
  <1>1. Line(t) \subseteq ready /\ t \in Line(t) /\ Upset(Line(t)) /\ ready \subseteq Types
    BY LineReady, LineUpset DEF TypeInv, TypesTypeOK
  <1>2. PICK h : Measured(h)
    BY MeasureExists
  <1>3. Bad = {}
    <2> SUFFICES ASSUME Bad # {} PROVE FALSE
      OBVIOUS
    <2>1. PICK u \in Bad : u = Object \/ \A i \in DOMAIN bases[u] : bases[u][i] \in ready \ Bad
      <3>1. Bad \subseteq ready
        BY <1>1
      <3> HIDE DEF Bad
      <3> QED BY <3>1, Upwards
    <2>2. u \in Line(t) /\ u \in ready /\ u \in Types /\ ~Ascends(Walk(u), u)
      BY <1>1
    <2>3. CASE u = Object
      <3>1. Walked(u) = <<>>
        BY <2>3 DEF LayoutInv, ObjectLaid, Walked, TypeInv, ReadyAbove
      <3>2. PICK w : w = Walk(u) /\ w = <<u>>
        BY <2>2, <3>1, WalkAlone
      <3>3. w \in Seq(Types) /\ Len(w) = 1 /\ w[1] = u
        BY <2>2, <3>2
      <3>4. Line(u) = {u}
        BY <2>3, LineOfObject
      <3>5. Ascends(w, u)
        BY <2>3, <3>3, <3>4 DEF Ascends
      <3> QED BY <2>2, <3>2, <3>5
    <2>4. CASE u # Object
      <3>1. u \in ready \ {Object}
        BY <2>2, <2>4
      <3>2. PICK b : b = base[u]
        OBVIOUS
      <3>3. bases[u] = <<b>>
        BY <2>2, <2>4, <3>2 DEF Single
      <3>4. DOMAIN bases[u] = {1} /\ bases[u][1] = b
        BY <3>3
      <3>5. b \in ready \ Bad /\ b \in Line(t)
        BY <1>1, <2>1, <2>2, <2>4, <3>4 DEF Upset
      <3>6. Ascends(Walk(b), b) /\ b \in ready /\ b \in Types
        BY <1>1, <3>5
      <3>7. /\ Walked(u) = <<b>> /\ \A c : c \in Line(u) <=> c = u \/ c \in Line(b)
        BY <3>1, <3>3, <3>4, OnLine
      <3>8. u \notin Line(b)
        <4>1. \A c \in Line(b) : h[c] <= h[b]
          BY <1>2, <3>6, LineBelow
        <4>2. h[b] < h[u] /\ h[u] \in Nat /\ h[b] \in Nat
          <5>1. 1 \in DOMAIN Walked(u) /\ Walked(u)[1] = b
            BY <3>7
          <5> QED BY <1>2, <2>2, <3>6, <5>1 DEF Measured
        <4>3. ~(h[u] <= h[b])
          BY <4>2
        <4> QED BY <4>1, <4>3
      <3>9. Walk(u) = <<u>> \o Walk(b)
        BY <2>2, <3>6, <3>7, WalkOne
      <3>10. Ascends(<<u>> \o Walk(b), u)
        BY <2>2, <2>4, <3>2, <3>6, <3>7, <3>8, ChainLonger
      <3> QED BY <2>2, <3>9, <3>10
    <2> QED BY <2>3, <2>4
  <1> QED BY <1>1, <1>3

LEMMA SuperNext ==
  ASSUME NEW t, Ascends(Walk(t), t), NEW c \in Line(t) \ {Object}
  PROVE  SuperStart(t, c) = base[c]
  <1>1. PICK mro : mro = Walk(t)
    OBVIOUS
  <1> DEFINE next == {j \in DOMAIN mro : /\ \E i \in 1 .. j - 1 : mro[i] = c
                                         /\ \A i \in 1 .. j - 1 : mro[i] # mro[j]}
  <1>2. SuperStart(t, c) = IF next # {} THEN mro[Min(next)]
                           ELSE IF base[t] # Null THEN base[t] ELSE Object
    BY <1>1, Zenon DEF SuperStart
  <1>3. PICK k \in Nat : /\ DOMAIN mro = 1 .. k
                         /\ \A i \in 1 .. k : mro[i] = Object \/ (i < k /\ mro[i + 1] = base[mro[i]])
                         /\ \A d \in Line(t) : \E i \in 1 .. k : mro[i] = d
                         /\ \A i, j \in 1 .. k : mro[i] = mro[j] => i = j
    BY <1>1 DEF Ascends
  <1>4. PICK p \in 1 .. k : mro[p] = c
    BY <1>3
  <1>5. p < k /\ mro[p + 1] = base[c] /\ p + 1 \in 1 .. k
    BY <1>3, <1>4
  <1>6. p + 1 \in next
    <2>1. \A i \in 1 .. (p + 1) - 1 : i \in 1 .. k /\ i # p + 1
      BY <1>5
    <2>2. p \in 1 .. (p + 1) - 1
      BY <1>4
    <2> QED BY <1>3, <1>4, <1>5, <2>1, <2>2
  <1>7. ASSUME NEW j \in next PROVE p + 1 <= j
    <2>1. j \in 1 .. k
      BY <1>3
    <2>2. PICK i \in 1 .. j - 1 : mro[i] = c
      OBVIOUS
    <2>3. i \in 1 .. k
      BY <2>1
    <2>4. i = p
      BY <1>3, <1>4, <2>2, <2>3
    <2> QED BY <2>1, <2>4
  <1>8. next \in SUBSET Nat
    BY <1>3
  <1> HIDE DEF next
  <1>9. Min(next) \in next /\ Min(next) <= p + 1
    BY <1>6, <1>8, MinLeast
  <1>10. Min(next) = p + 1
    <2>1. Min(next) \in Nat /\ p + 1 <= Min(next)
      BY <1>7, <1>8, <1>9
    <2> QED BY <1>9, <2>1
  <1> QED BY <1>2, <1>5, <1>6, <1>10

LEMMA LookupsHold ==
  ASSUME TypeInv, LayoutInv, LookupInv
  PROVE  LookupsAgree
  <1> SUFFICES ASSUME NEW t \in ready, NEW n \in TypeAttrs, \A a \in Line(t) : <<a, n>> \notin stale
               PROVE  /\ Plain(t, n) => TypeLookup(t, n) = Expected(t, n)
                                        /\ BaseLookup(t, n) = Expected(t, n)
                      /\ Single(t) => \A c \in Line(t) \ {Object} :
                                         TypeLookup(SuperStart(t, c), n) = Expected(base[c], n)
    BY Zenon DEF LookupsAgree
  <1>1. Clean(t, n) /\ t \in Line(t) /\ Upset(Line(t)) /\ Line(t) \subseteq ready
    BY LineReady, LineUpset DEF Clean
  <1>2. ASSUME Plain(t, n) PROVE TypeLookup(t, n) = Expected(t, n) /\ BaseLookup(t, n) = Expected(t, n)
    BY <1>1, <1>2, PlainAgrees
  <1>3. ASSUME Single(t), NEW c \in Line(t) \ {Object}
        PROVE  TypeLookup(SuperStart(t, c), n) = Expected(base[c], n)
    <2>1. Plain(t, n)
      BY <1>3 DEF Plain, Single
    <2>2. SuperStart(t, c) = base[c]
      BY <1>3, SingleChain, SuperNext
    <2>3. bases[c] = <<base[c]>>
      BY <1>3 DEF Single
    <2>4. 1 \in DOMAIN bases[c] /\ bases[c][1] = base[c]
      BY <2>3
    <2>5. base[c] \in Line(t)
      BY <1>1, <2>4 DEF Upset
    <2>6. TypeLookup(base[c], n) = Expected(base[c], n)
      BY <1>1, <2>1, <2>5, PlainAgrees
    <2> QED BY <2>2, <2>6
  <1> QED BY <1>2, <1>3

-----------------------------------------------------------------------------
(* Whatever the order in which types are made, every field of them keeps   *)
(* to its type: no base, slot or attribute is one that nothing defines.    *)
THEOREM TypesTyped == TypeSpec => []TypesTypeOK
  <1>1. TypeInv => TypesTypeOK
    BY DEF TypeInv
  <1> QED BY <1>1, TypeInitInv, TypeNextInv, PTL DEF TypeSpec

(* A ready type has in each slot the function of the nearest type up its   *)
(* chain of bases that defines one.                                        *)
THEOREM SlotsComeFromBases == TypeSpec => []SlotsInherited
  BY TypeInitInv, TypeNextInv, LocalGlobal, PTL DEF TypeSpec

(* The pointer to the dict of the instances of a class (create_vm_type) is *)
(* inside them, and outside the struct of each C type that the class       *)
(* derives from unless it is that type's own; for one C base, not of 24    *)
(* bytes, and no exceptions above.                                         *)
THEOREM LayoutsStayNested == TypeSpec => []LayoutsNest
  <1>1. TypeSpec => []TypeInv
    BY TypeInitInv, TypeNextInv, PTL DEF TypeSpec
  <1>2. TypeInit => LayoutInv
    BY LayoutInit
  <1>3. TypeInv /\ TypeInv' /\ LayoutInv /\ [TypeNext]_typeVars => LayoutInv'
    BY LayoutNext
  <1>4. TypeInv /\ LayoutInv => LayoutsNest
    BY LayoutsHold
  <1> QED BY <1>1, <1>2, <1>3, <1>4, PTL DEF TypeSpec

(* type_dict_lookup, mro_lookup and _PyType_Lookup find the same, what the *)
(* type or the first of its bases defines, and super() in a class what is  *)
(* behind the class; along single bases and among Python classes, where no *)
(* class above was assigned to after classes copied its dict.              *)
THEOREM LookupsFindTheSame == TypeSpec => []LookupsAgree
  <1>1. TypeSpec => []TypeInv
    BY TypeInitInv, TypeNextInv, PTL DEF TypeSpec
  <1>2. TypeInit => LayoutInv /\ LookupInv
    BY LayoutInit, LookupInit
  <1>3. TypeInv /\ TypeInv' /\ LayoutInv /\ [TypeNext]_typeVars => LayoutInv'
    BY LayoutNext
  <1>4. TypeInv /\ LayoutInv /\ LookupInv /\ [TypeNext]_typeVars => LookupInv'
    BY LookupNext
  <1>5. TypeInv /\ LayoutInv /\ LookupInv => LookupsAgree
    BY LookupsHold
  <1> QED BY <1>1, <1>2, <1>3, <1>4, <1>5, PTL DEF TypeSpec
=============================================================================
