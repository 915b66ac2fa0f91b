----------------------------- MODULE ImportProofs -----------------------------
(***************************************************************************)
(* Proofs about Import, for any modules, packages, programs and threads:   *)
(* every reference to a module has an owner or is one the code loses;       *)
(* importing keeps the promise of sys.modules (ImportContract); a module    *)
(* whose body has ended has every name the body binds, and an imported      *)
(* submodule stays bound in its package.                                    *)
(*                                                                         *)
(* ModuleRefsExact is not inductive: a module is created where refs is 0,   *)
(* and nothing but refs says that it is in no table, dict or frame then; a  *)
(* frame may be popped only if the one below waits for it; and the module   *)
(* that InitReturns binds has no name yet only because nothing but its own  *)
(* initialiser's return registers it.  ImportInv says this.                 *)
(*                                                                         *)
(* ImportsBind is not inductive either.  That a body has bound a name is    *)
(* known, while it runs, of its variables only (HasBound), and they reach   *)
(* the dict when it ends; what an import gets of each package is the        *)
(* package's module in the cache, whatever ran since it began (Asks); and a *)
(* package may not lose its submodule when the package's own body ends,     *)
(* which puts there only the variables its statements bind (OnlyBound).     *)
(* BindInv says this, with what the tables have to do with each other       *)
(* (TablesAgree) and with the frames (Cached).                              *)
(***************************************************************************)
EXTENDS Import, RecursionProofs, FiniteSetTheorems, SequenceTheorems, TLAPS

-----------------------------------------------------------------------------
(* Imports: the inductive invariant.                                        *)
FrameSet == [kind : {"script", "body", "c"}, name : Names \cup {Null},
             mod : Mods \cup {Null}, code : Seq(Statements), pc : Nat \ {0},
             locals : [Attrs -> Values], stage : {"run", "find", "source", "failed"},
             todo : Seq(Names), got : Seq(Mods)]

(* A frame is what its kind and its stage say.                              *)
Fits(f) ==
    /\ f \in FrameSet
    /\ f.kind = "script" \/ (f.mod \in Mods /\ f.name \in Names)
    /\ f.kind = "script" => f.mod = Null
    /\ f.kind = "c" => f.locals = Empty
    /\ f.stage # "run" => f.pc \in DOMAIN f.code
    /\ f.stage \in {"find", "source"} => Statement(f).op \in {"import", "from", "star"}
    /\ f.stage \in {"run", "failed"} => f.todo = <<>> /\ f.got = <<>>
    /\ f.stage = "source" => f.kind # "c" /\ f.todo # <<>>
    /\ f.stage = "find" /\ f.todo = <<>> => f.got # <<>>
    /\ f.kind = "c" => Len(f.todo) <= 1
    /\ f.kind = "c" /\ f.todo # <<>> => f.got = <<>>

(* The frame below one that loads a module is about to import that module.  *)
Awaits(f, g) ==
    /\ g.kind # "script" => f.todo # <<>> /\ Head(f.todo) = g.name
    /\ g.kind = "c" => f.stage = "find"
    /\ g.kind = "body" => f.stage = "source"

StackFits(s) ==
    /\ Len(s) <= MaxFrames
    /\ \A i \in DOMAIN s : Fits(s[i]) /\ (i = 1 <=> s[i].kind = "script")
    /\ \A i \in 1 .. Len(s) - 1 : Awaits(s[i], s[i + 1])

StacksFit == \A t \in Threads : StackFits(stack[t])

ModulesTyped ==
    /\ program \in Programs /\ gil \in Threads
    /\ stack \in [Threads -> Seq(FrameSet)]
    /\ registry \in [Names -> Mods \cup {Null}]
    /\ cache \in [Names -> Mods \cup {Null}]
    /\ dict \in [Mods -> [Attrs -> Values]]
    /\ refs \in [Mods -> Nat] /\ lost \in [Mods -> Nat]
    /\ finished \subseteq Mods

(* A frame of the stacks runs the initialiser of m.                         *)
Runs(ss, t, i, m) == i \in DOMAIN ss[t] /\ ss[t][i].kind = "c" /\ ss[t][i].mod = m

(* Something keeps m for good: once a module is there it stays.             *)
Kept(m) ==
    \/ \E t \in Threads, i \in Nat : Runs(stack, t, i, m)
    \/ \E n \in Names : registry[n] = m
    \/ lost[m] > 0

(* What frames use, what caches hold and what has attributes is kept.       *)
Uses(f, m) == f.mod = m \/ \E i \in DOMAIN f.got : f.got[i] = m

InUse(ss, m) == \E t \in Threads : \E i \in DOMAIN ss[t] : Uses(ss[t][i], m)

UsedKept ==
    \A m \in Mods :
        InUse(stack, m) \/ (\E n \in Names : cache[n] = m) \/ dict[m] # Empty => Kept(m)

(* A module whose initialiser runs is registered nowhere and nowhere else   *)
(* being initialised.                                                       *)
InitsPrivate ==
    \A t \in Threads, i \in Nat, m \in Mods : Runs(stack, t, i, m) =>
        /\ \A n \in Names : registry[n] # m
        /\ \A u \in Threads, j \in Nat : Runs(stack, u, j, m) => u = t /\ j = i

ImportInv == ModulesTyped /\ StacksFit /\ ModuleRefsExact /\ UsedKept /\ InitsPrivate
-----------------------------------------------------------------------------
(* Sequences: the running frame and the frames below it.                    *)
LEMMA FrontAndLast ==
  ASSUME NEW S, NEW s \in Seq(S), s # <<>>
  PROVE  /\ Front(s) \in Seq(S) /\ Last(s) \in S /\ Last(s) = s[Len(s)]
         /\ s = Append(Front(s), Last(s))
         /\ Len(s) = Len(Front(s)) + 1
  <1>1. Len(s) \in Nat /\ Len(s) > 0 /\ DOMAIN s = 1 .. Len(s)
    BY EmptySeq
  <1>2. Front(s) \in Seq(S) /\ Len(Front(s)) = Len(s) - 1
        /\ \A i \in 1 .. Len(s) - 1 : Front(s)[i] = s[i]
    BY <1>1, SubSeqProperties DEF Front
  <1>3. Last(s) \in S /\ Last(s) = s[Len(s)]
    BY <1>1 DEF Last
  <1> DEFINE r == Front(s)
             x == Last(s)
  <1> HIDE DEF r
  <1> HIDE DEF x
  <1>4. r \in Seq(S) /\ x \in S /\ Len(r) = Len(s) - 1
    BY <1>2, <1>3 DEF r, x
  <1> DEFINE a == Append(r, x)
  <1>5. a \in Seq(S) /\ Len(a) = Len(s)
    <2>1. a \in Seq(S) /\ Len(a) = Len(r) + 1
      BY <1>4, AppendProperties
    <2> QED BY <1>1, <1>4, <2>1
  <1>6. \A i \in 1 .. Len(s) : a[i] = s[i]
    <2>1. /\ \A i \in 1 .. Len(s) - 1 : r[i] = s[i]
          /\ x = s[Len(s)]
      BY <1>2, <1>3 DEF r, x
    <2> QED BY <1>1, <1>4, <2>1, AppendProperties
  <1> HIDE DEF a
  <1>7. a = s
    BY <1>5, <1>6, SeqEqual
  <1> QED BY <1>1, <1>2, <1>3, <1>7 DEF a, r, x

LEMMA AppendedFront ==
  ASSUME NEW S, NEW r \in Seq(S), NEW f \in S
  PROVE  /\ Append(r, f) \in Seq(S) /\ Append(r, f) # <<>>
         /\ Front(Append(r, f)) = r /\ Last(Append(r, f)) = f
         /\ Len(Append(r, f)) = Len(r) + 1
         /\ \A i \in 1 .. Len(r) : Append(r, f)[i] = r[i]
         /\ Append(r, f)[Len(r) + 1] = f
  <1> DEFINE a == Append(r, f)
  <1>1. a \in Seq(S) /\ a # <<>> /\ Len(a) = Len(r) + 1 /\ Len(r) \in Nat
        /\ \A i \in 1 .. Len(r) : a[i] = r[i]
    BY AppendProperties
  <1>2. a[Len(r) + 1] = f
    BY AppendProperties
  <1> HIDE DEF a
  <1>3. Front(a) \in Seq(S) /\ Len(Front(a)) = Len(r) /\ \A i \in 1 .. Len(r) : Front(a)[i] = r[i]
    BY <1>1, SubSeqProperties DEF Front
  <1>4. Front(a) = r
    BY <1>1, <1>3, SeqEqual
  <1>5. Last(a) = f
    BY <1>1, <1>2 DEF Last
  <1> QED BY <1>1, <1>2, <1>4, <1>5 DEF a

-----------------------------------------------------------------------------
(* Counting: what one change of a table does to the number of references.   *)
One(x, m) == IF x = m THEN 1 ELSE 0

(* Some members of a set give way to others.                                *)
Moved(S, Removed, Added, Outcome) ==
    /\ IsFiniteSet(S) /\ IsFiniteSet(Added) /\ Removed \subseteq S
    /\ Added \cap (S \ Removed) = {}
    /\ Outcome = (S \ Removed) \cup Added

LEMMA CountMoved ==
  ASSUME NEW S, NEW Removed, NEW Added, NEW Outcome, Moved(S, Removed, Added, Outcome)
  PROVE  /\ IsFiniteSet(Outcome)
         /\ Cardinality(Outcome) = Cardinality(S) - Cardinality(Removed) + Cardinality(Added)
         /\ Cardinality(Removed) \in Nat /\ Cardinality(Added) \in Nat
         /\ Cardinality(S) \in Nat /\ Cardinality(Outcome) \in Nat
  <1> DEFINE Rest == S \ Removed
  <1>1. /\ IsFiniteSet(S) /\ IsFiniteSet(Added) /\ Removed \in SUBSET S
        /\ Rest \cap Added = {} /\ Outcome = Rest \cup Added
    BY DEF Moved
  <1>2. IsFiniteSet(Removed)
    BY <1>1, FS_Subset
  <1>3. IsFiniteSet(Rest) /\ Cardinality(Rest) = Cardinality(S) - Cardinality(S \cap Removed)
    BY <1>1, FS_Difference
  <1>4. Cardinality(S \cap Removed) = Cardinality(Removed)
    <2>1. S \cap Removed = Removed
      BY <1>1
    <2> QED BY <2>1
  <1> HIDE DEF Rest
  <1>5. /\ IsFiniteSet(Rest \cup Added)
        /\ Cardinality(Rest \cup Added) = Cardinality(Rest) + Cardinality(Added) - Cardinality(Rest \cap Added)
    BY <1>1, <1>3, FS_Union
  <1>6. Cardinality(Rest \cap Added) = 0
    BY <1>1, FS_EmptySet, Zenon
  <1>7. /\ Cardinality(S) \in Nat /\ Cardinality(Removed) \in Nat /\ Cardinality(Added) \in Nat
        /\ Cardinality(Rest) \in Nat
    BY <1>1, <1>2, <1>3, FS_CardinalityType
  <1>8. IsFiniteSet(Outcome) /\ Cardinality(Outcome) = Cardinality(Rest) + Cardinality(Added) - Cardinality(Rest \cap Added)
    BY <1>1, <1>5
  <1>9. Cardinality(Outcome) \in Nat
    BY <1>8, FS_CardinalityType
  <1> QED BY <1>3, <1>4, <1>6, <1>7, <1>8, <1>9

LEMMA CountOne ==
  ASSUME NEW x, NEW v, NEW m
  PROVE  /\ IsFiniteSet({y \in {x} : v = m})
         /\ Cardinality({y \in {x} : v = m}) = One(v, m)
  <1>1. CASE v = m
    <2>1. {y \in {x} : v = m} = {x}
      BY <1>1
    <2> QED BY <1>1, <2>1, FS_Singleton DEF One
  <1>2. CASE v # m
    <2>1. {y \in {x} : v = m} = {}
      BY <1>2
    <2> QED BY <1>2, <2>1, FS_EmptySet DEF One
  <1> QED BY <1>1, <1>2

Lacks(T, m) == \A x \in DOMAIN T : T[x] # m

LEMMA TableCount ==
  ASSUME NEW D, IsFiniteSet(D), NEW R, NEW T \in [D -> R], NEW m
  PROVE  /\ InTable(T, m) \in Nat
         /\ InTable(T, m) = 0 <=> Lacks(T, m)
  <1> DEFINE P == {x \in DOMAIN T : T[x] = m}
  <1>1. P \in SUBSET D
    OBVIOUS
  <1>2. IsFiniteSet(P) /\ Cardinality(P) \in Nat
    BY <1>1, FS_Subset, FS_CardinalityType
  <1>3. Cardinality(P) = 0 <=> P = {}
    BY <1>2, FS_EmptySet
  <1>4. P = {} <=> Lacks(T, m)
    BY DEF Lacks
  <1> QED BY <1>2, <1>3, <1>4 DEF InTable

(* A table with v in the place of old.                                      *)
Replaced(T, U, old, v, m) == InTable(U, m) = InTable(T, m) - One(old, m) + One(v, m)

LEMMA TableSet ==
  ASSUME NEW D, IsFiniteSet(D), NEW R, NEW T \in [D -> R], NEW m, NEW n \in D, NEW v,
         NEW U, U = [T EXCEPT ![n] = v]
  PROVE  Replaced(T, U, T[n], v, m)
  <1> DEFINE S == {x \in DOMAIN T : T[x] = m}
             Removed == {x \in {n} : T[n] = m}
             Added == {x \in {n} : v = m}
             Outcome == {x \in DOMAIN U : U[x] = m}
  <1>1. IsFiniteSet(S)
    <2>1. S \in SUBSET D
      OBVIOUS
    <2> QED BY <2>1, FS_Subset
  <1>2. IsFiniteSet(Added) /\ Cardinality(Added) = One(v, m) /\ Cardinality(Removed) = One(T[n], m)
    BY CountOne
  <1>3. Moved(S, Removed, Added, Outcome)
    <2>1. DOMAIN U = D /\ \A x \in D : U[x] = IF x = n THEN v ELSE T[x]
      OBVIOUS
    <2>2. Outcome = (S \ Removed) \cup Added
      BY <2>1
    <2> QED BY <1>1, <1>2, <2>2 DEF Moved
  <1> HIDE DEF S
  <1> HIDE DEF Removed
  <1> HIDE DEF Added
  <1> HIDE DEF Outcome
  <1>4. Cardinality(Outcome) = Cardinality(S) - Cardinality(Removed) + Cardinality(Added)
    BY <1>3, CountMoved
  <1> QED BY <1>2, <1>4 DEF Replaced, InTable, S, Outcome

LEMMA SequenceCount ==
  ASSUME NEW S, NEW s \in Seq(S), NEW m
  PROVE  /\ InTable(s, m) \in Nat
         /\ InTable(<<>>, m) = 0
         /\ \A x \in S : InTable(Append(s, x), m) = InTable(s, m) + One(x, m)
  <1> DEFINE n == Len(s)
             P == {i \in DOMAIN s : s[i] = m}
  <1>1. n \in Nat /\ DOMAIN s = 1 .. n /\ IsFiniteSet(1 .. n)
    BY FS_Interval
  <1>2. IsFiniteSet(P)
    <2>1. P \in SUBSET (1 .. n)
      BY <1>1
    <2> QED BY <1>1, <2>1, FS_Subset
  <1>3. InTable(<<>>, m) = 0
    <2>1. {i \in DOMAIN <<>> : (<<>>)[i] = m} = {}
      OBVIOUS
    <2> QED BY <2>1, FS_EmptySet DEF InTable
  <1>4. ASSUME NEW x \in S PROVE InTable(Append(s, x), m) = InTable(s, m) + One(x, m)
    <2> DEFINE Added == {y \in {n + 1} : x = m}
               a == Append(s, x)
               Outcome == {i \in DOMAIN a : a[i] = m}
    <2>1. DOMAIN a = 1 .. n + 1 /\ (\A i \in 1 .. n : a[i] = s[i]) /\ a[n + 1] = x
      BY AppendProperties
    <2>2. IsFiniteSet(Added) /\ Cardinality(Added) = One(x, m)
      BY CountOne
    <2>3. Moved(P, {}, Added, Outcome)
      <3> HIDE DEF a
      <3> HIDE DEF n
      <3>1. Outcome = (P \ {}) \cup Added
        BY <1>1, <2>1
      <3>2. Added \cap (P \ {}) = {}
        BY <1>1
      <3> QED BY <1>2, <2>2, <3>1, <3>2 DEF Moved
    <2> HIDE DEF Added
    <2> HIDE DEF P
    <2> HIDE DEF Outcome
    <2>4. /\ Cardinality(Outcome) = Cardinality(P) - Cardinality({}) + Cardinality(Added)
          /\ Cardinality(P) \in Nat
      BY <2>3, CountMoved
    <2>5. Cardinality({}) = 0
      BY FS_EmptySet
    <2>6. One(x, m) \in Nat
      BY DEF One
    <2>7. Cardinality(Outcome) = Cardinality(P) + One(x, m)
      BY <2>2, <2>4, <2>5, <2>6
    <2> QED BY <2>7 DEF InTable, P, Outcome
  <1> QED BY <1>2, <1>3, <1>4, FS_CardinalityType DEF InTable
-----------------------------------------------------------------------------
(* The references that frames, stacks and dicts hold.                       *)
USE ModulesAssumption

Mine(f, m)   == Cardinality(HeldBy(f, m))
InStack(s, m) == Cardinality(HeldInStack(s, m))
InStacks(s, m) == Cardinality(HeldInStacks(s, m))

LEMMA FrameHolds ==
  ASSUME NEW f \in FrameSet, NEW m
  PROVE  /\ IsFiniteSet(HeldBy(f, m))
         /\ Mine(f, m) = InTable(f.locals, m) + InTable(f.got, m) + One(f.mod, m)
         /\ Mine(f, m) \in Nat
  <1> DEFINE L == {"locals"} \X {a \in Attrs : f.locals[a] = m}
             G == {"got"} \X {i \in DOMAIN f.got : f.got[i] = m}
             M == IF f.mod = m THEN {<<"module", 1>>} ELSE {}
  <1>1. f.locals \in [Attrs -> Values] /\ f.got \in Seq(Mods)
    BY DEF FrameSet
  <1>2. IsFiniteSet(L) /\ Cardinality(L) = InTable(f.locals, m)
    <2>1. {a \in Attrs : f.locals[a] = m} \in SUBSET Attrs
      OBVIOUS
    <2>2. IsFiniteSet({a \in Attrs : f.locals[a] = m})
      BY <2>1, FS_Subset
    <2>3. InTable(f.locals, m) = Cardinality({a \in Attrs : f.locals[a] = m})
      <3>1. DOMAIN f.locals = Attrs
        BY <1>1
      <3> QED BY <3>1 DEF InTable
    <2>4. InTable(f.locals, m) \in Nat
      BY <2>2, <2>3, FS_CardinalityType
    <2> DEFINE X == {"locals"}
               Y == {a \in Attrs : f.locals[a] = m}
    <2>5. IsFiniteSet(X) /\ Cardinality(X) = 1
      BY FS_Singleton
    <2> HIDE DEF X
    <2> HIDE DEF Y
    <2>6. IsFiniteSet(X \X Y) /\ Cardinality(X \X Y) = Cardinality(X) * Cardinality(Y)
      BY <2>2, <2>5, FS_Product DEF Y
    <2> DEFINE c == Cardinality(Y)
               e == Cardinality(X)
    <2>7. c \in Nat /\ e = 1 /\ Cardinality(X \X Y) = e * c /\ InTable(f.locals, m) = c
      BY <2>3, <2>4, <2>5, <2>6 DEF Y
    <2> HIDE DEF c
    <2> HIDE DEF e
    <2>8. Cardinality(X \X Y) = InTable(f.locals, m)
      BY <2>7
    <2>9. X \X Y = L
      BY DEF X, Y
    <2> HIDE DEF L
    <2> QED BY <2>6, <2>8, <2>9
  <1>3. IsFiniteSet(G) /\ Cardinality(G) = InTable(f.got, m)
    <2> DEFINE X == {"got"}
               Y == {i \in DOMAIN f.got : f.got[i] = m}
    <2>1. Y \in SUBSET (1 .. Len(f.got)) /\ IsFiniteSet(1 .. Len(f.got))
      <3> DEFINE s == f.got
      <3>1. s \in Seq(Mods) /\ DOMAIN s = 1 .. Len(s) /\ Len(s) \in Nat
        BY <1>1
      <3>2. 1 \in Int /\ Len(s) \in Int
        BY <3>1
      <3>3. Y \in SUBSET DOMAIN s
        OBVIOUS
      <3> HIDE DEF Y
      <3> HIDE DEF s
      <3>4. Y \in SUBSET (1 .. Len(s)) /\ IsFiniteSet(1 .. Len(s))
        BY <3>1, <3>2, <3>3, FS_Interval
      <3> QED BY <3>4 DEF s
    <2>2. IsFiniteSet(Y)
      BY <2>1, FS_Subset
    <2>3. InTable(f.got, m) = Cardinality(Y)
      BY DEF InTable
    <2>4. InTable(f.got, m) \in Nat
      BY <2>2, <2>3, FS_CardinalityType
    <2>5. IsFiniteSet(X) /\ Cardinality(X) = 1
      BY FS_Singleton
    <2> HIDE DEF X
    <2> HIDE DEF Y
    <2>6. IsFiniteSet(X \X Y) /\ Cardinality(X \X Y) = Cardinality(X) * Cardinality(Y)
      BY <2>2, <2>5, FS_Product
    <2> DEFINE c == Cardinality(Y)
               e == Cardinality(X)
    <2>7. c \in Nat /\ e = 1 /\ Cardinality(X \X Y) = e * c /\ InTable(f.got, m) = c
      BY <2>3, <2>4, <2>5, <2>6
    <2> HIDE DEF c
    <2> HIDE DEF e
    <2>8. Cardinality(X \X Y) = InTable(f.got, m)
      BY <2>7
    <2>9. X \X Y = G
      BY DEF X, Y
    <2> HIDE DEF G
    <2> QED BY <2>6, <2>8, <2>9
  <1>4. IsFiniteSet(M) /\ Cardinality(M) = One(f.mod, m)
    BY FS_Singleton, FS_EmptySet DEF One
  <1>5. Moved(L, {}, G, L \cup G)
    <2>1. L \cup G = (L \ {}) \cup G /\ G \cap (L \ {}) = {}
      OBVIOUS
    <2> HIDE DEF L
    <2> HIDE DEF G
    <2> QED BY <1>2, <1>3, <2>1 DEF Moved
  <1> DEFINE LG == L \cup G
  <1>6. M \cap LG = {}
    OBVIOUS
  <1>7. HeldBy(f, m) = LG \cup M
    BY DEF HeldBy
  <1> HIDE DEF L
  <1> HIDE DEF G
  <1> HIDE DEF M
  <1>8. /\ IsFiniteSet(LG) /\ Cardinality(LG) = Cardinality(L) - Cardinality({}) + Cardinality(G)
        /\ Cardinality(L) \in Nat /\ Cardinality(G) \in Nat
    BY <1>5, CountMoved
  <1> HIDE DEF LG
  <1>9. Moved(LG, {}, M, HeldBy(f, m))
    BY <1>4, <1>6, <1>7, <1>8 DEF Moved
  <1>10. /\ IsFiniteSet(HeldBy(f, m))
         /\ Cardinality(HeldBy(f, m)) = Cardinality(LG) - Cardinality({}) + Cardinality(M)
         /\ Cardinality(HeldBy(f, m)) \in Nat
    BY <1>9, CountMoved
  <1>11. Cardinality({}) = 0
    BY FS_EmptySet
  <1> QED BY <1>2, <1>3, <1>4, <1>8, <1>10, <1>11 DEF Mine

LEMMA StackHolds ==
  ASSUME NEW s \in Seq(FrameSet), NEW f \in FrameSet, NEW m
  PROVE  /\ IsFiniteSet(HeldInStack(s, m)) /\ InStack(s, m) \in Nat
         /\ InStack(<<>>, m) = 0
         /\ InStack(Append(s, f), m) = InStack(s, m) + Mine(f, m)
  <1> DEFINE n == Len(s)
             H == HeldInStack(s, m)
             U == {{i} \X HeldBy(s[i], m) : i \in DOMAIN s}
             a == Append(s, f)
             Added == {n + 1} \X HeldBy(f, m)
  <1>1. n \in Nat /\ DOMAIN s = 1 .. n /\ IsFiniteSet(1 .. n)
    BY FS_Interval
  <1>2. \A X \in U : IsFiniteSet(X)
    <2>1. ASSUME NEW i \in 1 .. n PROVE IsFiniteSet({i} \X HeldBy(s[i], m))
      <3>1. s[i] \in FrameSet
        BY <1>1
      <3>2. IsFiniteSet(HeldBy(s[i], m))
        BY <3>1, FrameHolds
      <3>3. IsFiniteSet({i})
        BY FS_Singleton
      <3> QED BY <3>2, <3>3, FS_Product
    <2> QED BY <1>1, <2>1
  <1>3. IsFiniteSet(U)
    <2> DEFINE e == [i \in 1 .. n |-> {i} \X HeldBy(s[i], m)]
    <2>1. e \in Surjection(1 .. n, U)
      BY <1>1 DEF Surjection
    <2> HIDE DEF e
    <2> HIDE DEF U
    <2> QED BY <1>1, <2>1, FS_Surjection
  <1>4. IsFiniteSet(H)
    BY <1>2, <1>3, FS_UNION DEF HeldInStack
  <1>5. InStack(<<>>, m) = 0
    <2>1. HeldInStack(<<>>, m) = {}
      BY DEF HeldInStack
    <2> QED BY <2>1, FS_EmptySet DEF InStack
  <1>6. IsFiniteSet(Added) /\ Cardinality(Added) = Mine(f, m) /\ Mine(f, m) \in Nat
    <2> DEFINE X == {n + 1}
               Y == HeldBy(f, m)
    <2>1. IsFiniteSet(X) /\ Cardinality(X) = 1
      BY FS_Singleton
    <2>2. IsFiniteSet(Y) /\ Cardinality(Y) = Mine(f, m) /\ Mine(f, m) \in Nat
      BY FrameHolds DEF Mine
    <2> HIDE DEF X
    <2> HIDE DEF Y
    <2>3. IsFiniteSet(X \X Y) /\ Cardinality(X \X Y) = Cardinality(X) * Cardinality(Y)
      BY <2>1, <2>2, FS_Product
    <2> QED BY <2>1, <2>2, <2>3 DEF X, Y
  <1>7. Moved(H, {}, Added, HeldInStack(a, m))
    <2>1. DOMAIN a = 1 .. n + 1 /\ (\A i \in 1 .. n : a[i] = s[i]) /\ a[n + 1] = f
      BY AppendProperties
    <2> HIDE DEF a
    <2>2. ASSUME NEW z PROVE z \in HeldInStack(a, m) <=> z \in H \/ z \in Added
      <3>1. z \in HeldInStack(a, m) <=> \E i \in 1 .. n + 1 : z \in {i} \X HeldBy(a[i], m)
        BY <2>1 DEF HeldInStack
      <3>2. z \in H <=> \E i \in 1 .. n : z \in {i} \X HeldBy(s[i], m)
        BY <1>1 DEF HeldInStack
      <3>3. \A i \in 1 .. n + 1 : i \in 1 .. n \/ i = n + 1
        BY <1>1
      <3>4. \A i \in 1 .. n : i \in 1 .. n + 1 /\ HeldBy(a[i], m) = HeldBy(s[i], m)
        BY <1>1, <2>1
      <3>5. n + 1 \in 1 .. n + 1
        BY <1>1
      <3> HIDE DEF H
      <3> HIDE DEF n
      <3> QED BY <2>1, <3>1, <3>2, <3>3, <3>4, <3>5
    <2>3. ASSUME NEW z \in Added PROVE z \notin H
      <3>1. z[1] = n + 1
        OBVIOUS
      <3>2. z \in H => \E i \in 1 .. n : z \in {i} \X HeldBy(s[i], m)
        BY <1>1 DEF HeldInStack
      <3>3. z \in H => z[1] \in 1 .. n
        BY <3>2
      <3> QED BY <1>1, <3>1, <3>3
    <2> HIDE DEF H
    <2> HIDE DEF Added
    <2>4. HeldInStack(a, m) = (H \ {}) \cup Added
      BY <2>2
    <2>5. Added \cap (H \ {}) = {}
      BY <2>3
    <2> QED BY <1>4, <1>6, <2>4, <2>5 DEF Moved
  <1> HIDE DEF H
  <1> HIDE DEF Added
  <1>8. /\ Cardinality(HeldInStack(a, m)) = Cardinality(H) - Cardinality({}) + Cardinality(Added)
        /\ Cardinality(H) \in Nat
    BY <1>7, CountMoved
  <1>9. Cardinality({}) = 0
    BY FS_EmptySet
  <1>10. Cardinality(HeldInStack(a, m)) = Cardinality(H) + Mine(f, m)
    BY <1>6, <1>8, <1>9
  <1> QED BY <1>4, <1>5, <1>8, <1>10 DEF InStack, H

LEMMA StackFinite ==
  ASSUME NEW s \in Seq(FrameSet), NEW m
  PROVE  IsFiniteSet(HeldInStack(s, m)) /\ InStack(s, m) \in Nat
  <1>1. CASE s = <<>>
    <2>1. HeldInStack(<<>>, m) = {}
      BY DEF HeldInStack
    <2>2. IsFiniteSet({}) /\ Cardinality({}) = 0
      BY FS_EmptySet
    <2>3. HeldInStack(s, m) = {}
      BY <1>1, <2>1
    <2> QED BY <2>2, <2>3 DEF InStack
  <1>2. CASE s # <<>>
    <2>1. PICK f \in FrameSet : TRUE
      BY <1>2, FrontAndLast
    <2> QED BY <2>1, StackHolds
  <1> QED BY <1>1, <1>2

(* One thread's stack changes.                                              *)
StackReplaced(ss, t, s, m, new) ==
    InStacks(new, m) = InStacks(ss, m) - InStack(ss[t], m) + InStack(s, m)

LEMMA StackSet ==
  ASSUME NEW ss \in [Threads -> Seq(FrameSet)], NEW t \in Threads, NEW s \in Seq(FrameSet),
         NEW m, NEW new, new = [ss EXCEPT ![t] = s]
  PROVE  /\ InStacks(ss, m) \in Nat /\ IsFiniteSet(HeldInStacks(ss, m))
         /\ StackReplaced(ss, t, s, m, new)
  <1> DEFINE H == HeldInStacks(ss, m)
             U == {{u} \X HeldInStack(ss[u], m) : u \in Threads}
             Removed == {t} \X HeldInStack(ss[t], m)
             Added == {t} \X HeldInStack(s, m)
  <1>1. \A X \in U : IsFiniteSet(X)
    <2>1. ASSUME NEW u \in Threads PROVE IsFiniteSet({u} \X HeldInStack(ss[u], m))
      <3>1. IsFiniteSet(HeldInStack(ss[u], m)) /\ IsFiniteSet({u})
        BY StackFinite, FS_Singleton
      <3> QED BY <3>1, FS_Product
    <2> QED BY <2>1
  <1>2. IsFiniteSet(U)
    <2> DEFINE e == [u \in Threads |-> {u} \X HeldInStack(ss[u], m)]
    <2>1. e \in Surjection(Threads, U)
      BY DEF Surjection
    <2> HIDE DEF e
    <2> HIDE DEF U
    <2> QED BY <2>1, FS_Surjection
  <1>3. IsFiniteSet(H)
    BY <1>1, <1>2, FS_UNION DEF HeldInStacks
  <1>4. ASSUME NEW r \in Seq(FrameSet)
        PROVE  /\ IsFiniteSet({t} \X HeldInStack(r, m))
               /\ Cardinality({t} \X HeldInStack(r, m)) = InStack(r, m)
               /\ InStack(r, m) \in Nat
    <2> DEFINE X == {t}
               Y == HeldInStack(r, m)
    <2>1. IsFiniteSet(X) /\ Cardinality(X) = 1
      BY FS_Singleton
    <2>2. IsFiniteSet(Y) /\ Cardinality(Y) = InStack(r, m) /\ InStack(r, m) \in Nat
      BY StackFinite DEF InStack
    <2> HIDE DEF X
    <2> HIDE DEF Y
    <2>3. IsFiniteSet(X \X Y) /\ Cardinality(X \X Y) = Cardinality(X) * Cardinality(Y)
      BY <2>1, <2>2, FS_Product
    <2> QED BY <2>1, <2>2, <2>3 DEF X, Y
  <1>5. /\ IsFiniteSet(Added) /\ Cardinality(Added) = InStack(s, m) /\ InStack(s, m) \in Nat
        /\ Cardinality(Removed) = InStack(ss[t], m) /\ InStack(ss[t], m) \in Nat
    BY <1>4
  <1>6. Moved(H, Removed, Added, HeldInStacks(new, m))
    <2>1. \A u \in Threads : new[u] = IF u = t THEN s ELSE ss[u]
      OBVIOUS
    <2>2. ASSUME NEW z
          PROVE  /\ z \in HeldInStacks(new, m) <=> (z \in H /\ z \notin Removed) \/ z \in Added
                 /\ z \in Removed => z \in H
                 /\ z \in Added /\ z \in H => z \in Removed
      <3>1. z \in HeldInStacks(new, m) <=> \E u \in Threads : z \in {u} \X HeldInStack(new[u], m)
        BY DEF HeldInStacks
      <3>2. z \in H <=> \E u \in Threads : z \in {u} \X HeldInStack(ss[u], m)
        BY DEF HeldInStacks
      <3>3. \A u \in Threads \ {t} : new[u] = ss[u]
        BY <2>1
      <3>4. new[t] = s
        BY <2>1
      <3>5. \A u \in Threads \ {t} : ~(z \in {u} \X HeldInStack(ss[u], m) /\ (z \in Removed \/ z \in Added))
        OBVIOUS
      <3> HIDE DEF H
      <3> QED BY <3>1, <3>2, <3>3, <3>4, <3>5
    <2> HIDE DEF H
    <2> HIDE DEF Removed
    <2> HIDE DEF Added
    <2>3. HeldInStacks(new, m) = (H \ Removed) \cup Added
      BY <2>2
    <2>4. Added \cap (H \ Removed) = {} /\ Removed \subseteq H
      BY <2>2
    <2> QED BY <1>3, <1>5, <2>3, <2>4 DEF Moved
  <1> HIDE DEF H
  <1> HIDE DEF Removed
  <1> HIDE DEF Added
  <1>7. /\ Cardinality(HeldInStacks(new, m)) = Cardinality(H) - Cardinality(Removed) + Cardinality(Added)
        /\ Cardinality(H) \in Nat
    BY <1>6, CountMoved
  <1>8. StackReplaced(ss, t, s, m, new)
    <2>1. InStacks(ss, m) = Cardinality(H) /\ InStacks(new, m) = Cardinality(HeldInStacks(new, m))
      BY DEF InStacks, H
    <2> HIDE DEF H
    <2> QED BY <1>5, <1>7, <2>1 DEF StackReplaced
  <1> QED BY <1>3, <1>7, <1>8 DEF InStacks, H

LEMMA StacksHold ==
  ASSUME NEW ss \in [Threads -> Seq(FrameSet)], NEW t \in Threads, NEW s \in Seq(FrameSet),
         NEW m
  PROVE  /\ InStacks(ss, m) \in Nat /\ IsFiniteSet(HeldInStacks(ss, m))
         /\ InStacks([ss EXCEPT ![t] = s], m) = InStacks(ss, m) - InStack(ss[t], m) + InStack(s, m)
  <1>1. PICK new : new = [ss EXCEPT ![t] = s]
    OBVIOUS
  <1>2. /\ InStacks(ss, m) \in Nat /\ IsFiniteSet(HeldInStacks(ss, m))
        /\ StackReplaced(ss, t, s, m, new)
    BY <1>1, StackSet
  <1> QED BY <1>1, <1>2 DEF StackReplaced

LEMMA DictsHold ==
  ASSUME NEW d \in [Mods -> [Attrs -> Values]], NEW x \in Mods, NEW e \in [Attrs -> Values],
         NEW m
  PROVE  /\ InDicts(d, m) \in Nat
         /\ InDicts([d EXCEPT ![x] = e], m) = InDicts(d, m) - InTable(d[x], m) + InTable(e, m)
  <1> DEFINE S == {p \in Mods \X Attrs : d[p[1]][p[2]] = m}
             d2 == [d EXCEPT ![x] = e]
             S2 == {p \in Mods \X Attrs : d2[p[1]][p[2]] = m}
             Removed == {x} \X {a \in Attrs : d[x][a] = m}
             Added == {x} \X {a \in Attrs : e[a] = m}
  <1>1. IsFiniteSet(S)
    <2> DEFINE P == Mods \X Attrs
    <2>1. IsFiniteSet(P)
      BY FS_Product
    <2>2. S \in SUBSET P
      OBVIOUS
    <2> HIDE DEF P
    <2> HIDE DEF S
    <2> QED BY <2>1, <2>2, FS_Subset
  <1>2. ASSUME NEW f \in [Attrs -> Values]
        PROVE  /\ IsFiniteSet({x} \X {a \in Attrs : f[a] = m})
               /\ Cardinality({x} \X {a \in Attrs : f[a] = m}) = InTable(f, m)
    <2> DEFINE X == {x}
               Y == {a \in Attrs : f[a] = m}
    <2>1. IsFiniteSet(X) /\ Cardinality(X) = 1
      BY FS_Singleton
    <2>2. Y \in SUBSET Attrs
      OBVIOUS
    <2>3. IsFiniteSet(Y) /\ Cardinality(Y) \in Nat
      BY <2>2, FS_Subset, FS_CardinalityType
    <2>4. Cardinality(Y) = InTable(f, m)
      BY DEF InTable
    <2> HIDE DEF X
    <2> HIDE DEF Y
    <2>5. IsFiniteSet(X \X Y) /\ Cardinality(X \X Y) = Cardinality(X) * Cardinality(Y)
      BY <2>1, <2>3, FS_Product
    <2> QED BY <2>1, <2>3, <2>4, <2>5 DEF X, Y
  <1>3. /\ IsFiniteSet(Added) /\ Cardinality(Added) = InTable(e, m)
        /\ Cardinality(Removed) = InTable(d[x], m)
    BY <1>2
  <1>4. Moved(S, Removed, Added, S2)
    <2>1. \A y \in Mods : d2[y] = IF y = x THEN e ELSE d[y]
      OBVIOUS
    <2> HIDE DEF d2
    <2>2. ASSUME NEW z
          PROVE  /\ z \in S2 <=> (z \in S /\ z \notin Removed) \/ z \in Added
                 /\ z \in Removed => z \in S
                 /\ z \in Added /\ z \in S => z \in Removed
      <3>1. CASE z \in Mods \X Attrs
        <4>1. PICK y \in Mods, a \in Attrs : z = <<y, a>>
          BY <3>1
        <4>2. z \in S2 <=> d2[y][a] = m
          BY <4>1
        <4>3. z \in S <=> d[y][a] = m
          BY <4>1
        <4>4. z \in Removed <=> y = x /\ d[x][a] = m
          BY <4>1
        <4>5. z \in Added <=> y = x /\ e[a] = m
          BY <4>1
        <4> QED BY <2>1, <4>2, <4>3, <4>4, <4>5
      <3>2. CASE z \notin Mods \X Attrs
        <4>1. z \notin Removed /\ z \notin Added
          BY <3>2
        <4> QED BY <3>2, <4>1
      <3> QED BY <3>1, <3>2
    <2> HIDE DEF S
    <2> HIDE DEF S2
    <2> HIDE DEF Removed
    <2> HIDE DEF Added
    <2>3. S2 = (S \ Removed) \cup Added /\ Added \cap (S \ Removed) = {} /\ Removed \subseteq S
      BY <2>2
    <2> QED BY <1>1, <1>3, <2>3 DEF Moved
  <1> HIDE DEF S
  <1> HIDE DEF S2
  <1> HIDE DEF Removed
  <1> HIDE DEF Added
  <1>5. /\ Cardinality(S2) = Cardinality(S) - Cardinality(Removed) + Cardinality(Added)
        /\ Cardinality(S) \in Nat
    BY <1>4, CountMoved
  <1> QED BY <1>3, <1>5 DEF InDicts, S, S2

DictReplaced(d, d2, old, e, m) == InDicts(d2, m) = InDicts(d, m) - InTable(old, m) + InTable(e, m)

LEMMA DictSet ==
  ASSUME NEW d \in [Mods -> [Attrs -> Values]], NEW x \in Mods, NEW e \in [Attrs -> Values],
         NEW m, NEW d2, d2 = [d EXCEPT ![x] = e]
  PROVE  DictReplaced(d, d2, d[x], e, m)
  BY DictsHold, ZenonT(40) DEF DictReplaced

-----------------------------------------------------------------------------
(* What one step may do to the stack of a thread: the running frame         *)
(* changes, another one is started on top of it, or it ends.                *)
Changed(ss, t, f, g, r, new) ==
    ss[t] = Append(r, f) /\ new = [ss EXCEPT ![t] = Append(r, g)]
Started(ss, t, f, g, r, new) ==
    ss[t] = Append(r, f) /\ new = [ss EXCEPT ![t] = Append(Append(r, f), g)]
Returned(ss, t, f, b, g, r, new) ==
    ss[t] = Append(Append(r, b), f) /\ new = [ss EXCEPT ![t] = Append(r, g)]

LEMMA ChangedCount ==
  ASSUME NEW ss \in [Threads -> Seq(FrameSet)], NEW t \in Threads, NEW f \in FrameSet,
         NEW g \in FrameSet, NEW r \in Seq(FrameSet), NEW new, Changed(ss, t, f, g, r, new)
  PROVE  /\ new \in [Threads -> Seq(FrameSet)]
         /\ \A m : InStacks(new, m) = InStacks(ss, m) - Mine(f, m) + Mine(g, m)
  <1> DEFINE s == Append(r, g)
  <1>1. s \in Seq(FrameSet)
    BY AppendProperties
  <1>2. ss[t] = Append(r, f) /\ new = [ss EXCEPT ![t] = s]
    BY DEF Changed
  <1>3. ASSUME NEW m PROVE InStacks(new, m) = InStacks(ss, m) - Mine(f, m) + Mine(g, m)
    <2>1. /\ InStack(s, m) = InStack(r, m) + Mine(g, m)
          /\ InStack(ss[t], m) = InStack(r, m) + Mine(f, m)
          /\ InStack(r, m) \in Nat /\ Mine(f, m) \in Nat /\ Mine(g, m) \in Nat
      BY <1>2, StackHolds, FrameHolds
    <2> HIDE DEF s
    <2>2. InStacks(new, m) = InStacks(ss, m) - InStack(ss[t], m) + InStack(s, m)
          /\ InStacks(ss, m) \in Nat
      <3>1. StackReplaced(ss, t, s, m, new) /\ InStacks(ss, m) \in Nat
        BY <1>1, <1>2, StackSet, Zenon
      <3> QED BY <3>1 DEF StackReplaced
    <2> QED BY <2>1, <2>2
  <1> HIDE DEF s
  <1> QED BY <1>1, <1>2, <1>3

StateAdded(ss, g, new) ==
    /\ new \in [Threads -> Seq(FrameSet)]
    /\ \A m : InStacks(new, m) = InStacks(ss, m) + Mine(g, m)

LEMMA StartedCount ==
  ASSUME NEW ss \in [Threads -> Seq(FrameSet)], NEW t \in Threads, NEW f \in FrameSet,
         NEW g \in FrameSet, NEW r \in Seq(FrameSet), NEW new, Started(ss, t, f, g, r, new)
  PROVE  StateAdded(ss, g, new)
  <1> DEFINE q == Append(r, f)
             s == Append(q, g)
  <1>1. q \in Seq(FrameSet)
    BY AppendProperties
  <1>2. ss[t] = q /\ new = [ss EXCEPT ![t] = s]
    BY DEF Started
  <1> HIDE DEF q
  <1>3. s \in Seq(FrameSet)
    BY <1>1, AppendProperties
  <1>4. ASSUME NEW m PROVE InStacks(new, m) = InStacks(ss, m) + Mine(g, m)
    <2>1. /\ InStack(s, m) = InStack(q, m) + Mine(g, m)
          /\ InStack(q, m) \in Nat /\ Mine(g, m) \in Nat
      BY <1>1, StackHolds, FrameHolds
    <2> HIDE DEF s
    <2>2. InStacks(new, m) = InStacks(ss, m) - InStack(ss[t], m) + InStack(s, m)
          /\ InStacks(ss, m) \in Nat
      <3>1. StackReplaced(ss, t, s, m, new) /\ InStacks(ss, m) \in Nat
        BY <1>2, <1>3, StackSet, Zenon
      <3> QED BY <3>1 DEF StackReplaced
    <2> QED BY <1>2, <2>1, <2>2
  <1> HIDE DEF s
  <1> QED BY <1>2, <1>3, <1>4 DEF StateAdded

(* The references of two frames give way to those of one.                   *)
StatesMerged(ss, f, b, g, new) ==
    /\ new \in [Threads -> Seq(FrameSet)]
    /\ \A m : InStacks(new, m) = InStacks(ss, m) - Mine(f, m) - Mine(b, m) + Mine(g, m)

LEMMA ReturnedCount ==
  ASSUME NEW ss \in [Threads -> Seq(FrameSet)], NEW t \in Threads, NEW f \in FrameSet,
         NEW b \in FrameSet, NEW g \in FrameSet, NEW r \in Seq(FrameSet), NEW new,
         Returned(ss, t, f, b, g, r, new)
  PROVE  StatesMerged(ss, f, b, g, new)
  <1> DEFINE q == Append(r, b)
             s == Append(r, g)
  <1>1. q \in Seq(FrameSet) /\ s \in Seq(FrameSet)
    BY AppendProperties
  <1>2. ss[t] = Append(q, f) /\ new = [ss EXCEPT ![t] = s]
    BY DEF Returned
  <1>3. ASSUME NEW m
        PROVE  InStacks(new, m) = InStacks(ss, m) - Mine(f, m) - Mine(b, m) + Mine(g, m)
    <2>1. /\ InStack(s, m) = InStack(r, m) + Mine(g, m)
          /\ InStack(q, m) = InStack(r, m) + Mine(b, m)
          /\ InStack(r, m) \in Nat /\ Mine(f, m) \in Nat /\ Mine(b, m) \in Nat /\ Mine(g, m) \in Nat
      BY StackHolds, FrameHolds
    <2> HIDE DEF q
    <2> HIDE DEF s
    <2>2. InStack(ss[t], m) = InStack(q, m) + Mine(f, m)
      BY <1>1, <1>2, StackHolds
    <2>3. InStacks(new, m) = InStacks(ss, m) - InStack(ss[t], m) + InStack(s, m)
          /\ InStacks(ss, m) \in Nat
      <3>1. StackReplaced(ss, t, s, m, new) /\ InStacks(ss, m) \in Nat
        BY <1>1, <1>2, StackSet, Zenon
      <3> QED BY <3>1 DEF StackReplaced
    <2> QED BY <2>1, <2>2, <2>3
  <1> HIDE DEF s
  <1> QED BY <1>1, <1>2, <1>3 DEF StatesMerged

-----------------------------------------------------------------------------
(* The shape of the stacks under these three changes.                       *)
LEMMA ChangedFits ==
  ASSUME NEW r \in Seq(FrameSet), NEW f \in FrameSet, NEW g \in FrameSet,
         StackFits(Append(r, f)), Fits(g), g.kind = f.kind, g.name = f.name
  PROVE  StackFits(Append(r, g))
  <1> DEFINE a == Append(r, f)
             b == Append(r, g)
             n == Len(r)
  <1>1. /\ n \in Nat /\ Len(a) = n + 1 /\ Len(b) = n + 1
        /\ DOMAIN a = 1 .. n + 1 /\ DOMAIN b = 1 .. n + 1
        /\ \A i \in 1 .. n : a[i] = r[i] /\ b[i] = r[i]
        /\ a[n + 1] = f /\ b[n + 1] = g
    BY AppendProperties
  <1>2. StackFits(a)
    OBVIOUS
  <1> HIDE DEF a
  <1> HIDE DEF b
  <1> HIDE DEF n
  <1>3. Len(b) <= MaxFrames
    BY <1>1, <1>2 DEF StackFits
  <1>4. ASSUME NEW i \in DOMAIN b PROVE Fits(b[i]) /\ (i = 1 <=> b[i].kind = "script")
    <2>1. i \in DOMAIN a /\ Fits(a[i]) /\ (i = 1 <=> a[i].kind = "script")
      BY <1>1, <1>2 DEF StackFits
    <2>2. i \in 1 .. n \/ i = n + 1
      BY <1>1
    <2> QED BY <1>1, <2>1, <2>2
  <1>5. ASSUME NEW i \in 1 .. Len(b) - 1 PROVE Awaits(b[i], b[i + 1])
    <2>1. i \in 1 .. Len(a) - 1 /\ Awaits(a[i], a[i + 1])
      BY <1>1, <1>2 DEF StackFits
    <2>2. i \in 1 .. n /\ b[i] = a[i]
      BY <1>1
    <2>3. i + 1 \in 1 .. n \/ i + 1 = n + 1
      BY <1>1, <2>2
    <2>4. CASE i + 1 \in 1 .. n
      <3>1. b[i + 1] = a[i + 1]
        BY <1>1, <2>4
      <3> QED BY <2>1, <2>2, <3>1
    <2>5. CASE i + 1 = n + 1
      <3>1. a[i + 1] = f /\ b[i + 1] = g
        BY <1>1, <2>5
      <3> QED BY <2>1, <2>2, <3>1 DEF Awaits
    <2> QED BY <2>3, <2>4, <2>5
  <1> QED BY <1>3, <1>4, <1>5 DEF StackFits, b

LEMMA StartedFits ==
  ASSUME NEW r \in Seq(FrameSet), NEW f \in FrameSet,
         StackFits(Append(r, f)), Len(r) + 2 <= MaxFrames,
         NEW g \in FrameSet, Fits(g), g.kind # "script", Awaits(f, g)
  PROVE  StackFits(Append(Append(r, f), g))
  <1> DEFINE a == Append(r, f)
             n == Len(a)
             b == Append(a, g)
  <1>1. a \in Seq(FrameSet) /\ n = Len(r) + 1 /\ Len(r) \in Nat /\ a[n] = f
    BY AppendedFront
  <1>2. StackFits(a)
    OBVIOUS
  <1> HIDE DEF a
  <1>3. /\ n \in Nat /\ Len(b) = n + 1 /\ DOMAIN a = 1 .. n /\ DOMAIN b = 1 .. n + 1
        /\ \A i \in 1 .. n : b[i] = a[i]
        /\ b[n + 1] = g
    BY <1>1, AppendProperties
  <1> HIDE DEF b
  <1> HIDE DEF n
  <1>4. Len(b) <= MaxFrames
    BY <1>1, <1>3
  <1>5. ASSUME NEW i \in DOMAIN b PROVE Fits(b[i]) /\ (i = 1 <=> b[i].kind = "script")
    <2>1. i \in 1 .. n \/ i = n + 1
      BY <1>3
    <2>2. CASE i \in 1 .. n
      BY <1>2, <1>3, <2>2 DEF StackFits
    <2>3. CASE i = n + 1
      BY <1>1, <1>3, <2>3
    <2> QED BY <2>1, <2>2, <2>3
  <1>6. ASSUME NEW i \in 1 .. Len(b) - 1 PROVE Awaits(b[i], b[i + 1])
    <2>1. i \in 1 .. n /\ b[i] = a[i]
      BY <1>3
    <2>2. CASE i = n
      BY <1>1, <1>3, <2>1, <2>2
    <2>3. CASE i # n
      <3>1. i \in 1 .. Len(a) - 1
        BY <1>1, <1>3, <2>1, <2>3 DEF n
      <3>2. i + 1 \in 1 .. n
        BY <1>3, <2>1, <2>3
      <3>3. b[i + 1] = a[i + 1]
        BY <1>3, <3>2
      <3> QED BY <1>2, <2>1, <3>1, <3>3 DEF StackFits
    <2> QED BY <2>2, <2>3
  <1> QED BY <1>4, <1>5, <1>6 DEF StackFits, b, a

LEMMA ReturnedFits ==
  ASSUME NEW r \in Seq(FrameSet), NEW b \in FrameSet, NEW f \in FrameSet,
         StackFits(Append(Append(r, b), f))
  PROVE  StackFits(Append(r, b)) /\ Awaits(b, f)
  <1> DEFINE a == Append(r, b)
             n == Len(a)
             c == Append(a, f)
  <1>1. a \in Seq(FrameSet) /\ n = Len(r) + 1 /\ Len(r) \in Nat /\ a[n] = b
    BY AppendedFront
  <1>2. StackFits(c)
    OBVIOUS
  <1> HIDE DEF a
  <1>3. /\ n \in Nat /\ Len(c) = n + 1 /\ DOMAIN a = 1 .. n /\ DOMAIN c = 1 .. n + 1
        /\ \A i \in 1 .. n : c[i] = a[i]
        /\ c[n + 1] = f
    BY <1>1, AppendProperties
  <1> HIDE DEF c
  <1>4. Len(a) <= MaxFrames
    BY <1>2, <1>3 DEF StackFits
  <1> HIDE DEF n
  <1>5. \A i \in DOMAIN a : Fits(a[i]) /\ (i = 1 <=> a[i].kind = "script")
    BY <1>2, <1>3 DEF StackFits
  <1>6. \A i \in 1 .. Len(a) - 1 : Awaits(a[i], a[i + 1])
    <2> SUFFICES ASSUME NEW i \in 1 .. Len(a) - 1 PROVE Awaits(a[i], a[i + 1])
      OBVIOUS
    <2>1. i \in 1 .. Len(c) - 1 /\ i \in 1 .. n /\ i + 1 \in 1 .. n
      BY <1>1, <1>3 DEF n
    <2>2. Awaits(c[i], c[i + 1])
      BY <1>2, <2>1 DEF StackFits
    <2> QED BY <1>3, <2>1, <2>2
  <1>7. Awaits(b, f)
    <2>1. n \in 1 .. Len(c) - 1
      BY <1>1, <1>3
    <2>2. Awaits(c[n], c[n + 1])
      BY <1>2, <2>1 DEF StackFits
    <2> QED BY <1>1, <1>3, <2>2
  <1> QED BY <1>4, <1>5, <1>6, <1>7 DEF StackFits, a

(* The initialisers that run.                                               *)
LEMMA ChangedRuns ==
  ASSUME NEW ss \in [Threads -> Seq(FrameSet)], NEW t \in Threads, NEW f \in FrameSet,
         NEW g \in FrameSet, NEW r \in Seq(FrameSet), NEW new, Changed(ss, t, f, g, r, new),
         g.kind = f.kind, g.mod = f.mod
  PROVE  \A u \in Threads, i \in Nat, m \in Mods : Runs(new, u, i, m) <=> Runs(ss, u, i, m)
  <1> SUFFICES ASSUME NEW u \in Threads, NEW i \in Nat, NEW m \in Mods
               PROVE  Runs(new, u, i, m) <=> Runs(ss, u, i, m)
    OBVIOUS
  <1>1. CASE u # t
    <2>1. new[u] = ss[u]
      BY <1>1 DEF Changed
    <2> QED BY <2>1 DEF Runs
  <1>2. CASE u = t
    <2> DEFINE a == Append(r, f)
               b == Append(r, g)
               n == Len(r)
    <2>1. /\ n \in Nat /\ DOMAIN a = 1 .. n + 1 /\ DOMAIN b = 1 .. n + 1
          /\ \A k \in 1 .. n : a[k] = r[k] /\ b[k] = r[k]
          /\ a[n + 1] = f /\ b[n + 1] = g
      BY AppendProperties
    <2>2. ss[u] = a /\ new[u] = b
      BY <1>2 DEF Changed
    <2> HIDE DEF a
    <2> HIDE DEF b
    <2> HIDE DEF n
    <2>3. i \in 1 .. n + 1 => i \in 1 .. n \/ i = n + 1
      BY <2>1
    <2> QED BY <2>1, <2>2, <2>3 DEF Runs
  <1> QED BY <1>1, <1>2

(* The runs of ss and, at place k of the stack of t, that of frame g.       *)
OneMore(ss, t, g, k, new) ==
    /\ \A u \in Threads, i \in Nat, m \in Mods :
          Runs(new, u, i, m) <=>
             Runs(ss, u, i, m) \/ (u = t /\ i = k /\ g.kind = "c" /\ g.mod = m)
    /\ \A m \in Mods : ~Runs(ss, t, k, m)

LEMMA StartedRuns ==
  ASSUME NEW ss \in [Threads -> Seq(FrameSet)], NEW t \in Threads, NEW f \in FrameSet,
         NEW g \in FrameSet, NEW r \in Seq(FrameSet), NEW new, Started(ss, t, f, g, r, new)
  PROVE  OneMore(ss, t, g, Len(r) + 2, new)
  <1> DEFINE a == Append(r, f)
             n == Len(r)
             b == Append(a, g)
  <1>1. /\ a \in Seq(FrameSet) /\ n \in Nat /\ Len(a) = n + 1 /\ DOMAIN a = 1 .. n + 1
    BY AppendProperties
  <1>2. ss[t] = a /\ new = [ss EXCEPT ![t] = b]
    BY DEF Started
  <1> HIDE DEF a
  <1>3. DOMAIN b = 1 .. n + 2 /\ (\A k \in 1 .. n + 1 : b[k] = a[k]) /\ b[n + 2] = g
    <2>1. Len(b) = n + 2 /\ DOMAIN b = 1 .. Len(b) /\ Len(a) + 1 = n + 2
      BY <1>1, AppendProperties
    <2> QED BY <1>1, <2>1, AppendProperties
  <1> HIDE DEF b
  <1> HIDE DEF n
  <1>4. ASSUME NEW u \in Threads, NEW i \in Nat, NEW m \in Mods
        PROVE  Runs(new, u, i, m) <=>
                 Runs(ss, u, i, m) \/ (u = t /\ i = n + 2 /\ g.kind = "c" /\ g.mod = m)
    <2>1. CASE u # t
      <3>1. new[u] = ss[u]
        BY <1>2, <2>1
      <3> QED BY <2>1, <3>1 DEF Runs
    <2>2. CASE u = t
      <3>1. new[u] = b /\ ss[u] = a
        BY <1>2, <2>2
      <3>2. /\ i \in 1 .. n + 2 <=> i \in 1 .. n + 1 \/ i = n + 2
            /\ ~(i \in 1 .. n + 1 /\ i = n + 2)
        BY <1>1
      <3> QED BY <1>1, <1>3, <2>2, <3>1, <3>2 DEF Runs
    <2> QED BY <2>1, <2>2
  <1>5. ASSUME NEW m \in Mods PROVE ~Runs(ss, t, n + 2, m)
    <2>1. ~(n + 2 \in 1 .. n + 1)
      BY <1>1
    <2> QED BY <1>1, <1>2, <2>1 DEF Runs
  <1> QED BY <1>4, <1>5 DEF n, OneMore

(* The runs of ss but that of frame f, at place k of the stack of t.        *)
OneLess(ss, t, f, k, new) ==
    /\ \A u \in Threads, i \in Nat, m \in Mods :
          Runs(new, u, i, m) <=> Runs(ss, u, i, m) /\ ~(u = t /\ i = k)
    /\ \A m \in Mods : f.kind = "c" /\ f.mod = m <=> Runs(ss, t, k, m)

LEMMA ReturnedRuns ==
  ASSUME NEW ss \in [Threads -> Seq(FrameSet)], NEW t \in Threads, NEW f \in FrameSet,
         NEW b \in FrameSet, NEW g \in FrameSet, NEW r \in Seq(FrameSet), NEW new,
         Returned(ss, t, f, b, g, r, new), g.kind = b.kind, g.mod = b.mod
  PROVE  OneLess(ss, t, f, Len(r) + 2, new)
  <1> DEFINE q == Append(r, b)
             new1 == [ss EXCEPT ![t] = q]
  <1>1. new1 \in [Threads -> Seq(FrameSet)]
    BY AppendProperties
  <1>2. Started(new1, t, b, f, r, ss)
    BY DEF Started, Returned
  <1>3. Changed(new1, t, b, g, r, new)
    BY DEF Changed, Returned
  <1> HIDE DEF new1
  <1>4. \A u \in Threads, i \in Nat, m \in Mods : Runs(new, u, i, m) <=> Runs(new1, u, i, m)
    BY <1>1, <1>3, ChangedRuns
  <1>5. OneMore(new1, t, f, Len(r) + 2, ss)
    BY <1>1, <1>2, StartedRuns
  <1>6. Len(r) + 2 \in Nat
    OBVIOUS
  <1> QED BY <1>4, <1>5, <1>6 DEF OneMore, OneLess

-----------------------------------------------------------------------------
(* The three changes as the actions state them.                             *)
Same(f, g) == g.kind = f.kind /\ g.name = f.name /\ g.mod = f.mod

LEMMA RunningFrame ==
  ASSUME ModulesTyped, StacksFit, NEW t \in Threads, stack[t] # <<>>
  PROVE  /\ Top(t) \in FrameSet /\ Fits(Top(t))
         /\ Front(stack[t]) \in Seq(FrameSet) /\ stack[t] = Append(Front(stack[t]), Top(t))
         /\ Len(stack[t]) = Len(Front(stack[t])) + 1 /\ Len(Front(stack[t])) \in Nat
         /\ Len(stack[t]) \in DOMAIN stack[t] /\ Top(t) = stack[t][Len(stack[t])]
  <1>1. stack[t] \in Seq(FrameSet)
    BY DEF ModulesTyped
  <1>2. /\ Front(stack[t]) \in Seq(FrameSet) /\ stack[t] = Append(Front(stack[t]), Top(t))
        /\ Len(stack[t]) = Len(Front(stack[t])) + 1 /\ Top(t) \in FrameSet
        /\ Top(t) = stack[t][Len(stack[t])]
    BY <1>1, FrontAndLast DEF Top
  <1>3. Len(stack[t]) \in DOMAIN stack[t]
    BY <1>1, <1>2
  <1> QED BY <1>2, <1>3 DEF StacksFit, StackFits

(* All the frames of new are frames of ss, but g.                           *)
OnlyNew(ss, g, new) ==
    \A u \in Threads : \A i \in DOMAIN new[u] :
        new[u][i] = g \/ \E j \in DOMAIN ss[u] : new[u][i] = ss[u][j]

LEMMA NewUses ==
  ASSUME NEW ss, NEW g, NEW new, OnlyNew(ss, g, new)
  PROVE  \A m : InUse(new, m) => InUse(ss, m) \/ Uses(g, m)
  BY DEF OnlyNew, InUse

LEMMA ChangedFrames ==
  ASSUME NEW ss \in [Threads -> Seq(FrameSet)], NEW t \in Threads, NEW f \in FrameSet,
         NEW g \in FrameSet, NEW r \in Seq(FrameSet), NEW new, Changed(ss, t, f, g, r, new)
  PROVE  OnlyNew(ss, g, new)
  <1> DEFINE a == Append(r, f)
             b == Append(r, g)
             n == Len(r)
  <1>1. /\ n \in Nat /\ DOMAIN a = 1 .. n + 1 /\ DOMAIN b = 1 .. n + 1
        /\ \A k \in 1 .. n : a[k] = r[k] /\ b[k] = r[k]
        /\ b[n + 1] = g
    BY AppendProperties
  <1>2. ss[t] = a /\ new = [ss EXCEPT ![t] = b]
    BY DEF Changed
  <1> HIDE DEF a
  <1> HIDE DEF b
  <1> HIDE DEF n
  <1>3. ASSUME NEW i \in 1 .. n + 1 PROVE b[i] = g \/ (i \in DOMAIN a /\ b[i] = a[i])
    <2>1. i \in 1 .. n \/ i = n + 1
      BY <1>1
    <2> QED BY <1>1, <2>1
  <1>4. ASSUME NEW u \in Threads, NEW i \in DOMAIN new[u]
        PROVE  new[u][i] = g \/ \E j \in DOMAIN ss[u] : new[u][i] = ss[u][j]
    <2>1. CASE u = t
      BY <1>1, <1>2, <1>3, <2>1
    <2>2. CASE u # t
      BY <1>2, <2>2
    <2> QED BY <2>1, <2>2
  <1> QED BY <1>4 DEF OnlyNew

LEMMA StartedFrames ==
  ASSUME NEW ss \in [Threads -> Seq(FrameSet)], NEW t \in Threads, NEW f \in FrameSet,
         NEW g \in FrameSet, NEW r \in Seq(FrameSet), NEW new, Started(ss, t, f, g, r, new)
  PROVE  OnlyNew(ss, g, new)
  <1> DEFINE a == Append(r, f)
             b == Append(a, g)
             n == Len(a)
  <1>1. a \in Seq(FrameSet)
    BY AppendProperties
  <1>2. ss[t] = a /\ new = [ss EXCEPT ![t] = b]
    BY DEF Started
  <1> HIDE DEF a
  <1>3. /\ n \in Nat /\ DOMAIN a = 1 .. n /\ DOMAIN b = 1 .. n + 1
        /\ \A k \in 1 .. n : b[k] = a[k]
        /\ b[n + 1] = g
    BY <1>1, AppendProperties
  <1> HIDE DEF b
  <1> HIDE DEF n
  <1>4. ASSUME NEW i \in 1 .. n + 1 PROVE b[i] = g \/ (i \in DOMAIN a /\ b[i] = a[i])
    <2>1. i \in 1 .. n \/ i = n + 1
      BY <1>3
    <2> QED BY <1>3, <2>1
  <1>5. ASSUME NEW u \in Threads, NEW i \in DOMAIN new[u]
        PROVE  new[u][i] = g \/ \E j \in DOMAIN ss[u] : new[u][i] = ss[u][j]
    <2>1. CASE u = t
      BY <1>2, <1>3, <1>4, <2>1
    <2>2. CASE u # t
      BY <1>2, <2>2
    <2> QED BY <2>1, <2>2
  <1> QED BY <1>5 DEF OnlyNew

LEMMA ReturnedFrames ==
  ASSUME NEW ss \in [Threads -> Seq(FrameSet)], NEW t \in Threads, NEW f \in FrameSet,
         NEW b \in FrameSet, NEW g \in FrameSet, NEW r \in Seq(FrameSet), NEW new,
         Returned(ss, t, f, b, g, r, new)
  PROVE  OnlyNew(ss, g, new)
  <1> DEFINE q == Append(r, b)
             mid == [ss EXCEPT ![t] = q]
             a == Append(q, f)
  <1>1. q \in Seq(FrameSet) /\ mid \in [Threads -> Seq(FrameSet)]
    BY AppendProperties
  <1>2. Changed(mid, t, b, g, r, new)
    BY DEF Changed, Returned
  <1>3. ss[t] = a
    BY DEF Returned
  <1> HIDE DEF q
  <1>4. /\ DOMAIN q = 1 .. Len(q) /\ DOMAIN a = 1 .. Len(q) + 1 /\ Len(q) \in Nat
        /\ \A k \in 1 .. Len(q) : a[k] = q[k]
    BY <1>1, AppendProperties
  <1> HIDE DEF a
  <1>5. \A u \in Threads : \A i \in DOMAIN mid[u] : i \in DOMAIN ss[u] /\ mid[u][i] = ss[u][i]
    BY <1>3, <1>4
  <1> HIDE DEF mid
  <1>6. OnlyNew(mid, g, new)
    BY <1>1, <1>2, ChangedFrames
  <1>7. ASSUME NEW u \in Threads, NEW i \in DOMAIN new[u], new[u][i] # g
        PROVE  \E j \in DOMAIN ss[u] : new[u][i] = ss[u][j]
    <2>1. PICK j \in DOMAIN mid[u] : new[u][i] = mid[u][j]
      BY <1>6, <1>7 DEF OnlyNew
    <2> QED BY <1>5, <2>1
  <1> QED BY <1>7 DEF OnlyNew

LEMMA SetTopStep ==
  ASSUME ModulesTyped, StacksFit, NEW t \in Threads, stack[t] # <<>>,
         NEW g, Fits(g), Same(Top(t), g), SetTop(t, g)
  PROVE  /\ stack' \in [Threads -> Seq(FrameSet)] /\ StacksFit'
         /\ \A m : InStacks(stack', m) = InStacks(stack, m) - Mine(Top(t), m) + Mine(g, m)
         /\ \A u \in Threads, i \in Nat, m \in Mods : Runs(stack', u, i, m) <=> Runs(stack, u, i, m)
         /\ \A m : InUse(stack', m) => InUse(stack, m) \/ Uses(g, m)
  <1> DEFINE f == Top(t)
             r == Front(stack[t])
  <1>1. /\ f \in FrameSet /\ g \in FrameSet /\ r \in Seq(FrameSet) /\ stack[t] = Append(r, f)
    BY RunningFrame DEF Fits
  <1>2. stack \in [Threads -> Seq(FrameSet)]
    BY DEF ModulesTyped
  <1>3. stack' = [stack EXCEPT ![t] = Append(r, g)]
    BY DEF SetTop
  <1> HIDE DEF f
  <1> HIDE DEF r
  <1>4. Changed(stack, t, f, g, r, stack')
    BY <1>1, <1>3 DEF Changed
  <1>5. /\ stack' \in [Threads -> Seq(FrameSet)]
        /\ \A m : InStacks(stack', m) = InStacks(stack, m) - Mine(f, m) + Mine(g, m)
    BY <1>1, <1>2, <1>4, ChangedCount
  <1>6. g.kind = f.kind /\ g.mod = f.mod /\ g.name = f.name
    BY DEF Same, f
  <1>7. \A u \in Threads, i \in Nat, m \in Mods : Runs(stack', u, i, m) <=> Runs(stack, u, i, m)
    BY <1>1, <1>2, <1>4, <1>6, ChangedRuns
  <1>8. OnlyNew(stack, g, stack')
    BY <1>1, <1>2, <1>4, ChangedFrames
  <1>9. StacksFit'
    <2>1. StackFits(Append(r, f))
      BY <1>1 DEF StacksFit
    <2>2. StackFits(Append(r, g))
      BY <1>1, <1>6, <2>1, ChangedFits
    <2> QED BY <1>2, <1>3, <2>2 DEF StacksFit
  <1> QED BY <1>5, <1>7, <1>8, <1>9, NewUses DEF f

LEMMA PushStep ==
  ASSUME ModulesTyped, StacksFit, NEW t \in Threads, stack[t] # <<>>, Len(stack[t]) < MaxFrames,
         NEW g, Fits(g), g.kind # "script", Awaits(Top(t), g), Push(t, g)
  PROVE  /\ stack' \in [Threads -> Seq(FrameSet)] /\ StacksFit'
         /\ \A m : InStacks(stack', m) = InStacks(stack, m) + Mine(g, m)
         /\ OneMore(stack, t, g, Len(stack[t]) + 1, stack')
         /\ \A m : InUse(stack', m) => InUse(stack, m) \/ Uses(g, m)
  <1> DEFINE f == Top(t)
             r == Front(stack[t])
  <1>1. /\ f \in FrameSet /\ g \in FrameSet /\ r \in Seq(FrameSet) /\ stack[t] = Append(r, f)
        /\ Len(stack[t]) = Len(r) + 1 /\ Len(r) \in Nat
    BY RunningFrame DEF Fits
  <1>2. stack \in [Threads -> Seq(FrameSet)]
    BY DEF ModulesTyped
  <1>3. stack' = [stack EXCEPT ![t] = Append(stack[t], g)]
    BY DEF Push
  <1> HIDE DEF r
  <1> HIDE DEF f
  <1>4. Started(stack, t, f, g, r, stack')
    BY <1>1, <1>3 DEF Started
  <1>5. /\ stack' \in [Threads -> Seq(FrameSet)]
        /\ \A m : InStacks(stack', m) = InStacks(stack, m) + Mine(g, m)
    <2>1. f \in FrameSet /\ g \in FrameSet /\ r \in Seq(FrameSet)
      BY <1>1
    <2>2. StateAdded(stack, g, stack')
      BY <1>2, <1>4, <2>1, StartedCount, Zenon
    <2> QED BY <2>2 DEF StateAdded
  <1>6. OneMore(stack, t, g, Len(r) + 2, stack')
    BY <1>1, <1>2, <1>4, StartedRuns
  <1>7. Len(r) + 2 = Len(stack[t]) + 1
    BY <1>1
  <1>8. OnlyNew(stack, g, stack')
    BY <1>1, <1>2, <1>4, StartedFrames
  <1>9. StacksFit'
    <2>1. StackFits(Append(r, f)) /\ Awaits(f, g)
      BY <1>1 DEF StacksFit, f
    <2>2. Len(r) + 2 <= MaxFrames
      BY <1>1
    <2>3. StackFits(Append(Append(r, f), g))
      BY <1>1, <2>1, <2>2, StartedFits
    <2> QED BY <1>1, <1>2, <1>3, <2>3 DEF StacksFit
  <1>10. OneMore(stack, t, g, Len(stack[t]) + 1, stack')
    BY <1>6, <1>7
  <1> QED BY <1>5, <1>8, <1>9, <1>10, NewUses

(* The frame below, for a frame that loads a module.                        *)
Below(t) == stack[t][Len(stack[t]) - 1]

LEMMA FrameBelow ==
  ASSUME ModulesTyped, StacksFit, NEW t \in Threads, stack[t] # <<>>, Top(t).kind # "script"
  PROVE  /\ Len(stack[t]) > 1
         /\ Below(t) \in FrameSet /\ Fits(Below(t)) /\ Awaits(Below(t), Top(t))
         /\ SubSeq(stack[t], 1, Len(stack[t]) - 2) \in Seq(FrameSet)
         /\ stack[t] = Append(Append(SubSeq(stack[t], 1, Len(stack[t]) - 2), Below(t)), Top(t))
         /\ Len(SubSeq(stack[t], 1, Len(stack[t]) - 2)) = Len(stack[t]) - 2
         /\ Len(stack[t]) - 1 \in DOMAIN stack[t]
  <1> DEFINE s == stack[t]
             n == Len(s)
             q == Front(s)
             r == SubSeq(s, 1, n - 2)
  <1>1. s \in Seq(FrameSet) /\ n \in Nat /\ n \in DOMAIN s /\ Top(t) = s[n] /\ StackFits(s)
        /\ DOMAIN s = 1 .. n
    BY RunningFrame DEF ModulesTyped, StacksFit
  <1>2. n > 1
    BY <1>1 DEF StackFits
  <1>3. n - 1 \in DOMAIN s /\ n - 1 \in 1 .. Len(s) - 1 /\ (n - 1) + 1 = n
    BY <1>1, <1>2
  <1>4. s[n - 1] \in FrameSet /\ Fits(s[n - 1]) /\ Awaits(s[n - 1], s[n])
    <2> HIDE DEF s
    <2> HIDE DEF n
    <2>1. s[n - 1] \in FrameSet /\ Fits(s[n - 1])
      BY <1>1, <1>3 DEF StackFits
    <2>2. Awaits(s[n - 1], s[(n - 1) + 1])
      BY <1>1, <1>3 DEF StackFits
    <2> QED BY <1>3, <2>1, <2>2
  <1>5. q \in Seq(FrameSet) /\ s = Append(q, Top(t)) /\ n = Len(q) + 1
    BY <1>1, FrontAndLast DEF Top
  <1>6. r \in Seq(FrameSet) /\ Len(r) = n - 2 /\ \A i \in 1 .. n - 2 : r[i] = s[i]
    BY <1>1, <1>2, SubSeqProperties
  <1> DEFINE b == s[n - 1]
             a == Append(r, b)
  <1> HIDE DEF q
  <1> HIDE DEF r
  <1>7. a \in Seq(FrameSet) /\ Len(a) = Len(r) + 1 /\ (\A i \in 1 .. Len(r) : a[i] = r[i])
        /\ a[Len(r) + 1] = b
    BY <1>4, <1>6, AppendedFront
  <1> HIDE DEF a
  <1>8. \A i \in 1 .. Len(q) : q[i] = s[i]
    BY <1>5, <1>1, AppendProperties
  <1>9. Len(a) = Len(q)
    BY <1>5, <1>6, <1>7
  <1>10. \A i \in 1 .. Len(q) : a[i] = q[i]
    <2> SUFFICES ASSUME NEW i \in 1 .. Len(q) PROVE a[i] = q[i]
      OBVIOUS
    <2>1. i \in 1 .. n - 2 \/ i = n - 1
      BY <1>1, <1>2, <1>5
    <2> QED BY <1>6, <1>7, <1>8, <2>1
  <1>11. a = q
    BY <1>5, <1>7, <1>9, <1>10, SeqEqual
  <1>12. s = Append(a, Top(t))
    BY <1>5, <1>11
  <1> QED BY <1>1, <1>2, <1>3, <1>4, <1>6, <1>12 DEF Below, a, r

LEMMA PopStep ==
  ASSUME ModulesTyped, StacksFit, NEW t \in Threads, stack[t] # <<>>, Top(t).kind # "script",
         NEW g, Fits(g), Same(Below(t), g),
         stack' = [stack EXCEPT ![t] = Append(SubSeq(stack[t], 1, Len(stack[t]) - 2), g)]
  PROVE  /\ stack' \in [Threads -> Seq(FrameSet)] /\ StacksFit'
         /\ \A m : InStacks(stack', m) =
                      InStacks(stack, m) - Mine(Top(t), m) - Mine(Below(t), m) + Mine(g, m)
         /\ OneLess(stack, t, Top(t), Len(stack[t]), stack')
         /\ \A m : InUse(stack', m) => InUse(stack, m) \/ Uses(g, m)
  <1> DEFINE f == Top(t)
             b == Below(t)
             r == SubSeq(stack[t], 1, Len(stack[t]) - 2)
  <1>1. /\ f \in FrameSet /\ b \in FrameSet /\ g \in FrameSet /\ r \in Seq(FrameSet)
        /\ stack[t] = Append(Append(r, b), f)
        /\ Len(stack[t]) = Len(r) + 2 /\ Len(r) \in Nat
    <2>1. Len(stack[t]) \in Nat
      BY DEF ModulesTyped
    <2> QED BY <2>1, RunningFrame, FrameBelow DEF Fits
  <1>2. stack \in [Threads -> Seq(FrameSet)]
    BY DEF ModulesTyped
  <1>3. g.kind = b.kind /\ g.mod = b.mod /\ g.name = b.name
    BY DEF Same
  <1> HIDE DEF f
  <1> HIDE DEF b
  <1>4. stack' = [stack EXCEPT ![t] = Append(r, g)]
    OBVIOUS
  <1> HIDE DEF r
  <1>5. Returned(stack, t, f, b, g, r, stack')
    BY <1>1, <1>4 DEF Returned
  <1>6. /\ stack' \in [Threads -> Seq(FrameSet)]
        /\ \A m : InStacks(stack', m) = InStacks(stack, m) - Mine(f, m) - Mine(b, m) + Mine(g, m)
    <2>1. StatesMerged(stack, f, b, g, stack')
      BY <1>1, <1>2, <1>5, ReturnedCount
    <2> QED BY <2>1 DEF StatesMerged
  <1>7. OneLess(stack, t, f, Len(r) + 2, stack')
    BY <1>1, <1>2, <1>3, <1>5, ReturnedRuns
  <1>8. OnlyNew(stack, g, stack')
    BY <1>1, <1>2, <1>5, ReturnedFrames
  <1>9. StacksFit'
    <2>1. StackFits(Append(Append(r, b), f))
      BY <1>1 DEF StacksFit
    <2>2. StackFits(Append(r, b))
      BY <1>1, <2>1, ReturnedFits
    <2>3. StackFits(Append(r, g))
      BY <1>1, <1>3, <2>2, ChangedFits
    <2> QED BY <1>2, <1>4, <2>3 DEF StacksFit
  <1> QED BY <1>1, <1>6, <1>7, <1>8, <1>9, NewUses DEF f, b

-----------------------------------------------------------------------------
(* A module without references: nothing has it, nothing keeps it.           *)
LEMMA RunsHold ==
  ASSUME NEW ss \in [Threads -> Seq(FrameSet)], NEW t \in Threads, NEW i \in Nat, NEW m \in Mods,
         Runs(ss, t, i, m)
  PROVE  InStacks(ss, m) # 0
  <1>1. i \in DOMAIN ss[t] /\ ss[t][i].mod = m
    BY DEF Runs
  <1> DEFINE f == ss[t][i]
             x == <<"module", 1>>
             y == <<i, x>>
             z == <<t, y>>
  <1>2. x \in HeldBy(f, m)
    BY <1>1 DEF HeldBy
  <1> HIDE DEF x
  <1>3. y \in {i} \X HeldBy(f, m)
    BY <1>2
  <1>4. y \in HeldInStack(ss[t], m)
    BY <1>1, <1>3 DEF HeldInStack
  <1> HIDE DEF y
  <1>5. z \in {t} \X HeldInStack(ss[t], m)
    BY <1>4
  <1>6. z \in HeldInStacks(ss, m)
    BY <1>5 DEF HeldInStacks
  <1> HIDE DEF z
  <1> DEFINE H == HeldInStacks(ss, m)
  <1>7. IsFiniteSet(H)
    BY StacksHold, EmptySeq
  <1>8. H # {}
    BY <1>6
  <1> HIDE DEF H
  <1>9. Cardinality(H) # 0
    BY <1>7, <1>8, FS_EmptySet
  <1> QED BY <1>9 DEF InStacks, H

LEMMA CountsTyped ==
  ASSUME ModulesTyped, NEW m \in Mods
  PROVE  /\ InTable(registry, m) \in Nat /\ InTable(cache, m) \in Nat
         /\ InDicts(dict, m) \in Nat /\ InStacks(stack, m) \in Nat
         /\ refs[m] \in Nat /\ lost[m] \in Nat
         /\ InTable(registry, m) = 0 <=> Lacks(registry, m)
         /\ InTable(cache, m) = 0 <=> Lacks(cache, m)
  <1>1. /\ registry \in [Names -> Mods \cup {Null}] /\ cache \in [Names -> Mods \cup {Null}]
        /\ dict \in [Mods -> [Attrs -> Values]] /\ stack \in [Threads -> Seq(FrameSet)]
        /\ refs \in [Mods -> Nat] /\ lost \in [Mods -> Nat] /\ gil \in Threads
    BY DEF ModulesTyped
  <1>2. InTable(registry, m) \in Nat /\ (InTable(registry, m) = 0 <=> Lacks(registry, m))
    BY <1>1, TableCount
  <1>3. InTable(cache, m) \in Nat /\ (InTable(cache, m) = 0 <=> Lacks(cache, m))
    BY <1>1, TableCount
  <1>4. InDicts(dict, m) \in Nat
    <2>1. dict[m] \in [Attrs -> Values]
      BY <1>1
    <2> QED BY <1>1, <2>1, DictsHold
  <1>5. InStacks(stack, m) \in Nat
    <2>1. stack[gil] \in Seq(FrameSet)
      BY <1>1
    <2> QED BY <1>1, <2>1, StacksHold
  <1> QED BY <1>1, <1>2, <1>3, <1>4, <1>5

LEMMA Exactly ==
  ASSUME ModulesTyped
  PROVE  ModuleRefsExact <=>
           \A m \in Mods : refs[m] = 2 * InTable(registry, m) + InTable(cache, m)
                                       + InDicts(dict, m) + InStacks(stack, m) + lost[m]
  BY DEF ModuleRefsExact, Owners, InStacks

LEMMA ExactlyNext ==
  ASSUME ModulesTyped'
  PROVE  ModuleRefsExact' <=>
           \A m \in Mods : refs'[m] = 2 * InTable(registry', m) + InTable(cache', m)
                                       + InDicts(dict', m) + InStacks(stack', m) + lost'[m]
  BY DEF ModuleRefsExact, Owners, InStacks

Unused(m) ==
    /\ refs[m] = 0 /\ lost[m] = 0 /\ ~Kept(m) /\ ~InUse(stack, m) /\ dict[m] = Empty
    /\ InTable(registry, m) = 0 /\ InTable(cache, m) = 0
    /\ InDicts(dict, m) = 0 /\ InStacks(stack, m) = 0
    /\ \A n \in Names : registry[n] # m /\ cache[n] # m
    /\ \A t \in Threads, i \in Nat : ~Runs(stack, t, i, m)

LEMMA FreshUnused ==
  ASSUME ImportInv, HasFresh
  PROVE  Fresh \in Mods /\ Unused(Fresh)
  <1>1. Fresh \in Mods /\ refs[Fresh] = 0
    BY DEF HasFresh, Fresh
  <1> SUFFICES ASSUME NEW m \in Mods, refs[m] = 0 PROVE Unused(m)
    BY <1>1
  <1>2. refs[m] = 2 * InTable(registry, m) + InTable(cache, m)
                    + InDicts(dict, m) + InStacks(stack, m) + lost[m]
    BY Exactly DEF ImportInv
  <1>3. /\ InTable(registry, m) = 0 /\ InTable(cache, m) = 0
        /\ InDicts(dict, m) = 0 /\ InStacks(stack, m) = 0 /\ lost[m] = 0
    <2>1. /\ InTable(registry, m) \in Nat /\ InTable(cache, m) \in Nat
          /\ InDicts(dict, m) \in Nat /\ InStacks(stack, m) \in Nat /\ lost[m] \in Nat
      BY CountsTyped DEF ImportInv
    <2> DEFINE v == InTable(registry, m)
               w == InTable(cache, m)
               x == InDicts(dict, m)
               y == InStacks(stack, m)
               z == lost[m]
    <2>2. 2 * v + w + x + y + z = 0
      BY <1>2
    <2> HIDE DEF v
    <2> HIDE DEF w
    <2> HIDE DEF x
    <2> HIDE DEF y
    <2> HIDE DEF z
    <2>3. v \in Nat /\ w \in Nat /\ x \in Nat /\ y \in Nat /\ z \in Nat
      BY <2>1 DEF v, w, x, y, z
    <2>4. v = 0 /\ w = 0 /\ x = 0 /\ y = 0 /\ z = 0
      BY <2>2, <2>3
    <2> QED BY <2>4 DEF v, w, x, y, z
  <1>4. \A n \in Names : registry[n] # m /\ cache[n] # m
    <2>1. Lacks(registry, m) /\ Lacks(cache, m)
      BY <1>3, CountsTyped DEF ImportInv
    <2>2. DOMAIN registry = Names /\ DOMAIN cache = Names
      BY DEF ImportInv, ModulesTyped
    <2> QED BY <2>1, <2>2 DEF Lacks
  <1>5. \A t \in Threads, i \in Nat : ~Runs(stack, t, i, m)
    BY <1>3, RunsHold DEF ImportInv, ModulesTyped
  <1>6. ~Kept(m)
    BY <1>3, <1>4, <1>5 DEF Kept
  <1>7. ~InUse(stack, m) /\ dict[m] = Empty
    BY <1>6 DEF ImportInv, UsedKept
  <1> QED BY <1>3, <1>4, <1>5, <1>6, <1>7 DEF Unused

-----------------------------------------------------------------------------
(* The actions that change the running frame, perhaps the dicts, and no     *)
(* table: the counts move with the frame and the dicts.                     *)
RefsMoved(f, g) ==
    /\ DOMAIN refs' = Mods
    /\ \A m \in Mods : refs'[m] = refs[m] - Mine(f, m) + Mine(g, m)
                                    + InDicts(dict', m) - InDicts(dict, m)
    /\ refs' = [m \in Mods |-> refs'[m]]

UsesKept(f, g) == \A m \in Mods : Uses(g, m) => Uses(f, m) \/ Kept(m)

DictsKept == \A m \in Mods : dict'[m] # dict[m] => Kept(m)

LEMMA TopUses ==
  ASSUME ModulesTyped, StacksFit, NEW t \in Threads, stack[t] # <<>>, NEW m, Uses(Top(t), m)
  PROVE  InUse(stack, m)
  BY RunningFrame DEF InUse

LEMMA FrameInv ==
  ASSUME ImportInv, NEW t \in Threads, stack[t] # <<>>,
         NEW g, Fits(g), Same(Top(t), g), SetTop(t, g),
         UNCHANGED <<program, registry, cache, lost, finished>>, gil' \in Threads,
         dict' \in [Mods -> [Attrs -> Values]],
         RefsMoved(Top(t), g), UsesKept(Top(t), g), DictsKept
  PROVE  ImportInv'
  <1> DEFINE f == Top(t)
  <1>1. ModulesTyped /\ StacksFit
    BY DEF ImportInv
  <1>2. f \in FrameSet /\ g \in FrameSet
    BY <1>1, RunningFrame DEF Fits
  <1>3. /\ stack' \in [Threads -> Seq(FrameSet)] /\ StacksFit'
        /\ \A m : InStacks(stack', m) = InStacks(stack, m) - Mine(f, m) + Mine(g, m)
        /\ \A u \in Threads, i \in Nat, m \in Mods : Runs(stack', u, i, m) <=> Runs(stack, u, i, m)
        /\ \A m : InUse(stack', m) => InUse(stack, m) \/ Uses(g, m)
    BY <1>1, SetTopStep
  <1>4. ASSUME NEW m \in Mods PROVE Kept(m)' <=> Kept(m)
    BY <1>3 DEF Kept
  <1>5. ASSUME NEW m \in Mods
        PROVE  refs'[m] = 2 * InTable(registry', m) + InTable(cache', m)
                            + InDicts(dict', m) + InStacks(stack', m) + lost'[m]
               /\ refs'[m] \in Nat
    <2>1. refs[m] = 2 * InTable(registry, m) + InTable(cache, m)
                      + InDicts(dict, m) + InStacks(stack, m) + lost[m]
      BY <1>1, Exactly DEF ImportInv
    <2>2. /\ InTable(registry, m) \in Nat /\ InTable(cache, m) \in Nat
          /\ InDicts(dict, m) \in Nat /\ InStacks(stack, m) \in Nat /\ lost[m] \in Nat
      BY <1>1, CountsTyped
    <2>3. InDicts(dict', m) \in Nat
      <3>1. dict'[m] \in [Attrs -> Values]
        OBVIOUS
      <3> QED BY <3>1, DictsHold
    <2>4. InStacks(stack', m) \in Nat
      BY <1>3, StacksHold, EmptySeq
    <2>5. Mine(f, m) \in Nat /\ Mine(g, m) \in Nat
      BY <1>2, FrameHolds
    <2>6. refs'[m] = refs[m] - Mine(f, m) + Mine(g, m) + InDicts(dict', m) - InDicts(dict, m)
      BY DEF RefsMoved
    <2>7. InStacks(stack', m) = InStacks(stack, m) - Mine(f, m) + Mine(g, m)
      BY <1>3
    <2>8. /\ InTable(registry', m) = InTable(registry, m)
          /\ InTable(cache', m) = InTable(cache, m) /\ lost'[m] = lost[m]
      OBVIOUS
    <2> HIDE DEF f
    <2>9. refs'[m] = 2 * InTable(registry', m) + InTable(cache', m)
                       + InDicts(dict', m) + InStacks(stack', m) + lost'[m]
      <3> DEFINE a == InTable(registry, m)
                 a2 == InTable(registry', m)
                 c == InTable(cache, m)
                 c2 == InTable(cache', m)
                 d == InDicts(dict, m)
                 d2 == InDicts(dict', m)
                 s == InStacks(stack, m)
                 s2 == InStacks(stack', m)
                 l == lost[m]
                 l2 == lost'[m]
                 k == refs[m]
                 k2 == refs'[m]
                 p == Mine(f, m)
                 q == Mine(g, m)
      <3>1. /\ a \in Nat /\ c \in Nat /\ d \in Nat /\ s \in Nat /\ l \in Nat
            /\ d2 \in Nat /\ p \in Nat /\ q \in Nat
        BY <2>2, <2>3, <2>4, <2>5
      <3>2. k = 2 * a + c + d + s + l
        BY <2>1
      <3>3. /\ k2 = k - p + q + d2 - d /\ s2 = s - p + q
            /\ a2 = a /\ c2 = c /\ l2 = l
        BY <2>6, <2>7, <2>8
      <3> HIDE DEF a
      <3> HIDE DEF a2
      <3> HIDE DEF c
      <3> HIDE DEF c2
      <3> HIDE DEF d
      <3> HIDE DEF d2
      <3> HIDE DEF s
      <3> HIDE DEF s2
      <3> HIDE DEF l
      <3> HIDE DEF l2
      <3> HIDE DEF k
      <3> HIDE DEF k2
      <3> HIDE DEF p
      <3> HIDE DEF q
      <3>4. k2 = (2 * a + c + d + s + l) - p + q + d2 - d
        BY <3>2, <3>3
      <3>5. 2 * a2 + c2 + d2 + s2 + l2 = 2 * a + c + d2 + (s - p + q) + l
        BY <3>3
      <3>6. k2 = 2 * a2 + c2 + d2 + s2 + l2
        BY <3>1, <3>4, <3>5
      <3> QED BY <3>6 DEF a2, c2, d2, s2, l2, k2
    <2> QED BY <2>2, <2>3, <2>4, <2>8, <2>9
  <1>6. refs' \in [Mods -> Nat]
    BY <1>5 DEF RefsMoved
  <1>7. ModulesTyped'
    BY <1>1, <1>3, <1>6 DEF ModulesTyped
  <1>8. ModuleRefsExact'
    BY <1>5, <1>7, ExactlyNext
  <1>9. UsedKept'
    <2> SUFFICES ASSUME NEW m \in Mods,
                        InUse(stack', m) \/ (\E n \in Names : cache'[n] = m) \/ dict'[m] # Empty
                 PROVE  Kept(m)
      BY <1>4 DEF UsedKept
    <2>1. InUse(stack, m) \/ (\E n \in Names : cache[n] = m) \/ dict[m] # Empty => Kept(m)
      BY DEF ImportInv, UsedKept
    <2>2. CASE InUse(stack', m)
      BY <1>1, <1>3, <2>1, <2>2, TopUses DEF UsesKept
    <2>3. CASE \E n \in Names : cache'[n] = m
      BY <2>1, <2>3
    <2>4. CASE dict'[m] # Empty
      BY <2>1, <2>4 DEF DictsKept
    <2> QED BY <2>2, <2>3, <2>4
  <1>10. InitsPrivate'
    BY <1>3 DEF ImportInv, InitsPrivate
  <1> QED BY <1>3, <1>7, <1>8, <1>9, <1>10 DEF ImportInv

-----------------------------------------------------------------------------
(* The packages around a name: what Ancestors is, and that each of them is  *)
(* the package of the next.                                                 *)
OuterFrom(f, n) == IF Parent[n] = Null THEN <<>> ELSE Append(f[Parent[n]], Parent[n])

LEMMA PackagesShorter ==
  \E h \in [Names -> Nat] : \A n \in Names : Parent[n] # Null => Parent[n] \in Names /\ h[Parent[n]] < h[n]
  <1>1. PICK h \in [Names -> 0 .. Cardinality(Names)] :
               \A n \in Names : Parent[n] # Null => h[Parent[n]] < h[n]
    BY NamesAssumption
  <1>2. h \in [Names -> Nat]
    BY <1>1
  <1>3. \A n \in Names : Parent[n] # Null => Parent[n] \in Names
    BY ModulesAssumption
  <1> QED BY <1>1, <1>2, <1>3

LEMMA AncestorsSolves ==
  \A n \in Names : Ancestors[n] \in Seq(Names) /\ Ancestors[n] = OuterFrom(Ancestors, n)
  <1> DEFINE X == Seq(Names)
             D == [x \in Names \X [Names -> X] |-> OuterFrom(x[2], x[1])]
  <1>1. PICK h \in [Names -> Nat] :
               \A n \in Names : Parent[n] # Null => Parent[n] \in Names /\ h[Parent[n]] < h[n]
    BY PackagesShorter
  <1>2. ASSUME NEW n \in Names, NEW f \in [Names -> X]
        PROVE  OuterFrom(f, n) \in X
    <2>1. CASE Parent[n] = Null
      BY <2>1 DEF OuterFrom
    <2>2. CASE Parent[n] # Null
      <3>1. Parent[n] \in Names /\ f[Parent[n]] \in Seq(Names)
        BY <1>1, <2>2
      <3>2. Append(f[Parent[n]], Parent[n]) \in Seq(Names)
        BY <3>1, AppendProperties
      <3> QED BY <2>2, <3>2 DEF OuterFrom
    <2> QED BY <2>1, <2>2
  <1>3. X # {}
    BY EmptySeq
  <1> HIDE DEF X
  <1>4. D \in [Names \X [Names -> X] -> X]
    BY <1>2
  <1>5. PICK f \in [Names -> X] : \A n \in Names : f[n] = OuterFrom(f, n)
    <2>1. \A n \in Names, f \in [Names -> X] : D[<<n, f>>] = OuterFrom(f, n)
      OBVIOUS
    <2>2. ASSUME NEW n \in Names, NEW f \in [Names -> X], NEW g \in [Names -> X],
                 \A k \in Names : h[k] < h[n] => f[k] = g[k]
          PROVE  OuterFrom(f, n) = OuterFrom(g, n)
      <3>1. Parent[n] # Null => f[Parent[n]] = g[Parent[n]]
        BY <1>1, <2>2
      <3> QED BY <3>1 DEF OuterFrom
    <2>3. LooksBelow(D, Names, X, h)
      <3> HIDE DEF D
      <3> QED BY <2>1, <2>2 DEF LooksBelow
    <2> HIDE DEF D
    <2>4. \E f \in [Names -> X] : Solves(f, D, Names)
      BY <1>1, <1>3, <1>4, <2>3, Solution
    <2> QED BY <2>1, <2>4 DEF Solves
  <1>6. f = [n \in Names |-> OuterFrom(f, n)]
    BY <1>5
  <1> DEFINE r == CHOOSE up : up = [n \in Names |-> OuterFrom(up, n)]
  <1>7. r = [n \in Names |-> OuterFrom(r, n)]
    BY <1>6, Zenon
  <1>8. Ancestors = r
    BY Zenon DEF Ancestors, OuterFrom
  <1> HIDE DEF r
  <1>9. \A n \in Names : Ancestors[n] = OuterFrom(Ancestors, n)
    BY <1>7, <1>8
  <1>10. \A n \in Names : Ancestors[n] \in X
    <2> DEFINE Bad == {n \in Names : Ancestors[n] \notin X}
    <2> SUFFICES ASSUME Bad # {} PROVE FALSE
      OBVIOUS
    <2>1. PICK n \in Bad : \A k \in Bad : h[n] <= h[k]
      <3>1. Bad \in SUBSET Names /\ Bad # {} /\ h \in [Names -> Nat]
        BY <1>1
      <3> HIDE DEF Bad
      <3> QED BY <3>1, Lowest
    <2>2. n \in Names /\ Ancestors[n] \notin X
      OBVIOUS
    <2>3. CASE Parent[n] = Null
      <3>1. Ancestors[n] = <<>>
        BY <1>9, <2>2, <2>3 DEF OuterFrom
      <3> QED BY <2>2, <3>1, EmptySeq DEF X
    <2>4. CASE Parent[n] # Null
      <3>1. Parent[n] \in Names /\ h[Parent[n]] \in Nat /\ h[n] \in Nat /\ h[Parent[n]] < h[n]
        BY <1>1, <2>2, <2>4
      <3>2. Parent[n] \notin Bad
        <4>1. ~(h[n] <= h[Parent[n]])
          BY <3>1
        <4> QED BY <2>1, <4>1
      <3>3. Ancestors[Parent[n]] \in X
        BY <3>1, <3>2
      <3>4. Append(Ancestors[Parent[n]], Parent[n]) \in X
        BY <3>1, <3>3, AppendProperties DEF X
      <3> QED BY <1>9, <2>2, <2>4, <3>4 DEF OuterFrom
    <2> QED BY <2>3, <2>4
  <1> QED BY <1>9, <1>10 DEF X

(* The packages around n, outermost first, and n itself.                    *)
Path(n) == Ancestors[n] \o <<n>>

Steps(s) == \A i \in 1 .. Len(s) - 1 : Parent[s[i + 1]] = s[i]

LEMMA ConcatLast ==
  ASSUME NEW S, NEW s \in Seq(S), NEW x \in S
  PROVE  s \o <<x>> = Append(s, x)
  OBVIOUS

LEMMA PathFields ==
  ASSUME NEW n \in Names
  PROVE  /\ Ancestors[n] \in Seq(Names) /\ Len(Ancestors[n]) \in Nat
         /\ DOMAIN Ancestors[n] = 1 .. Len(Ancestors[n])
         /\ Path(n) \in Seq(Names) /\ Len(Path(n)) = Len(Ancestors[n]) + 1
         /\ DOMAIN Path(n) = 1 .. Len(Ancestors[n]) + 1
         /\ Path(n)[Len(Ancestors[n]) + 1] = n
         /\ \A i \in 1 .. Len(Ancestors[n]) : Path(n)[i] = Ancestors[n][i]
  <1>1. Ancestors[n] \in Seq(Names)
    BY AncestorsSolves
  <1> DEFINE s == Ancestors[n]
  <1>2. Path(n) = Append(s, n)
    BY <1>1, ConcatLast DEF Path
  <1> HIDE DEF s
  <1>3. s \in Seq(Names)
    BY <1>1 DEF s
  <1>4. /\ Append(s, n) \in Seq(Names) /\ Len(Append(s, n)) = Len(s) + 1
        /\ Append(s, n)[Len(s) + 1] = n /\ \A i \in 1 .. Len(s) : Append(s, n)[i] = s[i]
    BY <1>3, AppendedFront
  <1>5. Len(s) \in Nat /\ DOMAIN s = 1 .. Len(s)
    BY <1>3
  <1>6. DOMAIN Append(s, n) = 1 .. Len(s) + 1
    BY <1>4
  <1> QED BY <1>2, <1>3, <1>4, <1>5, <1>6 DEF s

LEMMA PathSteps ==
  \A n \in Names : Steps(Path(n))
  <1> DEFINE Bad == {n \in Names : ~Steps(Path(n))}
  <1> SUFFICES ASSUME Bad # {} PROVE FALSE
    OBVIOUS
  <1>1. PICK h \in [Names -> Nat] :
               \A n \in Names : Parent[n] # Null => Parent[n] \in Names /\ h[Parent[n]] < h[n]
    BY PackagesShorter
  <1>2. PICK n \in Bad : \A k \in Bad : h[n] <= h[k]
    <2>1. Bad \in SUBSET Names /\ Bad # {} /\ h \in [Names -> Nat]
      BY <1>1
    <2> HIDE DEF Bad
    <2> QED BY <2>1, Lowest
  <1>3. n \in Names /\ ~Steps(Path(n))
    OBVIOUS
  <1> DEFINE a == Ancestors[n]
             p == Parent[n]
             s == Path(n)
  <1>4. /\ Len(a) \in Nat /\ Len(s) = Len(a) + 1 /\ s[Len(a) + 1] = n
        /\ \A i \in 1 .. Len(a) : s[i] = a[i]
    BY <1>3, PathFields
  <1>5. PICK i \in 1 .. Len(a) : Parent[s[i + 1]] # s[i]
    <2>1. Len(s) - 1 = Len(a)
      BY <1>4
    <2> QED BY <1>3, <2>1 DEF Steps
  <1>6. p # Null
    <2> SUFFICES ASSUME p = Null PROVE FALSE
      OBVIOUS
    <2>1. a = <<>>
      BY <1>3, AncestorsSolves DEF OuterFrom
    <2> QED BY <1>5, <2>1
  <1>7. p \in Names /\ h[p] \in Nat /\ h[n] \in Nat /\ h[p] < h[n]
    BY <1>1, <1>3, <1>6
  <1>8. Steps(Path(p))
    <2>1. ~(h[n] <= h[p])
      BY <1>7
    <2> QED BY <1>2, <1>7, <2>1
  <1>9. a = Path(p)
    <2>1. a = Append(Ancestors[p], p) /\ Ancestors[p] \in Seq(Names)
      BY <1>3, <1>6, <1>7, AncestorsSolves DEF OuterFrom
    <2> QED BY <1>7, <2>1, ConcatLast DEF Path
  <1> DEFINE b == Ancestors[p]
  <1>10. Len(b) \in Nat /\ Len(a) = Len(b) + 1 /\ a[Len(b) + 1] = p
    BY <1>7, <1>9, PathFields
  <1>11. Steps(a)
    BY <1>8, <1>9
  <1> HIDE DEF a, b, s, p, Bad
  <1>12. CASE i = Len(a)
    <2>1. s[i + 1] = n /\ s[i] = p
      BY <1>4, <1>5, <1>10, <1>12
    <2> QED BY <1>5, <2>1 DEF p
  <1>13. CASE i # Len(a)
    <2>1. i \in 1 .. Len(a) - 1 /\ i + 1 \in 1 .. Len(a)
      BY <1>4, <1>13
    <2>2. s[i + 1] = a[i + 1] /\ s[i] = a[i] /\ Parent[a[i + 1]] = a[i]
      BY <1>4, <1>11, <2>1 DEF Steps
    <2> QED BY <1>5, <2>2
  <1> QED BY <1>12, <1>13

-----------------------------------------------------------------------------
(* What the actions make of a frame.                                        *)
USE ProgramsAssumption

LEMMA FrameFields ==
  ASSUME NEW f \in FrameSet
  PROVE  /\ f.kind \in {"script", "body", "c"} /\ f.name \in Names \cup {Null}
         /\ f.mod \in Mods \cup {Null} /\ f.code \in Seq(Statements) /\ f.pc \in Nat \ {0}
         /\ f.locals \in [Attrs -> Values] /\ f.stage \in {"run", "find", "source", "failed"}
         /\ f.todo \in Seq(Names) /\ f.got \in Seq(Mods)
  BY DEF FrameSet

(* f with another place in its code and other work.                         *)
Edit(f, pc, locals, stage, todo, got) ==
    [f EXCEPT !.pc = pc, !.locals = locals, !.stage = stage, !.todo = todo, !.got = got]

Edited(f, pc, locals, stage, todo, got, g) ==
    /\ g \in FrameSet /\ Same(f, g) /\ g.code = f.code
    /\ g.pc = pc /\ g.locals = locals /\ g.stage = stage /\ g.todo = todo /\ g.got = got

LEMMA EditFields ==
  ASSUME NEW f \in FrameSet, NEW pc \in Nat \ {0}, NEW locals \in [Attrs -> Values],
         NEW stage \in {"run", "find", "source", "failed"}, NEW todo \in Seq(Names),
         NEW got \in Seq(Mods)
  PROVE  Edited(f, pc, locals, stage, todo, got, Edit(f, pc, locals, stage, todo, got))
  BY DEF Edit, Edited, FrameSet, Same

LEMMA FailedFits ==
  ASSUME NEW f, Fits(f), f.pc \in DOMAIN f.code
  PROVE  /\ Fits(Failed(f)) /\ Same(f, Failed(f))
         /\ Failed(f).locals = f.locals /\ Failed(f).got = <<>>
  <1>1. f \in FrameSet
    BY DEF Fits
  <1>2. f.pc + 1 \in Nat \ {0} /\ f.pc \in Nat \ {0} /\ f.locals \in [Attrs -> Values]
    BY <1>1, FrameFields
  <1>3. <<>> \in Seq(Names) /\ <<>> \in Seq(Mods)
    BY EmptySeq
  <1>4. CASE Statement(f).guarded
    <2> DEFINE g == Edit(f, f.pc + 1, f.locals, "run", <<>>, <<>>)
    <2>1. Failed(f) = g
      BY <1>1, <1>4 DEF Failed, Edit, FrameSet
    <2>2. /\ g \in FrameSet /\ Same(f, g) /\ g.code = f.code
          /\ g.pc = f.pc + 1 /\ g.locals = f.locals /\ g.stage = "run" /\ g.todo = <<>> /\ g.got = <<>>
      <3>1. Edited(f, f.pc + 1, f.locals, "run", <<>>, <<>>, g)
        BY <1>1, <1>2, <1>3, EditFields
      <3> QED BY <3>1 DEF Edited
    <2> HIDE DEF g
    <2>3. Len(g.todo) = 0
      BY <2>2
    <2>4. Fits(g)
      BY <2>2, <2>3 DEF Fits, Same
    <2> QED BY <2>1, <2>2, <2>4
  <1>5. CASE ~Statement(f).guarded
    <2> DEFINE g == Edit(f, f.pc, f.locals, "failed", <<>>, <<>>)
    <2>1. Failed(f) = g
      BY <1>1, <1>5 DEF Failed, Edit, FrameSet
    <2>2. /\ g \in FrameSet /\ Same(f, g) /\ g.code = f.code
          /\ g.pc = f.pc /\ g.locals = f.locals /\ g.stage = "failed" /\ g.todo = <<>> /\ g.got = <<>>
      <3>1. Edited(f, f.pc, f.locals, "failed", <<>>, <<>>, g)
        BY <1>1, <1>2, <1>3, EditFields
      <3> QED BY <3>1 DEF Edited
    <2> HIDE DEF g
    <2>3. Len(g.todo) = 0
      BY <2>2
    <2>4. Fits(g)
      BY <2>2, <2>3 DEF Fits, Same
    <2> QED BY <2>1, <2>2, <2>4
  <1> QED BY <1>4, <1>5

LEMMA ReceivedFits ==
  ASSUME NEW f, Fits(f), f.stage \in {"find", "source"}, f.todo # <<>>, NEW m \in Mods
  PROVE  /\ Fits(Received(f, m)) /\ Same(f, Received(f, m))
         /\ Received(f, m).locals = f.locals /\ Received(f, m).got = Append(f.got, m)
         /\ Received(f, m).stage = "find"
  <1>1. f \in FrameSet
    BY DEF Fits
  <1>2. /\ f.pc \in Nat \ {0} /\ f.locals \in [Attrs -> Values]
        /\ f.todo \in Seq(Names) /\ f.got \in Seq(Mods)
    BY <1>1, FrameFields
  <1>3. Tail(f.todo) \in Seq(Names) /\ Len(Tail(f.todo)) = Len(f.todo) - 1 /\ Len(f.todo) \in Nat
    BY <1>2, HeadTailProperties
  <1>4. Append(f.got, m) \in Seq(Mods) /\ Append(f.got, m) # <<>>
    BY <1>2, AppendProperties
  <1> DEFINE td == Tail(f.todo)
             gt == Append(f.got, m)
  <1>5. td \in Seq(Names) /\ gt \in Seq(Mods) /\ gt # <<>>
    BY <1>3, <1>4
  <1>6. Len(f.todo) <= 1 => td = <<>>
    BY <1>3, EmptySeq
  <1> HIDE DEF td
  <1> HIDE DEF gt
  <1> DEFINE g == Edit(f, f.pc, f.locals, "find", td, gt)
  <1>7. Received(f, m) = g
    BY <1>1 DEF Received, Edit, FrameSet, td, gt
  <1>8. /\ g \in FrameSet /\ Same(f, g) /\ g.code = f.code
        /\ g.pc = f.pc /\ g.locals = f.locals /\ g.stage = "find" /\ g.todo = td /\ g.got = gt
    <2>1. Edited(f, f.pc, f.locals, "find", td, gt, g)
      BY <1>1, <1>2, <1>5, EditFields
    <2> QED BY <2>1 DEF Edited
  <1> HIDE DEF g
  <1>9. Statement(g) = Statement(f)
    BY <1>8 DEF Statement
  <1>10. f.kind = "c" => Len(td) <= 1
    BY <1>6 DEF Fits
  <1>11. Fits(g)
    BY <1>5, <1>6, <1>8, <1>9, <1>10 DEF Fits, Same
  <1> QED BY <1>7, <1>8, <1>11 DEF gt

LEMMA NotFoundFits ==
  ASSUME NEW f, Fits(f), f.stage = "find", f.todo # <<>>
  PROVE  /\ Fits(NotFound(f)) /\ Same(f, NotFound(f))
         /\ NotFound(f).locals = f.locals /\ NotFound(f).got = f.got
         /\ f.kind # "c" => NotFound(f).stage = "source" /\ NotFound(f).todo = f.todo
         /\ f.kind = "c" => NotFound(f).stage # "source"
  <1>1. f \in FrameSet
    BY DEF Fits
  <1>2. CASE f.kind = "c"
    <2>1. NotFound(f) = Failed(f) /\ f.got = <<>> /\ f.pc \in DOMAIN f.code
      BY <1>2 DEF NotFound, ByVm, Fits
    <2>2. Failed(f).stage \in {"run", "failed"}
      BY <1>1 DEF Failed, FrameSet
    <2> QED BY <1>2, <2>1, <2>2, FailedFits
  <1>3. CASE f.kind # "c"
    <2>1. /\ f.pc \in Nat \ {0} /\ f.locals \in [Attrs -> Values]
          /\ f.todo \in Seq(Names) /\ f.got \in Seq(Mods)
      BY <1>1, FrameFields
    <2> DEFINE g == Edit(f, f.pc, f.locals, "source", f.todo, f.got)
    <2>2. NotFound(f) = g
      BY <1>1, <1>3 DEF NotFound, ByVm, Edit, FrameSet
    <2>3. /\ g \in FrameSet /\ Same(f, g) /\ g.code = f.code /\ g.pc = f.pc
          /\ g.locals = f.locals /\ g.stage = "source" /\ g.todo = f.todo /\ g.got = f.got
      <3>1. Edited(f, f.pc, f.locals, "source", f.todo, f.got, g)
        BY <1>1, <2>1, EditFields
      <3> QED BY <3>1 DEF Edited
    <2> HIDE DEF g
    <2>4. Fits(g)
      BY <1>3, <2>3 DEF Fits, Same, Statement
    <2> QED BY <1>3, <2>2, <2>3, <2>4
  <1> QED BY <1>2, <1>3

LEMMA NextFits ==
  ASSUME NEW f, Fits(f), f.stage = "run", NEW locals \in [Attrs -> Values],
         f.kind = "c" => locals = Empty
  PROVE  LET g == [f EXCEPT !.pc = @ + 1, !.locals = locals]
         IN  Fits(g) /\ Same(f, g) /\ g.locals = locals /\ g.got = f.got
  <1>1. f \in FrameSet
    BY DEF Fits
  <1>2. /\ f.pc + 1 \in Nat \ {0} /\ f.todo = <<>> /\ f.got = <<>>
        /\ <<>> \in Seq(Names) /\ <<>> \in Seq(Mods)
    BY <1>1, FrameFields, EmptySeq DEF Fits
  <1> DEFINE g == Edit(f, f.pc + 1, locals, "run", <<>>, <<>>)
  <1>3. [f EXCEPT !.pc = @ + 1, !.locals = locals] = g
    BY <1>1, <1>2 DEF Edit, FrameSet
  <1>4. /\ g \in FrameSet /\ Same(f, g) /\ g.code = f.code /\ g.pc = f.pc + 1
        /\ g.locals = locals /\ g.stage = "run" /\ g.todo = <<>> /\ g.got = <<>>
    <2>1. Edited(f, f.pc + 1, locals, "run", <<>>, <<>>, g)
      BY <1>1, <1>2, EditFields
    <2> QED BY <2>1 DEF Edited
  <1> HIDE DEF g
  <1>5. Len(g.todo) = 0
    BY <1>4
  <1>6. Fits(g)
    BY <1>4, <1>5 DEF Fits, Same
  <1> QED BY <1>2, <1>3, <1>4, <1>6

(* A frame that has run nothing yet.                                        *)
Starts(g, sort, name, mod) ==
    /\ Fits(g) /\ g.kind = sort /\ g.name = name /\ g.mod = mod
    /\ g.got = <<>> /\ g.locals = Empty

LEMMA ImportFrame ==
  ASSUME NEW sort \in {"body", "c"}, NEW name \in Names, NEW mod \in Mods,
         NEW code \in Seq(Statements)
  PROVE  Starts(Frame(sort, name, mod, code), sort, name, mod)
  <1> DEFINE g == Frame(sort, name, mod, code)
  <1>1. Empty \in [Attrs -> Values] /\ <<>> \in Seq(Names) /\ <<>> \in Seq(Mods)
    BY EmptySeq DEF Empty, Values
  <1>2. /\ g \in FrameSet /\ g.kind = sort /\ g.name = name /\ g.mod = mod
        /\ g.got = <<>> /\ g.locals = Empty /\ g.stage = "run" /\ g.todo = <<>>
    BY <1>1 DEF Frame, FrameSet
  <1> HIDE DEF g
  <1>3. Len(g.todo) = 0
    BY <1>2
  <1>4. Fits(g)
    BY <1>2, <1>3 DEF Fits
  <1> QED BY <1>2, <1>4 DEF g, Starts

-----------------------------------------------------------------------------
(* The actions that change the running frame only.                          *)
RefsFollow(f, g) ==
    /\ refs' = [m \in Mods |-> refs'[m]]
    /\ \A m \in Mods : refs'[m] = refs[m] - Mine(f, m) + Mine(g, m)

LEMMA QuietInv ==
  ASSUME ImportInv, NEW t \in Threads, stack[t] # <<>>,
         NEW g, Fits(g), Same(Top(t), g), SetTop(t, g),
         UNCHANGED <<program, registry, cache, dict, lost, finished>>, gil' \in Threads,
         RefsFollow(Top(t), g), UsesKept(Top(t), g)
  PROVE  ImportInv'
  <1>1. ModulesTyped /\ StacksFit
    BY DEF ImportInv
  <1>2. dict' \in [Mods -> [Attrs -> Values]]
    BY <1>1 DEF ModulesTyped
  <1>3. DictsKept
    BY DEF DictsKept
  <1> DEFINE f == Top(t)
  <1>4. f \in FrameSet /\ g \in FrameSet
    BY <1>1, RunningFrame DEF Fits
  <1> HIDE DEF f
  <1>5. RefsMoved(f, g)
    <2>1. ASSUME NEW m \in Mods
          PROVE  refs'[m] = refs[m] - Mine(f, m) + Mine(g, m) + InDicts(dict', m) - InDicts(dict, m)
      <3>1. Mine(f, m) \in Nat /\ Mine(g, m) \in Nat /\ refs[m] \in Nat /\ InDicts(dict, m) \in Nat
        BY <1>1, <1>4, FrameHolds, CountsTyped
      <3>2. InDicts(dict', m) = InDicts(dict, m)
        OBVIOUS
      <3>3. refs'[m] = refs[m] - Mine(f, m) + Mine(g, m)
        BY DEF RefsFollow, f
      <3> QED BY <3>1, <3>2, <3>3
    <2>2. refs' = [m \in Mods |-> refs'[m]]
      BY DEF RefsFollow
    <2>3. DOMAIN refs' = Mods
      BY <2>2
    <2> QED BY <2>1, <2>2, <2>3 DEF RefsMoved
  <1> QED BY <1>2, <1>3, <1>5, FrameInv DEF f

LEMMA SameMine ==
  ASSUME NEW f, NEW g, Same(f, g), g.locals = f.locals, g.got = f.got, NEW m
  PROVE  Mine(g, m) = Mine(f, m) /\ (Uses(g, m) <=> Uses(f, m))
  <1>1. HeldBy(g, m) = HeldBy(f, m)
    BY DEF HeldBy, Same
  <1> QED BY <1>1 DEF Mine, Uses, Same

(* The frame goes on with the references it has.                            *)
LEMMA IdleInv ==
  ASSUME ImportInv, NEW t \in Threads, stack[t] # <<>>,
         NEW g, Fits(g), Same(Top(t), g), SetTop(t, g), g.locals = Top(t).locals, g.got = Top(t).got,
         UNCHANGED <<program, registry, cache, dict, refs, lost, finished>>, gil' \in Threads
  PROVE  ImportInv'
  <1> DEFINE f == Top(t)
  <1>1. ModulesTyped /\ StacksFit
    BY DEF ImportInv
  <1>2. f \in FrameSet /\ g \in FrameSet
    BY <1>1, RunningFrame DEF Fits
  <1>3. \A m : Mine(g, m) = Mine(f, m) /\ (Uses(g, m) <=> Uses(f, m))
    BY SameMine
  <1>4. RefsFollow(f, g)
    <2>1. ASSUME NEW m \in Mods PROVE refs'[m] = refs[m] - Mine(f, m) + Mine(g, m)
      <3>1. Mine(f, m) \in Nat /\ refs[m] \in Nat
        BY <1>1, <1>2, FrameHolds, CountsTyped
      <3> QED BY <1>3, <3>1
    <2>2. refs' = [m \in Mods |-> refs'[m]]
      BY <1>1 DEF ModulesTyped
    <2> QED BY <2>1, <2>2 DEF RefsFollow
  <1>5. UsesKept(f, g)
    BY <1>3 DEF UsesKept
  <1> QED BY <1>4, <1>5, QuietInv

(* A frame that has not ended has a statement.                              *)
LEMMA AtStatement ==
  ASSUME NEW f, Fits(f), ~Ended(f)
  PROVE  /\ f.pc \in DOMAIN f.code /\ Statement(f) \in Statements
         /\ Statement(f).name \in Names /\ Statement(f).attr \in Attrs
  <1>1. f.code \in Seq(Statements) /\ f.pc \in Nat \ {0}
    BY FrameFields DEF Fits
  <1>2. f.pc \in DOMAIN f.code
    <2>1. CASE f.stage = "run"
      BY <1>1, <2>1 DEF Ended
    <2>2. CASE f.stage # "run"
      BY <2>2 DEF Fits
    <2> QED BY <2>1, <2>2
  <1>3. Statement(f) \in Statements
    BY <1>1, <1>2 DEF Statement
  <1>4. Statement(f).name \in Names /\ Statement(f).attr \in Attrs
    BY <1>3 DEF Statements
  <1> QED BY <1>2, <1>3, <1>4

LEMMA BeginImportInv ==
  ASSUME ImportInv, NEW t \in Threads, stack[t] # <<>>, BeginImport(t)
  PROVE  ImportInv'
  <1> DEFINE f == Top(t)
             n == Statement(f).name
             others == IF ByVm(f) THEN Ancestors[n] ELSE <<>>
             todo == <<n>> \o others
             g == [f EXCEPT !.stage = "find", !.todo = todo]
             e == Edit(f, f.pc, f.locals, "find", todo, <<>>)
  <1>1. ModulesTyped /\ StacksFit
    BY DEF ImportInv
  <1>2. Fits(f) /\ f \in FrameSet
    BY <1>1, RunningFrame
  <1> HIDE DEF f
  <1>3. /\ f.stage = "run" /\ ~Ended(f) /\ Statement(f).op \in {"import", "from", "star"}
        /\ SetTop(t, g)
        /\ UNCHANGED <<program, gil, registry, cache, dict, refs, lost, finished>>
    BY DEF BeginImport, f
  <1>4. f.pc \in DOMAIN f.code /\ n \in Names
    BY <1>2, <1>3, AtStatement
  <1>5. /\ f.pc \in Nat \ {0} /\ f.locals \in [Attrs -> Values] /\ f.got = <<>>
        /\ <<>> \in Seq(Mods) /\ <<>> \in Seq(Names)
    BY <1>2, <1>3, FrameFields, EmptySeq DEF Fits
  <1>6. others \in Seq(Names) /\ (f.kind = "c" => others = <<>>)
    BY <1>4, <1>5, AncestorsSolves DEF ByVm
  <1>7. todo \in Seq(Names) /\ Len(todo) = 1 + Len(others) /\ Len(others) \in Nat
    <2> HIDE DEF others
    <2> HIDE DEF n
    <2>1. <<n>> \in Seq(Names) /\ Len(<<n>>) = 1
      BY <1>4
    <2> QED BY <1>6, <2>1, ConcatProperties
  <1>8. todo # <<>> /\ (f.kind = "c" => Len(todo) <= 1)
    <2> HIDE DEF others
    <2>1. Len(<<>>) = 0
      OBVIOUS
    <2> QED BY <1>6, <1>7, <2>1
  <1> HIDE DEF todo
  <1>9. g = e
    BY <1>2, <1>5 DEF Edit, FrameSet
  <1>10. Edited(f, f.pc, f.locals, "find", todo, <<>>, e)
    BY <1>2, <1>5, <1>7, EditFields
  <1> HIDE DEF e
  <1>11. Fits(e)
    BY <1>2, <1>3, <1>4, <1>8, <1>10 DEF Edited, Fits, Same, Statement
  <1>12. Same(f, e) /\ e.locals = f.locals /\ e.got = f.got
    BY <1>5, <1>10 DEF Edited
  <1>13. gil' \in Threads
    BY <1>1, <1>3 DEF ModulesTyped
  <1>14. SetTop(t, e)
    BY <1>3, <1>9
  <1> QED BY <1>3, <1>11, <1>12, <1>13, <1>14, IdleInv DEF f

LEMMA NoExtensionInv ==
  ASSUME ImportInv, NEW t \in Threads, stack[t] # <<>>, NoExtension(t)
  PROVE  ImportInv'
  <1> DEFINE f == Top(t)
             g == NotFound(f)
  <1>1. ModulesTyped /\ StacksFit
    BY DEF ImportInv
  <1>2. Fits(f) /\ f \in FrameSet
    BY <1>1, RunningFrame
  <1>3. /\ f.stage = "find" /\ f.todo # <<>> /\ SetTop(t, g)
        /\ UNCHANGED <<program, gil, registry, cache, dict, refs, lost, finished>>
    BY DEF NoExtension, Looking
  <1> HIDE DEF f
  <1>4. Fits(g) /\ Same(f, g) /\ g.locals = f.locals /\ g.got = f.got
    BY <1>2, <1>3, NotFoundFits
  <1> HIDE DEF g
  <1>5. gil' \in Threads
    BY <1>1, <1>3 DEF ModulesTyped
  <1> QED BY <1>3, <1>4, <1>5, IdleInv DEF f

(* A frame that received a module has one reference more.                   *)
LEMMA ReceivedMine ==
  ASSUME NEW f, Fits(f), f.stage \in {"find", "source"}, f.todo # <<>>, NEW x \in Mods, NEW m
  PROVE  /\ Mine(Received(f, x), m) = Mine(f, m) + One(x, m)
         /\ Mine(f, m) \in Nat /\ One(x, m) \in Nat
         /\ Uses(Received(f, x), m) => Uses(f, m) \/ m = x
  <1> DEFINE g == Received(f, x)
  <1>1. f \in FrameSet /\ f.got \in Seq(Mods)
    BY FrameFields DEF Fits
  <1>2. Fits(g) /\ Same(f, g) /\ g.locals = f.locals /\ g.got = Append(f.got, x) /\ g \in FrameSet
    BY ReceivedFits DEF Fits
  <1> HIDE DEF g
  <1>3. /\ Mine(f, m) = InTable(f.locals, m) + InTable(f.got, m) + One(f.mod, m)
        /\ Mine(g, m) = InTable(g.locals, m) + InTable(g.got, m) + One(g.mod, m)
        /\ Mine(f, m) \in Nat
    BY <1>1, <1>2, FrameHolds
  <1>4. InTable(g.got, m) = InTable(f.got, m) + One(x, m) /\ InTable(f.got, m) \in Nat
    BY <1>1, <1>2, SequenceCount
  <1>5. /\ InTable(g.locals, m) = InTable(f.locals, m) /\ One(g.mod, m) = One(f.mod, m)
        /\ One(f.mod, m) \in Nat /\ One(x, m) \in Nat
    BY <1>2 DEF Same, One
  <1>6. InTable(f.locals, m) \in Nat
    BY <1>1, FrameFields, TableCount
  <1>7. Mine(g, m) = Mine(f, m) + One(x, m)
    BY <1>3, <1>4, <1>5, <1>6
  <1>8. ASSUME Uses(g, m) PROVE Uses(f, m) \/ m = x
    <2>1. CASE g.mod = m
      BY <1>2, <2>1 DEF Uses, Same
    <2>2. CASE g.mod # m
      <3>1. PICK i \in DOMAIN g.got : g.got[i] = m
        BY <1>8, <2>2 DEF Uses
      <3>2. /\ Len(f.got) \in Nat /\ DOMAIN f.got = 1 .. Len(f.got)
            /\ DOMAIN g.got = 1 .. Len(f.got) + 1
            /\ \A k \in 1 .. Len(f.got) : g.got[k] = f.got[k]
            /\ g.got[Len(f.got) + 1] = x
        BY <1>1, <1>2, AppendProperties
      <3>3. i \in 1 .. Len(f.got) \/ i = Len(f.got) + 1
        BY <3>1, <3>2
      <3>4. (i \in DOMAIN f.got /\ f.got[i] = m) \/ x = m
        BY <3>1, <3>2, <3>3
      <3> QED BY <3>4 DEF Uses
    <2> QED BY <2>1, <2>2
  <1> QED BY <1>3, <1>5, <1>7, <1>8 DEF g

(* A reference more, to a module that is kept.                              *)
LEMMA ReceiveInv ==
  ASSUME ImportInv, NEW t \in Threads, stack[t] # <<>>,
         Top(t).stage \in {"find", "source"}, Top(t).todo # <<>>,
         NEW n \in Names, NEW x \in Mods, x = cache[n] \/ x = registry[n],
         refs' = [refs EXCEPT ![x] = @ + 1], SetTop(t, Received(Top(t), x)),
         UNCHANGED <<program, gil, registry, cache, dict, lost, finished>>
  PROVE  ImportInv'
  <1> DEFINE f == Top(t)
             g == Received(f, x)
  <1>1. ModulesTyped /\ StacksFit
    BY DEF ImportInv
  <1>2. Fits(f)
    BY <1>1, RunningFrame
  <1>3. Fits(g) /\ Same(f, g)
    BY <1>2, ReceivedFits DEF Fits
  <1>4. \A m : /\ Mine(g, m) = Mine(f, m) + One(x, m) /\ Mine(f, m) \in Nat
               /\ Uses(g, m) => Uses(f, m) \/ m = x
    BY <1>2, ReceivedMine
  <1>5. SetTop(t, g)
    OBVIOUS
  <1> HIDE DEF f
  <1> HIDE DEF g
  <1>6. RefsFollow(f, g)
    <2>1. ASSUME NEW m \in Mods PROVE refs'[m] = refs[m] - Mine(f, m) + Mine(g, m)
      <3>1. refs[m] \in Nat /\ refs'[m] = refs[m] + One(x, m) /\ One(x, m) \in Nat
        BY <1>1 DEF ModulesTyped, One
      <3> QED BY <1>4, <3>1
    <2>2. refs' = [m \in Mods |-> refs'[m]]
      BY <1>1 DEF ModulesTyped
    <2> QED BY <2>1, <2>2 DEF RefsFollow
  <1>7. Kept(x)
    BY DEF ImportInv, UsedKept, Kept
  <1>8. UsesKept(f, g)
    BY <1>4, <1>7 DEF UsesKept
  <1>9. gil' \in Threads
    BY <1>1 DEF ModulesTyped
  <1> QED BY <1>3, <1>5, <1>6, <1>8, <1>9, QuietInv DEF f

LEMMA FindLoadedInv ==
  ASSUME ImportInv, NEW t \in Threads, stack[t] # <<>>, FindLoaded(t)
  PROVE  ImportInv'
  <1> DEFINE f == Top(t)
             n == Head(f.todo)
             x == Loaded(f)
  <1>1. /\ f.stage = "find" /\ f.todo # <<>> /\ x # Null /\ refs' = [refs EXCEPT ![x] = @ + 1]
        /\ SetTop(t, Received(f, x))
        /\ UNCHANGED <<program, gil, registry, cache, dict, lost, finished>>
    BY DEF FindLoaded, Looking
  <1>2. n \in Names
    <2>1. f.todo \in Seq(Names)
      BY RunningFrame, FrameFields DEF ImportInv
    <2> QED BY <1>1, <2>1, HeadTailProperties
  <1>3. x = cache[n] \/ x = registry[n]
    BY DEF Loaded
  <1>4. x \in Mods
    BY <1>1, <1>2, <1>3 DEF ImportInv, ModulesTyped
  <1> HIDE DEF n
  <1> HIDE DEF x
  <1> QED BY <1>1, <1>2, <1>3, <1>4, ReceiveInv

LEMMA SourceCachedInv ==
  ASSUME ImportInv, NEW t \in Threads, stack[t] # <<>>, SourceCached(t)
  PROVE  ImportInv'
  <1> DEFINE f == Top(t)
             n == Head(f.todo)
             x == cache[n]
  <1>1. /\ f.stage = "source" /\ x # Null /\ refs' = [refs EXCEPT ![x] = @ + 1]
        /\ SetTop(t, Received(f, x))
        /\ UNCHANGED <<program, gil, registry, cache, dict, lost, finished>>
    BY DEF SourceCached, AtSource
  <1>2. n \in Names /\ f.todo # <<>>
    <2>1. f.todo \in Seq(Names) /\ Fits(f)
      BY RunningFrame, FrameFields DEF ImportInv
    <2> QED BY <1>1, <2>1, HeadTailProperties DEF Fits
  <1>3. x \in Mods
    BY <1>1, <1>2 DEF ImportInv, ModulesTyped
  <1>4. x = cache[n]
    OBVIOUS
  <1> HIDE DEF n
  <1> HIDE DEF x
  <1> QED BY <1>1, <1>2, <1>3, <1>4, ReceiveInv

-----------------------------------------------------------------------------
(* The statements that touch no module.                                     *)
LEMMA OnwardFits ==
  ASSUME NEW f, Fits(f), f.stage = "run"
  PROVE  LET g == [f EXCEPT !.pc = @ + 1]
         IN  Fits(g) /\ Same(f, g) /\ g.locals = f.locals /\ g.got = f.got
  <1> DEFINE g == [f EXCEPT !.pc = @ + 1, !.locals = f.locals]
  <1>1. f \in FrameSet
    BY DEF Fits
  <1>2. f.locals \in [Attrs -> Values]
    BY <1>1, FrameFields
  <1>3. f.kind = "c" => f.locals = Empty
    BY DEF Fits
  <1>4. Fits(g) /\ Same(f, g) /\ g.locals = f.locals /\ g.got = f.got
    BY <1>2, <1>3, NextFits
  <1>5. [f EXCEPT !.pc = @ + 1] = g
    BY <1>1 DEF FrameSet
  <1> HIDE DEF g
  <1> QED BY <1>4, <1>5

(* A statement that moves the program counter and perhaps the GIL.          *)
LEMMA OnwardInv ==
  ASSUME ImportInv, NEW t \in Threads, stack[t] # <<>>, Top(t).stage = "run",
         SetTop(t, [Top(t) EXCEPT !.pc = @ + 1]),
         UNCHANGED <<program, registry, cache, dict, refs, lost, finished>>, gil' \in Threads
  PROVE  ImportInv'
  <1> DEFINE f == Top(t)
             g == [f EXCEPT !.pc = @ + 1]
  <1>1. Fits(f)
    BY RunningFrame DEF ImportInv
  <1>2. Fits(g) /\ Same(f, g) /\ g.locals = f.locals /\ g.got = f.got
    BY <1>1, OnwardFits
  <1>3. SetTop(t, g)
    OBVIOUS
  <1> HIDE DEF g
  <1> QED BY <1>2, <1>3, IdleInv

LEMMA RaiseInv ==
  ASSUME ImportInv, NEW t \in Threads, stack[t] # <<>>, Raise(t)
  PROVE  ImportInv'
  <1> DEFINE f == Top(t)
             g == Failed(f)
  <1>1. Fits(f) /\ gil \in Threads
    BY RunningFrame DEF ImportInv, ModulesTyped
  <1>2. /\ f.stage = "run" /\ ~Ended(f) /\ SetTop(t, g)
        /\ UNCHANGED <<program, gil, registry, cache, dict, refs, lost, finished>>
    BY DEF Raise
  <1>3. Fits(g) /\ Same(f, g) /\ g.locals = f.locals /\ g.got = <<>> /\ f.got = <<>>
    <2> HIDE DEF f
    <2> QED BY <1>1, <1>2, AtStatement, FailedFits DEF Fits
  <1> HIDE DEF g
  <1> QED BY <1>1, <1>2, <1>3, IdleInv

LEMMA SucceedInv ==
  ASSUME ImportInv, NEW t \in Threads, stack[t] # <<>>, Succeed(t)
  PROVE  ImportInv'
  BY OnwardInv DEF Succeed, ImportInv, ModulesTyped

LEMMA YieldInv ==
  ASSUME ImportInv, NEW t \in Threads, stack[t] # <<>>, Yield(t)
  PROVE  ImportInv'
  BY OnwardInv DEF Yield

(* The modules that were there are released.                                *)
LEMMA NoSourceInv ==
  ASSUME ImportInv, NEW t \in Threads, stack[t] # <<>>, NoSource(t)
  PROVE  ImportInv'
  <1> DEFINE f == Top(t)
             g == Failed(f)
  <1>1. Fits(f) /\ f \in FrameSet /\ gil \in Threads /\ ModulesTyped
    BY RunningFrame DEF ImportInv, ModulesTyped
  <1>2. /\ f.stage = "source" /\ SetTop(t, g)
        /\ refs' = [m \in Mods |-> refs[m] - InTable(f.got, m)]
        /\ UNCHANGED <<program, gil, registry, cache, dict, lost, finished>>
    BY DEF NoSource, AtSource
  <1> HIDE DEF f
  <1>3. Fits(g) /\ Same(f, g) /\ g.locals = f.locals /\ g.got = <<>>
    BY <1>1, <1>2, FailedFits DEF Fits
  <1>4. g \in FrameSet
    BY <1>3 DEF Fits
  <1> HIDE DEF g
  <1>5. RefsFollow(f, g)
    <2>1. ASSUME NEW m \in Mods PROVE refs'[m] = refs[m] - Mine(f, m) + Mine(g, m)
      <3>1. /\ Mine(f, m) = InTable(f.locals, m) + InTable(f.got, m) + One(f.mod, m)
            /\ Mine(g, m) = InTable(g.locals, m) + InTable(g.got, m) + One(g.mod, m)
        BY <1>1, <1>4, FrameHolds
      <3>2. InTable(g.got, m) = 0 /\ InTable(f.got, m) \in Nat
        BY <1>1, <1>3, FrameFields, SequenceCount
      <3>3. InTable(g.locals, m) = InTable(f.locals, m) /\ One(g.mod, m) = One(f.mod, m)
            /\ One(f.mod, m) \in Nat
        BY <1>3 DEF Same, One
      <3>4. InTable(f.locals, m) \in Nat
        BY <1>1, FrameFields, TableCount
      <3>5. refs[m] \in Nat /\ refs'[m] = refs[m] - InTable(f.got, m)
        BY <1>1, <1>2 DEF ModulesTyped
      <3> QED BY <3>1, <3>2, <3>3, <3>4, <3>5
    <2>2. refs' = [m \in Mods |-> refs'[m]]
      BY <1>2
    <2> QED BY <2>1, <2>2 DEF RefsFollow
  <1>6. UsesKept(f, g)
    BY <1>3 DEF UsesKept, Uses, Same
  <1> QED BY <1>1, <1>2, <1>3, <1>5, <1>6, QuietInv DEF f

-----------------------------------------------------------------------------
(* Statements that bind names.                                              *)
LEMMA GreatestNumber ==
  ASSUME NEW n \in Nat, NEW S \in SUBSET (1 .. n), S # {}
  PROVE  Max(S) \in S
  <1> DEFINE R == {ss \in Nat \X Nat : ss[1] < ss[2]}
             U == {k \in Nat : \A y \in S : y <= k}
  <1>1. OpToRel(<, Nat) = R
    BY Zenon DEF OpToRel
  <1>2. U \in SUBSET Nat /\ n \in U
    OBVIOUS
  <1> HIDE DEF U
  <1>3. \E x \in U : \A y \in U : ~(<<y, x>> \in OpToRel(<, Nat))
    BY <1>2, NatLessThanWellFounded, WFMin
  <1>4. PICK x \in U : \A y \in U : ~(<<y, x>> \in R)
    BY <1>1, <1>3, Zenon
  <1>5. x \in Nat /\ (\A y \in S : y <= x) /\ \A k \in Nat : (\A y \in S : y <= k) => x <= k
    <2>1. x \in Nat /\ (\A y \in S : y <= x)
      BY <1>4 DEF U
    <2>2. ASSUME NEW k \in Nat, \A y \in S : y <= k PROVE x <= k
      <3>1. k \in U
        BY <2>2 DEF U
      <3>2. ~(<<k, x>> \in R)
        BY <1>4, <3>1
      <3> QED BY <2>1, <3>2
    <2> QED BY <2>1, <2>2
  <1>6. x \in S
    <2> SUFFICES ASSUME x \notin S PROVE FALSE
      OBVIOUS
    <2>1. PICK z \in S : z \in 1 .. n
      OBVIOUS
    <2> DEFINE k == x - 1
    <2>2. k \in Nat /\ k + 1 = x
      BY <1>5, <2>1
    <2>3. \A y \in S : y <= k
      BY <1>5
    <2> HIDE DEF k
    <2>4. x <= k
      BY <1>5, <2>2, <2>3
    <2> QED BY <1>5, <2>2, <2>4
  <1>7. \E z \in S : \A y \in S : z >= y
    BY <1>5, <1>6
  <1> QED BY <1>7 DEF Max

(* The chain of an import holds the modules it got, the first one last.     *)
LEMMA ChainParts ==
  ASSUME NEW f \in FrameSet, f.got # <<>>
  PROVE  /\ Len(Chain(f)) = Len(f.got) /\ Chain(f)[Len(f.got)] = f.got[1]
         /\ \A i \in 1 .. Len(f.got) - 1 : Chain(f)[i] = f.got[i + 1]
  <1> DEFINE got == f.got
             tail == Tail(got)
             x == Head(got)
  <1>1. got \in Seq(Mods) /\ got # <<>> /\ Len(got) \in Nat \ {0} /\ DOMAIN got = 1 .. Len(got)
    BY FrameFields, EmptySeq
  <1>2. /\ tail \in Seq(Mods) /\ Len(tail) = Len(got) - 1 /\ x \in Mods
        /\ x = got[1] /\ \A i \in 1 .. Len(tail) : tail[i] = got[i + 1]
    BY <1>1, HeadTailProperties
  <1>3. tail \o <<x>> = Append(tail, x)
    BY <1>2, ConcatLast
  <1>4. Chain(f) = Append(tail, x)
    BY <1>3 DEF Chain
  <1> HIDE DEF x, tail
  <1> DEFINE c == Append(tail, x)
             n == Len(got)
  <1>5. /\ Len(c) = Len(tail) + 1 /\ c[Len(tail) + 1] = x
        /\ \A i \in 1 .. Len(tail) : c[i] = tail[i]
    BY <1>2, AppendedFront
  <1> HIDE DEF c
  <1>6. Len(tail) = n - 1 /\ Len(c) = n /\ n \in Nat /\ Len(tail) + 1 = n
    BY <1>1, <1>2, <1>5
  <1> HIDE DEF n
  <1>7. Len(c) = n /\ c[n] = got[1] /\ \A i \in 1 .. n - 1 : c[i] = got[i + 1]
    BY <1>2, <1>5, <1>6
  <1> QED BY <1>4, <1>7 DEF c, n

LEMMA ChainModules ==
  ASSUME NEW f \in FrameSet, f.got # <<>>
  PROVE  /\ Chain(f) \in Seq(Mods) /\ Head(Chain(f)) \in Mods /\ Head(f.got) \in Mods
         /\ \A i \in DOMAIN Chain(f) : Uses(f, Chain(f)[i])
         /\ Len(Chain(f)) \in Nat \ {0} /\ DOMAIN Chain(f) = 1 .. Len(Chain(f))
  <1> DEFINE got == f.got
             n == Len(got)
             c == Chain(f)
  <1>1. got \in Seq(Mods) /\ got # <<>> /\ n \in Nat \ {0} /\ DOMAIN got = 1 .. n
    BY FrameFields, EmptySeq
  <1>2. Head(got) \in Mods /\ Tail(got) \in Seq(Mods) /\ <<Head(got)>> \in Seq(Mods)
    BY <1>1, HeadTailProperties
  <1>3. c \in Seq(Mods)
    BY <1>2, ConcatProperties DEF Chain
  <1>4. Len(c) = n /\ c[n] = got[1] /\ \A i \in 1 .. n - 1 : c[i] = got[i + 1]
    BY ChainParts
  <1> HIDE DEF c, got, n
  <1>5. DOMAIN c = 1 .. n /\ c # <<>>
    BY <1>1, <1>3, <1>4
  <1>6. ASSUME NEW i \in 1 .. n PROVE \E k \in 1 .. n : c[i] = got[k]
    <2>1. CASE i = n
      <3>1. 1 \in 1 .. n
        BY <1>1
      <3> QED BY <1>4, <2>1, <3>1
    <2>2. CASE i # n
      <3>1. i \in 1 .. n - 1 /\ i + 1 \in 1 .. n
        BY <1>1, <2>2
      <3> QED BY <1>4, <3>1
    <2> QED BY <2>1, <2>2
  <1>7. \A i \in DOMAIN c : Uses(f, c[i])
    BY <1>1, <1>5, <1>6 DEF Uses, got
  <1>8. Head(c) \in Mods
    BY <1>3, <1>5, HeadTailProperties
  <1> QED BY <1>1, <1>2, <1>3, <1>4, <1>5, <1>7, <1>8 DEF got, c

(* What Bound makes of an attribute: a module of the chain, or what it was. *)
BindsAt(f, i, m, a) == Chain(f)[i] = m /\ Leaf[Path(Statement(f).name)[i + 1]] = a

LEMMA BoundValue ==
  ASSUME NEW f \in FrameSet, f.got # <<>>, NEW m \in Mods, NEW a \in Attrs
  PROVE  \/ /\ Bound(f)[m][a] = dict[m][a]
            /\ \A i \in 1 .. Len(Chain(f)) - 1 : ~BindsAt(f, i, m, a)
         \/ \E i \in 1 .. Len(Chain(f)) - 1 : BindsAt(f, i, m, a) /\ Bound(f)[m][a] = Chain(f)[i + 1]
  <1> DEFINE chain == Chain(f)
             names == Path(Statement(f).name)
             At(x, k) == {i \in 1 .. Len(chain) - 1 : chain[i] = x /\ Leaf[names[i + 1]] = k}
             B(x, k) == IF At(x, k) = {} THEN dict[x][k] ELSE chain[Max(At(x, k)) + 1]
             at == At(m, a)
  <1>1. Len(chain) \in Nat \ {0}
    BY ChainModules
  <1>2. Bound(f) = [x \in Mods |-> [k \in Attrs |-> B(x, k)]]
    BY DEF Bound, Path
  <1> HIDE DEF B
  <1>3. Bound(f)[m][a] = B(m, a)
    BY <1>2
  <1>4. B(m, a) = IF at = {} THEN dict[m][a] ELSE chain[Max(at) + 1]
    BY DEF B
  <1>5. \A i \in 1 .. Len(chain) - 1 : i \in at <=> BindsAt(f, i, m, a)
    BY DEF BindsAt
  <1>6. at \in SUBSET (1 .. Len(chain) - 1) /\ Len(chain) - 1 \in Nat
    BY <1>1
  <1> HIDE DEF at, chain
  <1>7. CASE at = {}
    BY <1>3, <1>4, <1>5, <1>7 DEF chain
  <1>8. CASE at # {}
    <2>1. Max(at) \in at
      BY <1>6, <1>8, GreatestNumber
    <2> QED BY <1>3, <1>4, <1>5, <1>6, <1>8, <2>1 DEF chain
  <1> QED BY <1>7, <1>8

LEMMA BoundTyped ==
  ASSUME ModulesTyped, NEW f \in FrameSet, f.got # <<>>
  PROVE  /\ Bound(f) \in [Mods -> [Attrs -> Values]]
         /\ \A m \in Mods : Bound(f)[m] # dict[m] => Uses(f, m)
  <1> DEFINE c == Chain(f)
             n == Len(c)
  <1>1. /\ c \in Seq(Mods) /\ n \in Nat \ {0} /\ DOMAIN c = 1 .. n
        /\ \A i \in DOMAIN c : Uses(f, c[i])
    BY ChainModules
  <1>2. dict \in [Mods -> [Attrs -> Values]]
    BY DEF ModulesTyped
  <1>3. Bound(f) = [m \in Mods |-> [a \in Attrs |-> Bound(f)[m][a]]]
    BY DEF Bound
  <1>4. ASSUME NEW m \in Mods, NEW a \in Attrs
        PROVE  Bound(f)[m][a] \in Values /\ (Bound(f)[m][a] # dict[m][a] => Uses(f, m))
    <2> DEFINE v == Bound(f)[m][a]
    <2>1. v = dict[m][a] \/ \E i \in 1 .. n - 1 : c[i] = m /\ v = c[i + 1]
      BY BoundValue DEF BindsAt
    <2> HIDE DEF v, c, n
    <2>2. CASE v = dict[m][a]
      BY <1>2, <2>2 DEF v
    <2>3. CASE \E i \in 1 .. n - 1 : c[i] = m /\ v = c[i + 1]
      <3>1. PICK i \in 1 .. n - 1 : c[i] = m /\ v = c[i + 1]
        BY <2>3
      <3>2. i \in DOMAIN c /\ i + 1 \in DOMAIN c
        BY <1>1
      <3> QED BY <1>1, <3>1, <3>2 DEF v, Values
    <2> QED BY <2>1, <2>2, <2>3
  <1> DEFINE b == Bound(f)
  <1> HIDE DEF b
  <1>5. b \in [Mods -> [Attrs -> Values]]
    BY <1>3, <1>4 DEF b
  <1>6. ASSUME NEW m \in Mods, ~Uses(f, m) PROVE b[m] = dict[m]
    <2>1. b[m] = [a \in Attrs |-> b[m][a]] /\ dict[m] = [a \in Attrs |-> dict[m][a]]
      BY <1>2, <1>5
    <2> QED BY <1>4, <1>6, <2>1 DEF b
  <1> QED BY <1>5, <1>6 DEF b

LEMMA BindingsTyped ==
  ASSUME NEW f \in FrameSet, f.got # <<>>, f.pc \in DOMAIN f.code,
         Statement(f).op \in {"import", "from", "star"},
         NEW d \in [Mods -> [Attrs -> Values]]
  PROVE  Bindings(f, d) \in [Attrs -> Values]
  <1>1. /\ Head(Chain(f)) \in Mods /\ Head(f.got) \in Mods
    BY ChainModules
  <1>2. f.code \in Seq(Statements) /\ f.locals \in [Attrs -> Values]
    BY FrameFields
  <1>3. Statement(f) \in Statements
    BY <1>2 DEF Statement
  <1>4. Statement(f).attr \in Attrs
    BY <1>3 DEF Statements
  <1>5. d[Head(f.got)] \in [Attrs -> Values]
    BY <1>1
  <1> DEFINE h == Head(Chain(f))
             leaf == Head(f.got)
             s == Statement(f)
             e == d[leaf]
             stars == [a \in Attrs |-> IF a \in Exported(s.name, e) THEN e[a] ELSE f.locals[a]]
  <1>6. stars \in [Attrs -> Values]
    BY <1>2, <1>5
  <1>7. [f.locals EXCEPT ![s.attr] = h] \in [Attrs -> Values]
    BY <1>1, <1>2 DEF Values
  <1>8. [f.locals EXCEPT ![s.attr] = e[s.attr]] \in [Attrs -> Values]
    BY <1>2, <1>4, <1>5
  <1>9. Bindings(f, d) = CASE s.op = "import" -> [f.locals EXCEPT ![s.attr] = h]
                           [] s.op = "from" -> [f.locals EXCEPT ![s.attr] = e[s.attr]]
                           [] s.op = "star" -> stars
    BY DEF Bindings
  <1> HIDE DEF stars
  <1> HIDE DEF h
  <1> HIDE DEF e
  <1> HIDE DEF s
  <1>10. s.op \in {"import", "from", "star"}
    BY DEF s
  <1> QED BY <1>6, <1>7, <1>8, <1>9, <1>10

LEMMA FinishedFits ==
  ASSUME NEW f, Fits(f), f.stage = "find", f.todo = <<>>, NEW locals \in [Attrs -> Values],
         f.kind = "c" => locals = Empty
  PROVE  LET g == [f EXCEPT !.pc = @ + 1, !.stage = "run", !.got = <<>>, !.locals = locals]
         IN  Fits(g) /\ Same(f, g) /\ g.locals = locals /\ g.got = <<>>
  <1>1. f \in FrameSet
    BY DEF Fits
  <1>2. f.pc + 1 \in Nat \ {0} /\ <<>> \in Seq(Names) /\ <<>> \in Seq(Mods)
    BY <1>1, FrameFields, EmptySeq
  <1> DEFINE g == Edit(f, f.pc + 1, locals, "run", <<>>, <<>>)
  <1>3. [f EXCEPT !.pc = @ + 1, !.stage = "run", !.got = <<>>, !.locals = locals] = g
    BY <1>1 DEF Edit, FrameSet
  <1>4. /\ g \in FrameSet /\ Same(f, g) /\ g.code = f.code /\ g.pc = f.pc + 1
        /\ g.locals = locals /\ g.stage = "run" /\ g.todo = <<>> /\ g.got = <<>>
    <2>1. Edited(f, f.pc + 1, locals, "run", <<>>, <<>>, g)
      BY <1>1, <1>2, EditFields
    <2> QED BY <2>1 DEF Edited
  <1> HIDE DEF g
  <1>5. Len(g.todo) = 0
    BY <1>4
  <1>6. Fits(g)
    BY <1>4, <1>5 DEF Fits, Same
  <1> QED BY <1>3, <1>4, <1>6

LEMMA FinishImportInv ==
  ASSUME ImportInv, NEW t \in Threads, stack[t] # <<>>, FinishImport(t)
  PROVE  ImportInv'
  <1> DEFINE f == Top(t)
             d == IF ByVm(f) THEN Bound(f) ELSE dict
             g1 == [f EXCEPT !.pc = @ + 1, !.stage = "run", !.got = <<>>]
             g2 == [f EXCEPT !.pc = @ + 1, !.stage = "run", !.got = <<>>, !.locals = Bindings(f, d)]
             g == CASE ~ByVm(f) -> g1 [] ByVm(f) /\ Missing(f, d) -> Failed(f) [] OTHER -> g2
  <1>1. ModulesTyped /\ StacksFit
    BY DEF ImportInv
  <1>2. Fits(f) /\ f \in FrameSet
    BY <1>1, RunningFrame
  <1>3. /\ f.stage = "find" /\ f.todo = <<>>
        /\ SetTop(t, g) /\ dict' = d
        /\ refs' = [m \in Mods |->
              refs[m] + InTable(g.locals, m) - InTable(f.locals, m) - InTable(f.got, m)
                + InDicts(d, m) - InDicts(dict, m)]
        /\ UNCHANGED <<program, gil, registry, cache, lost, finished>>
    BY DEF FinishImport
  <1>4. ASSUME NEW m, Uses(f, m) PROVE InUse(stack, m)
    BY <1>1, <1>4, TopUses
  <1> HIDE DEF f
  <1>5. f.got # <<>> /\ f.pc \in DOMAIN f.code /\ Statement(f).op \in {"import", "from", "star"}
    BY <1>2, <1>3 DEF Fits
  <1>6. d \in [Mods -> [Attrs -> Values]] /\ \A m \in Mods : d[m] # dict[m] => Uses(f, m)
    BY <1>1, <1>2, <1>5, BoundTyped DEF ModulesTyped
  <1> HIDE DEF d
  <1>7. Bindings(f, d) \in [Attrs -> Values] /\ f.locals \in [Attrs -> Values]
    BY <1>2, <1>5, <1>6, BindingsTyped, FrameFields
  <1>8. Fits(g) /\ Same(f, g) /\ g.got = <<>>
    <2>1. CASE ~ByVm(f)
      <3>1. g = g1
        BY <2>1
      <3>3. g1 = [f EXCEPT !.pc = @ + 1, !.stage = "run", !.got = <<>>, !.locals = f.locals]
        BY <1>2 DEF FrameSet
      <3>2. f.kind = "c" => f.locals = Empty
        BY <1>2 DEF Fits
      <3> HIDE DEF g
      <3> HIDE DEF g1
      <3> QED BY <1>2, <1>3, <1>7, <3>1, <3>2, <3>3, FinishedFits
    <2>2. CASE ByVm(f) /\ Missing(f, d)
      <3>1. g = Failed(f)
        BY <2>2
      <3> HIDE DEF g
      <3> QED BY <1>2, <1>5, <3>1, FailedFits
    <2>3. CASE ByVm(f) /\ ~Missing(f, d)
      <3>1. g = g2
        BY <2>3
      <3> DEFINE l == Bindings(f, d)
      <3>2. l \in [Attrs -> Values] /\ (f.kind = "c" => l = Empty)
        BY <1>7, <2>3 DEF ByVm
      <3>3. g2 = [f EXCEPT !.pc = @ + 1, !.stage = "run", !.got = <<>>, !.locals = l]
        OBVIOUS
      <3> HIDE DEF l
      <3> HIDE DEF g2
      <3> HIDE DEF g
      <3> QED BY <1>2, <1>3, <3>1, <3>2, <3>3, FinishedFits
    <2> QED BY <2>1, <2>2, <2>3
  <1>9. g \in FrameSet
    BY <1>8 DEF Fits
  <1> HIDE DEF g
  <1>10. RefsMoved(f, g)
    <2>1. ASSUME NEW m \in Mods
          PROVE  refs'[m] = refs[m] - Mine(f, m) + Mine(g, m) + InDicts(dict', m) - InDicts(dict, m)
      <3>1. /\ Mine(f, m) = InTable(f.locals, m) + InTable(f.got, m) + One(f.mod, m)
            /\ Mine(g, m) = InTable(g.locals, m) + InTable(g.got, m) + One(g.mod, m)
        BY <1>2, <1>9, FrameHolds
      <3>2. InTable(g.got, m) = 0 /\ InTable(f.got, m) \in Nat
        BY <1>2, <1>8, FrameFields, SequenceCount
      <3>3. One(g.mod, m) = One(f.mod, m) /\ One(f.mod, m) \in Nat
        BY <1>8 DEF Same, One
      <3>4. InTable(f.locals, m) \in Nat /\ InTable(g.locals, m) \in Nat
        BY <1>2, <1>9, FrameFields, TableCount
      <3>5. InDicts(dict, m) \in Nat /\ InDicts(d, m) \in Nat
        <4>1. d[m] \in [Attrs -> Values]
          BY <1>6
        <4> QED BY <1>1, <1>6, <4>1, CountsTyped, DictsHold
      <3>6. /\ refs[m] \in Nat
            /\ refs'[m] = refs[m] + InTable(g.locals, m) - InTable(f.locals, m) - InTable(f.got, m)
                            + InDicts(d, m) - InDicts(dict, m)
        BY <1>1, <1>3 DEF ModulesTyped
      <3>7. InDicts(dict', m) = InDicts(d, m)
        BY <1>3
      <3> QED BY <3>1, <3>2, <3>3, <3>4, <3>5, <3>6, <3>7
    <2>2. refs' = [m \in Mods |-> refs'[m]] /\ DOMAIN refs' = Mods
      BY <1>3
    <2> QED BY <2>1, <2>2 DEF RefsMoved
  <1>11. UsesKept(f, g)
    BY <1>8 DEF UsesKept, Uses, Same
  <1>12. DictsKept
    <2> SUFFICES ASSUME NEW m \in Mods, dict'[m] # dict[m] PROVE Kept(m)
      BY DEF DictsKept
    <2>1. InUse(stack, m)
      BY <1>3, <1>4, <1>6
    <2> QED BY <2>1 DEF ImportInv, UsedKept
  <1>13. gil' \in Threads /\ dict' \in [Mods -> [Attrs -> Values]]
    BY <1>1, <1>3, <1>6 DEF ModulesTyped
  <1> QED BY <1>3, <1>8, <1>10, <1>11, <1>12, <1>13, FrameInv DEF f

LEMMA DataSet ==
  ASSUME NEW T \in [Attrs -> Values], NEW a \in Attrs, NEW m \in Mods,
         NEW U, U = [T EXCEPT ![a] = Data]
  PROVE  /\ U \in [Attrs -> Values]
         /\ InTable(U, m) = InTable(T, m) - One(T[a], m)
         /\ InTable(T, m) \in Nat /\ One(T[a], m) \in Nat
  <1>1. InTable(U, m) = InTable(T, m) - One(T[a], m) + One(Data, m)
    <2>1. Replaced(T, U, T[a], Data, m)
      BY TableSet
    <2> QED BY <2>1 DEF Replaced
  <1>2. One(Data, m) = 0 /\ One(T[a], m) \in Nat
    BY DEF One
  <1>3. InTable(T, m) \in Nat
    BY TableCount
  <1>4. U \in [Attrs -> Values]
    BY DEF Values
  <1> QED BY <1>1, <1>2, <1>3, <1>4

LEMMA AssignLocal ==
  ASSUME ImportInv, NEW t \in Threads, stack[t] # <<>>, Assign(t), ByVm(Top(t))
  PROVE  ImportInv'
  <1> DEFINE f == Top(t)
             a == Statement(f).attr
             locals == [f.locals EXCEPT ![a] = Data]
             g == [f EXCEPT !.pc = @ + 1, !.locals = locals]
  <1>1. ModulesTyped /\ StacksFit
    BY DEF ImportInv
  <1>2. Fits(f) /\ f \in FrameSet /\ f.locals \in [Attrs -> Values]
    BY <1>1, RunningFrame, FrameFields
  <1> HIDE DEF f
  <1>3. /\ f.stage = "run" /\ ~Ended(f) /\ f.kind # "c" /\ dict' = dict
        /\ SetTop(t, [[f EXCEPT !.pc = @ + 1] EXCEPT !.locals[a] = Data])
        /\ refs' = [m \in Mods |-> refs[m] - (IF m = f.locals[a] THEN 1 ELSE 0)]
        /\ UNCHANGED <<program, gil, registry, cache, lost, finished>>
    BY DEF Assign, ByVm, f
  <1>4. a \in Attrs
    BY <1>2, <1>3, AtStatement
  <1>5. locals \in [Attrs -> Values]
    BY <1>2 DEF Values
  <1>6. [[f EXCEPT !.pc = @ + 1] EXCEPT !.locals[a] = Data] = g
    BY <1>2 DEF FrameSet
  <1> HIDE DEF a
  <1>7. \A m \in Mods : InTable(locals, m) = InTable(f.locals, m) - One(f.locals[a], m)
    <2> SUFFICES ASSUME NEW m \in Mods
                 PROVE  InTable(locals, m) = InTable(f.locals, m) - One(f.locals[a], m)
      OBVIOUS
    <2> DEFINE T == f.locals
    <2>1. T \in [Attrs -> Values] /\ locals = [T EXCEPT ![a] = Data]
      BY <1>2
    <2> HIDE DEF locals
    <2> HIDE DEF T
    <2>2. InTable(locals, m) = InTable(T, m) - One(T[a], m)
      BY <1>4, <2>1, DataSet
    <2> QED BY <2>2 DEF T
  <1> HIDE DEF locals
  <1>8. Fits(g) /\ Same(f, g) /\ g.locals = locals /\ g.got = f.got
    BY <1>2, <1>3, <1>5, NextFits
  <1>9. SetTop(t, g)
    BY <1>3, <1>6
  <1> HIDE DEF g
  <1>10. g \in FrameSet
    BY <1>8 DEF Fits
  <1>11. RefsFollow(f, g)
    <2>1. ASSUME NEW m \in Mods PROVE refs'[m] = refs[m] - Mine(f, m) + Mine(g, m)
      <3>1. /\ Mine(f, m) = InTable(f.locals, m) + InTable(f.got, m) + One(f.mod, m)
            /\ Mine(g, m) = InTable(g.locals, m) + InTable(g.got, m) + One(g.mod, m)
        BY <1>2, <1>10, FrameHolds
      <3>2. InTable(g.got, m) = InTable(f.got, m) /\ InTable(f.got, m) \in Nat
        BY <1>2, <1>8, FrameFields, SequenceCount
      <3>3. One(g.mod, m) = One(f.mod, m) /\ One(f.mod, m) \in Nat /\ One(f.locals[a], m) \in Nat
        BY <1>8 DEF Same, One
      <3>4. InTable(g.locals, m) = InTable(f.locals, m) - One(f.locals[a], m)
            /\ InTable(f.locals, m) \in Nat
        BY <1>2, <1>7, <1>8, TableCount
      <3>5. refs[m] \in Nat /\ refs'[m] = refs[m] - One(f.locals[a], m)
        BY <1>1, <1>3 DEF ModulesTyped, One
      <3> QED BY <3>1, <3>2, <3>3, <3>4, <3>5
    <2>2. refs' = [m \in Mods |-> refs'[m]]
      BY <1>3
    <2> QED BY <2>1, <2>2 DEF RefsFollow
  <1>12. UsesKept(f, g)
    BY <1>8 DEF UsesKept, Uses, Same
  <1>13. gil' \in Threads
    BY <1>1, <1>3 DEF ModulesTyped
  <1> QED BY <1>3, <1>8, <1>9, <1>11, <1>12, <1>13, QuietInv DEF f

LEMMA RunningInitKept ==
  ASSUME ImportInv, NEW t \in Threads, stack[t] # <<>>, Top(t).kind = "c"
  PROVE  Top(t).mod \in Mods /\ Kept(Top(t).mod)
  <1>1. /\ Fits(Top(t)) /\ Len(stack[t]) \in DOMAIN stack[t] /\ Top(t) = stack[t][Len(stack[t])]
        /\ stack[t] \in Seq(FrameSet)
    BY RunningFrame DEF ImportInv, ModulesTyped
  <1>2. Top(t).mod \in Mods
    BY <1>1 DEF Fits
  <1>3. Len(stack[t]) \in Nat /\ Runs(stack, t, Len(stack[t]), Top(t).mod)
    BY <1>1 DEF Runs
  <1> QED BY <1>2, <1>3 DEF Kept

LEMMA AssignOwn ==
  ASSUME ImportInv, NEW t \in Threads, stack[t] # <<>>, Assign(t), ~ByVm(Top(t))
  PROVE  ImportInv'
  <1> DEFINE f == Top(t)
             a == Statement(f).attr
             x == f.mod
             e == [dict[x] EXCEPT ![a] = Data]
             g == [f EXCEPT !.pc = @ + 1]
  <1>1. ModulesTyped /\ StacksFit
    BY DEF ImportInv
  <1>2. Fits(f) /\ f \in FrameSet
    BY <1>1, RunningFrame
  <1>3. /\ f.stage = "run" /\ ~Ended(f) /\ f.kind = "c" /\ SetTop(t, g)
        /\ dict' = [dict EXCEPT ![x][a] = Data]
        /\ refs' = [m \in Mods |-> refs[m] - (IF m = dict[x][a] THEN 1 ELSE 0)]
        /\ UNCHANGED <<program, gil, registry, cache, lost, finished>>
    BY DEF Assign, ByVm
  <1>4. x \in Mods /\ Kept(x)
    BY <1>3, RunningInitKept
  <1> HIDE DEF f
  <1>5. a \in Attrs
    BY <1>2, <1>3, AtStatement
  <1>6. dict \in [Mods -> [Attrs -> Values]] /\ dict[x] \in [Attrs -> Values]
    BY <1>1, <1>4 DEF ModulesTyped
  <1>7. e \in [Attrs -> Values] /\ dict' = [dict EXCEPT ![x] = e]
    BY <1>3, <1>6 DEF Values
  <1>8. ASSUME NEW m \in Mods
        PROVE  InDicts(dict', m) = InDicts(dict, m) - One(dict[x][a], m) /\ InDicts(dict, m) \in Nat
    <2> DEFINE T == dict[x]
    <2>1. T \in [Attrs -> Values] /\ e = [T EXCEPT ![a] = Data]
      BY <1>6
    <2> HIDE DEF a
    <2> HIDE DEF T
    <2> HIDE DEF e
    <2>2. /\ InTable(e, m) = InTable(T, m) - One(T[a], m)
          /\ InTable(T, m) \in Nat /\ One(T[a], m) \in Nat
      BY <1>5, <2>1, DataSet
    <2> HIDE DEF x
    <2>3. InDicts(dict, m) \in Nat
      BY <1>1, CountsTyped
    <2>4. InDicts(dict', m) = InDicts(dict, m) - InTable(T, m) + InTable(e, m)
      <3>1. DictReplaced(dict, dict', dict[x], e, m)
        BY <1>4, <1>6, <1>7, DictSet
      <3> QED BY <3>1 DEF DictReplaced, T
    <2>5. InDicts(dict', m) = InDicts(dict, m) - One(T[a], m)
      BY <2>2, <2>3, <2>4
    <2> QED BY <2>3, <2>5 DEF T
  <1>9. Fits(g) /\ Same(f, g) /\ g.locals = f.locals /\ g.got = f.got
    BY <1>2, <1>3, OnwardFits
  <1> HIDE DEF g
  <1>10. g \in FrameSet
    BY <1>9 DEF Fits
  <1>11. RefsMoved(f, g)
    <2>1. ASSUME NEW m \in Mods
          PROVE  refs'[m] = refs[m] - Mine(f, m) + Mine(g, m) + InDicts(dict', m) - InDicts(dict, m)
      <3>1. Mine(g, m) = Mine(f, m) /\ Mine(f, m) \in Nat
        BY <1>2, <1>9, SameMine, FrameHolds
      <3>2. refs[m] \in Nat /\ refs'[m] = refs[m] - One(dict[x][a], m) /\ One(dict[x][a], m) \in Nat
        BY <1>1, <1>3 DEF ModulesTyped, One
      <3> QED BY <1>8, <3>1, <3>2
    <2>2. refs' = [m \in Mods |-> refs'[m]] /\ DOMAIN refs' = Mods
      BY <1>3
    <2> QED BY <2>1, <2>2 DEF RefsMoved
  <1>12. UsesKept(f, g)
    BY <1>9 DEF UsesKept, Uses, Same
  <1>13. DictsKept
    BY <1>4, <1>6, <1>7 DEF DictsKept
  <1>14. gil' \in Threads
    BY <1>1, <1>3 DEF ModulesTyped
  <1>15. dict' \in [Mods -> [Attrs -> Values]]
    <2> HIDE DEF e
    <2> HIDE DEF x
    <2> QED BY <1>4, <1>6, <1>7
  <1> QED BY <1>3, <1>9, <1>11, <1>12, <1>13, <1>14, <1>15, FrameInv DEF f

LEMMA AssignInv ==
  ASSUME ImportInv, NEW t \in Threads, stack[t] # <<>>, Assign(t)
  PROVE  ImportInv'
  BY AssignLocal, AssignOwn

-----------------------------------------------------------------------------
(* The actions that change the tables: what is left to show of each.        *)
TypedNext ==
    /\ program' \in Programs /\ gil' \in Threads
    /\ stack' \in [Threads -> Seq(FrameSet)]
    /\ registry' \in [Names -> Mods \cup {Null}]
    /\ cache' \in [Names -> Mods \cup {Null}]
    /\ dict' \in [Mods -> [Attrs -> Values]]
    /\ refs' = [m \in Mods |-> refs'[m]] /\ lost' \in [Mods -> Nat]
    /\ finished' \subseteq Mods

Balance ==
    \A m \in Mods :
        refs'[m] = refs[m] + 2 * InTable(registry', m) - 2 * InTable(registry, m)
                     + InTable(cache', m) - InTable(cache, m)
                     + InDicts(dict', m) - InDicts(dict, m)
                     + InStacks(stack', m) - InStacks(stack, m) + lost'[m] - lost[m]

LEMMA Balanced ==
  ASSUME ImportInv, TypedNext, Balance
  PROVE  ModulesTyped' /\ ModuleRefsExact'
  <1>1. ASSUME NEW m \in Mods
        PROVE  refs'[m] = 2 * InTable(registry', m) + InTable(cache', m)
                            + InDicts(dict', m) + InStacks(stack', m) + lost'[m]
               /\ refs'[m] \in Nat
    <2>1. refs[m] = 2 * InTable(registry, m) + InTable(cache, m)
                      + InDicts(dict, m) + InStacks(stack, m) + lost[m]
      BY Exactly DEF ImportInv
    <2>2. /\ InTable(registry, m) \in Nat /\ InTable(cache, m) \in Nat
          /\ InDicts(dict, m) \in Nat /\ InStacks(stack, m) \in Nat /\ lost[m] \in Nat
      BY CountsTyped DEF ImportInv
    <2>3. InTable(registry', m) \in Nat /\ InTable(cache', m) \in Nat
      BY TableCount DEF TypedNext
    <2>4. InDicts(dict', m) \in Nat
      <3>1. dict'[m] \in [Attrs -> Values]
        BY DEF TypedNext
      <3> QED BY <3>1, DictsHold DEF TypedNext
    <2>5. InStacks(stack', m) \in Nat
      BY StacksHold, EmptySeq DEF TypedNext
    <2>6. lost'[m] \in Nat
      BY DEF TypedNext
    <2>7. refs'[m] = refs[m] + 2 * InTable(registry', m) - 2 * InTable(registry, m)
                       + InTable(cache', m) - InTable(cache, m)
                       + InDicts(dict', m) - InDicts(dict, m)
                       + InStacks(stack', m) - InStacks(stack, m) + lost'[m] - lost[m]
      BY DEF Balance
    <2> DEFINE a1 == 2 * InTable(registry, m)
               a2 == 2 * InTable(registry', m)
               b1 == InTable(cache, m)
               b2 == InTable(cache', m)
               c1 == InDicts(dict, m)
               c2 == InDicts(dict', m)
               d1 == InStacks(stack, m)
               d2 == InStacks(stack', m)
               e1 == lost[m]
               e2 == lost'[m]
               r1 == refs[m]
               r2 == refs'[m]
    <2>9. /\ a1 \in Nat /\ a2 \in Nat /\ b1 \in Nat /\ b2 \in Nat /\ c1 \in Nat /\ c2 \in Nat
          /\ d1 \in Nat /\ d2 \in Nat /\ e1 \in Nat /\ e2 \in Nat
      BY <2>2, <2>3, <2>4, <2>5, <2>6
    <2>11. r1 = a1 + b1 + c1 + d1 + e1
      BY <2>1
    <2>12. r2 = r1 + a2 - a1 + b2 - b1 + c2 - c1 + d2 - d1 + e2 - e1
      BY <2>7
    <2> HIDE DEF a1
    <2> HIDE DEF a2
    <2> HIDE DEF b1
    <2> HIDE DEF b2
    <2> HIDE DEF c1
    <2> HIDE DEF c2
    <2> HIDE DEF d1
    <2> HIDE DEF d2
    <2> HIDE DEF e1
    <2> HIDE DEF e2
    <2> HIDE DEF r1
    <2> HIDE DEF r2
    <2>10. r2 = a2 + b2 + c2 + d2 + e2
      BY <2>9, <2>11, <2>12
    <2>8. refs'[m] = 2 * InTable(registry', m) + InTable(cache', m)
                       + InDicts(dict', m) + InStacks(stack', m) + lost'[m]
      BY <2>10 DEF a2, b2, c2, d2, e2, r2
    <2> QED BY <2>3, <2>4, <2>5, <2>6, <2>8
  <1>2. refs' \in [Mods -> Nat]
    BY <1>1 DEF TypedNext
  <1>3. ModulesTyped'
    BY <1>2 DEF TypedNext, ModulesTyped
  <1> QED BY <1>1, <1>3, ExactlyNext

StaysKept == \A m \in Mods : Kept(m) => Kept(m)'

NewKept ==
    \A m \in Mods :
        /\ InUse(stack', m) => InUse(stack, m) \/ Kept(m)'
        /\ \A n \in Names : cache'[n] = m => cache[n] = m \/ Kept(m)'
        /\ dict'[m] # Empty => dict[m] # Empty \/ Kept(m)'

LEMMA UsedNext ==
  ASSUME ImportInv, StaysKept, NewKept
  PROVE  UsedKept'
  <1> SUFFICES ASSUME NEW m \in Mods,
                      InUse(stack', m) \/ (\E n \in Names : cache'[n] = m) \/ dict'[m] # Empty
               PROVE  Kept(m)'
    BY DEF UsedKept
  <1>1. InUse(stack, m) \/ (\E n \in Names : cache[n] = m) \/ dict[m] # Empty => Kept(m)'
    BY DEF ImportInv, UsedKept, StaysKept
  <1> QED BY <1>1 DEF NewKept

(* No initialiser starts, and what is registered has none running.          *)
NoNewInits ==
    /\ \A t \in Threads, i \in Nat, m \in Mods : Runs(stack', t, i, m) => Runs(stack, t, i, m)
    /\ \A n \in Names, m \in Mods : registry'[n] = m =>
          registry[n] = m \/ \A t \in Threads, i \in Nat : ~Runs(stack', t, i, m)

LEMMA InitsNext ==
  ASSUME ImportInv, NoNewInits
  PROVE  InitsPrivate'
  <1> SUFFICES ASSUME NEW t \in Threads, NEW i \in Nat, NEW m \in Mods, Runs(stack', t, i, m)
               PROVE  /\ \A n \in Names : registry'[n] # m
                      /\ \A u \in Threads, j \in Nat : Runs(stack', u, j, m) => u = t /\ j = i
    BY DEF InitsPrivate
  <1>1. /\ \A n \in Names : registry[n] # m
        /\ \A u \in Threads, j \in Nat : Runs(stack, u, j, m) => u = t /\ j = i
    BY DEF NoNewInits, ImportInv, InitsPrivate
  <1> QED BY <1>1 DEF NoNewInits

LEMMA AllNext ==
  ASSUME ImportInv, TypedNext, Balance, StacksFit', StaysKept, NewKept, NoNewInits
  PROVE  ImportInv'
  BY Balanced, UsedNext, InitsNext DEF ImportInv

-----------------------------------------------------------------------------
(* Registering a module.                                                    *)
Registered(n, x, created) ==
    /\ registry' \in [Names -> Mods \cup {Null}] /\ lost' \in [Mods -> Nat]
    /\ refs' = [m \in Mods |-> refs'[m]]
    /\ registry'[n] = x /\ \A k \in Names \ {n} : registry'[k] = registry[k]
    /\ \A m \in Mods :
          /\ refs'[m] = refs[m] + 2 * InTable(registry', m) - 2 * InTable(registry, m)
                          + lost'[m] - lost[m] + created * One(x, m)
          /\ InTable(registry', m) \in Nat /\ InTable(registry, m) \in Nat
          /\ (\E k \in Names : registry[k] = m) =>
                (\E k \in Names : registry'[k] = m) \/ lost'[m] > 0
          /\ lost[m] > 0 => lost'[m] > 0

LEMMA RegisterCounts ==
  ASSUME ModulesTyped, NEW n \in Names, NEW x \in Mods, NEW created \in {0, 2},
         Register(n, x, created)
  PROVE  Registered(n, x, created)
  <1> DEFINE old == registry[n]
  <1>1. /\ registry \in [Names -> Mods \cup {Null}] /\ lost \in [Mods -> Nat] /\ refs \in [Mods -> Nat]
    BY DEF ModulesTyped
  <1>2. /\ registry' = [registry EXCEPT ![n] = x]
        /\ refs' = [m \in Mods |-> refs[m] + (IF m = x THEN created + 2 ELSE 0)
                                          - (IF m = old THEN 1 ELSE 0)]
        /\ lost' = [m \in Mods |-> lost[m] + (IF m = old THEN 1 ELSE 0)]
    BY DEF Register
  <1>3. registry' \in [Names -> Mods \cup {Null}] /\ lost' \in [Mods -> Nat]
    BY <1>1, <1>2
  <1>4. registry'[n] = x /\ \A k \in Names \ {n} : registry'[k] = registry[k]
    BY <1>1, <1>2
  <1>5. ASSUME NEW m \in Mods
        PROVE  /\ refs'[m] = refs[m] + 2 * InTable(registry', m) - 2 * InTable(registry, m)
                               + lost'[m] - lost[m] + created * One(x, m)
               /\ InTable(registry', m) \in Nat /\ InTable(registry, m) \in Nat
    <2>1. InTable(registry', m) \in Nat /\ InTable(registry, m) \in Nat
      BY <1>1, <1>3, TableCount
    <2>2. InTable(registry', m) = InTable(registry, m) - One(old, m) + One(x, m)
      <3>1. Replaced(registry, registry', registry[n], x, m)
        BY <1>1, <1>2, TableSet
      <3> QED BY <3>1 DEF Replaced
    <2>3. lost'[m] = lost[m] + One(old, m) /\ lost[m] \in Nat /\ refs[m] \in Nat
      BY <1>1, <1>2 DEF One
    <2>4. refs'[m] = refs[m] + created * One(x, m) + 2 * One(x, m) - One(old, m)
      BY <1>1, <1>2 DEF One
    <2>5. One(old, m) \in Nat /\ One(x, m) \in Nat /\ created * One(x, m) \in Nat
      BY DEF One
    <2> DEFINE c == created * One(x, m)
    <2> HIDE DEF c
    <2>6. c \in Nat /\ refs'[m] = refs[m] + c + 2 * One(x, m) - One(old, m)
      BY <2>4, <2>5 DEF c
    <2> HIDE DEF old
    <2> DEFINE a1 == InTable(registry, m)
               a2 == InTable(registry', m)
               e1 == lost[m]
               e2 == lost'[m]
               p == One(old, m)
               q == One(x, m)
    <2>8. /\ a1 \in Nat /\ e1 \in Nat /\ p \in Nat /\ q \in Nat
          /\ a2 = a1 - p + q /\ e2 = e1 + p
      BY <2>1, <2>2, <2>3, <2>5
    <2>9. refs'[m] = refs[m] + c + 2 * q - p /\ refs[m] \in Nat
      BY <2>3, <2>6
    <2> HIDE DEF a1
    <2> HIDE DEF a2
    <2> HIDE DEF e1
    <2> HIDE DEF e2
    <2> HIDE DEF p
    <2> HIDE DEF q
    <2>10. refs'[m] = refs[m] + 2 * a2 - 2 * a1 + e2 - e1 + c
      BY <2>6, <2>8, <2>9
    <2>7. refs'[m] = refs[m] + 2 * InTable(registry', m) - 2 * InTable(registry, m)
                               + lost'[m] - lost[m] + c
      BY <2>10 DEF a1, a2, e1, e2
    <2> QED BY <2>1, <2>7 DEF c
  <1>6. ASSUME NEW m \in Mods, NEW k \in Names, registry[k] = m
        PROVE  (\E j \in Names : registry'[j] = m) \/ lost'[m] > 0
    <2>1. CASE k = n
      BY <1>1, <1>2, <1>6, <2>1
    <2>2. CASE k # n
      BY <1>4, <1>6, <2>2
    <2> QED BY <2>1, <2>2
  <1>7. \A m \in Mods : lost[m] > 0 => lost'[m] > 0
    BY <1>1, <1>2
  <1>8. refs' = [m \in Mods |-> refs'[m]]
    BY <1>2
  <1> QED BY <1>3, <1>4, <1>5, <1>6, <1>7, <1>8 DEF Registered

-----------------------------------------------------------------------------
(* The actions that create a module.                                        *)
LEMMA FileCode ==
  ASSUME ModulesTyped, NEW n \in Names
  PROVE  /\ program.files[n].init \in Seq(Statements) /\ program.files[n].body \in Seq(Statements)
         /\ program.files[n].defines \in Attrs
  <1>1. program.files[n] \in SourceFiles
    BY DEF ModulesTyped
  <1> QED BY <1>1 DEF SourceFiles

LEMMA EmptyHolds ==
  ASSUME NEW m \in Mods
  PROVE  InTable(Empty, m) = 0 /\ Empty \in [Attrs -> Values]
  <1>1. Empty \in [Attrs -> Values] /\ \A a \in Attrs : Empty[a] # m
    BY DEF Empty, Values
  <1>2. Lacks(Empty, m)
    BY <1>1 DEF Lacks
  <1> QED BY <1>1, <1>2, TableCount

LEMMA NewFrameHolds ==
  ASSUME NEW f, Fits(f), f.locals = Empty, f.got = <<>>, NEW m \in Mods
  PROVE  Mine(f, m) = One(f.mod, m) /\ One(f.mod, m) \in Nat /\ (Uses(f, m) => f.mod = m)
  <1>1. f \in FrameSet
    BY DEF Fits
  <1>2. Mine(f, m) = InTable(f.locals, m) + InTable(f.got, m) + One(f.mod, m)
    BY <1>1, FrameHolds
  <1>3. InTable(f.locals, m) = 0
    BY EmptyHolds
  <1>4. InTable(f.got, m) = 0
    BY EmptySeq, SequenceCount
  <1>5. One(f.mod, m) \in Nat
    BY DEF One
  <1> QED BY <1>2, <1>3, <1>4, <1>5 DEF Uses

(* A number for a module that had none.                                     *)
Numbered(T, U, x, k) ==
    /\ U \in [Mods -> Nat]
    /\ \A m \in Mods : U[m] = T[m] + k * One(x, m) /\ T[m] \in Nat

LEMMA FreshNumber ==
  ASSUME NEW T \in [Mods -> Nat], NEW x \in Mods, T[x] = 0, NEW k \in Nat, NEW U,
         U = [T EXCEPT ![x] = k]
  PROVE  Numbered(T, U, x, k)
  <1> SUFFICES ASSUME NEW m \in Mods PROVE U[m] = T[m] + k * One(x, m)
    BY DEF Numbered
  <1>1. CASE m = x
    BY <1>1 DEF One
  <1>2. CASE m # x
    BY <1>2 DEF One
  <1> QED BY <1>1, <1>2

LEMMA AddModuleInv ==
  ASSUME ImportInv, NEW t \in Threads, stack[t] # <<>>, AddModule(t)
  PROVE  ImportInv'
  <1> DEFINE f == Top(t)
             n == Statement(f).name
             g == [f EXCEPT !.pc = @ + 1]
             x == Fresh
  <1>1. ModulesTyped /\ StacksFit
    BY DEF ImportInv
  <1>2. Fits(f) /\ f \in FrameSet
    BY <1>1, RunningFrame
  <1>3. /\ f.stage = "run" /\ ~Ended(f) /\ SetTop(t, g)
        /\ UNCHANGED <<program, gil, cache, finished>>
    BY DEF AddModule
  <1>4. CASE registry[n] # Null
    <2>1. UNCHANGED <<registry, dict, refs, lost>>
      BY <1>4 DEF AddModule
    <2>2. gil' \in Threads
      BY <1>1, <1>3 DEF ModulesTyped
    <2> QED BY <1>3, <2>1, <2>2, OnwardInv
  <1>5. CASE registry[n] = Null
    <2>1. /\ HasFresh /\ registry' = [registry EXCEPT ![n] = x]
          /\ dict' = [dict EXCEPT ![x] = Empty]
          /\ refs' = [refs EXCEPT ![x] = 3] /\ lost' = [lost EXCEPT ![x] = 1]
      BY <1>5 DEF AddModule
    <2>2. x \in Mods /\ Unused(x)
      BY <2>1, FreshUnused
    <2>3. Fits(g) /\ Same(f, g) /\ g.locals = f.locals /\ g.got = f.got
      BY <1>2, <1>3, OnwardFits
    <2>4. n \in Names
      BY <1>2, <1>3, AtStatement
    <2>5. \A m : Uses(f, m) => InUse(stack, m)
      BY <1>1, TopUses
    <2> HIDE DEF g
    <2> HIDE DEF x
    <2> HIDE DEF n
    <2>6. /\ stack' \in [Threads -> Seq(FrameSet)] /\ StacksFit'
          /\ \A m : InStacks(stack', m) = InStacks(stack, m) - Mine(f, m) + Mine(g, m)
          /\ \A u \in Threads, i \in Nat, m \in Mods : Runs(stack', u, i, m) <=> Runs(stack, u, i, m)
          /\ \A m : InUse(stack', m) => InUse(stack, m) \/ Uses(g, m)
      BY <1>1, <1>3, <2>3, SetTopStep
    <2> HIDE DEF f
    <2>7. \A m : Mine(g, m) = Mine(f, m) /\ (Uses(g, m) <=> Uses(f, m)) /\ Mine(f, m) \in Nat
      BY <1>2, <2>3, SameMine, FrameHolds
    <2>8. /\ registry \in [Names -> Mods \cup {Null}] /\ lost \in [Mods -> Nat]
          /\ refs \in [Mods -> Nat] /\ dict \in [Mods -> [Attrs -> Values]]
      BY <1>1 DEF ModulesTyped
    <2>9. dict' = dict
      BY <2>1, <2>2, <2>8 DEF Unused
    <2>10. /\ refs' \in [Mods -> Nat] /\ lost' \in [Mods -> Nat]
           /\ \A m \in Mods : refs'[m] = refs[m] + 3 * One(x, m) /\ refs[m] \in Nat
           /\ \A m \in Mods : lost'[m] = lost[m] + 1 * One(x, m) /\ lost[m] \in Nat
      <3>1. refs[x] = 0 /\ lost[x] = 0
        BY <2>2 DEF Unused
      <3>2. Numbered(refs, refs', x, 3)
        BY <2>1, <2>2, <2>8, <3>1, FreshNumber
      <3>3. Numbered(lost, lost', x, 1)
        BY <2>1, <2>2, <2>8, <3>1, FreshNumber
      <3> QED BY <3>2, <3>3 DEF Numbered
    <2>11. registry' \in [Names -> Mods \cup {Null}]
      BY <2>1, <2>2, <2>8
    <2>12. TypedNext
      BY <1>1, <1>3, <2>6, <2>8, <2>9, <2>10, <2>11 DEF TypedNext, ModulesTyped
    <2>13. Balance
      <3> SUFFICES ASSUME NEW m \in Mods
                   PROVE  refs'[m] = refs[m] + 2 * InTable(registry', m) - 2 * InTable(registry, m)
                            + InTable(cache', m) - InTable(cache, m)
                            + InDicts(dict', m) - InDicts(dict, m)
                            + InStacks(stack', m) - InStacks(stack, m) + lost'[m] - lost[m]
        BY DEF Balance
      <3>1. InTable(registry', m) = InTable(registry, m) + One(x, m)
        <4>1. Replaced(registry, registry', registry[n], x, m)
          BY <2>1, <2>4, <2>8, TableSet
        <4>2. One(registry[n], m) = 0
          BY <1>5 DEF One, n
        <4>3. InTable(registry, m) \in Nat /\ One(x, m) \in Nat
          BY <1>1, CountsTyped DEF One
        <4> QED BY <4>1, <4>2, <4>3 DEF Replaced
      <3>2. /\ InTable(registry, m) \in Nat /\ InTable(cache, m) \in Nat /\ InDicts(dict, m) \in Nat
            /\ InStacks(stack, m) \in Nat /\ One(x, m) \in Nat
        BY <1>1, CountsTyped DEF One
      <3>3. InTable(cache', m) = InTable(cache, m) /\ InDicts(dict', m) = InDicts(dict, m)
        BY <1>3, <2>9
      <3>4. InStacks(stack', m) = InStacks(stack, m)
        BY <2>6, <2>7, <3>2
      <3> DEFINE a == InTable(registry, m)
                 a2 == InTable(registry', m)
                 c == InTable(cache, m)
                 c2 == InTable(cache', m)
                 d == InDicts(dict, m)
                 d2 == InDicts(dict', m)
                 s == InStacks(stack, m)
                 s2 == InStacks(stack', m)
                 l == lost[m]
                 l2 == lost'[m]
                 q == One(x, m)
      <3>90. /\ a \in Nat /\ c \in Nat /\ d \in Nat /\ s \in Nat /\ l \in Nat
            /\ q \in Nat
            /\ a2 = a + q /\ c2 = c /\ d2 = d /\ s2 = s /\ l2 = l + q
            /\ refs'[m] = refs[m] + 3 * q /\ refs[m] \in Nat
        BY <2>10, <3>1, <3>2, <3>3, <3>4
      <3> HIDE DEF a
      <3> HIDE DEF a2
      <3> HIDE DEF c
      <3> HIDE DEF c2
      <3> HIDE DEF d
      <3> HIDE DEF d2
      <3> HIDE DEF s
      <3> HIDE DEF s2
      <3> HIDE DEF l
      <3> HIDE DEF l2
      <3> HIDE DEF q
      <3>91. refs'[m] = refs[m] + 2 * a2 - 2 * a + c2 - c + d2 - d + s2 - s + l2 - l
        BY <3>90
      <3> QED BY <3>91 DEF a, a2, c, c2, d, d2, s, s2, l, l2
    <2>14. StaysKept
      <3> SUFFICES ASSUME NEW m \in Mods, Kept(m) PROVE Kept(m)'
        BY DEF StaysKept
      <3>1. CASE \E u \in Threads, i \in Nat : Runs(stack, u, i, m)
        BY <2>6, <3>1 DEF Kept
      <3>2. CASE \E k \in Names : registry[k] = m
        <4>1. PICK k \in Names : registry[k] = m
          BY <3>2
        <4>2. k # n
          BY <1>5, <4>1 DEF n
        <4> QED BY <2>1, <2>8, <4>1, <4>2 DEF Kept
      <3>3. CASE lost[m] > 0
        <4>1. lost'[m] > 0
          BY <2>10, <3>3, SMTT(30) DEF One
        <4> QED BY <4>1 DEF Kept
      <3> QED BY <3>1, <3>2, <3>3 DEF Kept
    <2>15. NewKept
      BY <1>3, <2>5, <2>6, <2>7, <2>9 DEF NewKept, f
    <2>16. NoNewInits
      <3>1. \A k \in Names, m \in Mods : registry'[k] = m => registry[k] = m \/ m = x
        BY <2>1, <2>8
      <3>2. \A u \in Threads, i \in Nat : ~Runs(stack', u, i, x)
        BY <2>2, <2>6 DEF Unused
      <3>3. ASSUME NEW k \in Names, NEW m \in Mods, registry'[k] = m, registry[k] # m
            PROVE  \A u \in Threads, i \in Nat : ~Runs(stack', u, i, m)
        <4>1. m = x
          BY <3>1, <3>3
        <4> QED BY <3>2, <4>1
      <3>4. \A u \in Threads, i \in Nat, m \in Mods : Runs(stack', u, i, m) => Runs(stack, u, i, m)
        BY <2>6
      <3> QED BY <3>3, <3>4 DEF NoNewInits
    <2> QED BY <2>6, <2>12, <2>13, <2>14, <2>15, <2>16, AllNext
  <1> QED BY <1>4, <1>5

LEMMA LoadExtensionInv ==
  ASSUME ImportInv, NEW t \in Threads, stack[t] # <<>>, LoadExtension(t)
  PROVE  ImportInv'
  <1> DEFINE f == Top(t)
             n == Head(f.todo)
             k == Len(stack[t]) + 1
             code == program.files[n].init
  <1>1. ModulesTyped /\ StacksFit
    BY DEF ImportInv
  <1>3. PICK x \in Mods : x = Fresh /\ Unused(x)
    BY FreshUnused DEF LoadExtension
  <1> DEFINE g == Frame("c", n, x, code)
  <1>2. /\ f.stage = "find" /\ f.todo # <<>> /\ Len(stack[t]) < MaxFrames
        /\ refs' = [refs EXCEPT ![x] = 1] /\ dict' = [dict EXCEPT ![x] = Empty]
        /\ Push(t, g)
        /\ UNCHANGED <<program, gil, registry, cache, lost, finished>>
    BY <1>3 DEF LoadExtension, Looking
  <1>4. n \in Names
    <2>1. f.todo \in Seq(Names)
      BY <1>1, RunningFrame, FrameFields
    <2> QED BY <1>2, <2>1, HeadTailProperties
  <1>5. /\ Fits(g) /\ g.kind = "c" /\ g.name = n /\ g.mod = x
        /\ g.got = <<>> /\ g.locals = Empty
    <2>1. code \in Seq(Statements)
      BY <1>1, <1>4, FileCode
    <2> HIDE DEF n
    <2> HIDE DEF code
    <2>2. Starts(g, "c", n, x)
      BY <1>4, <2>1, ImportFrame
    <2> HIDE DEF g
    <2> QED BY <2>2 DEF Starts
  <1>6. k \in Nat
    BY <1>1, RunningFrame
  <1> HIDE DEF g
  <1>7. Awaits(f, g)
    BY <1>2, <1>5 DEF Awaits
  <1>8. /\ stack' \in [Threads -> Seq(FrameSet)] /\ StacksFit'
        /\ \A m : InStacks(stack', m) = InStacks(stack, m) + Mine(g, m)
        /\ OneMore(stack, t, g, k, stack')
        /\ \A m : InUse(stack', m) => InUse(stack, m) \/ Uses(g, m)
    BY <1>1, <1>2, <1>5, <1>7, PushStep
  <1> HIDE DEF f
  <1> HIDE DEF n
  <1> HIDE DEF k
  <1>9. \A u \in Threads, i \in Nat, m \in Mods :
           Runs(stack', u, i, m) <=> Runs(stack, u, i, m) \/ (u = t /\ i = k /\ m = x)
    BY <1>5, <1>8 DEF OneMore
  <1>10. \A m \in Mods : Mine(g, m) = One(x, m) /\ One(x, m) \in Nat /\ (Uses(g, m) => m = x)
    BY <1>5, NewFrameHolds
  <1>11. /\ refs \in [Mods -> Nat] /\ lost \in [Mods -> Nat] /\ dict \in [Mods -> [Attrs -> Values]]
    BY <1>1 DEF ModulesTyped
  <1>12. dict' = dict
    BY <1>2, <1>3, <1>11 DEF Unused
  <1>13. refs' \in [Mods -> Nat] /\ \A m \in Mods : refs'[m] = refs[m] + 1 * One(x, m)
    <2>1. Numbered(refs, refs', x, 1)
      BY <1>2, <1>3, <1>11, FreshNumber DEF Unused
    <2> QED BY <2>1 DEF Numbered
  <1>14. TypedNext
    BY <1>1, <1>2, <1>8, <1>12, <1>13 DEF TypedNext, ModulesTyped
  <1>15. Balance
    <2> SUFFICES ASSUME NEW m \in Mods
                 PROVE  refs'[m] = refs[m] + 2 * InTable(registry', m) - 2 * InTable(registry, m)
                          + InTable(cache', m) - InTable(cache, m)
                          + InDicts(dict', m) - InDicts(dict, m)
                          + InStacks(stack', m) - InStacks(stack, m) + lost'[m] - lost[m]
      BY DEF Balance
    <2>1. /\ InTable(registry, m) \in Nat /\ InTable(cache, m) \in Nat /\ InDicts(dict, m) \in Nat
          /\ InStacks(stack, m) \in Nat /\ lost[m] \in Nat /\ refs[m] \in Nat
      BY <1>1, CountsTyped
    <2>2. /\ InTable(registry', m) = InTable(registry, m) /\ InTable(cache', m) = InTable(cache, m)
          /\ InDicts(dict', m) = InDicts(dict, m) /\ lost'[m] = lost[m]
      BY <1>2, <1>12
    <2>3. /\ InStacks(stack', m) = InStacks(stack, m) + One(x, m) /\ One(x, m) \in Nat
          /\ refs'[m] = refs[m] + One(x, m)
      BY <1>8, <1>10, <1>13, <2>1
    <2> DEFINE a == InTable(registry, m)
               a2 == InTable(registry', m)
               c == InTable(cache, m)
               c2 == InTable(cache', m)
               d == InDicts(dict, m)
               d2 == InDicts(dict', m)
               s == InStacks(stack, m)
               s2 == InStacks(stack', m)
               l == lost[m]
               l2 == lost'[m]
               q == One(x, m)
    <2>90. /\ a \in Nat /\ c \in Nat /\ d \in Nat /\ s \in Nat /\ l \in Nat
          /\ q \in Nat
          /\ a2 = a /\ c2 = c /\ d2 = d /\ s2 = s + q /\ l2 = l
          /\ refs'[m] = refs[m] + q /\ refs[m] \in Nat
      BY <2>1, <2>2, <2>3
    <2> HIDE DEF a
    <2> HIDE DEF a2
    <2> HIDE DEF c
    <2> HIDE DEF c2
    <2> HIDE DEF d
    <2> HIDE DEF d2
    <2> HIDE DEF s
    <2> HIDE DEF s2
    <2> HIDE DEF l
    <2> HIDE DEF l2
    <2> HIDE DEF q
    <2>91. refs'[m] = refs[m] + 2 * a2 - 2 * a + c2 - c + d2 - d + s2 - s + l2 - l
      BY <2>90
    <2> QED BY <2>91 DEF a, a2, c, c2, d, d2, s, s2, l, l2
  <1>16. StaysKept
    BY <1>2, <1>9 DEF StaysKept, Kept
  <1>17. NewKept
    <2>1. Runs(stack', t, k, x)
      BY <1>3, <1>6, <1>9
    <2>2. Kept(x)'
      BY <1>6, <2>1 DEF Kept
    <2>3. \A m \in Mods : InUse(stack', m) => InUse(stack, m) \/ Kept(m)'
      BY <1>8, <1>10, <2>2
    <2> QED BY <1>2, <1>12, <2>3 DEF NewKept
  <1>18. InitsPrivate'
    <2> SUFFICES ASSUME NEW u \in Threads, NEW i \in Nat, NEW m \in Mods, Runs(stack', u, i, m)
                 PROVE  /\ \A j \in Names : registry'[j] # m
                        /\ \A v \in Threads, j \in Nat : Runs(stack', v, j, m) => v = u /\ j = i
      BY DEF InitsPrivate
    <2>1. /\ \A j \in Names : registry[j] # x
          /\ \A v \in Threads, j \in Nat : ~Runs(stack, v, j, x)
      BY <1>3 DEF Unused
    <2>2. CASE m = x
      BY <1>2, <1>9, <2>1, <2>2
    <2>3. CASE m # x
      <3>1. Runs(stack, u, i, m)
        BY <1>9, <2>3
      <3>2. /\ \A j \in Names : registry[j] # m
            /\ \A v \in Threads, j \in Nat : Runs(stack, v, j, m) => v = u /\ j = i
        BY <3>1 DEF ImportInv, InitsPrivate
      <3> QED BY <1>2, <1>9, <2>3, <3>2
    <2> QED BY <2>2, <2>3
  <1>19. ModulesTyped' /\ ModuleRefsExact'
    BY <1>14, <1>15, Balanced
  <1>20. UsedKept'
    BY <1>16, <1>17, UsedNext
  <1> QED BY <1>8, <1>18, <1>19, <1>20 DEF ImportInv

(* What registering a new module does to what is kept and who runs.         *)
LEMMA RegisteredStays ==
  ASSUME ImportInv, NEW n \in Names, NEW x \in Mods, Unused(x), NEW created,
         Registered(n, x, created),
         \A u \in Threads, i \in Nat, m \in Mods : Runs(stack', u, i, m) <=> Runs(stack, u, i, m)
  PROVE  StaysKept /\ NoNewInits /\ Kept(x)'
  <1>1. /\ registry'[n] = x /\ \A k \in Names \ {n} : registry'[k] = registry[k]
        /\ \A m \in Mods : (\E k \in Names : registry[k] = m) =>
                (\E k \in Names : registry'[k] = m) \/ lost'[m] > 0
        /\ \A m \in Mods : lost[m] > 0 => lost'[m] > 0
    BY DEF Registered
  <1>2. StaysKept
    BY <1>1 DEF StaysKept, Kept
  <1>3. Kept(x)'
    BY <1>1 DEF Kept
  <1>4. \A u \in Threads, i \in Nat : ~Runs(stack', u, i, x)
    BY DEF Unused
  <1>5. ASSUME NEW k \in Names, NEW m \in Mods, registry'[k] = m, registry[k] # m
        PROVE  \A u \in Threads, i \in Nat : ~Runs(stack', u, i, m)
    <2>1. m = x
      BY <1>1, <1>5
    <2> QED BY <1>4, <2>1
  <1>6. NoNewInits
    BY <1>5 DEF NoNewInits
  <1> QED BY <1>2, <1>3, <1>6

LEMMA RunSourceInv ==
  ASSUME ImportInv, NEW t \in Threads, stack[t] # <<>>, RunSource(t)
  PROVE  ImportInv'
  <1> DEFINE f == Top(t)
             n == Head(f.todo)
             k == Len(stack[t]) + 1
             code == program.files[n].body
  <1>1. ModulesTyped /\ StacksFit
    BY DEF ImportInv
  <1>3. PICK x \in Mods : x = Fresh /\ Unused(x)
    BY FreshUnused DEF RunSource
  <1> DEFINE g == Frame("body", n, x, code)
  <1>2. /\ f.stage = "source" /\ Len(stack[t]) < MaxFrames
        /\ cache[n] = Null /\ cache' = [cache EXCEPT ![n] = x] /\ Register(n, x, 2)
        /\ dict' = [dict EXCEPT ![x] = Empty]
        /\ Push(t, g)
        /\ UNCHANGED <<program, gil, finished>>
    BY <1>3 DEF RunSource, AtSource
  <1>4. n \in Names /\ f.todo # <<>>
    <2>1. f.todo \in Seq(Names) /\ f.todo # <<>>
      BY <1>1, <1>2, RunningFrame, FrameFields DEF Fits
    <2> QED BY <2>1, HeadTailProperties
  <1>5. /\ Fits(g) /\ g.kind = "body" /\ g.name = n /\ g.mod = x
        /\ g.got = <<>> /\ g.locals = Empty
    <2>1. code \in Seq(Statements)
      BY <1>1, <1>4, FileCode
    <2> HIDE DEF n
    <2> HIDE DEF code
    <2>2. Starts(g, "body", n, x)
      BY <1>4, <2>1, ImportFrame
    <2> HIDE DEF g
    <2> QED BY <2>2 DEF Starts
  <1>6. k \in Nat
    BY <1>1, RunningFrame
  <1> HIDE DEF g
  <1>7. Awaits(f, g)
    BY <1>2, <1>4, <1>5 DEF Awaits
  <1>8. /\ stack' \in [Threads -> Seq(FrameSet)] /\ StacksFit'
        /\ \A m : InStacks(stack', m) = InStacks(stack, m) + Mine(g, m)
        /\ OneMore(stack, t, g, k, stack')
        /\ \A m : InUse(stack', m) => InUse(stack, m) \/ Uses(g, m)
    BY <1>1, <1>2, <1>5, <1>7, PushStep
  <1> HIDE DEF f
  <1> HIDE DEF n
  <1> HIDE DEF k
  <1>9. \A u \in Threads, i \in Nat, m \in Mods : Runs(stack', u, i, m) <=> Runs(stack, u, i, m)
    BY <1>5, <1>8 DEF OneMore
  <1>10. \A m \in Mods : Mine(g, m) = One(x, m) /\ One(x, m) \in Nat /\ (Uses(g, m) => m = x)
    BY <1>5, NewFrameHolds
  <1>11. dict \in [Mods -> [Attrs -> Values]] /\ cache \in [Names -> Mods \cup {Null}]
    BY <1>1 DEF ModulesTyped
  <1>12. dict' = dict
    BY <1>2, <1>3, <1>11 DEF Unused
  <1>13. Registered(n, x, 2)
    BY <1>1, <1>2, <1>4, RegisterCounts
  <1>14. cache' \in [Names -> Mods \cup {Null}] /\ cache'[n] = x
         /\ \A j \in Names \ {n} : cache'[j] = cache[j]
    BY <1>2, <1>4, <1>11
  <1>15. TypedNext
    BY <1>1, <1>2, <1>8, <1>12, <1>13, <1>14 DEF TypedNext, ModulesTyped, Registered
  <1>16. Balance
    <2> SUFFICES ASSUME NEW m \in Mods
                 PROVE  refs'[m] = refs[m] + 2 * InTable(registry', m) - 2 * InTable(registry, m)
                          + InTable(cache', m) - InTable(cache, m)
                          + InDicts(dict', m) - InDicts(dict, m)
                          + InStacks(stack', m) - InStacks(stack, m) + lost'[m] - lost[m]
      BY DEF Balance
    <2>1. /\ InTable(registry, m) \in Nat /\ InTable(cache, m) \in Nat /\ InDicts(dict, m) \in Nat
          /\ InStacks(stack, m) \in Nat /\ lost[m] \in Nat /\ refs[m] \in Nat
      BY <1>1, CountsTyped
    <2>2. InDicts(dict', m) = InDicts(dict, m)
      BY <1>12
    <2>3. InStacks(stack', m) = InStacks(stack, m) + One(x, m) /\ One(x, m) \in Nat
      BY <1>8, <1>10, <2>1
    <2>4. InTable(cache', m) = InTable(cache, m) + One(x, m)
      <3>1. Replaced(cache, cache', cache[n], x, m)
        BY <1>2, <1>4, <1>11, TableSet
      <3>2. One(cache[n], m) = 0
        BY <1>2 DEF One
      <3> QED BY <2>1, <2>3, <3>1, <3>2 DEF Replaced
    <2>5. /\ refs'[m] = refs[m] + 2 * InTable(registry', m) - 2 * InTable(registry, m)
                          + lost'[m] - lost[m] + 2 * One(x, m)
          /\ InTable(registry', m) \in Nat /\ lost'[m] \in Nat
      BY <1>13 DEF Registered
    <2> DEFINE a == InTable(registry, m)
               a2 == InTable(registry', m)
               c == InTable(cache, m)
               c2 == InTable(cache', m)
               d == InDicts(dict, m)
               d2 == InDicts(dict', m)
               s == InStacks(stack, m)
               s2 == InStacks(stack', m)
               l == lost[m]
               l2 == lost'[m]
               r == refs[m]
               r2 == refs'[m]
               q == One(x, m)
    <2>90. /\ a \in Nat /\ c \in Nat /\ d \in Nat /\ s \in Nat /\ l \in Nat
          /\ q \in Nat
          /\ a2 \in Nat /\ c2 = c + q /\ d2 = d /\ s2 = s + q /\ l2 \in Nat
          /\ r2 = r + 2 * a2 - 2 * a + l2 - l + 2 * q /\ r \in Nat
      BY <2>1, <2>2, <2>3, <2>4, <2>5
    <2> HIDE DEF a
    <2> HIDE DEF a2
    <2> HIDE DEF c
    <2> HIDE DEF c2
    <2> HIDE DEF d
    <2> HIDE DEF d2
    <2> HIDE DEF s
    <2> HIDE DEF s2
    <2> HIDE DEF l
    <2> HIDE DEF l2
    <2> HIDE DEF r
    <2> HIDE DEF r2
    <2> HIDE DEF q
    <2>91. r2 = r + 2 * a2 - 2 * a + c2 - c + d2 - d + s2 - s + l2 - l
      BY <2>90
    <2> QED BY <2>91 DEF a, a2, c, c2, d, d2, s, s2, l, l2, r, r2
  <1>17. StaysKept /\ NoNewInits /\ Kept(x)'
    BY <1>3, <1>4, <1>9, <1>13, RegisteredStays
  <1>18. NewKept
    <2>1. \A m \in Mods : InUse(stack', m) => InUse(stack, m) \/ Kept(m)'
      BY <1>8, <1>10, <1>17
    <2>2. \A m \in Mods : \A j \in Names : cache'[j] = m => cache[j] = m \/ Kept(m)'
      BY <1>14, <1>17
    <2> QED BY <1>12, <2>1, <2>2 DEF NewKept
  <1> QED BY <1>8, <1>15, <1>16, <1>17, <1>18, AllNext

LEMMA MakeBuiltinInv ==
  ASSUME ImportInv, NEW t \in Threads, stack[t] # <<>>, MakeBuiltin(t)
  PROVE  ImportInv'
  <1> DEFINE f == Top(t)
             n == Head(f.todo)
             b == program.files[n].defines
             e == [Empty EXCEPT ![b] = Data]
  <1>1. ModulesTyped /\ StacksFit
    BY DEF ImportInv
  <1>3. PICK x \in Mods : x = Fresh /\ Unused(x)
    BY FreshUnused DEF MakeBuiltin
  <1> DEFINE g == Received(f, x)
  <1>2. /\ f.stage = "source"
        /\ cache[n] = Null /\ cache' = [cache EXCEPT ![n] = x] /\ Register(n, x, 2)
        /\ dict' = [dict EXCEPT ![x] = e] /\ SetTop(t, g)
        /\ UNCHANGED <<program, gil, finished>>
    BY <1>3 DEF MakeBuiltin, AtSource
  <1>4. f.todo # <<>> /\ n \in Names /\ b \in Attrs /\ Fits(f)
    <2>1. f.todo \in Seq(Names) /\ f.todo # <<>> /\ Fits(f)
      BY <1>1, <1>2, RunningFrame, FrameFields DEF Fits
    <2>2. n \in Names
      BY <2>1, HeadTailProperties
    <2> QED BY <1>1, <2>1, <2>2, FileCode
  <1>5. Fits(g) /\ Same(f, g)
    BY <1>2, <1>4, ReceivedFits
  <1>6. \A m : /\ Mine(g, m) = Mine(f, m) + One(x, m) /\ Mine(f, m) \in Nat
               /\ One(x, m) \in Nat /\ (Uses(g, m) => Uses(f, m) \/ m = x)
    BY <1>2, <1>4, ReceivedMine
  <1>7. \A m : Uses(f, m) => InUse(stack, m)
    BY <1>1, TopUses
  <1> HIDE DEF g
  <1>8. /\ stack' \in [Threads -> Seq(FrameSet)] /\ StacksFit'
        /\ \A m : InStacks(stack', m) = InStacks(stack, m) - Mine(f, m) + Mine(g, m)
        /\ \A u \in Threads, i \in Nat, m \in Mods : Runs(stack', u, i, m) <=> Runs(stack, u, i, m)
        /\ \A m : InUse(stack', m) => InUse(stack, m) \/ Uses(g, m)
    BY <1>1, <1>2, <1>5, SetTopStep
  <1> HIDE DEF f
  <1> HIDE DEF n
  <1> HIDE DEF b
  <1>9. /\ e \in [Attrs -> Values] /\ \A m \in Mods : InTable(e, m) = 0
    <2> SUFFICES ASSUME NEW m \in Mods PROVE e \in [Attrs -> Values] /\ InTable(e, m) = 0
      BY <1>3
    <2> DEFINE T == Empty
    <2>1. T \in [Attrs -> Values] /\ InTable(T, m) = 0 /\ One(T[b], m) = 0
      BY <1>4, EmptyHolds DEF Empty, One
    <2>2. e = [T EXCEPT ![b] = Data]
      OBVIOUS
    <2> HIDE DEF T
    <2> HIDE DEF e
    <2>3. e \in [Attrs -> Values] /\ InTable(e, m) = InTable(T, m) - One(T[b], m)
      BY <1>4, <2>1, <2>2, DataSet, ZenonT(40)
    <2> QED BY <2>1, <2>3
  <1> HIDE DEF e
  <1>10. dict \in [Mods -> [Attrs -> Values]] /\ cache \in [Names -> Mods \cup {Null}]
    BY <1>1 DEF ModulesTyped
  <1>11. /\ dict' \in [Mods -> [Attrs -> Values]] /\ \A m \in Mods : InDicts(dict', m) = InDicts(dict, m)
         /\ \A m \in Mods : m # x => dict'[m] = dict[m]
    <2>1. ASSUME NEW m \in Mods PROVE InDicts(dict', m) = InDicts(dict, m)
      <3>1. DictReplaced(dict, dict', dict[x], e, m)
        BY <1>2, <1>9, <1>10, DictSet
      <3>2. InTable(dict[x], m) = 0
        BY <1>3, EmptyHolds DEF Unused
      <3>3. InDicts(dict, m) \in Nat
        BY <1>1, CountsTyped
      <3> QED BY <1>9, <3>1, <3>2, <3>3 DEF DictReplaced
    <2> QED BY <1>2, <1>9, <1>10, <2>1
  <1>12. Registered(n, x, 2)
    BY <1>1, <1>2, <1>4, RegisterCounts
  <1>13. cache' \in [Names -> Mods \cup {Null}] /\ cache'[n] = x
         /\ \A j \in Names \ {n} : cache'[j] = cache[j]
    BY <1>2, <1>4, <1>10
  <1>14. TypedNext
    BY <1>1, <1>2, <1>8, <1>11, <1>12, <1>13 DEF TypedNext, ModulesTyped, Registered
  <1>15. Balance
    <2> SUFFICES ASSUME NEW m \in Mods
                 PROVE  refs'[m] = refs[m] + 2 * InTable(registry', m) - 2 * InTable(registry, m)
                          + InTable(cache', m) - InTable(cache, m)
                          + InDicts(dict', m) - InDicts(dict, m)
                          + InStacks(stack', m) - InStacks(stack, m) + lost'[m] - lost[m]
      BY DEF Balance
    <2>1. /\ InTable(registry, m) \in Nat /\ InTable(cache, m) \in Nat /\ InDicts(dict, m) \in Nat
          /\ InStacks(stack, m) \in Nat /\ lost[m] \in Nat /\ refs[m] \in Nat
      BY <1>1, CountsTyped
    <2>2. InDicts(dict', m) = InDicts(dict, m)
      BY <1>11
    <2>3. InStacks(stack', m) = InStacks(stack, m) + One(x, m) /\ One(x, m) \in Nat
      BY <1>6, <1>8, <2>1
    <2>4. InTable(cache', m) = InTable(cache, m) + One(x, m)
      <3>1. Replaced(cache, cache', cache[n], x, m)
        BY <1>2, <1>4, <1>10, TableSet
      <3>2. One(cache[n], m) = 0
        BY <1>2 DEF One
      <3> QED BY <2>1, <2>3, <3>1, <3>2 DEF Replaced
    <2>5. /\ refs'[m] = refs[m] + 2 * InTable(registry', m) - 2 * InTable(registry, m)
                          + lost'[m] - lost[m] + 2 * One(x, m)
          /\ InTable(registry', m) \in Nat /\ lost'[m] \in Nat
      BY <1>12 DEF Registered
    <2> DEFINE a == InTable(registry, m)
               a2 == InTable(registry', m)
               c == InTable(cache, m)
               c2 == InTable(cache', m)
               d == InDicts(dict, m)
               d2 == InDicts(dict', m)
               s == InStacks(stack, m)
               s2 == InStacks(stack', m)
               l == lost[m]
               l2 == lost'[m]
               r == refs[m]
               r2 == refs'[m]
               q == One(x, m)
    <2>90. /\ a \in Nat /\ c \in Nat /\ d \in Nat /\ s \in Nat /\ l \in Nat
          /\ q \in Nat
          /\ a2 \in Nat /\ c2 = c + q /\ d2 = d /\ s2 = s + q /\ l2 \in Nat
          /\ r2 = r + 2 * a2 - 2 * a + l2 - l + 2 * q /\ r \in Nat
      BY <2>1, <2>2, <2>3, <2>4, <2>5
    <2> HIDE DEF a
    <2> HIDE DEF a2
    <2> HIDE DEF c
    <2> HIDE DEF c2
    <2> HIDE DEF d
    <2> HIDE DEF d2
    <2> HIDE DEF s
    <2> HIDE DEF s2
    <2> HIDE DEF l
    <2> HIDE DEF l2
    <2> HIDE DEF r
    <2> HIDE DEF r2
    <2> HIDE DEF q
    <2>91. r2 = r + 2 * a2 - 2 * a + c2 - c + d2 - d + s2 - s + l2 - l
      BY <2>90
    <2> QED BY <2>91 DEF a, a2, c, c2, d, d2, s, s2, l, l2, r, r2
  <1>16. StaysKept /\ NoNewInits /\ Kept(x)'
    BY <1>3, <1>4, <1>8, <1>12, RegisteredStays
  <1>17. NewKept
    <2>1. \A m \in Mods : InUse(stack', m) => InUse(stack, m) \/ Kept(m)'
      BY <1>6, <1>7, <1>8, <1>16
    <2>2. \A m \in Mods : \A j \in Names : cache'[j] = m => cache[j] = m \/ Kept(m)'
      BY <1>13, <1>16
    <2>3. \A m \in Mods : dict'[m] # Empty => dict[m] # Empty \/ Kept(m)'
      BY <1>11, <1>16
    <2> QED BY <2>1, <2>2, <2>3 DEF NewKept
  <1> QED BY <1>8, <1>14, <1>15, <1>16, <1>17, AllNext

-----------------------------------------------------------------------------
(* The actions that end a frame.                                            *)
Dropped(t, g) ==
    stack' = [stack EXCEPT ![t] = Append(SubSeq(stack[t], 1, Len(stack[t]) - 2), g)]

LEMMA EndingFrame ==
  ASSUME ImportInv, NEW t \in Threads, stack[t] # <<>>, Top(t).kind # "script"
  PROVE  /\ Fits(Top(t)) /\ Fits(Below(t)) /\ Awaits(Below(t), Top(t))
         /\ Top(t).mod \in Mods /\ Top(t).name \in Names
         /\ Len(stack[t]) \in Nat /\ Len(stack[t]) > 1 /\ Len(stack[t]) # 1
         /\ \A m : Uses(Below(t), m) \/ Uses(Top(t), m) => InUse(stack, m)
  <1>1. ModulesTyped /\ StacksFit
    BY DEF ImportInv
  <1>2. /\ Fits(Top(t)) /\ Fits(Below(t)) /\ Awaits(Below(t), Top(t))
        /\ Len(stack[t]) \in Nat /\ Len(stack[t]) > 1 /\ Len(stack[t]) - 1 \in DOMAIN stack[t]
    BY <1>1, RunningFrame, FrameBelow
  <1>3. Top(t).mod \in Mods /\ Top(t).name \in Names
    BY <1>2 DEF Fits
  <1>4. \A m : Uses(Below(t), m) => InUse(stack, m)
    BY <1>2 DEF InUse, Below
  <1>5. \A m : Uses(Top(t), m) => InUse(stack, m)
    BY <1>1, TopUses
  <1>6. Len(stack[t]) # 1
    <2> DEFINE k == Len(stack[t])
    <2>1. k \in Nat /\ k > 1
      BY <1>2
    <2> HIDE DEF k
    <2>2. k # 1
      BY <2>1
    <2> QED BY <2>2 DEF k
  <1> QED BY <1>2, <1>3, <1>4, <1>5, <1>6

(* An initialiser that ends runs no longer, and no other did for its module. *)
LEMMA EndedInit ==
  ASSUME ImportInv, NEW t \in Threads, stack[t] # <<>>, Top(t).kind = "c", NEW x \in Mods,
         x = Top(t).mod, OneLess(stack, t, Top(t), Len(stack[t]), stack')
  PROVE  /\ \A u \in Threads, i \in Nat, m \in Mods : Runs(stack', u, i, m) => Runs(stack, u, i, m)
         /\ \A u \in Threads, i \in Nat, m \in Mods : Runs(stack, u, i, m) => Runs(stack', u, i, m) \/ m = x
         /\ \A u \in Threads, i \in Nat : ~Runs(stack', u, i, x)
  <1> DEFINE k == Len(stack[t])
  <1>1. k \in Nat
    BY EndingFrame
  <1> HIDE DEF k
  <1>2. /\ \A u \in Threads, i \in Nat, m \in Mods :
              Runs(stack', u, i, m) <=> Runs(stack, u, i, m) /\ ~(u = t /\ i = k)
        /\ \A m \in Mods : x = m <=> Runs(stack, t, k, m)
    BY DEF OneLess, k
  <1>3. \A u \in Threads, i \in Nat : Runs(stack, u, i, x) => u = t /\ i = k
    BY <1>1, <1>2 DEF ImportInv, InitsPrivate
  <1> QED BY <1>1, <1>2, <1>3

LEMMA InitReturnsInv ==
  ASSUME ImportInv, NEW t \in Threads, stack[t] # <<>>, InitReturns(t)
  PROVE  ImportInv'
  <1> DEFINE f == Top(t)
             b == Below(t)
             n == f.name
  <1>1. ModulesTyped /\ StacksFit
    BY DEF ImportInv
  <1>2. f.kind = "c" /\ f.stage = "run"
    BY DEF InitReturns, Ended
  <1>3. /\ Fits(f) /\ Fits(b) /\ Awaits(b, f) /\ f.mod \in Mods /\ n \in Names
        /\ Len(stack[t]) # 1
        /\ \A m : Uses(b, m) \/ Uses(f, m) => InUse(stack, m)
    BY <1>2, EndingFrame
  <1>4. PICK x \in Mods : x = f.mod
    BY <1>3
  <1> DEFINE g == Received(b, x)
  <1>5. /\ Register(n, x, 0) /\ Dropped(t, g)
        /\ UNCHANGED <<program, gil, cache, dict, finished>>
    <2> DEFINE h == Received(stack[t][Len(stack[t]) - 1], f.mod)
               rest == SubSeq(stack[t], 1, Len(stack[t]) - 2)
    <2>1. /\ Register(f.name, f.mod, 0)
          /\ UNCHANGED <<program, gil, cache, dict, finished>>
          /\ stack' = [stack EXCEPT ![t] = IF Len(stack[t]) = 1 THEN <<>> ELSE Append(rest, h)]
      BY Zenon DEF InitReturns, Pop
    <2>2. h = g
      BY <1>4 DEF Below
    <2> HIDE DEF h
    <2> HIDE DEF g
    <2>4. stack' = [stack EXCEPT ![t] = Append(rest, g)]
      BY <1>3, <2>1, <2>2
    <2> QED BY <1>4, <2>1, <2>4 DEF Dropped
  <1>6. b.stage = "find" /\ b.todo # <<>>
    BY <1>2, <1>3 DEF Awaits
  <1>7. Fits(g) /\ Same(b, g)
    BY <1>3, <1>6, ReceivedFits
  <1>8. \A m : /\ Mine(g, m) = Mine(b, m) + One(x, m) /\ Mine(b, m) \in Nat
               /\ One(x, m) \in Nat /\ (Uses(g, m) => Uses(b, m) \/ m = x)
    BY <1>3, <1>6, ReceivedMine
  <1> HIDE DEF g
  <1>9. \A m \in Mods : Mine(f, m) = One(x, m)
    BY <1>2, <1>3, <1>4, NewFrameHolds DEF Fits
  <1>10. /\ stack' \in [Threads -> Seq(FrameSet)] /\ StacksFit'
         /\ \A m : InStacks(stack', m) = InStacks(stack, m) - Mine(f, m) - Mine(b, m) + Mine(g, m)
         /\ OneLess(stack, t, f, Len(stack[t]), stack')
         /\ \A m : InUse(stack', m) => InUse(stack, m) \/ Uses(g, m)
    BY <1>1, <1>2, <1>5, <1>7, PopStep DEF Dropped
  <1>11. /\ \A u \in Threads, i \in Nat, m \in Mods : Runs(stack', u, i, m) => Runs(stack, u, i, m)
         /\ \A u \in Threads, i \in Nat, m \in Mods :
               Runs(stack, u, i, m) => Runs(stack', u, i, m) \/ m = x
         /\ \A u \in Threads, i \in Nat : ~Runs(stack', u, i, x)
    BY <1>2, <1>4, <1>10, EndedInit
  <1>12. Registered(n, x, 0)
    BY <1>1, <1>3, <1>5, RegisterCounts
  <1> HIDE DEF b
  <1> HIDE DEF f
  <1> HIDE DEF n
  <1>13. TypedNext
    BY <1>1, <1>5, <1>10, <1>12 DEF TypedNext, ModulesTyped, Registered
  <1>14. Balance
    <2> SUFFICES ASSUME NEW m \in Mods
                 PROVE  refs'[m] = refs[m] + 2 * InTable(registry', m) - 2 * InTable(registry, m)
                          + InTable(cache', m) - InTable(cache, m)
                          + InDicts(dict', m) - InDicts(dict, m)
                          + InStacks(stack', m) - InStacks(stack, m) + lost'[m] - lost[m]
      BY DEF Balance
    <2>1. /\ InTable(registry, m) \in Nat /\ InTable(cache, m) \in Nat /\ InDicts(dict, m) \in Nat
          /\ InStacks(stack, m) \in Nat /\ lost[m] \in Nat /\ refs[m] \in Nat
      BY <1>1, CountsTyped
    <2>2. InDicts(dict', m) = InDicts(dict, m) /\ InTable(cache', m) = InTable(cache, m)
      BY <1>5
    <2>3. InStacks(stack', m) = InStacks(stack, m) /\ One(x, m) \in Nat
      BY <1>8, <1>9, <1>10, <2>1
    <2>4. /\ refs'[m] = refs[m] + 2 * InTable(registry', m) - 2 * InTable(registry, m)
                          + lost'[m] - lost[m] + 0 * One(x, m)
          /\ InTable(registry', m) \in Nat /\ lost'[m] \in Nat
      BY <1>12 DEF Registered
    <2> DEFINE a == InTable(registry, m)
               a2 == InTable(registry', m)
               c == InTable(cache, m)
               c2 == InTable(cache', m)
               d == InDicts(dict, m)
               d2 == InDicts(dict', m)
               s == InStacks(stack, m)
               s2 == InStacks(stack', m)
               l == lost[m]
               l2 == lost'[m]
               r == refs[m]
               r2 == refs'[m]
               q == One(x, m)
    <2>90. /\ a \in Nat /\ c \in Nat /\ d \in Nat /\ s \in Nat /\ l \in Nat /\ r \in Nat /\ q \in Nat
          /\ a2 \in Nat /\ c2 = c /\ d2 = d /\ s2 = s /\ l2 \in Nat
          /\ r2 = r + 2 * a2 - 2 * a + l2 - l + 0 * q
      BY <2>1, <2>2, <2>3, <2>4
    <2> HIDE DEF a
    <2> HIDE DEF a2
    <2> HIDE DEF c
    <2> HIDE DEF c2
    <2> HIDE DEF d
    <2> HIDE DEF d2
    <2> HIDE DEF s
    <2> HIDE DEF s2
    <2> HIDE DEF l
    <2> HIDE DEF l2
    <2> HIDE DEF r
    <2> HIDE DEF r2
    <2> HIDE DEF q
    <2>91. r2 = r + 2 * a2 - 2 * a + c2 - c + d2 - d + s2 - s + l2 - l
      BY <2>90
    <2> QED BY <2>91 DEF a, a2, c, c2, d, d2, s, s2, l, l2, r, r2
  <1>15. /\ registry'[n] = x /\ \A k \in Names \ {n} : registry'[k] = registry[k]
         /\ \A m \in Mods : (\E k \in Names : registry[k] = m) =>
                (\E k \in Names : registry'[k] = m) \/ lost'[m] > 0
         /\ \A m \in Mods : lost[m] > 0 => lost'[m] > 0
    BY <1>12 DEF Registered
  <1>16. Kept(x)'
    BY <1>3, <1>15 DEF Kept
  <1>17. StaysKept
    <2> SUFFICES ASSUME NEW m \in Mods, Kept(m) PROVE Kept(m)'
      BY DEF StaysKept
    <2>1. CASE \E u \in Threads, i \in Nat : Runs(stack, u, i, m)
      BY <1>11, <1>16, <2>1 DEF Kept
    <2>2. CASE (\E k \in Names : registry[k] = m) \/ lost[m] > 0
      BY <1>15, <2>2 DEF Kept
    <2> QED BY <2>1, <2>2 DEF Kept
  <1>18. NewKept
    <2>1. \A m \in Mods : InUse(stack', m) => InUse(stack, m) \/ Kept(m)'
      BY <1>3, <1>8, <1>10, <1>16
    <2> QED BY <1>5, <2>1 DEF NewKept
  <1>19. NoNewInits
    <2>1. ASSUME NEW k \in Names, NEW m \in Mods, registry'[k] = m, registry[k] # m
          PROVE  \A u \in Threads, i \in Nat : ~Runs(stack', u, i, m)
      <3>1. m = x
        BY <1>15, <2>1
      <3> QED BY <1>11, <3>1
    <2> QED BY <1>11, <2>1 DEF NoNewInits
  <1> QED BY <1>10, <1>13, <1>14, <1>17, <1>18, <1>19, AllNext

LEMMA InitFailsInv ==
  ASSUME ImportInv, NEW t \in Threads, stack[t] # <<>>, InitFails(t)
  PROVE  ImportInv'
  <1> DEFINE f == Top(t)
             b == Below(t)
             g == NotFound(b)
  <1>1. ModulesTyped /\ StacksFit
    BY DEF ImportInv
  <1>2. f.kind = "c" /\ f.stage = "failed"
    BY DEF InitFails
  <1>3. /\ Fits(f) /\ Fits(b) /\ Awaits(b, f) /\ f.mod \in Mods /\ f.name \in Names
        /\ Len(stack[t]) # 1
        /\ \A m : Uses(b, m) \/ Uses(f, m) => InUse(stack, m)
    BY <1>2, EndingFrame
  <1>4. PICK x \in Mods : x = f.mod
    BY <1>3
  <1>5. /\ lost' = [lost EXCEPT ![x] = @ + 1] /\ Dropped(t, g)
        /\ UNCHANGED <<program, gil, registry, cache, dict, refs, finished>>
    <2> DEFINE h == NotFound(stack[t][Len(stack[t]) - 1])
               rest == SubSeq(stack[t], 1, Len(stack[t]) - 2)
    <2>1. /\ lost' = [lost EXCEPT ![f.mod] = @ + 1]
          /\ UNCHANGED <<program, gil, registry, cache, dict, refs, finished>>
          /\ stack' = [stack EXCEPT ![t] = IF Len(stack[t]) = 1 THEN <<>> ELSE Append(rest, h)]
      BY Zenon DEF InitFails, Pop
    <2>2. h = g
      BY DEF Below
    <2> HIDE DEF h
    <2> HIDE DEF g
    <2>4. stack' = [stack EXCEPT ![t] = Append(rest, g)]
      BY <1>3, <2>1, <2>2
    <2> QED BY <1>4, <2>1, <2>4 DEF Dropped
  <1>6. b.stage = "find" /\ b.todo # <<>>
    BY <1>2, <1>3 DEF Awaits
  <1>7. Fits(g) /\ Same(b, g) /\ g.locals = b.locals /\ g.got = b.got
    BY <1>3, <1>6, NotFoundFits
  <1> HIDE DEF g
  <1>8. \A m : Mine(g, m) = Mine(b, m) /\ (Uses(g, m) <=> Uses(b, m)) /\ Mine(b, m) \in Nat
    BY <1>3, <1>7, SameMine, FrameHolds DEF Fits
  <1>9. \A m \in Mods : Mine(f, m) = One(x, m) /\ One(x, m) \in Nat
    BY <1>2, <1>3, <1>4, NewFrameHolds DEF Fits
  <1>10. /\ stack' \in [Threads -> Seq(FrameSet)] /\ StacksFit'
         /\ \A m : InStacks(stack', m) = InStacks(stack, m) - Mine(f, m) - Mine(b, m) + Mine(g, m)
         /\ OneLess(stack, t, f, Len(stack[t]), stack')
         /\ \A m : InUse(stack', m) => InUse(stack, m) \/ Uses(g, m)
    BY <1>1, <1>2, <1>5, <1>7, PopStep DEF Dropped
  <1>11. /\ \A u \in Threads, i \in Nat, m \in Mods : Runs(stack', u, i, m) => Runs(stack, u, i, m)
         /\ \A u \in Threads, i \in Nat, m \in Mods :
               Runs(stack, u, i, m) => Runs(stack', u, i, m) \/ m = x
    BY <1>2, <1>4, <1>10, EndedInit
  <1> HIDE DEF b
  <1> HIDE DEF f
  <1>12. lost' \in [Mods -> Nat] /\ \A m \in Mods : lost'[m] = lost[m] + One(x, m) /\ lost[m] \in Nat
    <2>1. lost \in [Mods -> Nat]
      BY <1>1 DEF ModulesTyped
    <2> QED BY <1>5, <2>1 DEF One
  <1>13. TypedNext
    BY <1>1, <1>5, <1>10, <1>12 DEF TypedNext, ModulesTyped
  <1>14. Balance
    <2> SUFFICES ASSUME NEW m \in Mods
                 PROVE  refs'[m] = refs[m] + 2 * InTable(registry', m) - 2 * InTable(registry, m)
                          + InTable(cache', m) - InTable(cache, m)
                          + InDicts(dict', m) - InDicts(dict, m)
                          + InStacks(stack', m) - InStacks(stack, m) + lost'[m] - lost[m]
      BY DEF Balance
    <2>1. /\ InTable(registry, m) \in Nat /\ InTable(cache, m) \in Nat /\ InDicts(dict, m) \in Nat
          /\ InStacks(stack, m) \in Nat /\ lost[m] \in Nat /\ refs[m] \in Nat
      BY <1>1, CountsTyped
    <2>2. /\ InDicts(dict', m) = InDicts(dict, m) /\ InTable(cache', m) = InTable(cache, m)
          /\ InTable(registry', m) = InTable(registry, m) /\ refs'[m] = refs[m]
      BY <1>5
    <2>3. InStacks(stack', m) = InStacks(stack, m) - One(x, m) /\ One(x, m) \in Nat
      BY <1>8, <1>9, <1>10, <2>1
    <2>4. lost'[m] = lost[m] + One(x, m)
      BY <1>12
    <2> DEFINE a == InTable(registry, m)
               a2 == InTable(registry', m)
               c == InTable(cache, m)
               c2 == InTable(cache', m)
               d == InDicts(dict, m)
               d2 == InDicts(dict', m)
               s == InStacks(stack, m)
               s2 == InStacks(stack', m)
               l == lost[m]
               l2 == lost'[m]
               r == refs[m]
               r2 == refs'[m]
               q == One(x, m)
    <2>90. /\ a \in Nat /\ c \in Nat /\ d \in Nat /\ s \in Nat /\ l \in Nat /\ r \in Nat /\ q \in Nat
          /\ a2 = a /\ c2 = c /\ d2 = d /\ s2 = s - q /\ l2 = l + q /\ r2 = r
      BY <2>1, <2>2, <2>3, <2>4
    <2> HIDE DEF a
    <2> HIDE DEF a2
    <2> HIDE DEF c
    <2> HIDE DEF c2
    <2> HIDE DEF d
    <2> HIDE DEF d2
    <2> HIDE DEF s
    <2> HIDE DEF s2
    <2> HIDE DEF l
    <2> HIDE DEF l2
    <2> HIDE DEF r
    <2> HIDE DEF r2
    <2> HIDE DEF q
    <2>91. r2 = r + 2 * a2 - 2 * a + c2 - c + d2 - d + s2 - s + l2 - l
      BY <2>90
    <2> QED BY <2>91 DEF a, a2, c, c2, d, d2, s, s2, l, l2, r, r2
  <1>15. \A m \in Mods : lost[m] > 0 \/ m = x => lost'[m] > 0
    BY <1>12 DEF One
  <1>16. StaysKept
    BY <1>5, <1>11, <1>15 DEF StaysKept, Kept
  <1>17. NewKept
    <2>1. \A m \in Mods : InUse(stack', m) => InUse(stack, m)
      BY <1>3, <1>8, <1>10
    <2> QED BY <1>5, <2>1 DEF NewKept
  <1>18. NoNewInits
    BY <1>5, <1>11 DEF NoNewInits
  <1> QED BY <1>10, <1>13, <1>14, <1>16, <1>17, <1>18, AllNext

(* The end of a module's body leaves the tables as they are.                *)
MergedRefs(f, b, g) ==
    /\ refs' = [m \in Mods |-> refs'[m]]
    /\ \A m \in Mods : refs'[m] = refs[m] - Mine(f, m) - Mine(b, m) + Mine(g, m)
                                    + InDicts(dict', m) - InDicts(dict, m)

LEMMA BodyEndsInv ==
  ASSUME ImportInv, NEW t \in Threads, stack[t] # <<>>, Top(t).kind = "body",
         NEW g, Fits(g), Same(Below(t), g), Dropped(t, g),
         UNCHANGED <<program, gil, registry, cache, lost>>,
         dict' \in [Mods -> [Attrs -> Values]], finished' \subseteq Mods,
         MergedRefs(Top(t), Below(t), g),
         \A m \in Mods : Uses(g, m) => Uses(Below(t), m) \/ Uses(Top(t), m),
         DictsKept
  PROVE  ImportInv'
  <1> DEFINE f == Top(t)
             b == Below(t)
  <1>1. ModulesTyped /\ StacksFit
    BY DEF ImportInv
  <1>2. /\ Fits(f) /\ Fits(b) /\ f.kind = "body"
        /\ \A m : Uses(b, m) \/ Uses(f, m) => InUse(stack, m)
    BY EndingFrame
  <1>3. /\ stack' \in [Threads -> Seq(FrameSet)] /\ StacksFit'
        /\ \A m : InStacks(stack', m) = InStacks(stack, m) - Mine(f, m) - Mine(b, m) + Mine(g, m)
        /\ OneLess(stack, t, f, Len(stack[t]), stack')
        /\ \A m : InUse(stack', m) => InUse(stack, m) \/ Uses(g, m)
    BY <1>1, PopStep DEF Dropped
  <1>4. \A u \in Threads, i \in Nat, m \in Mods : Runs(stack', u, i, m) <=> Runs(stack, u, i, m)
    <2> DEFINE k == Len(stack[t])
    <2>1. /\ \A u \in Threads, i \in Nat, m \in Mods :
                Runs(stack', u, i, m) <=> Runs(stack, u, i, m) /\ ~(u = t /\ i = k)
          /\ \A m \in Mods : ~Runs(stack, t, k, m)
      BY <1>2, <1>3 DEF OneLess
    <2> HIDE DEF k
    <2> QED BY <2>1
  <1>5. /\ MergedRefs(f, b, g)
        /\ \A m \in Mods : Uses(g, m) => Uses(b, m) \/ Uses(f, m)
    OBVIOUS
  <1> HIDE DEF f
  <1> HIDE DEF b
  <1>6. TypedNext
    BY <1>1, <1>3, <1>5 DEF TypedNext, ModulesTyped, MergedRefs
  <1>7. Balance
    <2> SUFFICES ASSUME NEW m \in Mods
                 PROVE  refs'[m] = refs[m] + 2 * InTable(registry', m) - 2 * InTable(registry, m)
                          + InTable(cache', m) - InTable(cache, m)
                          + InDicts(dict', m) - InDicts(dict, m)
                          + InStacks(stack', m) - InStacks(stack, m) + lost'[m] - lost[m]
      BY DEF Balance
    <2>1. /\ InTable(registry, m) \in Nat /\ InTable(cache, m) \in Nat /\ InDicts(dict, m) \in Nat
          /\ InStacks(stack, m) \in Nat /\ lost[m] \in Nat /\ refs[m] \in Nat
      BY <1>1, CountsTyped
    <2>2. /\ InTable(cache', m) = InTable(cache, m) /\ InTable(registry', m) = InTable(registry, m)
          /\ lost'[m] = lost[m]
      OBVIOUS
    <2>3. Mine(f, m) \in Nat /\ Mine(b, m) \in Nat /\ Mine(g, m) \in Nat
      BY <1>2, FrameHolds DEF Fits
    <2>4. InStacks(stack', m) = InStacks(stack, m) - Mine(f, m) - Mine(b, m) + Mine(g, m)
      BY <1>3
    <2>5. /\ refs'[m] = refs[m] - Mine(f, m) - Mine(b, m) + Mine(g, m)
                          + InDicts(dict', m) - InDicts(dict, m)
      BY <1>5 DEF MergedRefs
    <2>6. InDicts(dict', m) \in Nat
      BY DictsHold
    <2> DEFINE a == InTable(registry, m)
               a2 == InTable(registry', m)
               c == InTable(cache, m)
               c2 == InTable(cache', m)
               d == InDicts(dict, m)
               d2 == InDicts(dict', m)
               s == InStacks(stack, m)
               s2 == InStacks(stack', m)
               l == lost[m]
               l2 == lost'[m]
               r == refs[m]
               r2 == refs'[m]
               p == Mine(f, m)
               q == Mine(b, m)
               h == Mine(g, m)
    <2>7. /\ a \in Nat /\ c \in Nat /\ d \in Nat /\ s \in Nat /\ l \in Nat /\ r \in Nat
          /\ p \in Nat /\ q \in Nat /\ h \in Nat
          /\ a2 = a /\ c2 = c /\ d2 \in Nat /\ s2 = s - p - q + h /\ l2 = l
          /\ r2 = r - p - q + h + d2 - d
      BY <2>1, <2>2, <2>3, <2>4, <2>5, <2>6
    <2> HIDE DEF a
    <2> HIDE DEF a2
    <2> HIDE DEF c
    <2> HIDE DEF c2
    <2> HIDE DEF d
    <2> HIDE DEF d2
    <2> HIDE DEF s
    <2> HIDE DEF s2
    <2> HIDE DEF l
    <2> HIDE DEF l2
    <2> HIDE DEF r
    <2> HIDE DEF r2
    <2> HIDE DEF p
    <2> HIDE DEF q
    <2> HIDE DEF h
    <2>70. r \in Int /\ d \in Int /\ d2 \in Int /\ s \in Int /\ s2 \in Int /\ s2 - s = h - p - q
      BY <2>7
    <2>71. r2 = r + d2 - d + s2 - s
      <3>1. r2 = r + (h - p - q) + d2 - d
        BY <2>7
      <3> QED BY <2>70, <3>1
    <2>72. 2 * a2 - 2 * a = 0 /\ c2 - c = 0 /\ l2 - l = 0
      BY <2>7
    <2>73. /\ a \in Int /\ a2 \in Int /\ c \in Int /\ c2 \in Int /\ l \in Int /\ l2 \in Int
      BY <2>7
    <2>8. r2 = r + 2 * a2 - 2 * a + c2 - c + d2 - d + s2 - s + l2 - l
      BY <2>70, <2>71, <2>72, <2>73
    <2> QED BY <2>8 DEF a, a2, c, c2, d, d2, s, s2, l, l2, r, r2
  <1>8. StaysKept
    BY <1>4 DEF StaysKept, Kept
  <1>9. NewKept
    <2>1. \A m \in Mods : InUse(stack', m) => InUse(stack, m)
      BY <1>2, <1>3, <1>5
    <2>2. \A m \in Mods : dict'[m] # Empty => dict[m] # Empty \/ Kept(m)
      BY DEF DictsKept
    <2> QED BY <1>8, <2>1, <2>2 DEF NewKept, StaysKept
  <1>10. NoNewInits
    BY <1>4 DEF NoNewInits
  <1> QED BY <1>3, <1>6, <1>7, <1>8, <1>9, <1>10, AllNext

LEMMA WithLocalsTyped ==
  ASSUME NEW d \in [Attrs -> Values], NEW locals \in [Attrs -> Values]
  PROVE  WithLocals(d, locals) \in [Attrs -> Values]
  BY DEF WithLocals

LEMMA BodyReturnsInv ==
  ASSUME ImportInv, NEW t \in Threads, stack[t] # <<>>, BodyReturns(t)
  PROVE  ImportInv'
  <1> DEFINE f == Top(t)
             b == Below(t)
  <1>1. ModulesTyped /\ StacksFit
    BY DEF ImportInv
  <1>2. f.kind = "body" /\ f.stage = "run"
    BY DEF BodyReturns, Ended
  <1>3. /\ Fits(f) /\ Fits(b) /\ Awaits(b, f) /\ f.mod \in Mods
        /\ Len(stack[t]) # 1
        /\ \A m : Uses(b, m) \/ Uses(f, m) => InUse(stack, m)
    BY <1>2, EndingFrame
  <1>4. PICK x \in Mods : x = f.mod
    BY <1>3
  <1> DEFINE g == Received(b, x)
             after == WithLocals(dict[x], f.locals)
  <1>5. /\ dict' = [dict EXCEPT ![x] = after] /\ finished' = finished \cup {x}
        /\ refs' = [m \in Mods |-> refs[m] + InTable(after, m) - InTable(dict[x], m)
                                           - InTable(f.locals, m)]
        /\ Dropped(t, g) /\ UNCHANGED <<program, gil, registry, cache, lost>>
    <2> DEFINE h == Received(stack[t][Len(stack[t]) - 1], f.mod)
               rest == SubSeq(stack[t], 1, Len(stack[t]) - 2)
               more == WithLocals(dict[f.mod], f.locals)
    <2>1. /\ dict' = [dict EXCEPT ![f.mod] = more] /\ finished' = finished \cup {f.mod}
          /\ refs' = [m \in Mods |-> refs[m] + InTable(more, m) - InTable(dict[f.mod], m)
                                             - InTable(f.locals, m)]
          /\ UNCHANGED <<program, gil, registry, cache, lost>>
          /\ stack' = [stack EXCEPT ![t] = IF Len(stack[t]) = 1 THEN <<>> ELSE Append(rest, h)]
      BY Zenon DEF BodyReturns, Pop
    <2>2. h = g
      BY <1>4 DEF Below
    <2> HIDE DEF h
    <2> HIDE DEF g
    <2>4. stack' = [stack EXCEPT ![t] = Append(rest, g)]
      BY <1>3, <2>1, <2>2
    <2> HIDE DEF rest
    <2>5. dict' = [dict EXCEPT ![x] = after] /\ finished' = finished \cup {x}
      BY Zenon, <1>4, <2>1
    <2>6. refs' = [m \in Mods |-> refs[m] + InTable(after, m) - InTable(dict[x], m)
                                          - InTable(f.locals, m)]
      BY Zenon, <1>4, <2>1
    <2> QED BY <2>1, <2>4, <2>5, <2>6 DEF Dropped, rest
  <1>6. b.stage = "source" /\ b.todo # <<>>
    BY <1>2, <1>3 DEF Awaits, Fits
  <1>7. Fits(g) /\ Same(b, g)
    BY <1>3, <1>6, ReceivedFits
  <1>8. \A m : /\ Mine(g, m) = Mine(b, m) + One(x, m) /\ Mine(b, m) \in Nat
               /\ One(x, m) \in Nat /\ (Uses(g, m) => Uses(b, m) \/ m = x)
    BY <1>3, <1>6, ReceivedMine
  <1> HIDE DEF g
  <1>9. dict \in [Mods -> [Attrs -> Values]] /\ f.locals \in [Attrs -> Values] /\ f \in FrameSet
        /\ finished \subseteq Mods
    BY <1>1, <1>3, FrameFields DEF ModulesTyped, Fits
  <1>10. after \in [Attrs -> Values]
    BY <1>9, WithLocalsTyped
  <1>11. ASSUME NEW m \in Mods PROVE Mine(f, m) = InTable(f.locals, m) + One(x, m)
    <2>1. f.got = <<>>
      BY <1>2, <1>3 DEF Fits
    <2>2. InTable(f.got, m) = 0
      <3>1. f.got \in Seq(Mods)
        BY <1>9, FrameFields
      <3> QED BY <2>1, <3>1, SequenceCount
    <2>3. Mine(f, m) = InTable(f.locals, m) + InTable(f.got, m) + One(f.mod, m)
      BY <1>9, FrameHolds
    <2>4. InTable(f.locals, m) \in Nat /\ One(f.mod, m) \in Nat
      BY <1>9, TableCount DEF One
    <2> QED BY <1>4, <2>2, <2>3, <2>4
  <1>12. Uses(f, x)
    BY <1>4 DEF Uses
  <1>13. Kept(x)
    BY <1>3, <1>12 DEF ImportInv, UsedKept
  <1> HIDE DEF f
  <1> HIDE DEF b
  <1> HIDE DEF after
  <1>14. dict' \in [Mods -> [Attrs -> Values]] /\ finished' \subseteq Mods
    BY <1>5, <1>9, <1>10
  <1>15. DictsKept
    BY <1>5, <1>9, <1>13 DEF DictsKept
  <1>16. MergedRefs(f, b, g)
    <2>1. ASSUME NEW m \in Mods
          PROVE  refs'[m] = refs[m] - Mine(f, m) - Mine(b, m) + Mine(g, m)
                              + InDicts(dict', m) - InDicts(dict, m)
      <3> DEFINE r == refs[m]
                 r2 == refs'[m]
                 p == Mine(f, m)
                 q == Mine(b, m)
                 h == Mine(g, m)
                 d == InDicts(dict, m)
                 d2 == InDicts(dict', m)
                 i == InTable(after, m)
                 j == InTable(dict[x], m)
                 k == InTable(f.locals, m)
                 o == One(x, m)
      <3>1. r2 = r + i - j - k
        BY <1>5
      <3>2. r \in Nat /\ d \in Nat
        BY <1>1, CountsTyped
      <3>3. p = k + o /\ o \in Nat /\ h = q + o /\ q \in Nat
        BY <1>8, <1>11
      <3>4. i \in Nat /\ j \in Nat /\ k \in Nat
        BY <1>9, <1>10, TableCount
      <3>5. d2 = d - j + i
        <4>1. DictReplaced(dict, dict', dict[x], after, m)
          BY <1>5, <1>9, <1>10, DictSet
        <4> QED BY <4>1 DEF DictReplaced
      <3> HIDE DEF r
      <3> HIDE DEF r2
      <3> HIDE DEF p
      <3> HIDE DEF q
      <3> HIDE DEF h
      <3> HIDE DEF d
      <3> HIDE DEF d2
      <3> HIDE DEF i
      <3> HIDE DEF j
      <3> HIDE DEF k
      <3> HIDE DEF o
      <3>6. d2 - d = i - j /\ d2 \in Int
        BY <3>2, <3>4, <3>5
      <3>7. 0 - p - q + h = 0 - k
        BY <3>3, <3>4
      <3>8. r2 = r - k + (d2 - d)
        BY <3>1, <3>2, <3>4, <3>6
      <3>9. p \in Int /\ h \in Int
        BY <3>3, <3>4
      <3>10. r2 = r - p - q + h + d2 - d
        BY <3>2, <3>3, <3>4, <3>6, <3>7, <3>8, <3>9
      <3> QED BY <3>10 DEF r, r2, p, q, h, d, d2
    <2>2. refs' = [m \in Mods |-> refs'[m]]
      BY <1>5
    <2> QED BY <2>1, <2>2 DEF MergedRefs
  <1>17. \A m \in Mods : Uses(g, m) => Uses(b, m) \/ Uses(f, m)
    BY <1>8, <1>12
  <1>18. UNCHANGED <<program, gil, registry, cache, lost>> /\ Dropped(t, g) /\ f.kind = "body"
    BY <1>2, <1>5
  <1> QED BY <1>7, <1>14, <1>15, <1>16, <1>17, <1>18, BodyEndsInv DEF f, b

LEMMA BodyFailsInv ==
  ASSUME ImportInv, NEW t \in Threads, stack[t] # <<>>, BodyFails(t)
  PROVE  ImportInv'
  <1> DEFINE f == Top(t)
             b == Below(t)
             g == Failed(b)
  <1>1. ModulesTyped /\ StacksFit
    BY DEF ImportInv
  <1>2. f.kind = "body" /\ f.stage = "failed"
    BY DEF BodyFails
  <1>3. /\ Fits(f) /\ Fits(b) /\ Awaits(b, f) /\ f.mod \in Mods
        /\ Len(stack[t]) # 1
    BY <1>2, EndingFrame
  <1>4. PICK x \in Mods : x = f.mod
    BY <1>3
  <1>5. /\ refs' = [m \in Mods |-> refs[m] - InTable(f.locals, m) - InTable(b.got, m) - One(x, m)]
        /\ Dropped(t, g) /\ UNCHANGED <<program, gil, registry, cache, dict, lost, finished>>
    <2> DEFINE c == stack[t][Len(stack[t]) - 1]
               h == Failed(c)
               rest == SubSeq(stack[t], 1, Len(stack[t]) - 2)
    <2>1. /\ refs' = [m \in Mods |-> refs[m] - InTable(f.locals, m) - InTable(c.got, m)
                                       - (IF m = f.mod THEN 1 ELSE 0)]
          /\ UNCHANGED <<program, gil, registry, cache, dict, lost, finished>>
          /\ stack' = [stack EXCEPT ![t] = IF Len(stack[t]) = 1 THEN <<>> ELSE Append(rest, h)]
      BY Zenon DEF BodyFails, Pop
    <2>2. h = g /\ c = b
      BY DEF Below
    <2>3. \A m \in Mods : (IF m = f.mod THEN 1 ELSE 0) = One(x, m)
      BY <1>4 DEF One
    <2> HIDE DEF h
    <2> HIDE DEF g
    <2>4. stack' = [stack EXCEPT ![t] = Append(rest, g)]
      BY <1>3, <2>1, <2>2
    <2> HIDE DEF c
    <2> HIDE DEF b
    <2> HIDE DEF rest
    <2>5. refs' = [m \in Mods |-> refs[m] - InTable(f.locals, m) - InTable(b.got, m) - One(x, m)]
      BY <2>1, <2>2, <2>3
    <2> QED BY <2>1, <2>4, <2>5 DEF Dropped, rest
  <1>6. b.stage = "source" /\ b.pc \in DOMAIN b.code
    BY <1>2, <1>3 DEF Awaits, Fits
  <1>7. Fits(g) /\ Same(b, g) /\ g.locals = b.locals /\ g.got = <<>>
    BY <1>3, <1>6, FailedFits
  <1> HIDE DEF g
  <1>8. /\ f.locals \in [Attrs -> Values] /\ f \in FrameSet /\ f.got = <<>>
        /\ b.locals \in [Attrs -> Values] /\ b \in FrameSet /\ b.got \in Seq(Mods)
        /\ g \in FrameSet
    BY <1>2, <1>3, <1>7, FrameFields DEF Fits
  <1> HIDE DEF f
  <1> HIDE DEF b
  <1>9. MergedRefs(f, b, g)
    <2>1. ASSUME NEW m \in Mods
          PROVE  refs'[m] = refs[m] - Mine(f, m) - Mine(b, m) + Mine(g, m)
                              + InDicts(dict', m) - InDicts(dict, m)
      <3>1. /\ Mine(f, m) = InTable(f.locals, m) + InTable(f.got, m) + One(f.mod, m)
            /\ Mine(b, m) = InTable(b.locals, m) + InTable(b.got, m) + One(b.mod, m)
            /\ Mine(g, m) = InTable(g.locals, m) + InTable(g.got, m) + One(g.mod, m)
        BY <1>8, FrameHolds
      <3>2. InTable(f.got, m) = 0 /\ InTable(g.got, m) = 0 /\ InTable(b.got, m) \in Nat
        BY <1>7, <1>8, SequenceCount
      <3>3. InTable(f.locals, m) \in Nat /\ InTable(b.locals, m) \in Nat
        BY <1>8, TableCount
      <3>4. InTable(g.locals, m) = InTable(b.locals, m) /\ One(g.mod, m) = One(b.mod, m)
            /\ One(f.mod, m) = One(x, m)
        BY <1>4, <1>7 DEF Same
      <3>5. One(x, m) \in Nat /\ One(b.mod, m) \in Nat
        BY DEF One
      <3>6. refs'[m] = refs[m] - InTable(f.locals, m) - InTable(b.got, m) - One(x, m)
        BY <1>5
      <3>7. refs[m] \in Nat /\ InDicts(dict, m) \in Nat /\ InDicts(dict', m) = InDicts(dict, m)
        BY <1>1, <1>5, CountsTyped
      <3> DEFINE r == refs[m]
                 r2 == refs'[m]
                 p == Mine(f, m)
                 q == Mine(b, m)
                 h == Mine(g, m)
                 d == InDicts(dict, m)
                 d2 == InDicts(dict', m)
                 i == InTable(f.locals, m)
                 j == InTable(b.locals, m)
                 k == InTable(b.got, m)
                 o == One(x, m)
                 o2 == One(b.mod, m)
      <3>8. /\ p = i + o /\ q = j + k + o2 /\ h = j + o2 /\ r2 = r - i - k - o /\ d2 = d
            /\ i \in Nat /\ j \in Nat /\ k \in Nat /\ o \in Nat /\ o2 \in Nat /\ r \in Nat /\ d \in Nat
        BY <3>1, <3>2, <3>3, <3>4, <3>5, <3>6, <3>7
      <3> HIDE DEF r
      <3> HIDE DEF r2
      <3> HIDE DEF p
      <3> HIDE DEF q
      <3> HIDE DEF h
      <3> HIDE DEF d
      <3> HIDE DEF d2
      <3> HIDE DEF i
      <3> HIDE DEF j
      <3> HIDE DEF k
      <3> HIDE DEF o
      <3> HIDE DEF o2
      <3>9. r2 = r - p - q + h + d2 - d
        BY <3>8
      <3> QED BY <3>9 DEF r, r2, p, q, h, d, d2
    <2>2. refs' = [m \in Mods |-> refs'[m]]
      BY <1>5
    <2> QED BY <2>1, <2>2 DEF MergedRefs
  <1>10. \A m \in Mods : Uses(g, m) => Uses(b, m) \/ Uses(f, m)
    BY <1>7 DEF Uses, Same
  <1>11. dict' \in [Mods -> [Attrs -> Values]] /\ finished' \subseteq Mods /\ DictsKept
    BY <1>1, <1>5 DEF ModulesTyped, DictsKept
  <1>12. UNCHANGED <<program, gil, registry, cache, lost>> /\ Dropped(t, g) /\ f.kind = "body"
    BY <1>2, <1>5
  <1> QED BY <1>7, <1>9, <1>10, <1>11, <1>12, BodyEndsInv DEF f, b

LEMMA OneLong ==
  ASSUME NEW S, NEW s \in Seq(S), Len(s) = 1
  PROVE  s # <<>> /\ DOMAIN s = {1}
  <1>1. DOMAIN s = 1 .. 1
    OBVIOUS
  <1>2. 1 .. 1 = {1}
    OBVIOUS
  <1>3. s # <<>>
    <2>1. Len(<<>>) = 0
      OBVIOUS
    <2>2. Len(<<>>) # 1
      BY <2>1
    <2> QED BY <2>2
  <1> QED BY <1>1, <1>2, <1>3

LEMMA ScriptFrame ==
  ASSUME ImportInv, NEW t \in Threads, Len(stack[t]) = 1,
         Top(t).stage \in {"run", "failed"}
  PROVE  /\ Top(t) \in FrameSet /\ Top(t).kind = "script" /\ Top(t).mod = Null
         /\ Top(t).got = <<>> /\ stack[t] = <<Top(t)>> /\ stack[t] # <<>>
         /\ \A i \in Nat, m \in Mods : ~Runs(stack, t, i, m)
  <1>1. ModulesTyped /\ StacksFit /\ stack[t] \in Seq(FrameSet)
    BY DEF ImportInv, ModulesTyped
  <1>2. stack[t] # <<>> /\ DOMAIN stack[t] = {1}
    <2> DEFINE s == stack[t]
    <2>1. s \in Seq(FrameSet) /\ Len(s) = 1
      BY <1>1
    <2> HIDE DEF s
    <2>2. s # <<>> /\ DOMAIN s = {1}
      BY <2>1, OneLong
    <2> QED BY <2>2 DEF s
  <1>3. Fits(Top(t)) /\ Top(t) = stack[t][1]
    BY <1>1, <1>2, RunningFrame
  <1>4. stack[t][1].kind = "script"
    BY <1>1, <1>2 DEF StacksFit, StackFits
  <1>5. stack[t] = <<Top(t)>>
    BY <1>1, <1>3
  <1>6. \A i \in Nat, m \in Mods : ~Runs(stack, t, i, m)
    BY <1>2, <1>4 DEF Runs
  <1> QED BY <1>2, <1>3, <1>4, <1>5, <1>6 DEF Fits

LEMMA EndThreadInv ==
  ASSUME ImportInv, NEW t \in Threads, EndThread(t)
  PROVE  ImportInv'
  <1> DEFINE f == Top(t)
  <1>1. ModulesTyped /\ StacksFit /\ stack \in [Threads -> Seq(FrameSet)]
    BY DEF ImportInv, ModulesTyped
  <1>2. /\ Len(stack[t]) = 1 /\ f.stage \in {"run", "failed"}
        /\ stack' = [stack EXCEPT ![t] = <<>>]
        /\ refs' = [m \in Mods |-> refs[m] - InTable(f.locals, m)]
        /\ UNCHANGED <<program, registry, cache, dict, lost, finished>>
    BY DEF EndThread, Ended
  <1>3. gil' \in Threads
    BY <1>1 DEF EndThread, ModulesTyped
  <1>4. /\ f \in FrameSet /\ f.mod = Null /\ f.got = <<>> /\ stack[t] = <<f>>
        /\ \A i \in Nat, m \in Mods : ~Runs(stack, t, i, m)
    BY <1>2, ScriptFrame
  <1>5. f.locals \in [Attrs -> Values] /\ f.got \in Seq(Mods)
    BY <1>4, FrameFields
  <1> HIDE DEF f
  <1>6. /\ stack' \in [Threads -> Seq(FrameSet)] /\ stack'[t] = <<>>
        /\ \A u \in Threads \ {t} : stack'[u] = stack[u]
    BY <1>1, <1>2
  <1>7. ASSUME NEW m \in Mods
        PROVE  /\ InStacks(stack', m) = InStacks(stack, m) - InTable(f.locals, m)
               /\ InTable(f.locals, m) \in Nat
    <2>1. /\ <<>> \in Seq(FrameSet) /\ <<f>> = Append(<<>>, f)
      BY <1>4
    <2>2. InStack(<<>>, m) = 0 /\ InStack(stack[t], m) = Mine(f, m)
      <3>1. InStack(<<>>, m) = 0 /\ InStack(Append(<<>>, f), m) = InStack(<<>>, m) + Mine(f, m)
        BY <1>4, <2>1, StackHolds
      <3>2. Mine(f, m) \in Nat
        BY <1>4, FrameHolds
      <3> QED BY <1>4, <2>1, <3>1, <3>2
    <2>3. InStacks(stack', m) = InStacks(stack, m) - InStack(stack[t], m) + InStack(<<>>, m)
      <3>1. StackReplaced(stack, t, <<>>, m, stack')
        BY <1>1, <1>2, <2>1, StackSet
      <3> QED BY <3>1 DEF StackReplaced
    <2>4. Mine(f, m) = InTable(f.locals, m) + InTable(f.got, m) + One(f.mod, m)
      BY <1>4, FrameHolds
    <2>5. InTable(f.got, m) = 0 /\ One(f.mod, m) = 0
      BY <1>4, <1>5, SequenceCount, ModulesAssumption DEF One
    <2>6. InTable(f.locals, m) \in Nat /\ InStacks(stack, m) \in Nat
      BY <1>1, <1>5, TableCount, CountsTyped, ModulesAssumption
    <2> QED BY <2>2, <2>3, <2>4, <2>5, <2>6
  <1>8. StacksFit'
    <2>1. StackFits(<<>>)
      BY ModulesAssumption DEF StackFits
    <2> QED BY <1>1, <1>6, <2>1 DEF StacksFit
  <1>9. \A u \in Threads, i \in Nat, m \in Mods : Runs(stack', u, i, m) <=> Runs(stack, u, i, m)
    <2>1. \A i \in Nat, m \in Mods : ~Runs(stack', t, i, m)
      BY <1>6 DEF Runs
    <2>2. ASSUME NEW u \in Threads \ {t}, NEW i \in Nat, NEW m \in Mods
          PROVE  Runs(stack', u, i, m) <=> Runs(stack, u, i, m)
      <3>1. stack'[u] = stack[u]
        BY <1>6
      <3> QED BY <3>1 DEF Runs
    <2> QED BY <1>4, <2>1, <2>2
  <1>10. \A m \in Mods : InUse(stack', m) => InUse(stack, m)
    <2> SUFFICES ASSUME NEW m \in Mods, InUse(stack', m) PROVE InUse(stack, m)
      OBVIOUS
    <2>1. PICK u \in Threads : \E i \in DOMAIN stack'[u] : Uses(stack'[u][i], m)
      BY DEF InUse
    <2>2. PICK i \in DOMAIN stack'[u] : Uses(stack'[u][i], m)
      BY <2>1
    <2>3. u # t
      <3>1. DOMAIN stack'[t] = {}
        BY <1>6
      <3> QED BY <2>2, <3>1
    <2>4. stack'[u] = stack[u]
      BY <1>6, <2>3
    <2> QED BY <2>2, <2>4 DEF InUse
  <1>11. TypedNext
    BY <1>1, <1>2, <1>3, <1>6 DEF TypedNext, ModulesTyped
  <1>12. Balance
    <2> SUFFICES ASSUME NEW m \in Mods
                 PROVE  refs'[m] = refs[m] + 2 * InTable(registry', m) - 2 * InTable(registry, m)
                          + InTable(cache', m) - InTable(cache, m)
                          + InDicts(dict', m) - InDicts(dict, m)
                          + InStacks(stack', m) - InStacks(stack, m) + lost'[m] - lost[m]
      BY DEF Balance
    <2>1. /\ InTable(registry, m) \in Nat /\ InTable(cache, m) \in Nat /\ InDicts(dict, m) \in Nat
          /\ InStacks(stack, m) \in Nat /\ lost[m] \in Nat /\ refs[m] \in Nat
      BY <1>1, CountsTyped
    <2>2. /\ InTable(cache', m) = InTable(cache, m) /\ InTable(registry', m) = InTable(registry, m)
          /\ lost'[m] = lost[m] /\ InDicts(dict', m) = InDicts(dict, m)
      BY <1>2
    <2>3. refs'[m] = refs[m] - InTable(f.locals, m)
      BY <1>2
    <2> DEFINE a == InTable(registry, m)
               a2 == InTable(registry', m)
               c == InTable(cache, m)
               c2 == InTable(cache', m)
               d == InDicts(dict, m)
               d2 == InDicts(dict', m)
               s == InStacks(stack, m)
               s2 == InStacks(stack', m)
               l == lost[m]
               l2 == lost'[m]
               r == refs[m]
               r2 == refs'[m]
               p == InTable(f.locals, m)
    <2>7. /\ a \in Nat /\ c \in Nat /\ d \in Nat /\ s \in Nat /\ l \in Nat /\ r \in Nat
          /\ p \in Nat
          /\ a2 = a /\ c2 = c /\ d2 = d /\ s2 = s - p /\ l2 = l
          /\ r2 = r - p
      BY <1>7, <2>1, <2>2, <2>3
    <2> HIDE DEF a
    <2> HIDE DEF a2
    <2> HIDE DEF c
    <2> HIDE DEF c2
    <2> HIDE DEF d
    <2> HIDE DEF d2
    <2> HIDE DEF s
    <2> HIDE DEF s2
    <2> HIDE DEF l
    <2> HIDE DEF l2
    <2> HIDE DEF r
    <2> HIDE DEF r2
    <2> HIDE DEF p
    <2>8. r2 = r + 2 * a2 - 2 * a + c2 - c + d2 - d + s2 - s + l2 - l
      BY <2>7
    <2> QED BY <2>8 DEF a, a2, c, c2, d, d2, s, s2, l, l2, r, r2
  <1>13. StaysKept
    BY <1>2, <1>9 DEF StaysKept, Kept
  <1>14. NewKept
    BY <1>2, <1>10 DEF NewKept
  <1>15. NoNewInits
    BY <1>2, <1>9 DEF NoNewInits
  <1> QED BY <1>8, <1>11, <1>12, <1>13, <1>14, <1>15, AllNext

(* Nothing is loaded at first.                                              *)
LEMMA ScriptFits ==
  ASSUME NEW code \in Seq(Statements)
  PROVE  Fits(Frame("script", Null, Null, code))
  BY ModulesAssumption DEF Fits, Frame, FrameSet, Empty, Values

LEMMA NothingHeld ==
  ASSUME NEW code \in Seq(Statements), NEW m \in Mods
  PROVE  HeldInStack(<<Frame("script", Null, Null, code)>>, m) = {}
  <1> DEFINE f == Frame("script", Null, Null, code)
  <1>1. f.locals = Empty /\ f.got = <<>> /\ f.mod = Null
    BY DEF Frame
  <1> HIDE DEF f
  <1>2. {a \in Attrs : f.locals[a] = m} = {}
    BY <1>1, ModulesAssumption DEF Empty
  <1>3. {i \in DOMAIN f.got : f.got[i] = m} = {} /\ f.mod # m
    BY <1>1, ModulesAssumption
  <1>4. HeldBy(f, m) = {}
    BY <1>2, <1>3 DEF HeldBy
  <1>5. \A i \in DOMAIN <<f>> : <<f>>[i] = f
    OBVIOUS
  <1>6. HeldInStack(<<f>>, m) = {}
    BY <1>4, <1>5 DEF HeldInStack
  <1> QED BY <1>6 DEF f

LEMMA ImportInitInv ==
  ASSUME ImportInit
  PROVE  ImportInv
  <1> USE ModulesAssumption
  <1>1. /\ program \in Programs /\ gil \in Threads
        /\ stack = [t \in Threads |-> <<Frame("script", Null, Null, program.scripts[t])>>]
        /\ registry = [n \in Names |-> Null] /\ cache = [n \in Names |-> Null]
        /\ dict = [m \in Mods |-> Empty]
        /\ refs = [m \in Mods |-> 0] /\ lost = [m \in Mods |-> 0] /\ finished = {}
    BY DEF ImportInit
  <1>2. \A t \in Threads : program.scripts[t] \in Seq(Statements)
    BY <1>1, ProgramsAssumption
  <1>3. \A t \in Threads : /\ stack[t] = <<Frame("script", Null, Null, program.scripts[t])>>
                           /\ Fits(Frame("script", Null, Null, program.scripts[t]))
    BY <1>1, <1>2, ScriptFits
  <1>4. \A t \in Threads :
           /\ stack[t] \in Seq(FrameSet) /\ Len(stack[t]) = 1 /\ DOMAIN stack[t] = {1}
           /\ Fits(stack[t][1]) /\ stack[t][1].kind = "script" /\ stack[t][1].mod = Null
           /\ stack[t][1].got = <<>>
    <2> SUFFICES ASSUME NEW t \in Threads
                 PROVE  /\ stack[t] \in Seq(FrameSet) /\ Len(stack[t]) = 1 /\ DOMAIN stack[t] = {1}
                        /\ Fits(stack[t][1]) /\ stack[t][1].kind = "script" /\ stack[t][1].mod = Null
                        /\ stack[t][1].got = <<>>
      OBVIOUS
    <2> DEFINE f == Frame("script", Null, Null, program.scripts[t])
               s == stack[t]
    <2>1. Fits(f) /\ f \in FrameSet /\ s = <<f>>
      BY <1>3 DEF Fits
    <2>2. f.kind = "script" /\ f.mod = Null /\ f.got = <<>>
      BY DEF Frame
    <2> HIDE DEF f
    <2> HIDE DEF s
    <2>3. /\ s \in Seq(FrameSet) /\ Len(s) = 1 /\ DOMAIN s = {1}
          /\ Fits(s[1]) /\ s[1].kind = "script" /\ s[1].mod = Null /\ s[1].got = <<>>
      BY <2>1, <2>2
    <2> QED BY <2>3 DEF s
  <1>5. StacksFit
    <2> SUFFICES ASSUME NEW t \in Threads PROVE StackFits(stack[t])
      BY DEF StacksFit
    <2> DEFINE s == stack[t]
    <2>1. Len(s) = 1 /\ DOMAIN s = {1} /\ Fits(s[1]) /\ s[1].kind = "script" /\ MaxFrames \in Nat \ {0}
      BY <1>4
    <2> HIDE DEF s
    <2>2. Len(s) <= MaxFrames /\ 1 .. Len(s) - 1 = {}
      BY <2>1
    <2>3. StackFits(s)
      BY <2>1, <2>2 DEF StackFits
    <2> QED BY <2>3 DEF s
  <1>6. stack \in [Threads -> Seq(FrameSet)]
    BY <1>1, <1>4
  <1>7. Empty \in [Attrs -> Values]
    BY DEF Empty, Values
  <1>8. ModulesTyped
    BY <1>1, <1>6, <1>7 DEF ModulesTyped
  <1>9. ASSUME NEW m \in Mods
        PROVE  /\ InTable(registry, m) = 0 /\ InTable(cache, m) = 0
               /\ InDicts(dict, m) = 0 /\ InStacks(stack, m) = 0
    <2>1. {x \in DOMAIN registry : registry[x] = m} = {} /\ {x \in DOMAIN cache : cache[x] = m} = {}
      BY <1>1
    <2>2. {p \in Mods \X Attrs : dict[p[1]][p[2]] = m} = {}
      BY <1>1 DEF Empty
    <2>3. HeldInStacks(stack, m) = {}
      <3>1. \A t \in Threads : HeldInStack(stack[t], m) = {}
        BY <1>2, <1>3, NothingHeld
      <3>2. \A t \in Threads : {t} \X HeldInStack(stack[t], m) = {}
        BY <3>1
      <3>3. \A x \in HeldInStacks(stack, m) : FALSE
        BY <3>2 DEF HeldInStacks
      <3> QED BY <3>3
    <2> QED BY <2>1, <2>2, <2>3, FS_EmptySet DEF InTable, InDicts, InStacks
  <1>10. ModuleRefsExact
    <2> SUFFICES ASSUME NEW m \in Mods
                 PROVE  refs[m] = 2 * InTable(registry, m) + InTable(cache, m)
                                    + InDicts(dict, m) + InStacks(stack, m) + lost[m]
      BY <1>8, Exactly
    <2>1. refs[m] = 0 /\ lost[m] = 0
      BY <1>1
    <2> QED BY <1>9, <2>1
  <1>11. \A m \in Mods : ~InUse(stack, m) /\ \A n \in Names : cache[n] # m
    <2> SUFFICES ASSUME NEW m \in Mods PROVE ~InUse(stack, m) /\ \A n \in Names : cache[n] # m
      OBVIOUS
    <2>1. \A n \in Names : cache[n] # m
      BY <1>1
    <2>2. ASSUME NEW t \in Threads PROVE ~Uses(stack[t][1], m)
      <3> DEFINE f == stack[t][1]
      <3>1. f.mod = Null /\ f.got = <<>>
        BY <1>4
      <3> HIDE DEF f
      <3>2. ~Uses(f, m)
        BY <3>1 DEF Uses
      <3> QED BY <3>2 DEF f
    <2>3. \A t \in Threads : DOMAIN stack[t] = {1}
      BY <1>4
    <2> QED BY <2>1, <2>2, <2>3 DEF InUse
  <1>12. UsedKept
    BY <1>1, <1>11 DEF UsedKept
  <1>13. InitsPrivate
    BY <1>4 DEF InitsPrivate, Runs
  <1> QED BY <1>5, <1>8, <1>10, <1>12, <1>13 DEF ImportInv

LEMMA ImportNextInv ==
  ASSUME ImportInv, [ImportNext]_importVars
  PROVE  ImportInv'
  <1>1. CASE ImportNext
    <2>1. gil \in Threads /\ stack[gil] # <<>> /\ Step(gil)
      BY <1>1 DEF ImportNext, ImportInv, ModulesTyped
    <2>2. PICK t \in Threads : t = gil
      BY <2>1
    <2>3. stack[t] # <<>> /\ Step(t)
      BY <2>1, <2>2
    <2> QED
      BY <2>3, BeginImportInv, FindLoadedInv, LoadExtensionInv, NoExtensionInv, InitReturnsInv,
         InitFailsInv, SourceCachedInv, MakeBuiltinInv, NoSourceInv, RunSourceInv, BodyReturnsInv,
         BodyFailsInv, FinishImportInv, AssignInv, RaiseInv, SucceedInv, YieldInv, AddModuleInv,
         EndThreadInv DEF Step
  <1>2. CASE UNCHANGED importVars
    BY <1>2 DEF importVars, ImportInv, ModulesTyped, StacksFit, ModuleRefsExact, Owners, UsedKept,
         InitsPrivate, Kept
  <1> QED BY <1>1, <1>2

LEMMA ImportAlways ==
  ImportInit /\ [][ImportNext]_importVars => []ImportInv
  <1>1. ImportInit => ImportInv
    BY ImportInitInv
  <1>2. ImportInv /\ [ImportNext]_importVars => ImportInv'
    BY ImportNextInv
  <1> QED BY <1>1, <1>2, PTL

LEMMA ImportInvTyped ==
  ASSUME ImportInv
  PROVE  ImportTypeOK
  <1>1. ModulesTyped /\ StacksFit
    BY DEF ImportInv
  <1>2. \A t \in Threads : Len(stack[t]) <= MaxFrames
    BY <1>1 DEF StacksFit, StackFits
  <1>3. \A f \in Frames : f \in FrameSet
    <2> SUFFICES ASSUME NEW t \in Threads, NEW f \in Range(stack[t]) PROVE f \in FrameSet
      BY DEF Frames
    <2>1. PICK i \in DOMAIN stack[t] : f = stack[t][i]
      BY DEF Range
    <2>2. stack[t] \in Seq(FrameSet)
      BY <1>1 DEF ModulesTyped
    <2> QED BY <2>1, <2>2
  <1>4. \A f \in Frames :
           /\ f.kind \in {"script", "body", "c"}
           /\ f.mod \in Mods \cup {Null} /\ f.name \in Names \cup {Null}
           /\ f.stage \in {"run", "find", "source", "failed"}
           /\ f.locals \in [Attrs -> Values]
           /\ f.todo \in Seq(Names) /\ f.got \in Seq(Mods)
    BY <1>3, FrameFields
  <1> QED BY <1>1, <1>2, <1>4 DEF ImportTypeOK, ModulesTyped

(* Types, the bound on a thread's frames, the count of references, and what *)
(* they rest on: a module in use is registered, a module whose initialiser   *)
(* runs is its initialiser's alone.                                         *)
THEOREM ImportInvariant == ImportSpec => []ImportInv
  BY ImportAlways, PTL DEF ImportSpec

(* The frames and the tables hold what ImportTypeOK says.                   *)
THEOREM ImportsTyped == ImportSpec => []ImportTypeOK
  <1>1. ImportInv => ImportTypeOK
    BY ImportInvTyped
  <1> QED BY <1>1, ImportInvariant, PTL

(* Every reference to a module has an owner, or is one of those the code    *)
(* loses: imports, failed initialisers and bodies, and threads that end     *)
(* release what they took.                                                  *)
THEOREM ModuleRefsAddUp == ImportSpec => []ModuleRefsExact
  <1>1. ImportInv => ModuleRefsExact
    BY DEF ImportInv
  <1> QED BY <1>1, ImportInvariant, PTL

-----------------------------------------------------------------------------
(* The imports that look for a module: the contract's opened, step by step. *)
Deep(f, n) == f.kind = "c" /\ f.name = n
Near(f, n) == Deep(f, n) \/ (AtSource(f) /\ Head(f.todo) = n)

SearchedAt(ss, u, i, n) == i \in DOMAIN ss[u] /\ Searches(ss[u], i, n)

OpenSet(ss, n) == {p \in Threads \X (1 .. MaxFrames) : SearchedAt(ss, p[1], p[2], n)}

LEMMA OpenedSet ==
  ASSUME NEW n
  PROVE  Opened(n) = Cardinality(OpenSet(stack, n))
  BY DEF Opened, OpenSet, SearchedAt

LEMMA OpenedSetNext ==
  ASSUME NEW n
  PROVE  Opened(n)' = Cardinality(OpenSet(stack', n))
  BY DEF Opened, OpenSet, SearchedAt

LEMMA OpenSetFinite ==
  ASSUME NEW ss, NEW n
  PROVE  IsFiniteSet(OpenSet(ss, n)) /\ Cardinality(OpenSet(ss, n)) \in Nat
  <1>1. IsFiniteSet(1 .. MaxFrames)
    BY ModulesAssumption, FS_Interval
  <1>2. IsFiniteSet(Threads \X (1 .. MaxFrames))
    BY <1>1, ModulesAssumption, FS_Product
  <1>3. OpenSet(ss, n) \subseteq Threads \X (1 .. MaxFrames)
    BY DEF OpenSet
  <1> QED BY <1>2, <1>3, FS_Subset, FS_CardinalityType

OpenedNow == [n \in Names |-> Opened(n)]

SameSearches(ss, new) ==
    \A n \in Names, u \in Threads, i \in Nat : SearchedAt(new, u, i, n) <=> SearchedAt(ss, u, i, n)

OneOpened(ss, n0, t, k, new) ==
    /\ \A n \in Names, u \in Threads, i \in Nat :
          SearchedAt(new, u, i, n) <=>
            SearchedAt(ss, u, i, n) \/ (n = n0 /\ u = t /\ i = k)
    /\ ~SearchedAt(ss, t, k, n0)

OneClosed(ss, n0, t, k, new) ==
    /\ \A n \in Names, u \in Threads, i \in Nat :
          SearchedAt(new, u, i, n) <=>
            SearchedAt(ss, u, i, n) /\ ~(n = n0 /\ u = t /\ i = k)
    /\ SearchedAt(ss, t, k, n0)

LEMMA SameOpened ==
  ASSUME SameSearches(stack, stack')
  PROVE  OpenedNow' = OpenedNow
  <1>1. ASSUME NEW n \in Names PROVE OpenSet(stack', n) = OpenSet(stack, n)
    <2>1. \A p \in Threads \X (1 .. MaxFrames) : p[1] \in Threads /\ p[2] \in Nat
      BY ModulesAssumption
    <2> QED BY <2>1 DEF OpenSet, SameSearches
  <1>2. \A n \in Names : Opened(n)' = Opened(n)
    BY <1>1, OpenedSet, OpenedSetNext
  <1> QED BY <1>2 DEF OpenedNow

LEMMA MoreOpened ==
  ASSUME NEW n0 \in Names, NEW t \in Threads, NEW k \in 1 .. MaxFrames,
         OneOpened(stack, n0, t, k, stack')
  PROVE  OpenedNow' = [OpenedNow EXCEPT ![n0] = @ + 1]
  <1> DEFINE x == <<t, k>>
  <1>1. \A p \in Threads \X (1 .. MaxFrames) :
           p[1] \in Threads /\ p[2] \in Nat /\ (p = x <=> p[1] = t /\ p[2] = k)
    BY ModulesAssumption
  <1>2. x \in Threads \X (1 .. MaxFrames) /\ x[1] = t /\ x[2] = k
    BY ModulesAssumption
  <1> HIDE DEF x
  <1>3. ASSUME NEW n \in Names, n # n0 PROVE Opened(n)' = Opened(n)
    <2>1. OpenSet(stack', n) = OpenSet(stack, n)
      BY <1>1, <1>3 DEF OpenSet, OneOpened
    <2> QED BY <2>1, OpenedSet, OpenedSetNext
  <1>4. Opened(n0)' = Opened(n0) + 1
    <2>1. OpenSet(stack', n0) = OpenSet(stack, n0) \cup {x} /\ x \notin OpenSet(stack, n0)
      BY <1>1, <1>2 DEF OpenSet, OneOpened
    <2>2. Cardinality(OpenSet(stack, n0) \cup {x}) = Cardinality(OpenSet(stack, n0)) + 1
      BY <2>1, OpenSetFinite, FS_AddElement
    <2> QED BY <2>1, <2>2, OpenedSet, OpenedSetNext
  <1> QED BY <1>3, <1>4 DEF OpenedNow

LEMMA FewerOpened ==
  ASSUME NEW n0 \in Names, NEW t \in Threads, NEW k \in 1 .. MaxFrames,
         OneClosed(stack, n0, t, k, stack')
  PROVE  OpenedNow' = [OpenedNow EXCEPT ![n0] = @ - 1] /\ OpenedNow[n0] > 0
  <1> DEFINE x == <<t, k>>
  <1>1. \A p \in Threads \X (1 .. MaxFrames) :
           p[1] \in Threads /\ p[2] \in Nat /\ (p = x <=> p[1] = t /\ p[2] = k)
    BY ModulesAssumption
  <1>2. x \in Threads \X (1 .. MaxFrames) /\ x[1] = t /\ x[2] = k
    BY ModulesAssumption
  <1> HIDE DEF x
  <1>3. ASSUME NEW n \in Names, n # n0 PROVE Opened(n)' = Opened(n)
    <2>1. OpenSet(stack', n) = OpenSet(stack, n)
      BY <1>1, <1>3 DEF OpenSet, OneClosed
    <2> QED BY <2>1, OpenedSet, OpenedSetNext
  <1>4. Opened(n0)' = Opened(n0) - 1 /\ Opened(n0) > 0
    <2> DEFINE S == OpenSet(stack, n0)
    <2>1. OpenSet(stack', n0) = S \ {x} /\ x \in S
      BY <1>1, <1>2 DEF OpenSet, OneClosed
    <2>2. IsFiniteSet(S) /\ Opened(n0) = Cardinality(S) /\ Opened(n0)' = Cardinality(S \ {x})
      BY <2>1, OpenSetFinite, OpenedSet, OpenedSetNext
    <2> HIDE DEF S
    <2>3. /\ Cardinality(S \ {x}) = Cardinality(S) - 1
          /\ Cardinality(S) \in Nat /\ Cardinality(S) # 0
      BY <2>1, <2>2, FS_RemoveElement, FS_CardinalityType, FS_EmptySet
    <2> QED BY <2>2, <2>3
  <1> QED BY <1>3, <1>4 DEF OpenedNow

LEMMA SearchesAppended ==
  ASSUME NEW r \in Seq(FrameSet), NEW f \in FrameSet, NEW n, NEW i \in Nat
  PROVE  i \in DOMAIN Append(r, f) /\ Searches(Append(r, f), i, n) <=>
           (i \in DOMAIN r /\ Deep(r[i], n)) \/ (i = Len(r) + 1 /\ Near(f, n))
  <1> DEFINE s == Append(r, f)
  <1>1. /\ DOMAIN s = 1 .. Len(r) + 1 /\ DOMAIN r = 1 .. Len(r) /\ Len(r) \in Nat
        /\ Len(s) = Len(r) + 1 /\ s[Len(r) + 1] = f
        /\ \A j \in 1 .. Len(r) : s[j] = r[j]
    OBVIOUS
  <1> HIDE DEF s
  <1>2. CASE i \in 1 .. Len(r)
    <2>1. i # Len(s) /\ i # Len(r) + 1 /\ s[i] = r[i] /\ i \in DOMAIN s /\ i \in DOMAIN r
      BY <1>1, <1>2
    <2> QED BY <2>1 DEF Searches, Deep, s
  <1>3. CASE i = Len(r) + 1
    <2>1. i = Len(s) /\ s[i] = f /\ i \in DOMAIN s /\ i \notin DOMAIN r
      BY <1>1, <1>3
    <2> QED BY <1>3, <2>1 DEF Searches, Deep, Near, s
  <1>4. CASE i \notin 1 .. Len(r) + 1
    <2>1. i \notin DOMAIN s /\ i \notin DOMAIN r /\ i # Len(r) + 1
      BY <1>1, <1>4
    <2> QED BY <2>1 DEF s
  <1> QED BY <1>1, <1>2, <1>3, <1>4

ChangedSearch(ss, t, f, g, k, new) ==
    \A n \in Names :
        /\ SearchedAt(ss, t, k, n) <=> Near(f, n)
        /\ SearchedAt(new, t, k, n) <=> Near(g, n)
        /\ \A u \in Threads, i \in Nat : u # t \/ i # k =>
              (SearchedAt(new, u, i, n) <=> SearchedAt(ss, u, i, n))

LEMMA ChangedSearches ==
  ASSUME NEW ss \in [Threads -> Seq(FrameSet)], NEW t \in Threads, NEW f \in FrameSet,
         NEW g \in FrameSet, NEW r \in Seq(FrameSet), NEW new, Changed(ss, t, f, g, r, new)
  PROVE  ChangedSearch(ss, t, f, g, Len(r) + 1, new)
  <1>1. /\ ss[t] = Append(r, f) /\ new[t] = Append(r, g)
        /\ \A u \in Threads \ {t} : new[u] = ss[u]
    BY DEF Changed
  <1> DEFINE k == Len(r) + 1
  <1>2. k \in Nat /\ k \notin DOMAIN r
    OBVIOUS
  <1>3. \A n \in Names, i \in Nat :
           /\ SearchedAt(ss, t, i, n) <=> (i \in DOMAIN r /\ Deep(r[i], n)) \/ (i = k /\ Near(f, n))
           /\ SearchedAt(new, t, i, n) <=> (i \in DOMAIN r /\ Deep(r[i], n)) \/ (i = k /\ Near(g, n))
    BY <1>1, SearchesAppended DEF SearchedAt
  <1>4. \A n \in Names, u \in Threads \ {t}, i \in Nat : SearchedAt(new, u, i, n) <=> SearchedAt(ss, u, i, n)
    BY <1>1 DEF SearchedAt
  <1> HIDE DEF k
  <1>5. ChangedSearch(ss, t, f, g, k, new)
    BY <1>2, <1>3, <1>4 DEF ChangedSearch
  <1> QED BY <1>5 DEF k

StartedSearch(ss, t, f, g, k, new) ==
    \A n \in Names :
        /\ SearchedAt(ss, t, k, n) <=> Near(f, n)
        /\ SearchedAt(new, t, k, n) <=> Deep(f, n)
        /\ ~SearchedAt(ss, t, k + 1, n)
        /\ SearchedAt(new, t, k + 1, n) <=> Near(g, n)
        /\ \A u \in Threads, i \in Nat : u # t \/ (i # k /\ i # k + 1) =>
              (SearchedAt(new, u, i, n) <=> SearchedAt(ss, u, i, n))

LEMMA StartedSearches ==
  ASSUME NEW ss \in [Threads -> Seq(FrameSet)], NEW t \in Threads, NEW f \in FrameSet,
         NEW g \in FrameSet, NEW r \in Seq(FrameSet), NEW new, Started(ss, t, f, g, r, new)
  PROVE  StartedSearch(ss, t, f, g, Len(r) + 1, new)
  <1> DEFINE q == Append(r, f)
             k == Len(r) + 1
  <1>1. /\ ss[t] = q /\ new[t] = Append(q, g) /\ q \in Seq(FrameSet)
        /\ \A u \in Threads \ {t} : new[u] = ss[u]
    BY DEF Started
  <1>2. k \in Nat /\ k \notin DOMAIN r /\ k + 1 \notin DOMAIN r /\ k \in DOMAIN q /\ k + 1 \notin DOMAIN q
        /\ Len(q) = k /\ q[k] = f /\ k # k + 1
    OBVIOUS
  <1>3. \A i \in Nat : i # k => (i \in DOMAIN q <=> i \in DOMAIN r) /\ (i \in DOMAIN r => q[i] = r[i])
    OBVIOUS
  <1>4. \A n \in Names, i \in Nat :
           SearchedAt(ss, t, i, n) <=> (i \in DOMAIN r /\ Deep(r[i], n)) \/ (i = k /\ Near(f, n))
    BY <1>1, SearchesAppended DEF SearchedAt
  <1> HIDE DEF q
  <1>5. \A n \in Names, i \in Nat :
           SearchedAt(new, t, i, n) <=>
             (i \in DOMAIN q /\ Deep(q[i], n)) \/ (i = Len(q) + 1 /\ Near(g, n))
    BY <1>1, SearchesAppended DEF SearchedAt
  <1>6. \A n \in Names, u \in Threads \ {t}, i \in Nat : SearchedAt(new, u, i, n) <=> SearchedAt(ss, u, i, n)
    BY <1>1 DEF SearchedAt
  <1> HIDE DEF k
  <1>7. StartedSearch(ss, t, f, g, k, new)
    <2> SUFFICES ASSUME NEW n \in Names
                 PROVE  /\ SearchedAt(ss, t, k, n) <=> Near(f, n)
                        /\ SearchedAt(new, t, k, n) <=> Deep(f, n)
                        /\ ~SearchedAt(ss, t, k + 1, n)
                        /\ SearchedAt(new, t, k + 1, n) <=> Near(g, n)
                        /\ \A u \in Threads, i \in Nat : u # t \/ (i # k /\ i # k + 1) =>
                              (SearchedAt(new, u, i, n) <=> SearchedAt(ss, u, i, n))
      BY DEF StartedSearch
    <2>1. SearchedAt(ss, t, k, n) <=> Near(f, n)
      BY <1>2, <1>4
    <2>2. SearchedAt(new, t, k, n) <=> Deep(f, n)
      BY <1>2, <1>5
    <2>3. k + 1 \in Nat
      BY <1>2
    <2>4. ~SearchedAt(ss, t, k + 1, n)
      BY <1>2, <1>4, <2>3
    <2>5. SearchedAt(new, t, k + 1, n) <=> Near(g, n)
      BY <1>2, <1>5, <2>3
    <2>6. ASSUME NEW i \in Nat, i # k, i # k + 1
          PROVE  SearchedAt(new, t, i, n) <=> SearchedAt(ss, t, i, n)
      BY <1>2, <1>3, <1>4, <1>5, <2>6
    <2> QED BY <1>6, <2>1, <2>2, <2>4, <2>5, <2>6
  <1> QED BY <1>7 DEF k

ReturnedSearch(ss, t, f, b, g, k, new) ==
    \A n \in Names :
        /\ SearchedAt(ss, t, k, n) <=> Deep(b, n)
        /\ SearchedAt(new, t, k, n) <=> Near(g, n)
        /\ SearchedAt(ss, t, k + 1, n) <=> Near(f, n)
        /\ ~SearchedAt(new, t, k + 1, n)
        /\ \A u \in Threads, i \in Nat : u # t \/ (i # k /\ i # k + 1) =>
              (SearchedAt(new, u, i, n) <=> SearchedAt(ss, u, i, n))

LEMMA ReturnedSearches ==
  ASSUME NEW ss \in [Threads -> Seq(FrameSet)], NEW t \in Threads, NEW f \in FrameSet,
         NEW b \in FrameSet, NEW g \in FrameSet, NEW r \in Seq(FrameSet), NEW new,
         Returned(ss, t, f, b, g, r, new)
  PROVE  ReturnedSearch(ss, t, f, b, g, Len(r) + 1, new)
  <1> DEFINE q == Append(r, b)
             k == Len(r) + 1
  <1>1. /\ ss[t] = Append(q, f) /\ new[t] = Append(r, g) /\ q \in Seq(FrameSet)
        /\ \A u \in Threads \ {t} : new[u] = ss[u]
    BY DEF Returned
  <1>2. k \in Nat /\ k \notin DOMAIN r /\ k + 1 \notin DOMAIN r /\ k \in DOMAIN q /\ k + 1 \notin DOMAIN q
        /\ Len(q) = k /\ q[k] = b /\ k # k + 1
    OBVIOUS
  <1>3. \A i \in Nat : i # k => (i \in DOMAIN q <=> i \in DOMAIN r) /\ (i \in DOMAIN r => q[i] = r[i])
    OBVIOUS
  <1>4. \A n \in Names, i \in Nat :
           SearchedAt(new, t, i, n) <=> (i \in DOMAIN r /\ Deep(r[i], n)) \/ (i = k /\ Near(g, n))
    BY <1>1, SearchesAppended DEF SearchedAt
  <1> HIDE DEF q
  <1>5. \A n \in Names, i \in Nat :
           SearchedAt(ss, t, i, n) <=>
             (i \in DOMAIN q /\ Deep(q[i], n)) \/ (i = Len(q) + 1 /\ Near(f, n))
    BY <1>1, SearchesAppended DEF SearchedAt
  <1>6. \A n \in Names, u \in Threads \ {t}, i \in Nat : SearchedAt(new, u, i, n) <=> SearchedAt(ss, u, i, n)
    BY <1>1 DEF SearchedAt
  <1> HIDE DEF k
  <1>7. ReturnedSearch(ss, t, f, b, g, k, new)
    <2> SUFFICES ASSUME NEW n \in Names
                 PROVE  /\ SearchedAt(ss, t, k, n) <=> Deep(b, n)
                        /\ SearchedAt(new, t, k, n) <=> Near(g, n)
                        /\ SearchedAt(ss, t, k + 1, n) <=> Near(f, n)
                        /\ ~SearchedAt(new, t, k + 1, n)
                        /\ \A u \in Threads, i \in Nat : u # t \/ (i # k /\ i # k + 1) =>
                              (SearchedAt(new, u, i, n) <=> SearchedAt(ss, u, i, n))
      BY DEF ReturnedSearch
    <2>1. SearchedAt(new, t, k, n) <=> Near(g, n)
      BY <1>2, <1>4
    <2>2. SearchedAt(ss, t, k, n) <=> Deep(b, n)
      BY <1>2, <1>5
    <2>3. k + 1 \in Nat
      BY <1>2
    <2>4. ~SearchedAt(new, t, k + 1, n)
      BY <1>2, <1>4, <2>3
    <2>5. SearchedAt(ss, t, k + 1, n) <=> Near(f, n)
      BY <1>2, <1>5, <2>3
    <2>6. ASSUME NEW i \in Nat, i # k, i # k + 1
          PROVE  SearchedAt(new, t, i, n) <=> SearchedAt(ss, t, i, n)
      BY <1>2, <1>3, <1>4, <1>5, <2>6
    <2> QED BY <1>6, <2>1, <2>2, <2>4, <2>5, <2>6
  <1> QED BY <1>7 DEF k

-----------------------------------------------------------------------------
(* The steps of the contract.                                               *)
ModuleStep == [ModuleTable!Next]_<<registry, OpenedNow>>

LEMMA Stutters ==
  ASSUME registry' = registry, OpenedNow' = OpenedNow
  PROVE  ModuleStep
  BY DEF ModuleStep

LEMMA Opens ==
  ASSUME NEW n \in Names, registry[n] = Null, registry' = registry,
         OpenedNow' = [OpenedNow EXCEPT ![n] = @ + 1]
  PROVE  ModuleStep
  <1>1. ModuleTable!Open(n)
    BY DEF ModuleTable!Open, OpenedNow
  <1> QED BY <1>1 DEF ModuleStep, ModuleTable!Next

LEMMA ImportEnters ==
  ASSUME NEW n \in Names, registry[n] = Null, NEW x \in Mods, \A k \in Names : registry[k] # x,
         registry' = [registry EXCEPT ![n] = x], OpenedNow' = OpenedNow
  PROVE  ModuleStep
  <1>1. ModuleTable!Enter(n)
    BY DEF ModuleTable!Enter, ModuleTable!Unused, OpenedNow
  <1> QED BY <1>1 DEF ModuleStep, ModuleTable!Next

LEMMA Closes ==
  ASSUME NEW n \in Names, OpenedNow[n] > 0, OpenedNow' = [OpenedNow EXCEPT ![n] = @ - 1],
         registry' = registry
           \/ \E x \in Mods : (\A k \in Names : registry[k] # x) /\ registry' = [registry EXCEPT ![n] = x]
  PROVE  ModuleStep
  <1>1. ModuleTable!Close(n)
    BY DEF ModuleTable!Close, ModuleTable!Unused, OpenedNow
  <1> QED BY <1>1 DEF ModuleStep, ModuleTable!Next

LEMMA AppendedTyped ==
  ASSUME NEW S, NEW r \in Seq(S), NEW g, Append(r, g) \in Seq(S)
  PROVE  g \in S
  <1> DEFINE s == Append(r, g)
  <1>1. s[Len(r) + 1] = g /\ Len(s) = Len(r) + 1
    OBVIOUS
  <1>2. s \in Seq(S)
    OBVIOUS
  <1>3. Len(r) \in Nat
    OBVIOUS
  <1> HIDE DEF s
  <1>4. Len(r) + 1 \in DOMAIN s
    BY <1>1, <1>2, <1>3
  <1>5. s[Len(r) + 1] \in S
    BY <1>2, <1>4
  <1> QED BY <1>1, <1>5

LEMMA TopSearches ==
  ASSUME ImportInv, ImportInv', NEW t \in Threads, stack[t] # <<>>, NEW g, SetTop(t, g)
  PROVE  /\ ChangedSearch(stack, t, Top(t), g, Len(stack[t]), stack')
         /\ Len(stack[t]) \in 1 .. MaxFrames /\ Len(stack[t]) \in Nat
  <1> DEFINE f == Top(t)
             r == Front(stack[t])
  <1>1. /\ f \in FrameSet /\ r \in Seq(FrameSet) /\ stack[t] = Append(r, f)
        /\ Len(stack[t]) = Len(r) + 1 /\ Len(r) \in Nat /\ Len(stack[t]) <= MaxFrames
    BY RunningFrame DEF ImportInv, StacksFit, StackFits
  <1>2. stack \in [Threads -> Seq(FrameSet)] /\ stack' \in [Threads -> Seq(FrameSet)]
    BY DEF ImportInv, ModulesTyped
  <1>3. stack' = [stack EXCEPT ![t] = Append(r, g)]
    BY DEF SetTop
  <1> HIDE DEF f
  <1> HIDE DEF r
  <1>4. Append(r, g) \in Seq(FrameSet)
    BY <1>2, <1>3
  <1>5. g \in FrameSet
    BY <1>1, <1>4, AppendedTyped
  <1>6. Changed(stack, t, f, g, r, stack')
    BY <1>1, <1>3 DEF Changed
  <1>7. ChangedSearch(stack, t, f, g, Len(r) + 1, stack')
    BY <1>1, <1>2, <1>5, <1>6, ChangedSearches
  <1>8. Len(r) + 1 \in 1 .. MaxFrames
    BY <1>1, ModulesAssumption
  <1> QED BY <1>1, <1>7, <1>8 DEF f

LEMMA PushSearches ==
  ASSUME ImportInv, ImportInv', NEW t \in Threads, stack[t] # <<>>, NEW g, Push(t, g)
  PROVE  /\ StartedSearch(stack, t, Top(t), g, Len(stack[t]), stack')
         /\ Len(stack[t]) \in 1 .. MaxFrames /\ Len(stack[t]) + 1 \in 1 .. MaxFrames
  <1> DEFINE f == Top(t)
             r == Front(stack[t])
             q == stack[t]
  <1>1. /\ f \in FrameSet /\ r \in Seq(FrameSet) /\ q = Append(r, f)
        /\ Len(q) = Len(r) + 1 /\ Len(r) \in Nat /\ q \in Seq(FrameSet)
    BY RunningFrame DEF ImportInv, ModulesTyped
  <1>2. stack \in [Threads -> Seq(FrameSet)] /\ stack' \in [Threads -> Seq(FrameSet)]
        /\ Len(stack'[t]) <= MaxFrames
    BY DEF ImportInv, ModulesTyped, StacksFit, StackFits
  <1>3. stack' = [stack EXCEPT ![t] = Append(q, g)]
    BY DEF Push
  <1>4. stack[t] = q
    OBVIOUS
  <1> HIDE DEF f
  <1> HIDE DEF r
  <1> HIDE DEF q
  <1>5. Append(q, g) \in Seq(FrameSet) /\ stack'[t] = Append(q, g)
    BY <1>2, <1>3
  <1>6. g \in FrameSet
    BY <1>1, <1>5, AppendedTyped
  <1>7. Started(stack, t, f, g, r, stack')
    BY <1>1, <1>3, <1>4 DEF Started
  <1>8. StartedSearch(stack, t, f, g, Len(r) + 1, stack')
    BY <1>1, <1>2, <1>6, <1>7, StartedSearches
  <1>9. Len(stack'[t]) = Len(q) + 1
    BY <1>1, <1>5, <1>6
  <1>10. Len(q) \in 1 .. MaxFrames /\ Len(q) + 1 \in 1 .. MaxFrames
    BY <1>1, <1>2, <1>9, ModulesAssumption
  <1> QED BY <1>1, <1>4, <1>8, <1>10 DEF f

LEMMA DropSearches ==
  ASSUME ImportInv, ImportInv', NEW t \in Threads, stack[t] # <<>>, Top(t).kind # "script",
         NEW g, Dropped(t, g)
  PROVE  /\ ReturnedSearch(stack, t, Top(t), Below(t), g, Len(stack[t]) - 1, stack')
         /\ Len(stack[t]) - 1 \in 1 .. MaxFrames /\ Len(stack[t]) \in 1 .. MaxFrames
         /\ Len(stack[t]) - 1 + 1 = Len(stack[t])
  <1> DEFINE f == Top(t)
             b == Below(t)
             r == SubSeq(stack[t], 1, Len(stack[t]) - 2)
             q == stack[t]
  <1>1. /\ f \in FrameSet /\ b \in FrameSet /\ r \in Seq(FrameSet)
        /\ q = Append(Append(r, b), f) /\ q \in Seq(FrameSet)
        /\ Len(r) = Len(q) - 2 /\ Len(q) \in Nat /\ Len(q) > 1 /\ Len(q) <= MaxFrames
    BY RunningFrame, FrameBelow DEF ImportInv, ModulesTyped, StacksFit, StackFits
  <1>2. stack \in [Threads -> Seq(FrameSet)] /\ stack' \in [Threads -> Seq(FrameSet)]
    BY DEF ImportInv, ModulesTyped
  <1>3. stack' = [stack EXCEPT ![t] = Append(r, g)]
    BY DEF Dropped
  <1>4. stack[t] = q
    OBVIOUS
  <1> HIDE DEF f
  <1> HIDE DEF b
  <1> HIDE DEF r
  <1> HIDE DEF q
  <1>5. Append(r, g) \in Seq(FrameSet)
    BY <1>2, <1>3
  <1>6. g \in FrameSet
    BY <1>1, <1>5, AppendedTyped
  <1>7. Returned(stack, t, f, b, g, r, stack')
    BY <1>1, <1>3, <1>4 DEF Returned
  <1>8. ReturnedSearch(stack, t, f, b, g, Len(r) + 1, stack')
    BY <1>1, <1>2, <1>6, <1>7, ReturnedSearches
  <1>9. Len(r) + 1 = Len(q) - 1 /\ Len(q) - 1 \in 1 .. MaxFrames /\ Len(q) \in 1 .. MaxFrames
        /\ Len(q) - 1 + 1 = Len(q)
    BY <1>1, ModulesAssumption
  <1> QED BY <1>4, <1>8, <1>9 DEF f, b

(* A frame that goes on looks for no more than it did.                      *)
LEMMA TurnStutters ==
  ASSUME ImportInv, ImportInv', NEW t \in Threads, stack[t] # <<>>, NEW g, SetTop(t, g),
         g.kind = Top(t).kind, g.name = Top(t).name,
         Top(t).stage # "source", g.stage # "source"
  PROVE  OpenedNow' = OpenedNow
  <1> DEFINE f == Top(t)
             k == Len(stack[t])
  <1>1. ChangedSearch(stack, t, f, g, k, stack')
    BY TopSearches
  <1>2. \A n : Near(g, n) <=> Near(f, n)
    BY DEF Near, Deep, AtSource
  <1> HIDE DEF f
  <1> HIDE DEF k
  <1>3. SameSearches(stack, stack')
    BY <1>1, <1>2 DEF ChangedSearch, SameSearches
  <1> QED BY <1>3, SameOpened

(* A frame of the interpreter that found no extension looks for the source. *)
LEMMA TurnOpens ==
  ASSUME ImportInv, ImportInv', NEW t \in Threads, stack[t] # <<>>, NEW g, SetTop(t, g),
         g.kind = Top(t).kind, Top(t).kind # "c",
         Top(t).stage # "source", g.stage = "source", Head(g.todo) \in Names
  PROVE  OpenedNow' = [OpenedNow EXCEPT ![Head(g.todo)] = @ + 1]
  <1> DEFINE f == Top(t)
             k == Len(stack[t])
             n0 == Head(g.todo)
  <1>1. ChangedSearch(stack, t, f, g, k, stack') /\ k \in 1 .. MaxFrames /\ n0 \in Names /\ k \in Nat
    BY TopSearches
  <1>2. \A n : ~Near(f, n) /\ (Near(g, n) <=> n = n0)
    BY DEF Near, Deep, AtSource
  <1> HIDE DEF f
  <1> HIDE DEF k
  <1> HIDE DEF n0
  <1>3. OneOpened(stack, n0, t, k, stack')
    BY <1>1, <1>2 DEF ChangedSearch, OneOpened
  <1>4. OpenedNow' = [OpenedNow EXCEPT ![n0] = @ + 1]
    BY <1>1, <1>3, MoreOpened
  <1> QED BY <1>4 DEF n0

(* It ends the search with a module, or gives up.                           *)
LEMMA TurnCloses ==
  ASSUME ImportInv, ImportInv', NEW t \in Threads, stack[t] # <<>>, NEW g, SetTop(t, g),
         g.kind = Top(t).kind, Top(t).kind # "c",
         Top(t).stage = "source", g.stage # "source", Head(Top(t).todo) \in Names
  PROVE  /\ OpenedNow' = [OpenedNow EXCEPT ![Head(Top(t).todo)] = @ - 1]
         /\ OpenedNow[Head(Top(t).todo)] > 0
  <1> DEFINE f == Top(t)
             k == Len(stack[t])
             n0 == Head(f.todo)
  <1>1. ChangedSearch(stack, t, f, g, k, stack') /\ k \in 1 .. MaxFrames /\ n0 \in Names /\ k \in Nat
    BY TopSearches
  <1>2. \A n : ~Near(g, n) /\ (Near(f, n) <=> n = n0)
    BY DEF Near, Deep, AtSource
  <1> HIDE DEF n0
  <1> HIDE DEF f
  <1> HIDE DEF k
  <1>3. OneClosed(stack, n0, t, k, stack')
    BY <1>1, <1>2 DEF ChangedSearch, OneClosed
  <1>4. OpenedNow' = [OpenedNow EXCEPT ![n0] = @ - 1] /\ OpenedNow[n0] > 0
    BY <1>1, <1>3, FewerOpened
  <1> QED BY <1>4 DEF n0, f

(* Each action is a step of the contract, or none of its business.          *)
LEMMA RunningRecord ==
  ASSUME ImportInv, NEW t \in Threads, stack[t] # <<>>
  PROVE  /\ Top(t) \in FrameSet /\ Fits(Top(t))
         /\ Top(t).todo # <<>> => Head(Top(t).todo) \in Names
         /\ Top(t).stage = "source" => Top(t).todo # <<>> /\ Top(t).kind # "c"
  <1>1. Fits(Top(t)) /\ Top(t) \in FrameSet /\ Top(t).todo \in Seq(Names)
    BY RunningFrame, FrameFields DEF ImportInv
  <1>2. Top(t).todo # <<>> => Head(Top(t).todo) \in Names
    BY <1>1, HeadTailProperties
  <1> QED BY <1>1, <1>2 DEF Fits

LEMMA BeginImportStep ==
  ASSUME ImportInv, ImportInv', NEW t \in Threads, stack[t] # <<>>, BeginImport(t)
  PROVE  ModuleStep
  <1> DEFINE f == Top(t)
             todo == <<Statement(f).name>> \o
                       (IF ByVm(f) THEN Ancestors[Statement(f).name] ELSE <<>>)
             g == [f EXCEPT !.stage = "find", !.todo = todo]
  <1>1. f.stage = "run" /\ SetTop(t, g) /\ registry' = registry
    BY DEF BeginImport
  <1> HIDE DEF todo
  <1>2. g.kind = f.kind /\ g.name = f.name /\ g.stage = "find"
    BY RunningRecord DEF FrameSet
  <1> HIDE DEF g
  <1>3. OpenedNow' = OpenedNow
    BY <1>1, <1>2, TurnStutters
  <1> QED BY <1>1, <1>3, Stutters

LEMMA FindLoadedStep ==
  ASSUME ImportInv, ImportInv', NEW t \in Threads, stack[t] # <<>>, FindLoaded(t)
  PROVE  ModuleStep
  <1> DEFINE f == Top(t)
             x == Loaded(f)
             g == Received(f, x)
  <1>1. f.stage = "find" /\ SetTop(t, g) /\ registry' = registry
    BY DEF FindLoaded, Looking
  <1> HIDE DEF x
  <1>2. g.kind = f.kind /\ g.name = f.name /\ g.stage = "find"
    BY RunningRecord DEF FrameSet, Received
  <1> HIDE DEF g
  <1>3. OpenedNow' = OpenedNow
    BY <1>1, <1>2, TurnStutters
  <1> QED BY <1>1, <1>3, Stutters

LEMMA FailedKeeps ==
  ASSUME NEW f \in FrameSet
  PROVE  Failed(f).kind = f.kind /\ Failed(f).name = f.name /\ Failed(f).stage \in {"run", "failed"}
  BY DEF Failed, FrameSet

LEMMA RaiseStep ==
  ASSUME ImportInv, ImportInv', NEW t \in Threads, stack[t] # <<>>, Raise(t)
  PROVE  ModuleStep
  <1> DEFINE g == Failed(Top(t))
  <1>1. Top(t).stage = "run" /\ SetTop(t, g) /\ registry' = registry
    BY DEF Raise
  <1>2. g.kind = Top(t).kind /\ g.name = Top(t).name /\ g.stage # "source"
    BY RunningRecord, FailedKeeps
  <1> HIDE DEF g
  <1>3. OpenedNow' = OpenedNow
    BY <1>1, <1>2, TurnStutters
  <1> QED BY <1>1, <1>3, Stutters

LEMMA OnwardOpened ==
  ASSUME ImportInv, ImportInv', NEW t \in Threads, stack[t] # <<>>, Top(t).stage = "run",
         SetTop(t, [Top(t) EXCEPT !.pc = @ + 1])
  PROVE  OpenedNow' = OpenedNow
  <1> DEFINE g == [Top(t) EXCEPT !.pc = @ + 1]
  <1>1. g.kind = Top(t).kind /\ g.name = Top(t).name /\ g.stage # "source"
    BY RunningRecord DEF FrameSet
  <1>2. SetTop(t, g)
    OBVIOUS
  <1> HIDE DEF g
  <1> QED BY <1>1, <1>2, TurnStutters

LEMMA SucceedStep ==
  ASSUME ImportInv, ImportInv', NEW t \in Threads, stack[t] # <<>>, Succeed(t)
  PROVE  ModuleStep
  <1>1. Top(t).stage = "run" /\ SetTop(t, [Top(t) EXCEPT !.pc = @ + 1]) /\ registry' = registry
    BY DEF Succeed
  <1> QED BY <1>1, OnwardOpened, Stutters

LEMMA YieldStep ==
  ASSUME ImportInv, ImportInv', NEW t \in Threads, stack[t] # <<>>, Yield(t)
  PROVE  ModuleStep
  <1>1. Top(t).stage = "run" /\ SetTop(t, [Top(t) EXCEPT !.pc = @ + 1]) /\ registry' = registry
    BY DEF Yield
  <1> QED BY <1>1, OnwardOpened, Stutters

LEMMA AssignStep ==
  ASSUME ImportInv, ImportInv', NEW t \in Threads, stack[t] # <<>>, Assign(t)
  PROVE  ModuleStep
  <1> DEFINE f == Top(t)
             e == [f EXCEPT !.pc = @ + 1]
             a == Statement(f).attr
             h == [e EXCEPT !.locals[a] = Data]
  <1>1. f.stage = "run" /\ registry' = registry /\ (SetTop(t, e) \/ SetTop(t, h))
    BY DEF Assign
  <1> HIDE DEF a
  <1>2. /\ e.kind = f.kind /\ e.name = f.name /\ e.stage # "source"
        /\ h.kind = f.kind /\ h.name = f.name /\ h.stage # "source"
    BY <1>1, RunningRecord DEF FrameSet
  <1> HIDE DEF h
  <1> HIDE DEF e
  <1>3. OpenedNow' = OpenedNow
    BY <1>1, <1>2, TurnStutters
  <1> QED BY <1>1, <1>3, Stutters

LEMMA FinishImportStep ==
  ASSUME ImportInv, ImportInv', NEW t \in Threads, stack[t] # <<>>, FinishImport(t)
  PROVE  ModuleStep
  <1> DEFINE f == Top(t)
             d == IF ByVm(f) THEN Bound(f) ELSE dict
             g1 == [f EXCEPT !.pc = @ + 1, !.stage = "run", !.got = <<>>]
             g2 == [f EXCEPT !.pc = @ + 1, !.stage = "run", !.got = <<>>, !.locals = Bindings(f, d)]
             g == CASE ~ByVm(f) -> g1 [] ByVm(f) /\ Missing(f, d) -> Failed(f) [] OTHER -> g2
  <1>1. f.stage = "find" /\ SetTop(t, g) /\ registry' = registry
    BY DEF FinishImport
  <1>2. f \in FrameSet
    BY RunningRecord
  <1> HIDE DEF f
  <1> HIDE DEF d
  <1>3. /\ g1.kind = f.kind /\ g1.name = f.name /\ g1.stage # "source"
        /\ g2.kind = f.kind /\ g2.name = f.name /\ g2.stage # "source"
    BY <1>2 DEF FrameSet
  <1>4. Failed(f).kind = f.kind /\ Failed(f).name = f.name /\ Failed(f).stage # "source"
    BY <1>2, FailedKeeps
  <1> HIDE DEF g1
  <1> HIDE DEF g2
  <1>5. g = g1 \/ g = g2 \/ g = Failed(f)
    OBVIOUS
  <1> HIDE DEF g
  <1>6. g.kind = f.kind /\ g.name = f.name /\ g.stage # "source"
    BY <1>3, <1>4, <1>5
  <1>7. OpenedNow' = OpenedNow
    BY <1>1, <1>6, TurnStutters DEF f
  <1> QED BY <1>1, <1>7, Stutters

LEMMA NoExtensionStep ==
  ASSUME ImportInv, ImportInv', NEW t \in Threads, stack[t] # <<>>, NoExtension(t)
  PROVE  ModuleStep
  <1> DEFINE f == Top(t)
             n == Head(f.todo)
             g == NotFound(f)
  <1>1. /\ f.stage = "find" /\ f.todo # <<>> /\ Loaded(f) = Null /\ SetTop(t, g)
        /\ registry' = registry
    BY DEF NoExtension, Looking
  <1>2. f \in FrameSet /\ n \in Names
    BY <1>1, RunningRecord
  <1>3. registry[n] = Null
    BY <1>1 DEF Loaded
  <1>4. CASE ByVm(f)
    <2>1. f.kind # "c" /\ g.kind = f.kind /\ g.stage = "source" /\ g.todo = f.todo
      BY <1>2, <1>4 DEF NotFound, FrameSet, ByVm
    <2> HIDE DEF g
    <2>2. OpenedNow' = [OpenedNow EXCEPT ![n] = @ + 1]
      BY <1>1, <1>2, <2>1, TurnOpens
    <2> QED BY <1>1, <1>2, <1>3, <2>2, Opens
  <1>5. CASE ~ByVm(f)
    <2>1. g = Failed(f)
      BY <1>5 DEF NotFound
    <2>2. g.kind = f.kind /\ g.name = f.name /\ g.stage # "source"
      BY <1>2, <2>1, FailedKeeps
    <2> HIDE DEF g
    <2>3. OpenedNow' = OpenedNow
      BY <1>1, <2>2, TurnStutters
    <2> QED BY <1>1, <2>3, Stutters
  <1> QED BY <1>4, <1>5

LEMMA SourceCachedStep ==
  ASSUME ImportInv, ImportInv', NEW t \in Threads, stack[t] # <<>>, SourceCached(t)
  PROVE  ModuleStep
  <1> DEFINE f == Top(t)
             n == Head(f.todo)
             x == cache[n]
             g == Received(f, x)
  <1>1. f.stage = "source" /\ SetTop(t, g) /\ registry' = registry
    BY DEF SourceCached, AtSource
  <1>2. f \in FrameSet /\ n \in Names /\ f.kind # "c"
    BY <1>1, RunningRecord
  <1> HIDE DEF x
  <1>3. g.kind = f.kind /\ g.stage = "find"
    BY <1>2 DEF FrameSet, Received
  <1> HIDE DEF g
  <1>4. OpenedNow' = [OpenedNow EXCEPT ![n] = @ - 1] /\ OpenedNow[n] > 0
    BY <1>1, <1>2, <1>3, TurnCloses
  <1> QED BY <1>1, <1>2, <1>4, Closes

LEMMA NoSourceStep ==
  ASSUME ImportInv, ImportInv', NEW t \in Threads, stack[t] # <<>>, NoSource(t)
  PROVE  ModuleStep
  <1> DEFINE f == Top(t)
             n == Head(f.todo)
             g == Failed(f)
  <1>1. f.stage = "source" /\ SetTop(t, g) /\ registry' = registry
    BY DEF NoSource, AtSource
  <1>2. f \in FrameSet /\ n \in Names /\ f.kind # "c"
    BY <1>1, RunningRecord
  <1>3. g.kind = f.kind /\ g.stage # "source"
    BY <1>2, FailedKeeps
  <1> HIDE DEF g
  <1>4. OpenedNow' = [OpenedNow EXCEPT ![n] = @ - 1] /\ OpenedNow[n] > 0
    BY <1>1, <1>2, <1>3, TurnCloses
  <1> QED BY <1>1, <1>2, <1>4, Closes

LEMMA MakeBuiltinStep ==
  ASSUME ImportInv, ImportInv', NEW t \in Threads, stack[t] # <<>>, MakeBuiltin(t)
  PROVE  ModuleStep
  <1> DEFINE f == Top(t)
             n == Head(f.todo)
  <1>1. PICK x \in Mods : x = Fresh /\ Unused(x)
    BY FreshUnused DEF MakeBuiltin
  <1> DEFINE g == Received(f, x)
  <1>2. f.stage = "source" /\ SetTop(t, g) /\ registry' = [registry EXCEPT ![n] = x]
    BY <1>1 DEF MakeBuiltin, AtSource, Register
  <1>3. f \in FrameSet /\ n \in Names /\ f.kind # "c"
    BY <1>2, RunningRecord
  <1>4. g.kind = f.kind /\ g.stage = "find"
    BY <1>3 DEF FrameSet, Received
  <1> HIDE DEF g
  <1>5. OpenedNow' = [OpenedNow EXCEPT ![n] = @ - 1] /\ OpenedNow[n] > 0
    BY <1>2, <1>3, <1>4, TurnCloses
  <1>6. \A k \in Names : registry[k] # x
    BY <1>1 DEF Unused
  <1> HIDE DEF n
  <1> QED BY <1>2, <1>3, <1>5, <1>6, Closes

LEMMA AddModuleStep ==
  ASSUME ImportInv, ImportInv', NEW t \in Threads, stack[t] # <<>>, AddModule(t)
  PROVE  ModuleStep
  <1> DEFINE f == Top(t)
             n == Statement(f).name
  <1>1. f.stage = "run" /\ ~Ended(f) /\ SetTop(t, [f EXCEPT !.pc = @ + 1])
    BY DEF AddModule
  <1>2. OpenedNow' = OpenedNow
    BY <1>1, OnwardOpened
  <1>3. n \in Names
    BY <1>1, RunningRecord, AtStatement
  <1>4. CASE registry[n] # Null
    <2>1. registry' = registry
      BY <1>4 DEF AddModule
    <2> QED BY <1>2, <2>1, Stutters
  <1>5. CASE registry[n] = Null
    <2>1. HasFresh /\ registry' = [registry EXCEPT ![n] = Fresh]
      BY <1>5 DEF AddModule
    <2>2. PICK x \in Mods : x = Fresh /\ Unused(x)
      BY <2>1, FreshUnused
    <2>3. registry' = [registry EXCEPT ![n] = x] /\ \A k \in Names : registry[k] # x
      BY <2>1, <2>2 DEF Unused
    <2> HIDE DEF n
    <2> QED BY <1>2, <1>3, <1>5, <2>3, ImportEnters
  <1> QED BY <1>4, <1>5

LEMMA LoadExtensionStep ==
  ASSUME ImportInv, ImportInv', NEW t \in Threads, stack[t] # <<>>, LoadExtension(t)
  PROVE  ModuleStep
  <1> DEFINE f == Top(t)
             n == Head(f.todo)
             code == program.files[n].init
             x == Fresh
             g == Frame("c", n, x, code)
             k == Len(stack[t])
  <1>1. /\ f.stage = "find" /\ f.todo # <<>> /\ Loaded(f) = Null /\ Push(t, g)
        /\ registry' = registry
    BY DEF LoadExtension, Looking
  <1>2. n \in Names /\ registry[n] = Null
    BY <1>1, RunningRecord DEF Loaded
  <1>3. StartedSearch(stack, t, f, g, k, stack') /\ k \in 1 .. MaxFrames /\ k + 1 \in 1 .. MaxFrames
    BY <1>1, PushSearches
  <1>4. g.kind = "c" /\ g.name = n /\ g.stage = "run"
    BY DEF Frame
  <1>5. \A m : (Near(f, m) <=> Deep(f, m)) /\ (Near(g, m) <=> m = n)
    BY <1>1, <1>4 DEF Near, Deep, AtSource
  <1> HIDE DEF g
  <1> HIDE DEF n
  <1> HIDE DEF f
  <1> HIDE DEF k
  <1>6. OneOpened(stack, n, t, k + 1, stack')
    <2>1. k \in Nat /\ k + 1 \in Nat
      BY <1>3, ModulesAssumption
    <2> QED BY <1>2, <1>3, <1>5, <2>1 DEF StartedSearch, OneOpened
  <1>7. OpenedNow' = [OpenedNow EXCEPT ![n] = @ + 1]
    BY <1>2, <1>3, <1>6, MoreOpened
  <1> QED BY <1>1, <1>2, <1>7, Opens

LEMMA RunSourceStep ==
  ASSUME ImportInv, ImportInv', NEW t \in Threads, stack[t] # <<>>, RunSource(t)
  PROVE  ModuleStep
  <1> DEFINE f == Top(t)
             n == Head(f.todo)
             code == program.files[n].body
             k == Len(stack[t])
  <1>1. PICK x \in Mods : x = Fresh /\ Unused(x)
    BY FreshUnused DEF RunSource
  <1> DEFINE g == Frame("body", n, x, code)
  <1>2. f.stage = "source" /\ Push(t, g) /\ registry' = [registry EXCEPT ![n] = x]
    BY <1>1 DEF RunSource, AtSource, Register
  <1>3. n \in Names /\ f.kind # "c"
    BY <1>2, RunningRecord
  <1>4. StartedSearch(stack, t, f, g, k, stack') /\ k \in 1 .. MaxFrames
    BY <1>2, PushSearches
  <1>5. g.kind = "body" /\ g.stage = "run"
    BY DEF Frame
  <1>6. \A m : ~Deep(f, m) /\ ~Near(g, m) /\ (Near(f, m) <=> m = n)
    BY <1>2, <1>3, <1>5 DEF Near, Deep, AtSource
  <1>7. \A j \in Names : registry[j] # x
    BY <1>1 DEF Unused
  <1> HIDE DEF g
  <1> HIDE DEF n
  <1> HIDE DEF f
  <1> HIDE DEF k
  <1>8. OneClosed(stack, n, t, k, stack')
    <2>1. k \in Nat /\ k + 1 \in Nat /\ k # k + 1
      BY <1>4, ModulesAssumption
    <2> QED BY <1>3, <1>4, <1>6, <2>1 DEF StartedSearch, OneClosed
  <1>9. OpenedNow' = [OpenedNow EXCEPT ![n] = @ - 1] /\ OpenedNow[n] > 0
    BY <1>3, <1>4, <1>8, FewerOpened
  <1> QED BY <1>2, <1>3, <1>7, <1>9, Closes

LEMMA InitReturnsStep ==
  ASSUME ImportInv, ImportInv', NEW t \in Threads, stack[t] # <<>>, InitReturns(t)
  PROVE  ModuleStep
  <1> DEFINE f == Top(t)
             b == Below(t)
             k == Len(stack[t]) - 1
             n == f.name
             x == f.mod
             g == Received(b, x)
  <1>1. f.kind = "c" /\ f.stage = "run" /\ registry' = [registry EXCEPT ![n] = x]
    BY DEF InitReturns, Ended, Register
  <1>2. /\ b \in FrameSet /\ x \in Mods /\ n \in Names /\ Len(stack[t]) # 1
        /\ b.stage # "source"
    BY <1>1, EndingFrame DEF Fits, Awaits
  <1>3. Dropped(t, g)
    <2> DEFINE h == Received(stack[t][Len(stack[t]) - 1], f.mod)
               rest == SubSeq(stack[t], 1, Len(stack[t]) - 2)
    <2>1. stack' = [stack EXCEPT ![t] = IF Len(stack[t]) = 1 THEN <<>> ELSE Append(rest, h)]
      BY Zenon DEF InitReturns, Pop
    <2>2. h = g
      BY DEF Below
    <2> HIDE DEF h
    <2> HIDE DEF g
    <2>3. stack' = [stack EXCEPT ![t] = Append(rest, g)]
      BY <1>2, <2>1, <2>2
    <2> QED BY <2>3 DEF Dropped
  <1>4. g.kind = b.kind /\ g.name = b.name /\ g.stage = "find"
    BY <1>2 DEF Received, FrameSet
  <1>5. \A m : (Near(g, m) <=> Deep(b, m)) /\ (Near(f, m) <=> m = n)
    BY <1>1, <1>4 DEF Near, Deep, AtSource
  <1>6. \A j \in Names : registry[j] # x
    <2>1. Len(stack[t]) \in Nat /\ Runs(stack, t, Len(stack[t]), x)
      BY <1>1, RunningFrame DEF Runs, ImportInv, ModulesTyped
    <2> QED BY <1>2, <2>1 DEF ImportInv, InitsPrivate
  <1> HIDE DEF g
  <1>7. ReturnedSearch(stack, t, f, b, g, k, stack') /\ k \in 1 .. MaxFrames
        /\ Len(stack[t]) \in 1 .. MaxFrames /\ k + 1 = Len(stack[t])
    BY <1>1, <1>3, DropSearches
  <1> DEFINE j == k + 1
  <1>8. j \in 1 .. MaxFrames /\ k \in Nat /\ j \in Nat
    BY <1>7, ModulesAssumption
  <1> HIDE DEF f
  <1> HIDE DEF b
  <1> HIDE DEF n
  <1> HIDE DEF x
  <1> HIDE DEF k
  <1>9. OneClosed(stack, n, t, j, stack')
    BY <1>2, <1>5, <1>7, <1>8 DEF ReturnedSearch, OneClosed
  <1> HIDE DEF j
  <1>10. OpenedNow' = [OpenedNow EXCEPT ![n] = @ - 1] /\ OpenedNow[n] > 0
    BY <1>2, <1>8, <1>9, FewerOpened
  <1> QED BY <1>1, <1>2, <1>6, <1>10, Closes

(* An initialiser fails: the import goes on to the sources, still open.     *)
OneMoved(ss, n0, t, k, new) ==
    /\ \A n \in Names, u \in Threads, i \in Nat :
          SearchedAt(new, u, i, n) <=>
            (SearchedAt(ss, u, i, n) /\ ~(n = n0 /\ u = t /\ i = k + 1))
              \/ (n = n0 /\ u = t /\ i = k)
    /\ SearchedAt(ss, t, k + 1, n0) /\ ~SearchedAt(ss, t, k, n0)

LEMMA MovedOpened ==
  ASSUME NEW n0 \in Names, NEW t \in Threads, NEW k \in 1 .. MaxFrames, k + 1 \in 1 .. MaxFrames,
         OneMoved(stack, n0, t, k, stack')
  PROVE  OpenedNow' = OpenedNow
  <1> DEFINE j == k + 1
             x == <<t, j>>
             y == <<t, k>>
  <1>1. \A p \in Threads \X (1 .. MaxFrames) :
           /\ p[1] \in Threads /\ p[2] \in Nat
           /\ (p = x <=> p[1] = t /\ p[2] = j) /\ (p = y <=> p[1] = t /\ p[2] = k)
    BY ModulesAssumption
  <1>2. /\ x \in Threads \X (1 .. MaxFrames) /\ x[1] = t /\ x[2] = j
        /\ y \in Threads \X (1 .. MaxFrames) /\ y[1] = t /\ y[2] = k /\ x # y
    BY ModulesAssumption
  <1> HIDE DEF x
  <1> HIDE DEF y
  <1>3. /\ \A n \in Names, u \in Threads, i \in Nat :
             SearchedAt(stack', u, i, n) <=>
               (SearchedAt(stack, u, i, n) /\ ~(n = n0 /\ u = t /\ i = j))
                 \/ (n = n0 /\ u = t /\ i = k)
        /\ SearchedAt(stack, t, j, n0) /\ ~SearchedAt(stack, t, k, n0)
    BY DEF OneMoved
  <1> HIDE DEF j
  <1>4. ASSUME NEW n \in Names, n # n0 PROVE Opened(n)' = Opened(n)
    <2>1. OpenSet(stack', n) = OpenSet(stack, n)
      BY <1>1, <1>3, <1>4 DEF OpenSet
    <2> QED BY <2>1, OpenedSet, OpenedSetNext
  <1>5. Opened(n0)' = Opened(n0)
    <2> DEFINE S == OpenSet(stack, n0)
               R == S \ {x}
    <2>1. OpenSet(stack', n0) = R \cup {y} /\ x \in S /\ y \notin S
      BY <1>1, <1>2, <1>3 DEF OpenSet
    <2>2. IsFiniteSet(S) /\ Opened(n0) = Cardinality(S) /\ Opened(n0)' = Cardinality(R \cup {y})
      BY <2>1, OpenSetFinite, OpenedSet, OpenedSetNext
    <2> HIDE DEF S
    <2>3. IsFiniteSet(R) /\ Cardinality(R) = Cardinality(S) - 1 /\ Cardinality(S) \in Nat /\ y \notin R
      BY <2>1, <2>2, FS_RemoveElement, FS_CardinalityType
    <2> HIDE DEF R
    <2>4. Cardinality(R \cup {y}) = Cardinality(R) + 1
      BY <2>3, FS_AddElement
    <2> QED BY <2>2, <2>3, <2>4
  <1> QED BY <1>4, <1>5 DEF OpenedNow

LEMMA InitFailsStep ==
  ASSUME ImportInv, ImportInv', NEW t \in Threads, stack[t] # <<>>, InitFails(t)
  PROVE  ModuleStep
  <1> DEFINE f == Top(t)
             b == Below(t)
             k == Len(stack[t]) - 1
             n == f.name
             g == NotFound(b)
  <1>1. f.kind = "c" /\ f.stage = "failed" /\ registry' = registry
    BY DEF InitFails
  <1>2. /\ b \in FrameSet /\ n \in Names /\ Len(stack[t]) # 1
        /\ b.stage = "find" /\ Head(b.todo) = n
    BY <1>1, EndingFrame DEF Fits, Awaits
  <1>3. Dropped(t, g)
    <2> DEFINE h == NotFound(stack[t][Len(stack[t]) - 1])
               rest == SubSeq(stack[t], 1, Len(stack[t]) - 2)
    <2>1. stack' = [stack EXCEPT ![t] = IF Len(stack[t]) = 1 THEN <<>> ELSE Append(rest, h)]
      BY Zenon DEF InitFails, Pop
    <2>2. h = g
      BY DEF Below
    <2> HIDE DEF h
    <2> HIDE DEF g
    <2>3. stack' = [stack EXCEPT ![t] = Append(rest, g)]
      BY <1>2, <2>1, <2>2
    <2> QED BY <2>3 DEF Dropped
  <1>4. \A m : Near(f, m) <=> m = n
    BY <1>1 DEF Near, Deep, AtSource
  <1>5. ReturnedSearch(stack, t, f, b, g, k, stack') /\ k \in 1 .. MaxFrames
        /\ Len(stack[t]) \in 1 .. MaxFrames /\ k + 1 = Len(stack[t])
    <2> HIDE DEF g
    <2> QED BY <1>1, <1>3, DropSearches
  <1> DEFINE j == k + 1
  <1>6. j \in 1 .. MaxFrames /\ k \in Nat /\ j \in Nat
    BY <1>5, ModulesAssumption
  <1>7. CASE ByVm(b)
    <2>1. g.kind = b.kind /\ g.stage = "source" /\ g.todo = b.todo /\ b.kind # "c"
      BY <1>2, <1>7 DEF NotFound, FrameSet, ByVm
    <2>2. \A m : ~Deep(b, m) /\ (Near(g, m) <=> m = n)
      BY <1>2, <2>1 DEF Near, Deep, AtSource
    <2> HIDE DEF f
    <2> HIDE DEF g
    <2> HIDE DEF b
    <2> HIDE DEF n
    <2> HIDE DEF k
    <2>3. k # j
      BY <1>6
    <2>4. OneMoved(stack, n, t, k, stack')
      BY <1>2, <1>4, <1>5, <1>6, <2>2, <2>3 DEF ReturnedSearch, OneMoved
    <2>5. OpenedNow' = OpenedNow
      BY <1>2, <1>5, <1>6, <2>4, MovedOpened
    <2> QED BY <1>1, <2>5, Stutters
  <1>8. CASE ~ByVm(b)
    <2>1. g = Failed(b)
      BY <1>8 DEF NotFound
    <2>2. g.kind = b.kind /\ g.name = b.name /\ g.stage # "source"
      BY <1>2, <2>1, FailedKeeps
    <2>3. \A m : Near(g, m) <=> Deep(b, m)
      BY <2>2 DEF Near, Deep, AtSource
    <2> HIDE DEF f
    <2> HIDE DEF g
    <2> HIDE DEF b
    <2> HIDE DEF n
    <2> HIDE DEF k
    <2>4. OneClosed(stack, n, t, j, stack')
      BY <1>2, <1>4, <1>5, <1>6, <2>3 DEF ReturnedSearch, OneClosed
    <2> HIDE DEF j
    <2>5. OpenedNow' = [OpenedNow EXCEPT ![n] = @ - 1] /\ OpenedNow[n] > 0
      BY <1>2, <1>6, <2>4, FewerOpened
    <2> QED BY <1>1, <1>2, <2>5, Closes
  <1> QED BY <1>7, <1>8

(* A body that ends was nobody's search: its module is bound.               *)
LEMMA BodyEndsStep ==
  ASSUME ImportInv, ImportInv', NEW t \in Threads, stack[t] # <<>>, Top(t).kind = "body",
         Top(t).stage # "source", NEW g, Dropped(t, g), g.kind = Below(t).kind, g.stage # "source",
         registry' = registry
  PROVE  ModuleStep
  <1> DEFINE f == Top(t)
             b == Below(t)
             k == Len(stack[t]) - 1
  <1>1. b.kind # "c"
    BY EndingFrame DEF Awaits, Fits
  <1>2. \A m : ~Near(f, m) /\ ~Deep(b, m) /\ ~Near(g, m)
    BY <1>1 DEF Near, Deep, AtSource
  <1>3. ReturnedSearch(stack, t, f, b, g, k, stack') /\ k \in 1 .. MaxFrames
    BY DropSearches
  <1> DEFINE j == k + 1
  <1>4. k \in Nat /\ j \in Nat
    BY <1>3, ModulesAssumption
  <1> HIDE DEF f
  <1> HIDE DEF b
  <1> HIDE DEF k
  <1>5. SameSearches(stack, stack')
    BY <1>2, <1>3, <1>4 DEF ReturnedSearch, SameSearches
  <1> QED BY <1>5, SameOpened, Stutters

LEMMA BodyReturnsStep ==
  ASSUME ImportInv, ImportInv', NEW t \in Threads, stack[t] # <<>>, BodyReturns(t)
  PROVE  ModuleStep
  <1> DEFINE f == Top(t)
             b == Below(t)
             x == f.mod
             g == Received(b, x)
  <1>1. f.kind = "body" /\ f.stage = "run" /\ registry' = registry
    BY DEF BodyReturns, Ended
  <1>2. b \in FrameSet /\ Len(stack[t]) # 1
    BY <1>1, EndingFrame DEF Fits
  <1>3. Dropped(t, g)
    <2> DEFINE h == Received(stack[t][Len(stack[t]) - 1], f.mod)
               rest == SubSeq(stack[t], 1, Len(stack[t]) - 2)
    <2>1. stack' = [stack EXCEPT ![t] = IF Len(stack[t]) = 1 THEN <<>> ELSE Append(rest, h)]
      BY Zenon DEF BodyReturns, Pop
    <2>2. h = g
      BY DEF Below
    <2> HIDE DEF h
    <2> HIDE DEF g
    <2>3. stack' = [stack EXCEPT ![t] = Append(rest, g)]
      BY <1>2, <2>1, <2>2
    <2> QED BY <2>3 DEF Dropped
  <1>4. g.kind = b.kind /\ g.stage # "source"
    BY <1>2 DEF Received, FrameSet
  <1> HIDE DEF g
  <1> QED BY <1>1, <1>3, <1>4, BodyEndsStep

LEMMA BodyFailsStep ==
  ASSUME ImportInv, ImportInv', NEW t \in Threads, stack[t] # <<>>, BodyFails(t)
  PROVE  ModuleStep
  <1> DEFINE f == Top(t)
             b == Below(t)
             g == Failed(b)
  <1>1. f.kind = "body" /\ f.stage = "failed" /\ registry' = registry
    BY DEF BodyFails
  <1>2. b \in FrameSet /\ Len(stack[t]) # 1
    BY <1>1, EndingFrame DEF Fits
  <1>3. Dropped(t, g)
    <2> DEFINE h == Failed(stack[t][Len(stack[t]) - 1])
               rest == SubSeq(stack[t], 1, Len(stack[t]) - 2)
    <2>1. stack' = [stack EXCEPT ![t] = IF Len(stack[t]) = 1 THEN <<>> ELSE Append(rest, h)]
      BY Zenon DEF BodyFails, Pop
    <2>2. h = g
      BY DEF Below
    <2> HIDE DEF h
    <2> HIDE DEF g
    <2>3. stack' = [stack EXCEPT ![t] = Append(rest, g)]
      BY <1>2, <2>1, <2>2
    <2> QED BY <2>3 DEF Dropped
  <1>4. g.kind = b.kind /\ g.stage # "source"
    BY <1>2, FailedKeeps
  <1> HIDE DEF g
  <1> QED BY <1>1, <1>3, <1>4, BodyEndsStep

LEMMA EndThreadStep ==
  ASSUME ImportInv, NEW t \in Threads, EndThread(t)
  PROVE  ModuleStep
  <1> DEFINE f == Top(t)
  <1>1. /\ Len(stack[t]) = 1 /\ f.stage \in {"run", "failed"}
        /\ stack' = [stack EXCEPT ![t] = <<>>] /\ registry' = registry
    BY DEF EndThread, Ended
  <1>2. stack[t] = <<f>> /\ f.kind = "script"
    BY <1>1, ScriptFrame
  <1>3. stack'[t] = <<>> /\ \A u \in Threads \ {t} : stack'[u] = stack[u]
    BY <1>1 DEF ImportInv, ModulesTyped
  <1>4. \A n \in Names, i \in Nat : ~SearchedAt(stack', t, i, n)
    BY <1>3 DEF SearchedAt
  <1> HIDE DEF f
  <1>5. \A n \in Names, i \in Nat : ~SearchedAt(stack, t, i, n)
    <2>1. \A i \in DOMAIN <<f>> : <<f>>[i] = f
      OBVIOUS
    <2>2. f.kind # "c" /\ f.stage # "source"
      BY <1>1, <1>2
    <2> QED BY <1>2, <2>1, <2>2 DEF SearchedAt, Searches, AtSource
  <1>6. \A n \in Names, u \in Threads \ {t}, i \in Nat :
           SearchedAt(stack', u, i, n) <=> SearchedAt(stack, u, i, n)
    BY <1>3 DEF SearchedAt
  <1>7. SameSearches(stack, stack')
    BY <1>4, <1>5, <1>6 DEF SameSearches
  <1> QED BY <1>1, <1>7, SameOpened, Stutters

LEMMA NextStep ==
  ASSUME ImportInv, ImportInv', [ImportNext]_importVars
  PROVE  ModuleStep
  <1>1. CASE ImportNext
    <2>1. gil \in Threads /\ stack[gil] # <<>> /\ Step(gil)
      BY <1>1 DEF ImportNext, ImportInv, ModulesTyped
    <2>2. PICK t \in Threads : t = gil
      BY <2>1
    <2>3. stack[t] # <<>> /\ Step(t)
      BY <2>1, <2>2
    <2> QED
      BY <2>3, BeginImportStep, FindLoadedStep, LoadExtensionStep, NoExtensionStep,
         InitReturnsStep, InitFailsStep, SourceCachedStep, MakeBuiltinStep, NoSourceStep,
         RunSourceStep, BodyReturnsStep, BodyFailsStep, FinishImportStep, AssignStep, RaiseStep,
         SucceedStep, YieldStep, AddModuleStep, EndThreadStep DEF Step
  <1>2. CASE UNCHANGED importVars
    <2>1. registry' = registry /\ stack' = stack
      BY <1>2 DEF importVars
    <2>2. SameSearches(stack, stack')
      BY <2>1 DEF SameSearches
    <2> QED BY <2>1, <2>2, SameOpened, Stutters
  <1> QED BY <1>1, <1>2

LEMMA InitStep ==
  ASSUME ImportInit
  PROVE  ModuleTable!Init
  <1>1. ImportInv
    BY ImportInitInv
  <1>2. registry = [n \in Names |-> Null]
    BY DEF ImportInit
  <1>3. \A t \in Threads : Len(stack[t]) = 1 /\ Top(t).stage = "run"
    <2>1. \A t \in Threads : stack[t] = <<Frame("script", Null, Null, program.scripts[t])>>
      BY DEF ImportInit
    <2> SUFFICES ASSUME NEW t \in Threads PROVE Len(stack[t]) = 1 /\ Top(t).stage = "run"
      OBVIOUS
    <2> DEFINE f == Frame("script", Null, Null, program.scripts[t])
    <2>2. f.stage = "run" /\ stack[t] = <<f>>
      BY <2>1 DEF Frame
    <2> HIDE DEF f
    <2>3. Len(<<f>>) = 1 /\ Last(<<f>>) = f
      BY DEF Last
    <2> QED BY <2>2, <2>3 DEF Top
  <1>4. ASSUME NEW n \in Names PROVE Opened(n) = 0
    <2>1. \A t \in Threads, i \in Nat : ~SearchedAt(stack, t, i, n)
      <3> SUFFICES ASSUME NEW t \in Threads, NEW i \in Nat PROVE ~SearchedAt(stack, t, i, n)
        OBVIOUS
      <3> DEFINE f == Top(t)
      <3>1. f.stage = "run" /\ stack[t] = <<f>> /\ f.kind = "script"
        BY <1>1, <1>3, ScriptFrame
      <3> HIDE DEF f
      <3>2. \A j \in DOMAIN <<f>> : <<f>>[j] = f
        OBVIOUS
      <3> QED BY <3>1, <3>2 DEF SearchedAt, Searches, AtSource
    <2>2. OpenSet(stack, n) = {}
      <3>1. \A p \in Threads \X (1 .. MaxFrames) : p[1] \in Threads /\ p[2] \in Nat
        BY ModulesAssumption
      <3> QED BY <2>1, <3>1 DEF OpenSet
    <2> QED BY <2>2, OpenedSet, FS_EmptySet
  <1>5. [n \in Names |-> Opened(n)] = [n \in Names |-> 0]
    BY <1>4
  <1> QED BY <1>2, <1>5 DEF ModuleTable!Init

LEMMA ImportRefines ==
  ImportInit /\ [][ImportNext]_importVars => ImplementsModuleTable
  <1>1. ImportInit => ModuleTable!Init
    BY InitStep
  <1>2. ImportInv /\ ImportInv' /\ [ImportNext]_importVars => ModuleStep
    BY NextStep
  <1>3. ImportInit /\ [][ImportNext]_importVars => [][ModuleTable!Next]_<<registry, OpenedNow>>
    BY <1>2, ImportAlways, PTL DEF ModuleStep
  <1> QED BY <1>1, <1>3, PTL DEF ImplementsModuleTable, ModuleTable!Spec, OpenedNow

(* Importing keeps the promise of sys.modules: a name is bound to a module   *)
(* no name had, while it is unbound or by an import that found it unbound;   *)
(* a package's modules, extensions, sources and failures included.           *)
THEOREM ImportImplementsModuleTable == ImportSpec => ImplementsModuleTable
  BY ImportRefines, PTL DEF ImportSpec

-----------------------------------------------------------------------------
(* What imports bind: the inductive invariant of ImportsBind.  A frame runs  *)
(* the code of its file, and the cache holds a body's module under the       *)
(* body's name and an initialiser's under none.                             *)
CodeFits(f) ==
    /\ f.kind = "script" => \E t \in Threads : f.code = program.scripts[t]
    /\ f.kind = "body" => f.code = program.files[f.name].body
    /\ f.kind = "c" => f.code = program.files[f.name].init /\ program.files[f.name].extension
    /\ f.pc <= Len(f.code) + 1

Cached(c, f) ==
    /\ f.kind = "c" => \A n \in Names : c[n] # f.mod
    /\ f.kind = "body" => c[f.name] = f.mod

(* The variables of a frame: those its statements so far have bound, and in *)
(* a body only those that its statements bind.                              *)
BindsOne(s) == s.op \in {"assign", "import", "from"}

HasBound(f) ==
    ByVm(f) => \A i \in 1 .. f.pc - 1 :
        BindsOne(f.code[i]) /\ ~f.code[i].guarded => f.locals[f.code[i].attr] # Null

OnlyBound(f) ==
    f.kind = "body" => \A a \in Attrs : f.locals[a] # Null =>
        \E i \in DOMAIN f.code :
            f.code[i].op = "star" \/ (BindsOne(f.code[i]) /\ f.code[i].attr = a)

(* An import asks for the module, then for its packages, and what it got of *)
(* each is the cached module.                                               *)
Asked(n) == <<n>> \o Ancestors[n]

Found(c, n, m) ==
    /\ FromSource(n) => m = c[n]
    /\ \A q \in Names : c[q] = m => q = n

Asks(c, f) ==
    ByVm(f) /\ f.stage \in {"find", "source"} =>
        LET names == Asked(Statement(f).name) IN
        /\ Len(f.got) + Len(f.todo) = Len(names)
        /\ \A j \in DOMAIN f.todo : f.todo[j] = names[Len(f.got) + j]
        /\ \A j \in DOMAIN f.got : Found(c, names[j], f.got[j])

(* n is bound in its package, and so is what the frame's statements so far  *)
(* have imported.                                                           *)
Joined(c, d, n) ==
    /\ c[Parent[n]] # Null /\ c[n] # Null
    /\ d[c[Parent[n]]][Leaf[n]] = c[n]

Joins(f, i) ==
    /\ f.code[i].op \in {"import", "from"} /\ ~f.code[i].guarded
    /\ Parent[f.code[i].name] # Null /\ Settled(f.code[i].name)

HasJoined(c, d, f) ==
    ByVm(f) => \A i \in 1 .. f.pc - 1 : Joins(f, i) => Joined(c, d, f.code[i].name)

FrameBinds(c, d, f) ==
    /\ CodeFits(f) /\ Cached(c, f) /\ HasBound(f) /\ OnlyBound(f)
    /\ Asks(c, f) /\ HasJoined(c, d, f)

FramesBind(c, d, ss) == \A t \in Threads : \A i \in DOMAIN ss[t] : FrameBinds(c, d, ss[t][i])

(* A module is in the two tables under one name.                            *)
TablesAgree(r, c) ==
    /\ \A n \in Names : FromSource(n) => r[n] = c[n]
    /\ \A q, k \in Names : r[q] # Null /\ r[q] = c[k] => q = k
    /\ \A q, k \in Names : c[q] # Null /\ c[q] = c[k] => q = k

(* A finished module is cached, and has the names its body binds.           *)
Complete(d, n, m) ==
    \A i \in DOMAIN program.files[n].body :
        LET s == program.files[n].body[i] IN
        BindsOne(s) /\ ~s.guarded => d[m][s.attr] # Null

FinishedBind(c, d, over) ==
    /\ \A m \in over : \E n \in Names : c[n] = m
    /\ \A n \in Names : c[n] \in over => Complete(d, n, c[n])

BindInv ==
    /\ FramesBind(cache, dict, stack) /\ TablesAgree(registry, cache)
    /\ FinishedBind(cache, dict, finished)

-----------------------------------------------------------------------------
(* From one state to the next, as far as the frames go that stay.           *)
CacheGrows ==
    \A n \in Names : /\ cache[n] # Null => cache'[n] = cache[n]
                     /\ \/ cache'[n] = cache[n]
                        \/ /\ cache'[n] \in Mods /\ ~InUse(stack, cache'[n])
                           /\ \A k \in Names : cache[k] # cache'[n]

KeepsJoined ==
    \A n \in Names : Parent[n] # Null /\ Settled(n) /\ Joined(cache, dict, n) => Joined(cache', dict', n)

KeepsBound ==
    \A n \in Names, a \in Attrs :
        cache[n] \in finished /\ dict[cache[n]][a] # Null => dict'[cache[n]][a] # Null

LEMMA AskedFields ==
  ASSUME NEW n \in Names
  PROVE  /\ Asked(n) \in Seq(Names) /\ Len(Asked(n)) = Len(Ancestors[n]) + 1 /\ Asked(n)[1] = n
         /\ DOMAIN Asked(n) = 1 .. Len(Ancestors[n]) + 1
         /\ \A i \in 1 .. Len(Ancestors[n]) : Asked(n)[i + 1] = Ancestors[n][i]
  <1> DEFINE s == Ancestors[n]
             h == <<n>>
  <1>1. s \in Seq(Names) /\ Len(s) \in Nat
    BY PathFields
  <1>2. h \in Seq(Names) /\ Len(h) = 1 /\ h[1] = n
    OBVIOUS
  <1> HIDE DEF s, h
  <1>3. /\ h \o s \in Seq(Names) /\ Len(h \o s) = Len(h) + Len(s)
        /\ \A i \in 1 .. Len(h) + Len(s) : (h \o s)[i] = IF i <= Len(h) THEN h[i] ELSE s[i - Len(h)]
    <2> DEFINE S == Names
    <2>1. h \in Seq(S) /\ s \in Seq(S)
      BY <1>1, <1>2
    <2> HIDE DEF S
    <2>2. /\ h \o s \in Seq(S) /\ Len(h \o s) = Len(h) + Len(s)
          /\ \A i \in 1 .. Len(h) + Len(s) : (h \o s)[i] = IF i <= Len(h) THEN h[i] ELSE s[i - Len(h)]
      BY <2>1, ConcatProperties
    <2> QED BY <2>2 DEF S
  <1>4. DOMAIN (h \o s) = 1 .. Len(s) + 1
    BY <1>1, <1>2, <1>3
  <1>5. (h \o s)[1] = n
    BY <1>1, <1>2, <1>3
  <1>6. ASSUME NEW i \in 1 .. Len(s) PROVE (h \o s)[i + 1] = s[i]
    <2>1. i + 1 \in 1 .. Len(h) + Len(s) /\ ~(i + 1 <= Len(h)) /\ i + 1 - Len(h) = i
      BY <1>1, <1>2
    <2> QED BY <1>3, <2>1
  <1>7. Asked(n) = h \o s
    BY DEF Asked, h, s
  <1> QED BY <1>1, <1>2, <1>3, <1>4, <1>5, <1>6, <1>7 DEF s

LEMMA StatementAt ==
  ASSUME NEW f \in FrameSet, NEW i \in DOMAIN f.code
  PROVE  /\ f.code[i] \in Statements /\ f.code[i].name \in Names /\ f.code[i].attr \in Attrs
  <1>1. f.code[i] \in Statements
    BY FrameFields
  <1> QED BY <1>1 DEF Statements

LEMMA StatementsRun ==
  ASSUME NEW f \in FrameSet, CodeFits(f), NEW i \in 1 .. f.pc - 1
  PROVE  i \in DOMAIN f.code /\ f.code[i].name \in Names /\ f.code[i].attr \in Attrs
  <1>1. f.code \in Seq(Statements) /\ f.pc \in Nat /\ f.pc <= Len(f.code) + 1
    BY FrameFields DEF CodeFits
  <1>2. i \in DOMAIN f.code
    BY <1>1
  <1> QED BY <1>2, StatementAt

LEMMA OldFrame ==
  ASSUME CacheGrows, KeepsJoined, NEW f \in FrameSet, FrameBinds(cache, dict, f),
         f.kind = "script" \/ (f.mod \in Mods /\ f.name \in Names),
         f.stage # "run" => f.pc \in DOMAIN f.code,
         \A m : Uses(f, m) => InUse(stack, m)
  PROVE  FrameBinds(cache', dict', f)
  <1>1. CodeFits(f) /\ Cached(cache, f) /\ HasBound(f) /\ OnlyBound(f)
        /\ Asks(cache, f) /\ HasJoined(cache, dict, f)
    BY DEF FrameBinds
  <1>2. \A n \in Names : InUse(stack, cache'[n]) => cache'[n] = cache[n]
    BY DEF CacheGrows
  <1>3. Cached(cache', f)
    <2>1. CASE f.kind = "c"
      <3>1. InUse(stack, f.mod)
        BY DEF Uses
      <3> QED BY <1>1, <1>2, <2>1, <3>1 DEF Cached
    <2>2. CASE f.kind = "body"
      <3>1. cache[f.name] = f.mod /\ f.mod # Null /\ f.name \in Names
        BY <1>1, <2>2, ModulesAssumption DEF Cached
      <3> QED BY <2>2, <3>1 DEF CacheGrows, Cached
    <2> QED BY <2>1, <2>2 DEF Cached
  <1>4. Asks(cache', f)
    <2> SUFFICES ASSUME ByVm(f), f.stage \in {"find", "source"} PROVE Asks(cache', f)
      BY DEF Asks
    <2> DEFINE n == Statement(f).name
               names == Asked(n)
    <2>1. n \in Names
      BY StatementAt DEF Statement
    <2>2. /\ Len(f.got) + Len(f.todo) = Len(names)
          /\ \A j \in DOMAIN f.todo : f.todo[j] = names[Len(f.got) + j]
          /\ \A j \in DOMAIN f.got : Found(cache, names[j], f.got[j])
      BY <1>1 DEF Asks
    <2>3. \A j \in DOMAIN f.got : f.got[j] \in Mods /\ InUse(stack, f.got[j])
      BY FrameFields DEF Uses
    <2>4. \A j \in DOMAIN f.got : names[j] \in Names
      <3>1. f.got \in Seq(Mods) /\ f.todo \in Seq(Names) /\ names \in Seq(Names)
        BY <2>1, FrameFields, AskedFields
      <3> HIDE DEF names
      <3> DEFINE k == Len(f.got)
                 l == Len(f.todo)
      <3>3. k \in Nat /\ l \in Nat /\ DOMAIN f.got = 1 .. k /\ DOMAIN names = 1 .. Len(names)
        BY <3>1
      <3>4. k + l = Len(names)
        BY <2>2
      <3> HIDE DEF k, l
      <3>2. \A j \in 1 .. k : j \in 1 .. k + l
        BY <3>3
      <3> QED BY <3>1, <3>2, <3>3, <3>4
    <2> HIDE DEF names
    <2>5. ASSUME NEW j \in DOMAIN f.got PROVE Found(cache', names[j], f.got[j])
      <3>1. f.got[j] \in Mods /\ InUse(stack, f.got[j]) /\ names[j] \in Names
            /\ Found(cache, names[j], f.got[j]) /\ f.got[j] # Null
        BY <2>2, <2>3, <2>4, ModulesAssumption
      <3>2. FromSource(names[j]) => f.got[j] = cache'[names[j]]
        BY <3>1 DEF Found, CacheGrows
      <3>3. \A q \in Names : cache'[q] = f.got[j] => q = names[j]
        BY <1>2, <3>1 DEF Found
      <3> QED BY <3>2, <3>3 DEF Found
    <2> QED BY <2>2, <2>5 DEF Asks, names
  <1>5. HasJoined(cache', dict', f)
    <2> SUFFICES ASSUME ByVm(f), NEW i \in 1 .. f.pc - 1, Joins(f, i)
                 PROVE  Joined(cache', dict', f.code[i].name)
      BY DEF HasJoined
    <2>1. f.code[i].name \in Names
      BY <1>1, StatementsRun
    <2>2. Joined(cache, dict, f.code[i].name)
      BY <1>1 DEF HasJoined
    <2> QED BY <2>1, <2>2 DEF KeepsJoined, Joins
  <1> QED BY <1>1, <1>3, <1>4, <1>5 DEF FrameBinds

(* The frames of the stacks, but the new one, were there before.            *)
LEMMA FramesNext ==
  ASSUME ImportInv, FramesBind(cache, dict, stack), CacheGrows, KeepsJoined,
         NEW g, OnlyNew(stack, g, stack'), FrameBinds(cache', dict', g)
  PROVE  FramesBind(cache', dict', stack')
  <1> SUFFICES ASSUME NEW u \in Threads, NEW i \in DOMAIN stack'[u], stack'[u][i] # g
               PROVE  FrameBinds(cache', dict', stack'[u][i])
    BY DEF FramesBind
  <1>1. PICK j \in DOMAIN stack[u] : stack'[u][i] = stack[u][j]
    BY DEF OnlyNew
  <1> DEFINE f == stack[u][j]
  <1>2. FrameBinds(cache, dict, f)
    BY DEF FramesBind
  <1>3. Fits(f)
    BY DEF ImportInv, StacksFit, StackFits
  <1>4. \A m : Uses(f, m) => InUse(stack, m)
    BY DEF InUse
  <1> HIDE DEF f
  <1>5. FrameBinds(cache', dict', f)
    BY <1>2, <1>3, <1>4, OldFrame DEF Fits
  <1> QED BY <1>1, <1>5 DEF f

LEMMA BindNext ==
  ASSUME program' = program, FramesBind(cache', dict', stack'), TablesAgree(registry', cache'),
         FinishedBind(cache', dict', finished')
  PROVE  BindInv'
  <1>1. \A n : FromSource(n)' <=> FromSource(n)
    BY DEF FromSource, Instructions
  <1>2. \A n : Settled(n)' <=> Settled(n)
    BY <1>1 DEF Settled
  <1>3. \A c, n, m : Found(c, n, m)' <=> Found(c, n, m)
    BY <1>1 DEF Found
  <1>4. \A c, f : Asks(c, f)' <=> Asks(c, f)
    BY <1>3 DEF Asks
  <1>5. \A f, i : Joins(f, i)' <=> Joins(f, i)
    BY <1>2 DEF Joins
  <1>6. \A c, d, f : HasJoined(c, d, f)' <=> HasJoined(c, d, f)
    BY <1>5 DEF HasJoined
  <1>7. \A f : CodeFits(f)' <=> CodeFits(f)
    BY DEF CodeFits
  <1>8. \A c, d, f : FrameBinds(c, d, f)' <=> FrameBinds(c, d, f)
    BY <1>4, <1>6, <1>7 DEF FrameBinds
  <1>9. FramesBind(cache, dict, stack)'
    BY <1>8 DEF FramesBind
  <1>10. TablesAgree(registry, cache)'
    BY <1>1 DEF TablesAgree
  <1>11. \A d, n, m : Complete(d, n, m)' <=> Complete(d, n, m)
    BY DEF Complete
  <1>12. FinishedBind(cache, dict, finished)'
    BY <1>11 DEF FinishedBind
  <1> QED BY <1>9, <1>10, <1>12 DEF BindInv

(* The steps that touch no table.                                           *)
LEMMA FrameMoves ==
  ASSUME ImportInv, BindInv, UNCHANGED <<program, registry, cache, dict, finished>>,
         NEW g, OnlyNew(stack, g, stack'), FrameBinds(cache, dict, g)
  PROVE  BindInv'
  <1>1. CacheGrows /\ KeepsJoined
    BY DEF CacheGrows, KeepsJoined
  <1>2. FrameBinds(cache', dict', g)
    OBVIOUS
  <1>3. FramesBind(cache', dict', stack')
    BY <1>1, <1>2, FramesNext DEF BindInv
  <1>4. TablesAgree(registry', cache') /\ FinishedBind(cache', dict', finished')
    BY DEF BindInv
  <1> QED BY <1>3, <1>4, BindNext

(* Those that touch the dicts only.                                         *)
LEMMA KeptBound ==
  ASSUME ImportInv, FinishedBind(cache, dict, finished), CacheGrows, KeepsBound
  PROVE  /\ FinishedBind(cache', dict', finished)
         /\ finished' = finished => FinishedBind(cache', dict', finished')
  <1>1. ASSUME NEW m \in finished PROVE \E n \in Names : cache'[n] = m
    <2>1. m # Null
      BY ModulesAssumption DEF ImportInv, ModulesTyped
    <2> QED BY <2>1 DEF FinishedBind, CacheGrows
  <1>2. ASSUME NEW n \in Names, cache'[n] \in finished PROVE cache'[n] = cache[n]
    BY <1>2 DEF FinishedBind, CacheGrows
  <1>3. ASSUME NEW n \in Names, cache[n] \in finished PROVE Complete(dict', n, cache[n])
    <2>1. Complete(dict, n, cache[n])
      BY <1>3 DEF FinishedBind
    <2>2. program.files[n].body \in Seq(Statements)
      BY FileCode DEF ImportInv
    <2> DEFINE code == program.files[n].body
    <2>3. \A i \in DOMAIN code : code[i].attr \in Attrs
      <3>1. \A i \in DOMAIN code : code[i] \in Statements
        BY <2>2
      <3> HIDE DEF code
      <3> QED BY <3>1 DEF Statements
    <2> HIDE DEF code
    <2>4. ASSUME NEW i \in DOMAIN code, BindsOne(code[i]), ~code[i].guarded
          PROVE  dict'[cache[n]][code[i].attr] # Null
      <3>1. dict[cache[n]][code[i].attr] # Null
        BY <2>1, <2>4 DEF Complete, code
      <3> QED BY <1>3, <2>3, <2>4, <3>1 DEF KeepsBound
    <2> QED BY <2>4 DEF Complete, code
  <1> QED BY <1>1, <1>2, <1>3 DEF FinishedBind

LEMMA DictMoves ==
  ASSUME ImportInv, BindInv, UNCHANGED <<program, registry, cache, finished>>,
         KeepsJoined, KeepsBound,
         NEW g, OnlyNew(stack, g, stack'), FrameBinds(cache', dict', g)
  PROVE  BindInv'
  <1>1. CacheGrows
    BY DEF CacheGrows
  <1>2. FramesBind(cache', dict', stack')
    BY <1>1, FramesNext DEF BindInv
  <1>3. TablesAgree(registry', cache') /\ FinishedBind(cache', dict', finished')
    BY <1>1, KeptBound DEF BindInv
  <1> QED BY <1>2, <1>3, BindNext

-----------------------------------------------------------------------------
(* What a frame that goes on has bound.                                     *)
LEMMA FrameAgain ==
  ASSUME NEW c, NEW d, NEW f, FrameBinds(c, d, f),
         NEW g, Same(f, g), g.code = f.code, g.pc = f.pc, g.locals = f.locals, Asks(c, g)
  PROVE  FrameBinds(c, d, g)
  <1>1. CodeFits(g)
    BY DEF FrameBinds, CodeFits, Same
  <1>2. Cached(c, g)
    BY DEF FrameBinds, Cached, Same
  <1>3. HasBound(g)
    BY DEF FrameBinds, HasBound, Same, ByVm
  <1>4. OnlyBound(g)
    BY DEF FrameBinds, OnlyBound, Same
  <1>5. HasJoined(c, d, g)
    BY DEF FrameBinds, HasJoined, Same, ByVm, Joins
  <1> QED BY <1>1, <1>2, <1>3, <1>4, <1>5 DEF FrameBinds

(* The variables after the statement at the pc.                             *)
BindsMore(f, g) ==
    LET s == Statement(f) IN
    /\ \A a \in Attrs : f.locals[a] # Null => g.locals[a] # Null
    /\ BindsOne(s) /\ ~s.guarded => g.locals[s.attr] # Null
    /\ \A a \in Attrs : g.locals[a] # Null =>
          f.locals[a] # Null \/ s.op = "star" \/ (BindsOne(s) /\ s.attr = a)

LEMMA FrameAdvances ==
  ASSUME NEW c, NEW d, NEW f \in FrameSet, FrameBinds(c, d, f), f.pc \in DOMAIN f.code,
         NEW g, Same(f, g), g.code = f.code, g.pc = f.pc + 1, g.stage = "run",
         ByVm(f) => BindsMore(f, g),
         ByVm(f) /\ Joins(f, f.pc) => Joined(c, d, Statement(f).name)
  PROVE  FrameBinds(c, d, g)
  <1>1. f.code \in Seq(Statements) /\ f.pc \in Nat /\ f.pc \in 1 .. Len(f.code) /\ CodeFits(f)
    BY FrameFields DEF FrameBinds
  <1>2. CodeFits(g)
    <2>1. f.pc + 1 <= Len(f.code) + 1
      BY <1>1
    <2> QED BY <1>1, <2>1 DEF CodeFits, Same
  <1>3. Cached(c, g) /\ Asks(c, g)
    BY DEF FrameBinds, Cached, Same, Asks
  <1>4. \A i \in 1 .. g.pc - 1 : i \in 1 .. f.pc - 1 \/ i = f.pc
    <2>1. g.pc - 1 = f.pc
      BY <1>1
    <2> QED BY <1>1, <2>1
  <1>5. HasBound(g)
    <2> SUFFICES ASSUME ByVm(f), NEW i \in 1 .. g.pc - 1, BindsOne(f.code[i]), ~f.code[i].guarded
                 PROVE  g.locals[f.code[i].attr] # Null
      BY DEF HasBound, ByVm, Same
    <2>1. CASE i \in 1 .. f.pc - 1
      <3>1. f.locals[f.code[i].attr] # Null /\ f.code[i].attr \in Attrs
        BY <1>1, <2>1, StatementsRun DEF FrameBinds, HasBound
      <3> QED BY <3>1 DEF BindsMore
    <2>2. CASE i = f.pc
      BY <2>2 DEF BindsMore, Statement
    <2> QED BY <1>4, <2>1, <2>2
  <1>6. OnlyBound(g)
    <2> SUFFICES ASSUME f.kind = "body", NEW a \in Attrs, g.locals[a] # Null
                 PROVE  \E i \in DOMAIN f.code : f.code[i].op = "star" \/ (BindsOne(f.code[i]) /\ f.code[i].attr = a)
      BY DEF OnlyBound, Same
    <2>1. f.locals[a] # Null \/ Statement(f).op = "star" \/ (BindsOne(Statement(f)) /\ Statement(f).attr = a)
      BY DEF ByVm, BindsMore
    <2>2. CASE f.locals[a] # Null
      BY <2>2 DEF FrameBinds, OnlyBound
    <2>3. CASE f.locals[a] = Null
      BY <2>1, <2>3 DEF Statement
    <2> QED BY <2>2, <2>3
  <1>7. HasJoined(c, d, g)
    <2> SUFFICES ASSUME ByVm(f), NEW i \in 1 .. g.pc - 1, Joins(f, i)
                 PROVE  Joined(c, d, f.code[i].name)
      BY DEF HasJoined, ByVm, Same, Joins
    <2>1. CASE i \in 1 .. f.pc - 1
      BY <2>1 DEF FrameBinds, HasJoined
    <2>2. CASE i = f.pc
      BY <2>2 DEF Statement
    <2> QED BY <1>4, <2>1, <2>2
  <1> QED BY <1>2, <1>3, <1>5, <1>6, <1>7 DEF FrameBinds

LEMMA FailedFields ==
  ASSUME NEW f \in FrameSet
  PROVE  /\ Same(f, Failed(f)) /\ Failed(f).code = f.code /\ Failed(f).locals = f.locals
         /\ Statement(f).guarded => Failed(f).pc = f.pc + 1 /\ Failed(f).stage = "run"
         /\ ~Statement(f).guarded => Failed(f).pc = f.pc /\ Failed(f).stage = "failed"
  BY DEF Failed, FrameSet, Same

LEMMA FailedBinds ==
  ASSUME NEW c, NEW d, NEW f \in FrameSet, FrameBinds(c, d, f), f.pc \in DOMAIN f.code
  PROVE  FrameBinds(c, d, Failed(f))
  <1>1. CASE Statement(f).guarded
    <2>1. BindsMore(f, Failed(f)) /\ ~Joins(f, f.pc)
      BY <1>1, FailedFields DEF BindsMore, Joins, Statement
    <2> QED BY <1>1, <2>1, FailedFields, FrameAdvances
  <1>2. CASE ~Statement(f).guarded
    <2>1. Asks(c, Failed(f))
      BY <1>2, FailedFields DEF Asks
    <2> QED BY <1>2, <2>1, FailedFields, FrameAgain
  <1> QED BY <1>1, <1>2

LEMMA OnwardBinds ==
  ASSUME NEW c, NEW d, NEW f \in FrameSet, FrameBinds(c, d, f), f.pc \in DOMAIN f.code,
         f.stage = "run", Statement(f).op \notin {"assign", "import", "from"}
  PROVE  FrameBinds(c, d, [f EXCEPT !.pc = @ + 1])
  <1> DEFINE g == [f EXCEPT !.pc = @ + 1]
  <1>1. Same(f, g) /\ g.code = f.code /\ g.pc = f.pc + 1 /\ g.stage = "run" /\ g.locals = f.locals
    BY DEF FrameSet, Same
  <1> HIDE DEF g
  <1>2. BindsMore(f, g) /\ ~Joins(f, f.pc)
    BY <1>1 DEF BindsMore, BindsOne, Joins, Statement
  <1>3. FrameBinds(c, d, g)
    BY <1>1, <1>2, FrameAdvances
  <1> QED BY <1>3 DEF g

LEMMA ReceivedFields ==
  ASSUME NEW f \in FrameSet, NEW m
  PROVE  LET g == Received(f, m) IN
         /\ Same(f, g) /\ g.code = f.code /\ g.pc = f.pc /\ g.locals = f.locals /\ g.stage = "find"
         /\ g.todo = Tail(f.todo) /\ g.got = Append(f.got, m)
  BY DEF Received, FrameSet, Same

LEMMA ReceivedBinds ==
  ASSUME NEW c, NEW d, NEW f \in FrameSet, FrameBinds(c, d, f), NEW m \in Mods,
         f.stage \in {"find", "source"}, f.todo # <<>>,
         ByVm(f) => Found(c, Head(f.todo), m)
  PROVE  FrameBinds(c, d, Received(f, m))
  <1> DEFINE g == Received(f, m)
             names == Asked(Statement(f).name)
             k == Len(f.got)
             l == Len(f.todo)
  <1>1. /\ Same(f, g) /\ g.code = f.code /\ g.pc = f.pc /\ g.locals = f.locals /\ g.stage = "find"
        /\ g.todo = Tail(f.todo) /\ g.got = Append(f.got, m)
    BY ReceivedFields
  <1> HIDE DEF g
  <1>2. Asks(c, g)
    <2> SUFFICES ASSUME ByVm(f) PROVE Asks(c, g)
      BY <1>1 DEF Asks, ByVm, Same
    <2>1. f.got \in Seq(Mods) /\ f.todo \in Seq(Names)
      BY FrameFields
    <2>2. /\ k + l = Len(names)
          /\ \A j \in DOMAIN f.todo : f.todo[j] = names[k + j]
          /\ \A j \in DOMAIN f.got : Found(c, names[j], f.got[j])
      BY DEF FrameBinds, Asks
    <2>3. /\ k \in Nat /\ l \in Nat \ {0} /\ DOMAIN f.got = 1 .. k /\ DOMAIN f.todo = 1 .. l
          /\ Len(Tail(f.todo)) = l - 1 /\ DOMAIN Tail(f.todo) = 1 .. l - 1
          /\ Head(f.todo) = f.todo[1] /\ \A j \in 1 .. l - 1 : Tail(f.todo)[j] = f.todo[j + 1]
      BY <2>1, EmptySeq, HeadTailProperties
    <2>4. /\ Len(Append(f.got, m)) = k + 1 /\ DOMAIN Append(f.got, m) = 1 .. k + 1
          /\ Append(f.got, m)[k + 1] = m /\ \A j \in 1 .. k : Append(f.got, m)[j] = f.got[j]
      BY <2>1, AppendProperties
    <2>5. names = Asked(Statement(g).name)
      BY <1>1 DEF Statement
    <2> HIDE DEF k, l, names
    <2>9. /\ Len(g.got) = k + 1 /\ DOMAIN g.got = 1 .. k + 1
          /\ Len(g.todo) = l - 1 /\ DOMAIN g.todo = 1 .. l - 1
      BY <1>1, <2>3, <2>4
    <2>6. Len(g.got) + Len(g.todo) = Len(names)
      <3>1. k + 1 + (l - 1) = k + l
        BY <2>3
      <3> QED BY <2>2, <2>9, <3>1
    <2>7. ASSUME NEW j \in DOMAIN g.todo PROVE g.todo[j] = names[Len(g.got) + j]
      <3>4. j \in 1 .. l - 1
        BY <2>9
      <3>5. j + 1 \in 1 .. l /\ k + (j + 1) = (k + 1) + j
        BY <2>3, <3>4
      <3>1. j \in 1 .. l - 1 /\ j + 1 \in 1 .. l /\ k + (j + 1) = Len(g.got) + j
        BY <2>9, <3>4, <3>5
      <3>2. f.todo[j + 1] = names[k + (j + 1)]
        BY <2>2, <2>3, <3>1
      <3>3. g.todo[j] = f.todo[j + 1]
        BY <1>1, <2>3, <3>1
      <3> QED BY <3>1, <3>2, <3>3
    <2>8. ASSUME NEW j \in DOMAIN g.got PROVE Found(c, names[j], g.got[j])
      <3>1. j \in 1 .. k \/ j = k + 1
        BY <2>3, <2>9
      <3>2. CASE j \in 1 .. k
        <4>1. g.got[j] = f.got[j] /\ Found(c, names[j], f.got[j])
          BY <1>1, <2>2, <2>3, <2>4, <3>2
        <4> QED BY <4>1
      <3>3. CASE j = k + 1
        <4>1. 1 \in 1 .. l
          BY <2>3
        <4>2. Head(f.todo) = names[k + 1]
          BY <2>2, <2>3, <4>1
        <4> QED BY <1>1, <2>4, <3>3, <4>2
      <3> QED BY <3>1, <3>2, <3>3
    <2> QED BY <2>5, <2>6, <2>7, <2>8 DEF Asks
  <1> QED BY <1>1, <1>2, FrameAgain DEF g

LEMMA NotFoundBinds ==
  ASSUME NEW c, NEW d, NEW f \in FrameSet, FrameBinds(c, d, f), f.pc \in DOMAIN f.code,
         f.stage = "find"
  PROVE  FrameBinds(c, d, NotFound(f))
  <1>1. CASE ByVm(f)
    <2> DEFINE g == [f EXCEPT !.stage = "source"]
    <2>1. /\ Same(f, g) /\ g.code = f.code /\ g.pc = f.pc /\ g.locals = f.locals /\ g.stage = "source"
          /\ g.todo = f.todo /\ g.got = f.got
      BY DEF FrameSet, Same
    <2> HIDE DEF g
    <2>2. Asks(c, g)
      BY <1>1, <2>1 DEF FrameBinds, Asks, Statement
    <2>3. FrameBinds(c, d, g)
      BY <2>1, <2>2, FrameAgain
    <2> QED BY <1>1, <2>3 DEF NotFound, g
  <1>2. CASE ~ByVm(f)
    BY <1>2, FailedBinds DEF NotFound
  <1> QED BY <1>1, <1>2

LEMMA NewFrameBinds ==
  ASSUME NEW c, NEW d, NEW sort \in {"body", "c"}, NEW n \in Names, NEW m \in Mods,
         NEW code \in Seq(Statements),
         sort = "body" => code = program.files[n].body /\ c[n] = m,
         sort = "c" => code = program.files[n].init /\ program.files[n].extension
                       /\ \A k \in Names : c[k] # m
  PROVE  FrameBinds(c, d, Frame(sort, n, m, code))
  <1> DEFINE g == Frame(sort, n, m, code)
  <1>1. /\ g.kind = sort /\ g.name = n /\ g.mod = m /\ g.code = code /\ g.pc = 1
        /\ g.locals = Empty /\ g.stage = "run"
    BY DEF Frame
  <1> HIDE DEF g
  <1>2. CodeFits(g)
    <2>1. Len(code) \in Nat
      OBVIOUS
    <2>2. 1 <= Len(code) + 1
      BY <2>1
    <2> QED BY <1>1, <2>2 DEF CodeFits
  <1>3. Cached(c, g) /\ Asks(c, g)
    BY <1>1 DEF Cached, Asks
  <1>4. OnlyBound(g)
    BY <1>1 DEF OnlyBound, Empty
  <1>5. HasBound(g) /\ HasJoined(c, d, g)
    <2>1. \A i \in 1 .. g.pc - 1 : FALSE
      BY <1>1
    <2> QED BY <2>1 DEF HasBound, HasJoined
  <1> QED BY <1>2, <1>3, <1>4, <1>5 DEF FrameBinds, g

-----------------------------------------------------------------------------
(* The frames after a step.                                                 *)
LEMMA TopNew ==
  ASSUME ModulesTyped, StacksFit, NEW t \in Threads, stack[t] # <<>>,
         NEW g \in FrameSet, SetTop(t, g)
  PROVE  OnlyNew(stack, g, stack')
  <1> DEFINE f == Top(t)
             r == Front(stack[t])
  <1>1. f \in FrameSet /\ r \in Seq(FrameSet) /\ stack[t] = Append(r, f)
    BY RunningFrame
  <1>2. stack \in [Threads -> Seq(FrameSet)]
    BY DEF ModulesTyped
  <1>3. stack' = [stack EXCEPT ![t] = Append(r, g)]
    BY DEF SetTop
  <1> HIDE DEF r, f
  <1>4. Changed(stack, t, f, g, r, stack')
    BY <1>1, <1>3 DEF Changed
  <1> QED BY <1>1, <1>2, <1>4, ChangedFrames

LEMMA PushNew ==
  ASSUME ModulesTyped, StacksFit, NEW t \in Threads, stack[t] # <<>>,
         NEW g \in FrameSet, Push(t, g)
  PROVE  OnlyNew(stack, g, stack')
  <1> DEFINE f == Top(t)
             r == Front(stack[t])
  <1>1. f \in FrameSet /\ r \in Seq(FrameSet) /\ stack[t] = Append(r, f)
    BY RunningFrame
  <1>2. stack \in [Threads -> Seq(FrameSet)]
    BY DEF ModulesTyped
  <1>3. stack' = [stack EXCEPT ![t] = Append(stack[t], g)]
    BY DEF Push
  <1> HIDE DEF r, f
  <1>4. Started(stack, t, f, g, r, stack')
    BY <1>1, <1>3 DEF Started
  <1> QED BY <1>1, <1>2, <1>4, StartedFrames

LEMMA DropNew ==
  ASSUME ModulesTyped, StacksFit, NEW t \in Threads, stack[t] # <<>>, Top(t).kind # "script",
         NEW g \in FrameSet, Dropped(t, g)
  PROVE  OnlyNew(stack, g, stack')
  <1> DEFINE f == Top(t)
             b == Below(t)
             r == SubSeq(stack[t], 1, Len(stack[t]) - 2)
  <1>1. f \in FrameSet /\ b \in FrameSet /\ r \in Seq(FrameSet) /\ stack[t] = Append(Append(r, b), f)
    BY RunningFrame, FrameBelow
  <1>2. stack \in [Threads -> Seq(FrameSet)]
    BY DEF ModulesTyped
  <1>3. stack' = [stack EXCEPT ![t] = Append(r, g)]
    BY DEF Dropped
  <1> HIDE DEF r, f, b
  <1>4. Returned(stack, t, f, b, g, r, stack')
    BY <1>1, <1>3 DEF Returned
  <1> QED BY <1>1, <1>2, <1>4, ReturnedFrames

(* The running frame, and the one below it.                                 *)
LEMMA TopBinds ==
  ASSUME ImportInv, BindInv, NEW t \in Threads, stack[t] # <<>>
  PROVE  /\ Top(t) \in FrameSet /\ Fits(Top(t)) /\ FrameBinds(cache, dict, Top(t))
         /\ \A m : Uses(Top(t), m) => InUse(stack, m)
         /\ ModulesTyped /\ StacksFit
  <1>1. ModulesTyped /\ StacksFit
    BY DEF ImportInv
  <1>2. Top(t) \in FrameSet /\ Fits(Top(t)) /\ Len(stack[t]) \in DOMAIN stack[t]
        /\ Top(t) = stack[t][Len(stack[t])]
    BY <1>1, RunningFrame
  <1>3. FrameBinds(cache, dict, Top(t))
    BY <1>2 DEF BindInv, FramesBind
  <1> QED BY <1>1, <1>2, <1>3, TopUses

LEMMA BelowBinds ==
  ASSUME ImportInv, BindInv, NEW t \in Threads, stack[t] # <<>>, Top(t).kind # "script"
  PROVE  /\ Below(t) \in FrameSet /\ Fits(Below(t)) /\ FrameBinds(cache, dict, Below(t))
         /\ Awaits(Below(t), Top(t)) /\ Below(t).todo # <<>> /\ Head(Below(t).todo) = Top(t).name
         /\ \A m : Uses(Below(t), m) => InUse(stack, m)
         /\ Top(t).mod \in Mods /\ Top(t).name \in Names /\ Len(stack[t]) # 1
  <1>1. ModulesTyped /\ StacksFit
    BY DEF ImportInv
  <1>2. Below(t) \in FrameSet /\ Fits(Below(t)) /\ Awaits(Below(t), Top(t))
        /\ Len(stack[t]) - 1 \in DOMAIN stack[t]
    BY <1>1, FrameBelow
  <1>3. FrameBinds(cache, dict, Below(t))
    BY <1>2 DEF BindInv, FramesBind, Below
  <1> QED BY <1>2, <1>3, EndingFrame DEF Awaits

LEMMA TopMoves ==
  ASSUME ImportInv, BindInv, NEW t \in Threads, stack[t] # <<>>,
         UNCHANGED <<program, registry, cache, dict, finished>>,
         NEW g, Fits(g), SetTop(t, g), FrameBinds(cache, dict, g)
  PROVE  BindInv'
  <1>1. ModulesTyped /\ StacksFit /\ g \in FrameSet
    BY DEF ImportInv, Fits
  <1>2. OnlyNew(stack, g, stack')
    BY <1>1, TopNew
  <1> QED BY <1>2, FrameMoves

-----------------------------------------------------------------------------
(* The actions that touch no table.                                         *)
LEMMA BeginImportBinds ==
  ASSUME ImportInv, BindInv, NEW t \in Threads, stack[t] # <<>>, BeginImport(t)
  PROVE  BindInv'
  <1> DEFINE f == Top(t)
             n == Statement(f).name
             todo == <<n>> \o (IF ByVm(f) THEN Ancestors[n] ELSE <<>>)
             g == [f EXCEPT !.stage = "find", !.todo = todo]
  <1>1. f \in FrameSet /\ Fits(f) /\ FrameBinds(cache, dict, f) /\ ModulesTyped /\ StacksFit
    BY TopBinds
  <1>2. /\ f.stage = "run" /\ ~Ended(f) /\ SetTop(t, g)
        /\ UNCHANGED <<program, registry, cache, dict, finished>>
    BY DEF BeginImport
  <1> HIDE DEF f
  <1>3. n \in Names /\ f.got = <<>>
    BY <1>1, <1>2, AtStatement DEF Fits
  <1>4. /\ Same(f, g) /\ g.code = f.code /\ g.pc = f.pc /\ g.locals = f.locals
        /\ g.stage = "find" /\ g.todo = todo /\ g.got = <<>>
    BY <1>1, <1>3 DEF FrameSet, Same
  <1>5. g \in FrameSet
    <2>1. Ancestors[n] \in Seq(Names) /\ <<>> \in Seq(Names) /\ <<n>> \in Seq(Names)
      BY <1>3, PathFields, EmptySeq
    <2>2. todo \in Seq(Names)
      BY <2>1, ConcatProperties
    <2> HIDE DEF todo
    <2> QED BY <1>1, <2>2 DEF FrameSet
  <1>6. ByVm(f) => todo = Asked(n)
    BY DEF Asked
  <1> HIDE DEF g, todo
  <1>7. Asks(cache, g)
    <2> SUFFICES ASSUME ByVm(f) PROVE Asks(cache, g)
      BY <1>4 DEF Asks, ByVm, Same
    <2>1. Len(todo) \in Nat /\ DOMAIN todo = 1 .. Len(todo)
      BY <1>3, <1>6, AskedFields, PathFields
    <2>2. Len(<<>>) = 0 /\ DOMAIN <<>> = {}
      OBVIOUS
    <2>3. Len(g.got) + Len(g.todo) = Len(todo)
      BY <1>4, <2>1, <2>2
    <2>4. \A j \in DOMAIN g.todo : j \in Nat /\ Len(g.got) + j = j
      BY <1>4, <2>1, <2>2
    <2>5. \A j \in DOMAIN g.todo : g.todo[j] = todo[Len(g.got) + j]
      BY <1>4, <2>4
    <2>6. Statement(g).name = n
      BY <1>4 DEF Statement
    <2> QED BY <1>4, <1>6, <2>2, <2>3, <2>5, <2>6 DEF Asks
  <1>8. FrameBinds(cache, dict, g)
    BY <1>1, <1>4, <1>7, FrameAgain
  <1>9. OnlyNew(stack, g, stack')
    BY <1>1, <1>2, <1>5, TopNew
  <1> QED BY <1>2, <1>8, <1>9, FrameMoves

(* What a look-up finds is the module of that name.                         *)
LEMMA CachedFound ==
  ASSUME TablesAgree(registry, cache), NEW n \in Names, cache[n] # Null
  PROVE  Found(cache, n, cache[n])
  BY DEF TablesAgree, Found

LEMMA RegisteredFound ==
  ASSUME TablesAgree(registry, cache), NEW n \in Names, registry[n] # Null
  PROVE  Found(cache, n, registry[n])
  BY DEF TablesAgree, Found

LEMMA HeadAsked ==
  ASSUME NEW f \in FrameSet, f.todo # <<>>
  PROVE  Head(f.todo) \in Names
  BY FrameFields, HeadTailProperties

LEMMA FindLoadedBinds ==
  ASSUME ImportInv, BindInv, NEW t \in Threads, stack[t] # <<>>, FindLoaded(t)
  PROVE  BindInv'
  <1> DEFINE f == Top(t)
             n == Head(f.todo)
             x == Loaded(f)
  <1>1. f \in FrameSet /\ Fits(f) /\ FrameBinds(cache, dict, f) /\ ModulesTyped
    BY TopBinds
  <1>2. /\ f.stage = "find" /\ f.todo # <<>> /\ x # Null /\ SetTop(t, Received(f, x))
        /\ UNCHANGED <<program, registry, cache, dict, finished>>
    BY DEF FindLoaded, Looking
  <1> HIDE DEF f
  <1>3. n \in Names
    BY <1>1, <1>2, HeadAsked
  <1>4. x = cache[n] \/ x = registry[n]
    BY DEF Loaded
  <1>5. x \in Mods
    BY <1>1, <1>2, <1>3, <1>4 DEF ModulesTyped
  <1>6. Found(cache, n, x)
    BY <1>2, <1>3, <1>4, CachedFound, RegisteredFound DEF BindInv
  <1> HIDE DEF x
  <1>7. Fits(Received(f, x)) /\ FrameBinds(cache, dict, Received(f, x))
    BY <1>1, <1>2, <1>5, <1>6, ReceivedFits, ReceivedBinds
  <1> QED BY <1>2, <1>7, TopMoves DEF f

LEMMA SourceCachedBinds ==
  ASSUME ImportInv, BindInv, NEW t \in Threads, stack[t] # <<>>, SourceCached(t)
  PROVE  BindInv'
  <1> DEFINE f == Top(t)
             n == Head(f.todo)
             x == cache[n]
  <1>1. f \in FrameSet /\ Fits(f) /\ FrameBinds(cache, dict, f) /\ ModulesTyped
    BY TopBinds
  <1>2. /\ f.stage = "source" /\ x # Null /\ SetTop(t, Received(f, x))
        /\ UNCHANGED <<program, registry, cache, dict, finished>>
    BY DEF SourceCached, AtSource
  <1> HIDE DEF f
  <1>3. n \in Names /\ f.todo # <<>>
    BY <1>1, <1>2, HeadAsked DEF Fits
  <1>4. x \in Mods
    BY <1>1, <1>2, <1>3 DEF ModulesTyped
  <1>5. Found(cache, n, x)
    BY <1>2, <1>3, CachedFound DEF BindInv
  <1> HIDE DEF x
  <1>6. Fits(Received(f, x)) /\ FrameBinds(cache, dict, Received(f, x))
    BY <1>1, <1>2, <1>3, <1>4, <1>5, ReceivedFits, ReceivedBinds
  <1> QED BY <1>2, <1>6, TopMoves DEF f

LEMMA NoExtensionBinds ==
  ASSUME ImportInv, BindInv, NEW t \in Threads, stack[t] # <<>>, NoExtension(t)
  PROVE  BindInv'
  <1> DEFINE f == Top(t)
  <1>1. f \in FrameSet /\ Fits(f) /\ FrameBinds(cache, dict, f)
    BY TopBinds
  <1>2. /\ f.stage = "find" /\ f.todo # <<>> /\ SetTop(t, NotFound(f))
        /\ UNCHANGED <<program, registry, cache, dict, finished>>
    BY DEF NoExtension, Looking
  <1> HIDE DEF f
  <1>3. Fits(NotFound(f)) /\ FrameBinds(cache, dict, NotFound(f))
    BY <1>1, <1>2, NotFoundFits, NotFoundBinds DEF Fits
  <1> QED BY <1>2, <1>3, TopMoves DEF f

LEMMA FailureBinds ==
  ASSUME ImportInv, BindInv, NEW t \in Threads, stack[t] # <<>>, Top(t).pc \in DOMAIN Top(t).code,
         SetTop(t, Failed(Top(t))), UNCHANGED <<program, registry, cache, dict, finished>>
  PROVE  BindInv'
  <1> DEFINE f == Top(t)
  <1>1. f \in FrameSet /\ Fits(f) /\ FrameBinds(cache, dict, f)
    BY TopBinds
  <1> HIDE DEF f
  <1>2. f.pc \in DOMAIN f.code
    BY DEF f
  <1>3. Fits(Failed(f)) /\ FrameBinds(cache, dict, Failed(f))
    BY <1>1, <1>2, FailedFits, FailedBinds
  <1> QED BY <1>3, TopMoves DEF f

LEMMA RaiseBinds ==
  ASSUME ImportInv, BindInv, NEW t \in Threads, stack[t] # <<>>, Raise(t)
  PROVE  BindInv'
  <1>1. Fits(Top(t)) /\ ~Ended(Top(t))
    BY TopBinds DEF Raise
  <1>2. Top(t).pc \in DOMAIN Top(t).code
    BY <1>1, AtStatement
  <1>3. SetTop(t, Failed(Top(t))) /\ UNCHANGED <<program, registry, cache, dict, finished>>
    BY DEF Raise
  <1> QED BY <1>2, <1>3, FailureBinds

LEMMA NoSourceBinds ==
  ASSUME ImportInv, BindInv, NEW t \in Threads, stack[t] # <<>>, NoSource(t)
  PROVE  BindInv'
  <1>1. Fits(Top(t)) /\ Top(t).stage = "source"
    BY TopBinds DEF NoSource, AtSource
  <1>2. Top(t).pc \in DOMAIN Top(t).code
    BY <1>1 DEF Fits
  <1>3. SetTop(t, Failed(Top(t))) /\ UNCHANGED <<program, registry, cache, dict, finished>>
    BY DEF NoSource
  <1> QED BY <1>2, <1>3, FailureBinds

LEMMA OnwardMoves ==
  ASSUME ImportInv, BindInv, NEW t \in Threads, stack[t] # <<>>,
         Top(t).stage = "run", ~Ended(Top(t)), Statement(Top(t)).op \notin {"assign", "import", "from"},
         SetTop(t, [Top(t) EXCEPT !.pc = @ + 1]), UNCHANGED <<program, registry, cache, dict, finished>>
  PROVE  BindInv'
  <1> DEFINE f == Top(t)
             g == [f EXCEPT !.pc = @ + 1]
  <1>1. f \in FrameSet /\ Fits(f) /\ FrameBinds(cache, dict, f)
    BY TopBinds
  <1>2. /\ f.stage = "run" /\ ~Ended(f) /\ Statement(f).op \notin {"assign", "import", "from"}
        /\ SetTop(t, g)
    OBVIOUS
  <1> HIDE DEF f
  <1>3. Fits(g)
    BY <1>1, <1>2, OnwardFits
  <1>4. FrameBinds(cache, dict, g)
    BY <1>1, <1>2, AtStatement, OnwardBinds
  <1> HIDE DEF g
  <1> QED BY <1>2, <1>3, <1>4, TopMoves DEF f

LEMMA SucceedBinds ==
  ASSUME ImportInv, BindInv, NEW t \in Threads, stack[t] # <<>>, Succeed(t)
  PROVE  BindInv'
  BY OnwardMoves DEF Succeed

LEMMA YieldBinds ==
  ASSUME ImportInv, BindInv, NEW t \in Threads, stack[t] # <<>>, Yield(t)
  PROVE  BindInv'
  BY OnwardMoves DEF Yield

-----------------------------------------------------------------------------
(* The actions that end a frame and touch no table.                         *)
LEMMA DropMoves ==
  ASSUME ImportInv, BindInv, NEW t \in Threads, stack[t] # <<>>, Top(t).kind # "script",
         UNCHANGED <<program, registry, cache, dict, finished>>,
         NEW g, Fits(g), Dropped(t, g), FrameBinds(cache, dict, g)
  PROVE  BindInv'
  <1>1. ModulesTyped /\ StacksFit /\ g \in FrameSet
    BY DEF ImportInv, Fits
  <1>2. OnlyNew(stack, g, stack')
    BY <1>1, DropNew
  <1> QED BY <1>2, FrameMoves

LEMMA InitFailsBinds ==
  ASSUME ImportInv, BindInv, NEW t \in Threads, stack[t] # <<>>, InitFails(t)
  PROVE  BindInv'
  <1> DEFINE f == Top(t)
             b == Below(t)
             g == NotFound(b)
  <1>1. f.kind = "c" /\ UNCHANGED <<program, registry, cache, dict, finished>>
    BY DEF InitFails
  <1>2. /\ b \in FrameSet /\ Fits(b) /\ FrameBinds(cache, dict, b) /\ Awaits(b, f)
        /\ b.todo # <<>> /\ Len(stack[t]) # 1
    BY <1>1, BelowBinds
  <1>3. Dropped(t, g)
    <2> DEFINE h == NotFound(stack[t][Len(stack[t]) - 1])
               rest == SubSeq(stack[t], 1, Len(stack[t]) - 2)
    <2>1. stack' = [stack EXCEPT ![t] = IF Len(stack[t]) = 1 THEN <<>> ELSE Append(rest, h)]
      BY Zenon DEF InitFails, Pop
    <2>2. h = g
      BY DEF Below
    <2> HIDE DEF h, g
    <2>3. stack' = [stack EXCEPT ![t] = Append(rest, g)]
      BY <1>2, <2>1, <2>2
    <2> QED BY <2>3 DEF Dropped
  <1>4. b.stage = "find" /\ b.pc \in DOMAIN b.code
    BY <1>1, <1>2 DEF Awaits, Fits
  <1>5. Fits(g) /\ FrameBinds(cache, dict, g)
    BY <1>2, <1>4, NotFoundFits, NotFoundBinds
  <1> HIDE DEF g
  <1> QED BY <1>1, <1>3, <1>5, DropMoves

LEMMA BodyFailsBinds ==
  ASSUME ImportInv, BindInv, NEW t \in Threads, stack[t] # <<>>, BodyFails(t)
  PROVE  BindInv'
  <1> DEFINE f == Top(t)
             b == Below(t)
             g == Failed(b)
  <1>1. f.kind = "body" /\ UNCHANGED <<program, registry, cache, dict, finished>>
    BY DEF BodyFails
  <1>2. /\ b \in FrameSet /\ Fits(b) /\ FrameBinds(cache, dict, b) /\ Awaits(b, f)
        /\ b.todo # <<>> /\ Len(stack[t]) # 1
    BY <1>1, BelowBinds
  <1>3. Dropped(t, g)
    <2> DEFINE h == Failed(stack[t][Len(stack[t]) - 1])
               rest == SubSeq(stack[t], 1, Len(stack[t]) - 2)
    <2>1. stack' = [stack EXCEPT ![t] = IF Len(stack[t]) = 1 THEN <<>> ELSE Append(rest, h)]
      BY Zenon DEF BodyFails, Pop
    <2>2. h = g
      BY DEF Below
    <2> HIDE DEF h, g
    <2>3. stack' = [stack EXCEPT ![t] = Append(rest, g)]
      BY <1>2, <2>1, <2>2
    <2> QED BY <2>3 DEF Dropped
  <1>4. b.pc \in DOMAIN b.code
    BY <1>1, <1>2 DEF Awaits, Fits
  <1>5. Fits(g) /\ FrameBinds(cache, dict, g)
    BY <1>2, <1>4, FailedFits, FailedBinds
  <1> HIDE DEF g
  <1> QED BY <1>1, <1>3, <1>5, DropMoves

LEMMA EndThreadBinds ==
  ASSUME ImportInv, BindInv, NEW t \in Threads, stack[t] # <<>>, EndThread(t)
  PROVE  BindInv'
  <1> DEFINE f == Top(t)
  <1>1. FrameBinds(cache, dict, f) /\ ModulesTyped
    BY TopBinds
  <1>2. stack' = [stack EXCEPT ![t] = <<>>] /\ UNCHANGED <<program, registry, cache, dict, finished>>
    BY DEF EndThread
  <1> HIDE DEF f
  <1>3. \A u \in Threads : stack'[u] = stack[u] \/ stack'[u] = <<>>
    BY <1>1, <1>2 DEF ModulesTyped
  <1>4. OnlyNew(stack, f, stack')
    BY <1>3 DEF OnlyNew
  <1> QED BY <1>1, <1>2, <1>4, FrameMoves

-----------------------------------------------------------------------------
(* The actions that fill the dict of a new module.                          *)
LEMMA NewDict ==
  ASSUME ImportInv, BindInv, NEW x \in Mods, Unused(x), NEW e,
         dict' = [dict EXCEPT ![x] = e], CacheGrows, finished' = finished
  PROVE  KeepsJoined /\ KeepsBound
  <1>1. \A n \in Names : cache[n] # x
    BY DEF Unused
  <1>2. \A m : m # x => dict'[m] = dict[m]
    OBVIOUS
  <1>3. \A n \in Names : Parent[n] # Null => Parent[n] \in Names
    BY ModulesAssumption
  <1>4. KeepsJoined
    BY <1>1, <1>2, <1>3 DEF KeepsJoined, Joined, CacheGrows
  <1>5. KeepsBound
    BY <1>1, <1>2 DEF KeepsBound
  <1> QED BY <1>4, <1>5

LEMMA LoadExtensionBinds ==
  ASSUME ImportInv, BindInv, NEW t \in Threads, stack[t] # <<>>, LoadExtension(t)
  PROVE  BindInv'
  <1> DEFINE f == Top(t)
             n == Head(f.todo)
             code == program.files[n].init
  <1>1. f \in FrameSet /\ ModulesTyped /\ StacksFit
    BY TopBinds
  <1>2. PICK x \in Mods : x = Fresh /\ Unused(x)
    BY FreshUnused DEF LoadExtension
  <1> DEFINE g == Frame("c", n, x, code)
  <1>3. /\ f.todo # <<>> /\ program.files[n].extension
        /\ dict' = [dict EXCEPT ![x] = Empty] /\ Push(t, g)
        /\ UNCHANGED <<program, registry, cache, finished>>
    BY <1>2 DEF LoadExtension, Looking
  <1>4. n \in Names
    BY <1>1, <1>3, HeadAsked
  <1>5. code \in Seq(Statements)
    BY <1>1, <1>4, FileCode
  <1>6. CacheGrows
    BY <1>3 DEF CacheGrows
  <1>7. KeepsJoined /\ KeepsBound
    BY <1>2, <1>3, <1>6, NewDict
  <1>8. FrameBinds(cache', dict', g) /\ g \in FrameSet
    <2>1. \A k \in Names : cache'[k] # x
      BY <1>2, <1>3 DEF Unused
    <2>2. program.files[n].init = code /\ program.files[n].extension
      BY <1>3
    <2> HIDE DEF n, code
    <2>3. FrameBinds(cache', dict', g)
      BY <1>4, <1>5, <2>1, <2>2, NewFrameBinds
    <2>4. Starts(g, "c", n, x)
      BY <1>4, <1>5, ImportFrame
    <2> HIDE DEF g
    <2> QED BY <2>3, <2>4 DEF Starts, Fits
  <1> HIDE DEF g
  <1>9. OnlyNew(stack, g, stack')
    BY <1>1, <1>3, <1>8, PushNew
  <1> QED BY <1>3, <1>7, <1>8, <1>9, DictMoves

(* The name a frame adds is one that others than import_py_source register. *)
LEMMA AddedName ==
  ASSUME ModulesTyped, NEW f \in FrameSet, Fits(f), CodeFits(f), f.pc \in DOMAIN f.code,
         Statement(f).op = "add"
  PROVE  ~FromSource(Statement(f).name)
  <1>1. Statement(f) \in Range(f.code)
    BY DEF Statement, Range
  <1>2. Statement(f) \in Instructions
    <2>1. CASE f.kind = "script"
      BY <1>1, <2>1 DEF CodeFits, Instructions
    <2>2. CASE f.kind = "body"
      <3>1. f.name \in Names
        BY <2>2 DEF Fits
      <3> QED BY <1>1, <2>2, <3>1 DEF CodeFits, Instructions
    <2>3. CASE f.kind = "c"
      <3>1. f.name \in Names
        BY <2>3 DEF Fits
      <3> QED BY <1>1, <2>3, <3>1 DEF CodeFits, Instructions
    <2> QED BY <2>1, <2>2, <2>3, FrameFields
  <1> QED BY <1>2 DEF FromSource

LEMMA AddModuleBinds ==
  ASSUME ImportInv, BindInv, NEW t \in Threads, stack[t] # <<>>, AddModule(t)
  PROVE  BindInv'
  <1> DEFINE f == Top(t)
             n == Statement(f).name
  <1>1. CASE registry[n] # Null
    <2>1. /\ f.stage = "run" /\ ~Ended(f) /\ Statement(f).op = "add"
          /\ SetTop(t, [f EXCEPT !.pc = @ + 1])
          /\ UNCHANGED <<program, registry, cache, dict, finished>>
      BY <1>1 DEF AddModule
    <2> HIDE DEF f
    <2>2. Statement(f).op \notin {"assign", "import", "from"}
      BY <2>1
    <2> QED BY <2>1, <2>2, OnwardMoves DEF f
  <1>2. CASE registry[n] = Null
    <2> DEFINE g == [f EXCEPT !.pc = @ + 1]
    <2>1. f \in FrameSet /\ Fits(f) /\ FrameBinds(cache, dict, f) /\ ModulesTyped /\ StacksFit
          /\ \A m : Uses(f, m) => InUse(stack, m)
      BY TopBinds
    <2>2. PICK x \in Mods : x = Fresh /\ Unused(x)
      BY <1>2, FreshUnused DEF AddModule
    <2>3. /\ f.stage = "run" /\ ~Ended(f) /\ Statement(f).op = "add" /\ SetTop(t, g)
          /\ registry' = [registry EXCEPT ![n] = x] /\ dict' = [dict EXCEPT ![x] = Empty]
          /\ UNCHANGED <<program, cache, finished>>
      BY <1>2, <2>2 DEF AddModule
    <2> HIDE DEF f
    <2>4. f.pc \in DOMAIN f.code /\ n \in Names
      BY <2>1, <2>3, AtStatement
    <2>5. CacheGrows
      BY <2>3 DEF CacheGrows
    <2>6. KeepsJoined /\ KeepsBound
      BY <2>2, <2>3, <2>5, NewDict
    <2>7. Fits(g)
      BY <2>1, <2>3, OnwardFits
    <2>8. FrameBinds(cache', dict', g)
      <3>1. FrameBinds(cache', dict', f)
        BY <2>1, <2>5, <2>6, OldFrame DEF Fits
      <3>2. Statement(f).op \notin {"assign", "import", "from"}
        BY <2>3
      <3> QED BY <2>1, <2>3, <2>4, <3>1, <3>2, OnwardBinds
    <2> HIDE DEF g
    <2>9. OnlyNew(stack, g, stack')
      BY <2>1, <2>3, <2>7, TopNew DEF Fits
    <2>10. FramesBind(cache', dict', stack')
      BY <2>5, <2>6, <2>8, <2>9, FramesNext DEF BindInv
    <2>11. TablesAgree(registry', cache')
      <3>1. ~FromSource(n)
        BY <2>1, <2>3, <2>4, AddedName DEF FrameBinds
      <3>2. registry'[n] = x /\ \A k \in Names : k # n => registry'[k] = registry[k]
        BY <2>1, <2>3, <2>4 DEF ModulesTyped
      <3>3. \A k \in Names : cache[k] # x
        BY <2>2 DEF Unused
      <3>4. TablesAgree(registry, cache) /\ cache' = cache
        BY <2>3 DEF BindInv
      <3> HIDE DEF n
      <3> QED BY <3>1, <3>2, <3>3, <3>4 DEF TablesAgree
    <2>12. FinishedBind(cache', dict', finished')
      BY <2>3, <2>5, <2>6, KeptBound DEF BindInv
    <2> QED BY <2>3, <2>10, <2>11, <2>12, BindNext
  <1> QED BY <1>1, <1>2

-----------------------------------------------------------------------------
(* The actions that register a module.                                      *)
LEMMA InitReturnsBinds ==
  ASSUME ImportInv, BindInv, NEW t \in Threads, stack[t] # <<>>, InitReturns(t)
  PROVE  BindInv'
  <1> DEFINE f == Top(t)
             b == Below(t)
             n == f.name
             x == f.mod
             g == Received(b, x)
  <1>1. /\ f.kind = "c" /\ UNCHANGED <<program, cache, dict, finished>>
        /\ registry' = [registry EXCEPT ![n] = x]
    BY DEF InitReturns, Register
  <1>2. /\ b \in FrameSet /\ Fits(b) /\ FrameBinds(cache, dict, b) /\ Awaits(b, f)
        /\ b.todo # <<>> /\ Head(b.todo) = n /\ Len(stack[t]) # 1 /\ x \in Mods /\ n \in Names
    BY <1>1, BelowBinds
  <1>3. Dropped(t, g)
    <2> DEFINE h == Received(stack[t][Len(stack[t]) - 1], f.mod)
               rest == SubSeq(stack[t], 1, Len(stack[t]) - 2)
    <2>1. stack' = [stack EXCEPT ![t] = IF Len(stack[t]) = 1 THEN <<>> ELSE Append(rest, h)]
      BY Zenon DEF InitReturns, Pop
    <2>2. h = g
      BY DEF Below
    <2> HIDE DEF h, g
    <2>3. stack' = [stack EXCEPT ![t] = Append(rest, g)]
      BY <1>2, <2>1, <2>2
    <2> QED BY <2>3 DEF Dropped
  <1>4. b.stage = "find"
    BY <1>1, <1>2 DEF Awaits
  <1>5. ~FromSource(n) /\ \A k \in Names : cache[k] # x
    <2>1. CodeFits(f) /\ Cached(cache, f)
      BY TopBinds DEF FrameBinds
    <2> QED BY <1>1, <2>1 DEF CodeFits, Cached, FromSource
  <1>6. ModulesTyped /\ StacksFit
    BY DEF ImportInv
  <1> HIDE DEF f, b, x, n
  <1>7. Found(cache, n, x)
    BY <1>5 DEF Found
  <1>8. Fits(g) /\ FrameBinds(cache, dict, g)
    BY <1>2, <1>4, <1>7, ReceivedFits, ReceivedBinds
  <1> HIDE DEF g
  <1>9. OnlyNew(stack, g, stack')
    <2>1. Top(t).kind # "script"
      BY <1>1 DEF f
    <2> QED BY <1>3, <1>6, <1>8, <2>1, DropNew DEF Fits
  <1>10. CacheGrows /\ KeepsJoined
    BY <1>1 DEF CacheGrows, KeepsJoined
  <1>11. FramesBind(cache', dict', stack')
    BY <1>1, <1>8, <1>9, <1>10, FramesNext DEF BindInv
  <1>12. TablesAgree(registry', cache')
    <2>1. registry'[n] = x /\ \A k \in Names : k # n => registry'[k] = registry[k]
      BY <1>1, <1>2, <1>6 DEF ModulesTyped
    <2>2. TablesAgree(registry, cache) /\ cache' = cache
      BY <1>1 DEF BindInv
    <2> QED BY <1>5, <2>1, <2>2 DEF TablesAgree
  <1>13. FinishedBind(cache', dict', finished')
    BY <1>1 DEF BindInv
  <1> QED BY <1>1, <1>11, <1>12, <1>13, BindNext

(* A new module in both tables.                                             *)
LEMMA NewTables ==
  ASSUME ImportInv, BindInv, NEW n \in Names, NEW x \in Mods, Unused(x), cache[n] = Null,
         cache' = [cache EXCEPT ![n] = x], registry' = [registry EXCEPT ![n] = x]
  PROVE  TablesAgree(registry', cache') /\ CacheGrows /\ Found(cache', n, x) /\ cache'[n] = x
  <1>1. /\ registry'[n] = x /\ \A k \in Names : k # n => registry'[k] = registry[k]
        /\ cache'[n] = x /\ \A k \in Names : k # n => cache'[k] = cache[k]
    BY DEF ImportInv, ModulesTyped
  <1>2. (\A k \in Names : cache[k] # x /\ registry[k] # x) /\ ~InUse(stack, x) /\ x # Null
    BY ModulesAssumption DEF Unused
  <1>3. TablesAgree(registry, cache)
    BY DEF BindInv
  <1>4. TablesAgree(registry', cache')
    <2>1. \A k \in Names : FromSource(k) => registry'[k] = cache'[k]
      BY <1>1, <1>3 DEF TablesAgree
    <2>2. ASSUME NEW q \in Names, NEW k \in Names, registry'[q] # Null, registry'[q] = cache'[k]
          PROVE  q = k
      BY <1>1, <1>2, <1>3, <2>2 DEF TablesAgree
    <2>3. ASSUME NEW q \in Names, NEW k \in Names, cache'[q] # Null, cache'[q] = cache'[k]
          PROVE  q = k
      BY <1>1, <1>2, <1>3, <2>3 DEF TablesAgree
    <2> QED BY <2>1, <2>2, <2>3 DEF TablesAgree
  <1>5. CacheGrows
    BY <1>1, <1>2 DEF CacheGrows
  <1>6. Found(cache', n, x)
    BY <1>1, <1>2 DEF Found
  <1> QED BY <1>1, <1>4, <1>5, <1>6

LEMMA MakeBuiltinBinds ==
  ASSUME ImportInv, BindInv, NEW t \in Threads, stack[t] # <<>>, MakeBuiltin(t)
  PROVE  BindInv'
  <1> DEFINE f == Top(t)
             n == Head(f.todo)
             e == [Empty EXCEPT ![program.files[n].defines] = Data]
  <1>1. f \in FrameSet /\ Fits(f) /\ FrameBinds(cache, dict, f) /\ ModulesTyped /\ StacksFit
        /\ \A m : Uses(f, m) => InUse(stack, m)
    BY TopBinds
  <1>2. PICK x \in Mods : x = Fresh /\ Unused(x)
    BY FreshUnused DEF MakeBuiltin
  <1> DEFINE g == Received(f, x)
  <1>3. /\ f.stage = "source" /\ cache[n] = Null /\ cache' = [cache EXCEPT ![n] = x]
        /\ registry' = [registry EXCEPT ![n] = x]
        /\ dict' = [dict EXCEPT ![x] = e] /\ SetTop(t, g) /\ UNCHANGED <<program, finished>>
    BY <1>2 DEF MakeBuiltin, AtSource, Register
  <1> HIDE DEF f, e
  <1>4. f.todo # <<>> /\ n \in Names
    BY <1>1, <1>3, HeadAsked DEF Fits
  <1>5. TablesAgree(registry', cache') /\ CacheGrows /\ Found(cache', n, x)
    <2> HIDE DEF n
    <2> QED BY <1>2, <1>3, <1>4, NewTables
  <1>6. KeepsJoined /\ KeepsBound
    BY <1>2, <1>3, <1>5, NewDict
  <1>7. FrameBinds(cache', dict', f)
    BY <1>1, <1>5, <1>6, OldFrame DEF Fits
  <1>8. Fits(g) /\ FrameBinds(cache', dict', g)
    BY <1>1, <1>3, <1>4, <1>5, <1>7, ReceivedFits, ReceivedBinds
  <1> HIDE DEF g
  <1>9. OnlyNew(stack, g, stack')
    BY <1>1, <1>3, <1>8, TopNew DEF Fits
  <1>10. FramesBind(cache', dict', stack')
    BY <1>5, <1>6, <1>8, <1>9, FramesNext DEF BindInv
  <1>11. FinishedBind(cache', dict', finished')
    BY <1>3, <1>5, <1>6, KeptBound DEF BindInv
  <1> QED BY <1>3, <1>5, <1>10, <1>11, BindNext

LEMMA RunSourceBinds ==
  ASSUME ImportInv, BindInv, NEW t \in Threads, stack[t] # <<>>, RunSource(t)
  PROVE  BindInv'
  <1> DEFINE f == Top(t)
             n == Head(f.todo)
             code == program.files[n].body
  <1>1. f \in FrameSet /\ Fits(f) /\ ModulesTyped /\ StacksFit
    BY TopBinds
  <1>2. PICK x \in Mods : x = Fresh /\ Unused(x)
    BY FreshUnused DEF RunSource
  <1> DEFINE g == Frame("body", n, x, code)
  <1>3. /\ f.stage = "source" /\ cache[n] = Null /\ cache' = [cache EXCEPT ![n] = x]
        /\ registry' = [registry EXCEPT ![n] = x]
        /\ dict' = [dict EXCEPT ![x] = Empty] /\ Push(t, g) /\ UNCHANGED <<program, finished>>
    BY <1>2 DEF RunSource, AtSource, Register
  <1> HIDE DEF f
  <1>4. f.todo # <<>> /\ n \in Names
    BY <1>1, <1>3, HeadAsked DEF Fits
  <1>5. code \in Seq(Statements)
    BY <1>1, <1>4, FileCode
  <1>6. TablesAgree(registry', cache') /\ CacheGrows /\ cache'[n] = x
    <2> HIDE DEF n
    <2> QED BY <1>2, <1>3, <1>4, NewTables
  <1>7. KeepsJoined /\ KeepsBound
    BY <1>2, <1>3, <1>6, NewDict
  <1>8. FrameBinds(cache', dict', g) /\ g \in FrameSet
    <2>1. program.files[n].body = code
      OBVIOUS
    <2> HIDE DEF n, code
    <2>2. FrameBinds(cache', dict', g)
      BY <1>4, <1>5, <1>6, <2>1, NewFrameBinds
    <2>3. Starts(g, "body", n, x)
      BY <1>4, <1>5, ImportFrame
    <2> HIDE DEF g
    <2> QED BY <2>2, <2>3 DEF Starts, Fits
  <1> HIDE DEF g
  <1>9. OnlyNew(stack, g, stack')
    BY <1>1, <1>3, <1>8, PushNew
  <1>10. FramesBind(cache', dict', stack')
    BY <1>6, <1>7, <1>8, <1>9, FramesNext DEF BindInv
  <1>11. FinishedBind(cache', dict', finished')
    BY <1>3, <1>6, <1>7, KeptBound DEF BindInv
  <1> QED BY <1>3, <1>6, <1>10, <1>11, BindNext

-----------------------------------------------------------------------------
(* An assignment binds a variable, or a name of the module of C code.       *)
LEMMA AssignLocalBinds ==
  ASSUME ImportInv, BindInv, NEW t \in Threads, stack[t] # <<>>, Assign(t), ByVm(Top(t))
  PROVE  BindInv'
  <1> DEFINE f == Top(t)
             a == Statement(f).attr
             locals == [f.locals EXCEPT ![a] = Data]
             g == [f EXCEPT !.pc = @ + 1, !.locals = locals]
  <1>1. f \in FrameSet /\ Fits(f) /\ FrameBinds(cache, dict, f)
    BY TopBinds
  <1> HIDE DEF f
  <1>2. /\ f.stage = "run" /\ ~Ended(f) /\ f.kind # "c" /\ Statement(f).op = "assign"
        /\ SetTop(t, [[f EXCEPT !.pc = @ + 1] EXCEPT !.locals[a] = Data])
        /\ UNCHANGED <<program, registry, cache, dict, finished>>
    BY DEF Assign, ByVm, f
  <1>3. [[f EXCEPT !.pc = @ + 1] EXCEPT !.locals[a] = Data] = g
    BY <1>1 DEF FrameSet
  <1>4. a \in Attrs /\ f.pc \in DOMAIN f.code /\ f.locals \in [Attrs -> Values]
    BY <1>1, <1>2, AtStatement, FrameFields
  <1>5. locals \in [Attrs -> Values] /\ locals[a] = Data
        /\ \A k \in Attrs : k # a => locals[k] = f.locals[k]
    BY <1>4 DEF Values
  <1> HIDE DEF locals
  <1>6. Fits(g)
    BY <1>1, <1>2, <1>5, NextFits
  <1>7. Same(f, g) /\ g.code = f.code /\ g.pc = f.pc + 1 /\ g.stage = "run" /\ g.locals = locals
    BY <1>1, <1>2 DEF FrameSet, Same
  <1>8. SetTop(t, g)
    BY <1>2, <1>3
  <1> HIDE DEF g
  <1>9. BindsMore(f, g)
    BY <1>2, <1>5, <1>7, ModulesAssumption DEF BindsMore, BindsOne
  <1>10. ~Joins(f, f.pc)
    BY <1>2 DEF Joins, Statement
  <1>11. FrameBinds(cache, dict, g)
    BY <1>1, <1>4, <1>7, <1>9, <1>10, FrameAdvances
  <1> QED BY <1>2, <1>6, <1>8, <1>11, TopMoves DEF f

LEMMA AssignOwnBinds ==
  ASSUME ImportInv, BindInv, NEW t \in Threads, stack[t] # <<>>, Assign(t), ~ByVm(Top(t))
  PROVE  BindInv'
  <1> DEFINE f == Top(t)
             a == Statement(f).attr
             x == f.mod
             g == [f EXCEPT !.pc = @ + 1]
  <1>1. /\ f \in FrameSet /\ Fits(f) /\ FrameBinds(cache, dict, f) /\ ModulesTyped /\ StacksFit
        /\ \A m : Uses(f, m) => InUse(stack, m)
    BY TopBinds
  <1>2. /\ f.stage = "run" /\ ~Ended(f) /\ f.kind = "c" /\ SetTop(t, g)
        /\ dict' = [dict EXCEPT ![x][a] = Data]
        /\ UNCHANGED <<program, registry, cache, finished>>
    BY DEF Assign, ByVm
  <1> HIDE DEF f
  <1>3. a \in Attrs /\ f.pc \in DOMAIN f.code /\ x \in Mods
    BY <1>1, <1>2, AtStatement DEF Fits
  <1>4. \A k \in Names : cache[k] # x
    BY <1>1, <1>2 DEF FrameBinds, Cached
  <1>5. dict \in [Mods -> [Attrs -> Values]]
    BY <1>1 DEF ModulesTyped
  <1>6. \A m : m # x => dict'[m] = dict[m]
    BY <1>2
  <1>7. CacheGrows
    BY <1>2 DEF CacheGrows
  <1>8. KeepsJoined /\ KeepsBound
    <2>1. \A n \in Names : Parent[n] # Null => Parent[n] \in Names
      BY ModulesAssumption
    <2> HIDE DEF x
    <2>2. KeepsJoined
      BY <1>2, <1>4, <1>6, <2>1 DEF KeepsJoined, Joined
    <2> QED BY <1>4, <1>6, <2>2 DEF KeepsBound
  <1>9. FrameBinds(cache', dict', f)
    BY <1>1, <1>7, <1>8, OldFrame DEF Fits
  <1>10. Same(f, g) /\ g.code = f.code /\ g.pc = f.pc + 1 /\ g.stage = "run"
    BY <1>1, <1>2 DEF FrameSet, Same
  <1>11. Fits(g)
    BY <1>1, <1>2, OnwardFits
  <1> HIDE DEF g
  <1>12. ~ByVm(f)
    BY <1>2 DEF ByVm
  <1>13. FrameBinds(cache', dict', g)
    BY <1>1, <1>3, <1>9, <1>10, <1>12, FrameAdvances
  <1>14. OnlyNew(stack, g, stack')
    BY <1>1, <1>2, <1>11, TopNew DEF Fits
  <1> QED BY <1>2, <1>8, <1>13, <1>14, DictMoves

LEMMA AssignBinds ==
  ASSUME ImportInv, BindInv, NEW t \in Threads, stack[t] # <<>>, Assign(t)
  PROVE  BindInv'
  BY AssignLocalBinds, AssignOwnBinds

-----------------------------------------------------------------------------
(* A body that returns: its variables join the names of its module.         *)
LEMMA BodyReturnsBinds ==
  ASSUME ImportInv, BindInv, NEW t \in Threads, stack[t] # <<>>, BodyReturns(t)
  PROVE  BindInv'
  <1> DEFINE f == Top(t)
             b == Below(t)
             n == f.name
  <1>1. /\ f \in FrameSet /\ Fits(f) /\ FrameBinds(cache, dict, f) /\ ModulesTyped /\ StacksFit
    BY TopBinds
  <1>2. f.kind = "body" /\ f.stage = "run" /\ f.pc > Len(f.code)
    BY DEF BodyReturns, Ended
  <1>3. /\ b \in FrameSet /\ Fits(b) /\ FrameBinds(cache, dict, b) /\ Awaits(b, f)
        /\ b.todo # <<>> /\ Head(b.todo) = n /\ Len(stack[t]) # 1 /\ f.mod \in Mods /\ n \in Names
        /\ \A m : Uses(b, m) => InUse(stack, m)
    BY <1>2, BelowBinds
  <1>4. PICK x \in Mods : x = f.mod
    BY <1>3
  <1> DEFINE g == Received(b, x)
             after == WithLocals(dict[x], f.locals)
  <1>5. /\ dict' = [dict EXCEPT ![x] = after] /\ finished' = finished \cup {x}
        /\ Dropped(t, g) /\ UNCHANGED <<program, registry, cache>>
    <2> DEFINE h == Received(stack[t][Len(stack[t]) - 1], f.mod)
               rest == SubSeq(stack[t], 1, Len(stack[t]) - 2)
               more == WithLocals(dict[f.mod], f.locals)
    <2>1. /\ dict' = [dict EXCEPT ![f.mod] = more] /\ finished' = finished \cup {f.mod}
          /\ UNCHANGED <<program, registry, cache>>
          /\ stack' = [stack EXCEPT ![t] = IF Len(stack[t]) = 1 THEN <<>> ELSE Append(rest, h)]
      BY Zenon DEF BodyReturns, Pop
    <2>2. h = g
      BY <1>4 DEF Below
    <2> HIDE DEF h, g
    <2>3. stack' = [stack EXCEPT ![t] = Append(rest, g)]
      BY <1>3, <2>1, <2>2
    <2>4. dict' = [dict EXCEPT ![x] = after] /\ finished' = finished \cup {x}
      BY Zenon, <1>4, <2>1
    <2> QED BY <2>1, <2>3, <2>4 DEF Dropped
  <1>6. b.stage = "source"
    BY <1>2, <1>3 DEF Awaits
  <1> HIDE DEF f, b, n
  <1>7. cache[n] = x /\ f.code = program.files[n].body /\ CodeFits(f) /\ x # Null
    BY <1>1, <1>2, <1>4, ModulesAssumption DEF FrameBinds, Cached, CodeFits, n
  <1>8. TablesAgree(registry, cache) /\ FinishedBind(cache, dict, finished)
    BY DEF BindInv
  <1>9. dict \in [Mods -> [Attrs -> Values]] /\ f.locals \in [Attrs -> Values]
    BY <1>1, FrameFields DEF ModulesTyped
  <1>10. dict'[x] = after /\ \A m : m # x => dict'[m] = dict[m]
    BY <1>5, <1>9
  <1>11. /\ \A a \in Attrs : f.locals[a] # Null => after[a] # Null
         /\ \A a \in Attrs : f.locals[a] = Null => after[a] = dict[x][a]
         /\ \A a \in Attrs : dict[x][a] # Null => after[a] # Null
    BY DEF WithLocals
  <1> HIDE DEF after
  <1>12. CacheGrows
    BY <1>5 DEF CacheGrows
  <1>13. KeepsJoined
    <2> SUFFICES ASSUME NEW k \in Names, Parent[k] # Null, Settled(k), Joined(cache, dict, k)
                 PROVE  Joined(cache, dict', k)
      BY <1>5 DEF KeepsJoined
    <2>1. Parent[k] \in Names /\ Leaf[k] \in Attrs
      BY ModulesAssumption
    <2>2. CASE cache[Parent[k]] # x
      BY <1>10, <2>2 DEF Joined
    <2>3. CASE cache[Parent[k]] = x
      <3>1. Parent[k] = n
        BY <1>3, <1>7, <1>8, <2>1, <2>3 DEF TablesAgree
      <3>2. f.locals[Leaf[k]] = Null
        <4> SUFFICES ASSUME f.locals[Leaf[k]] # Null PROVE FALSE
          OBVIOUS
        <4>1. PICK i \in DOMAIN f.code :
                     f.code[i].op = "star" \/ (BindsOne(f.code[i]) /\ f.code[i].attr = Leaf[k])
          BY <1>1, <1>2, <2>1 DEF FrameBinds, OnlyBound
        <4>2. f.code[i] \in Range(program.files[Parent[k]].body)
          BY <1>7, <3>1 DEF Range
        <4> QED BY <4>1, <4>2 DEF Settled, BindsOne
      <3>3. dict'[x][Leaf[k]] = dict[x][Leaf[k]]
        BY <1>10, <1>11, <2>1, <3>2
      <3> QED BY <2>3, <3>3 DEF Joined
    <2> QED BY <2>2, <2>3
  <1>14. KeepsBound
    BY <1>10, <1>11 DEF KeepsBound
  <1>15. FrameBinds(cache', dict', b)
    BY <1>3, <1>12, <1>13, OldFrame DEF Fits
  <1>16. Found(cache', n, x)
    BY <1>3, <1>5, <1>7, <1>8, CachedFound DEF n
  <1>17. Fits(g) /\ FrameBinds(cache', dict', g)
    BY <1>3, <1>6, <1>15, <1>16, ReceivedFits, ReceivedBinds DEF n
  <1> HIDE DEF g
  <1>18. OnlyNew(stack, g, stack')
    <2>1. Top(t).kind # "script"
      BY <1>2 DEF f
    <2> QED BY <1>1, <1>3, <1>5, <1>17, <2>1, DropNew DEF Fits, f
  <1>19. FramesBind(cache', dict', stack')
    BY <1>12, <1>13, <1>17, <1>18, FramesNext DEF BindInv
  <1>20. TablesAgree(registry', cache')
    BY <1>5, <1>8
  <1>21. Complete(dict', n, x)
    <2> SUFFICES ASSUME NEW i \in DOMAIN f.code, BindsOne(f.code[i]), ~f.code[i].guarded
                 PROVE  dict'[x][f.code[i].attr] # Null
      BY <1>7 DEF Complete
    <2>1. f.code \in Seq(Statements) /\ f.pc \in Nat
      BY <1>1, FrameFields
    <2>2. i \in 1 .. f.pc - 1
      BY <1>2, <2>1
    <2>3. f.locals[f.code[i].attr] # Null /\ f.code[i].attr \in Attrs
      BY <1>1, <1>2, <2>2, StatementAt DEF FrameBinds, HasBound, ByVm
    <2> QED BY <1>10, <1>11, <2>3
  <1>22. FinishedBind(cache', dict', finished')
    <2>1. FinishedBind(cache, dict', finished)
      BY <1>5, <1>8, <1>12, <1>14, KeptBound
    <2>2. ASSUME NEW k \in Names, cache[k] = x PROVE k = n
      BY <1>3, <1>7, <1>8, <2>2 DEF TablesAgree, n
    <2> HIDE DEF n
    <2>3. n \in Names
      BY <1>3
    <2>4. ASSUME NEW k \in Names, cache[k] \in finished \cup {x} PROVE Complete(dict', k, cache[k])
      BY <1>7, <1>21, <2>1, <2>2, <2>4 DEF FinishedBind
    <2> QED BY <1>5, <1>7, <2>1, <2>3, <2>4 DEF FinishedBind
  <1> QED BY <1>5, <1>19, <1>20, <1>22, BindNext

-----------------------------------------------------------------------------
(* What an import that has every module binds.                              *)
(* The chain holds the modules of the path to the imported name.            *)
LEMMA ChainFound ==
  ASSUME NEW f \in FrameSet, Asks(cache, f), ByVm(f), f.pc \in DOMAIN f.code,
         f.stage = "find", f.todo = <<>>, f.got # <<>>
  PROVE  LET names == Path(Statement(f).name) IN
         /\ Len(Chain(f)) = Len(names)
         /\ \A i \in 1 .. Len(names) : names[i] \in Names /\ Found(cache, names[i], Chain(f)[i])
  <1> DEFINE n == Statement(f).name
             names == Path(n)
             asked == Asked(n)
             chain == Chain(f)
             k == Len(Ancestors[n])
  <1>1. n \in Names
    BY StatementAt DEF Statement
  <1>2. f.got \in Seq(Mods) /\ Len(f.got) \in Nat /\ DOMAIN f.got = 1 .. Len(f.got) /\ Len(f.todo) = 0
    BY FrameFields
  <1>3. /\ Len(f.got) + Len(f.todo) = Len(asked)
        /\ \A j \in DOMAIN f.got : Found(cache, asked[j], f.got[j])
    BY DEF Asks
  <1>4. /\ Len(asked) = k + 1 /\ asked[1] = n /\ \A i \in 1 .. k : asked[i + 1] = Ancestors[n][i]
    BY <1>1, AskedFields
  <1>5. /\ k \in Nat /\ Len(names) = k + 1 /\ names[k + 1] = n /\ names \in Seq(Names)
        /\ \A i \in 1 .. k : names[i] = Ancestors[n][i]
    BY <1>1, PathFields
  <1>6. /\ Len(chain) = Len(f.got) /\ chain[Len(f.got)] = f.got[1]
        /\ \A i \in 1 .. Len(f.got) - 1 : chain[i] = f.got[i + 1]
    BY ChainParts
  <1> HIDE DEF n, names, asked, chain, k
  <1>7. Len(f.got) = k + 1 /\ Len(chain) = k + 1
    BY <1>2, <1>3, <1>4, <1>5, <1>6
  <1>8. Len(f.got) - 1 = k
    BY <1>5, <1>7
  <1>9. ASSUME NEW i \in 1 .. k + 1 PROVE Found(cache, names[i], chain[i])
    <2>1. CASE i = k + 1
      <3>1. 1 \in 1 .. k + 1
        BY <1>5
      <3> QED BY <1>2, <1>3, <1>4, <1>5, <1>6, <1>7, <2>1, <3>1
    <2>2. CASE i # k + 1
      <3>1. i \in 1 .. k /\ i + 1 \in 1 .. k + 1
        BY <1>5, <2>2
      <3> QED BY <1>2, <1>3, <1>4, <1>5, <1>6, <1>7, <1>8, <3>1
    <2> QED BY <2>1, <2>2
  <1>10. \A i \in 1 .. Len(names) : names[i] \in Names
    BY <1>5
  <1> QED BY <1>5, <1>7, <1>9, <1>10 DEF n, names, chain

(* A name that Bound sets to a submodule is bound to that submodule.        *)
LEMMA BoundSubmodule ==
  ASSUME ImportInv, NEW f \in FrameSet, Asks(cache, f), ByVm(f), f.pc \in DOMAIN f.code,
         f.stage = "find", f.todo = <<>>, f.got # <<>>,
         NEW k \in Names, Parent[k] # Null, Settled(k), cache[Parent[k]] \in Mods,
         NEW i \in 1 .. Len(Chain(f)) - 1, BindsAt(f, i, cache[Parent[k]], Leaf[k])
  PROVE  Chain(f)[i + 1] = cache[k]
  <1> DEFINE n == Statement(f).name
             names == Path(n)
             chain == Chain(f)
  <1>1. n \in Names
    BY StatementAt DEF Statement
  <1>2. /\ Len(chain) = Len(names)
        /\ \A j \in 1 .. Len(names) : names[j] \in Names /\ Found(cache, names[j], chain[j])
    BY ChainFound
  <1>3. \A j \in 1 .. Len(names) - 1 : Parent[names[j + 1]] = names[j]
    BY <1>1, PathSteps DEF Steps
  <1>4. Parent[k] \in Names
    BY ModulesAssumption
  <1>5. chain[i] = cache[Parent[k]] /\ Leaf[names[i + 1]] = Leaf[k]
    BY DEF BindsAt
  <1>6. Len(names) \in Nat
    BY <1>1, PathFields
  <1> HIDE DEF n, names, chain
  <1>7. i \in 1 .. Len(names) - 1 /\ i \in 1 .. Len(names) /\ i + 1 \in 1 .. Len(names)
    BY <1>2, <1>6 DEF chain
  <1>8. names[i] = Parent[k]
    BY <1>2, <1>4, <1>5, <1>7 DEF Found
  <1>9. names[i + 1] = k
    BY <1>2, <1>3, <1>5, <1>7, <1>8, NamesAssumption
  <1> QED BY <1>2, <1>7, <1>9 DEF Found, Settled, chain

(* An import of a submodule leaves it bound in its package.                 *)
LEMMA ImportJoins ==
  ASSUME ImportInv, NEW f \in FrameSet, Asks(cache, f), ByVm(f), f.pc \in DOMAIN f.code,
         f.stage = "find", f.todo = <<>>, f.got # <<>>,
         NEW n \in Names, n = Statement(f).name, Parent[n] # Null, Settled(n)
  PROVE  Joined(cache, Bound(f), n)
  <1> DEFINE names == Path(n)
             chain == Chain(f)
             k == Len(Ancestors[n])
             p == Parent[n]
  <1>1. /\ Len(chain) = Len(names)
        /\ \A j \in 1 .. Len(names) : names[j] \in Names /\ Found(cache, names[j], chain[j])
    BY ChainFound
  <1>2. \A j \in 1 .. Len(names) - 1 : Parent[names[j + 1]] = names[j]
    BY PathSteps DEF Steps
  <1>3. p \in Names /\ Leaf[n] \in Attrs
    BY ModulesAssumption
  <1>4. k \in Nat /\ Len(names) = k + 1 /\ names[k + 1] = n
    BY PathFields
  <1>5. k # 0
    <2> DEFINE s == Ancestors[p]
    <2>1. s \in Seq(Names) /\ Ancestors[n] = Append(s, p)
      BY <1>3, AncestorsSolves DEF OuterFrom
    <2> HIDE DEF s, p
    <2>2. Len(Append(s, p)) = Len(s) + 1 /\ Len(s) \in Nat
      BY <1>3, <2>1, AppendProperties
    <2> QED BY <2>1, <2>2
  <1>6. chain \in Seq(Mods) /\ DOMAIN chain = 1 .. Len(chain)
    BY ChainModules
  <1> HIDE DEF names, chain, k
  <1>7. k \in 1 .. Len(names) - 1 /\ k \in 1 .. Len(names) /\ k + 1 \in 1 .. Len(names)
    BY <1>4, <1>5
  <1>8. names[k] = p
    BY <1>2, <1>4, <1>7
  <1>9. chain[k] = cache[p] /\ chain[k + 1] = cache[n]
    BY <1>1, <1>4, <1>7, <1>8 DEF Found, Settled
  <1>10. chain[k] \in Mods /\ chain[k + 1] \in Mods
    BY <1>1, <1>6, <1>7
  <1>11. cache[p] \in Mods /\ cache[n] \in Mods
    BY <1>9, <1>10
  <1>12. BindsAt(f, k, cache[p], Leaf[n])
    BY <1>4, <1>9 DEF BindsAt, chain, names
  <1>13. k \in 1 .. Len(Chain(f)) - 1
    BY <1>1, <1>7 DEF chain
  <1>14. PICK i \in 1 .. Len(Chain(f)) - 1 :
                BindsAt(f, i, cache[p], Leaf[n]) /\ Bound(f)[cache[p]][Leaf[n]] = Chain(f)[i + 1]
    <2> DEFINE m == cache[p]
               a == Leaf[n]
    <2>1. m \in Mods /\ a \in Attrs /\ BindsAt(f, k, m, a)
      BY <1>3, <1>11, <1>12
    <2> HIDE DEF m, a
    <2>2. \E i \in 1 .. Len(Chain(f)) - 1 : BindsAt(f, i, m, a) /\ Bound(f)[m][a] = Chain(f)[i + 1]
      BY <1>13, <2>1, BoundValue
    <2> QED BY <2>2 DEF m, a
  <1>15. Chain(f)[i + 1] = cache[n]
    BY <1>11, <1>14, BoundSubmodule
  <1> QED BY <1>11, <1>14, <1>15, ModulesAssumption DEF Joined

(* The frame once the statement has bound what it names.                    *)
LEMMA BindingsBind ==
  ASSUME NEW f \in FrameSet, f.got # <<>>, f.pc \in DOMAIN f.code,
         Statement(f).op \in {"import", "from", "star"}, NEW d, ~Missing(f, d),
         NEW g, g.locals = Bindings(f, d)
  PROVE  BindsMore(f, g)
  <1> DEFINE s == Statement(f)
             h == Head(Chain(f))
             e == d[Head(f.got)]
             l == f.locals
  <1>1. h \in Mods /\ h # Null
    BY ChainModules, ModulesAssumption
  <1>2. s.attr \in Attrs /\ l \in [Attrs -> Values]
    BY StatementAt, FrameFields DEF Statement
  <1>3. s.op = "from" => e[s.attr] # Null
    BY DEF Missing
  <1>4. Bindings(f, d) = CASE s.op = "import" -> [l EXCEPT ![s.attr] = h]
                           [] s.op = "from" -> [l EXCEPT ![s.attr] = e[s.attr]]
                           [] s.op = "star" -> [a \in Attrs |-> IF a \in Exported(s.name, e)
                                                                THEN e[a] ELSE l[a]]
    BY DEF Bindings
  <1>5. \A a \in Exported(s.name, e) : e[a] # Null
    BY DEF Exported
  <1> HIDE DEF s, h, e, l
  <1>6. s.op \in {"import", "from", "star"}
    BY DEF s
  <1> DEFINE m == g.locals
  <1>7. /\ \A a \in Attrs : l[a] # Null => m[a] # Null
        /\ s.op \in {"import", "from"} => m[s.attr] # Null
        /\ \A a \in Attrs : m[a] # Null => l[a] # Null \/ s.op = "star"
                                            \/ (s.op \in {"import", "from"} /\ s.attr = a)
    <2>1. m = Bindings(f, d)
      OBVIOUS
    <2> HIDE DEF m
    <2>2. CASE s.op = "import"
      <3>1. m = [l EXCEPT ![s.attr] = h]
        BY <1>4, <2>1, <2>2
      <3> QED BY <1>1, <1>2, <2>2, <3>1
    <2>3. CASE s.op = "from"
      <3>1. m = [l EXCEPT ![s.attr] = e[s.attr]]
        BY <1>4, <2>1, <2>3
      <3> QED BY <1>2, <1>3, <2>3, <3>1
    <2>4. CASE s.op = "star"
      <3>1. m = [a \in Attrs |-> IF a \in Exported(s.name, e) THEN e[a] ELSE l[a]]
        BY <1>4, <2>1, <2>4
      <3> QED BY <1>5, <2>4, <3>1
    <2> QED BY <1>6, <2>2, <2>3, <2>4
  <1>8. BindsOne(s) => s.op \in {"import", "from"}
    BY <1>6 DEF BindsOne
  <1>9. s.op \in {"import", "from"} => BindsOne(s)
    BY DEF BindsOne
  <1> QED BY <1>7, <1>8, <1>9 DEF BindsMore, s, l

(* The dicts once the interpreter has bound the submodules.                 *)
LEMMA BoundKeeps ==
  ASSUME ImportInv, BindInv, NEW f \in FrameSet, Asks(cache, f), ByVm(f), f.pc \in DOMAIN f.code,
         f.stage = "find", f.todo = <<>>, f.got # <<>>,
         UNCHANGED <<cache, finished>>, dict' = Bound(f)
  PROVE  KeepsJoined /\ KeepsBound
  <1>1. /\ Chain(f) \in Seq(Mods) /\ Len(Chain(f)) \in Nat \ {0}
        /\ DOMAIN Chain(f) = 1 .. Len(Chain(f))
    BY ChainModules
  <1>2. \A i \in 1 .. Len(Chain(f)) - 1 : Chain(f)[i + 1] \in Mods
    <2> DEFINE c == Chain(f)
               l == Len(c)
    <2>1. l \in Nat /\ c \in Seq(Mods) /\ DOMAIN c = 1 .. l
      BY <1>1
    <2> HIDE DEF c, l
    <2>2. \A i \in 1 .. l - 1 : i + 1 \in 1 .. l
      BY <2>1
    <2>3. \A i \in 1 .. l - 1 : c[i + 1] \in Mods
      BY <2>1, <2>2
    <2> QED BY <2>3 DEF c, l
  <1>3. cache \in [Names -> Mods \cup {Null}] /\ finished \subseteq Mods
    BY DEF ImportInv, ModulesTyped
  <1>4. KeepsJoined
    <2> SUFFICES ASSUME NEW k \in Names, Parent[k] # Null, Settled(k), Joined(cache, dict, k)
                 PROVE  Joined(cache, Bound(f), k)
      BY DEF KeepsJoined
    <2> DEFINE m == cache[Parent[k]]
               a == Leaf[k]
    <2>1. Parent[k] \in Names /\ a \in Attrs
      BY ModulesAssumption
    <2>2. m \in Mods
      BY <1>3, <2>1 DEF Joined
    <2>3. \A i \in 1 .. Len(Chain(f)) - 1 : BindsAt(f, i, m, a) => Chain(f)[i + 1] = cache[k]
      BY <2>2, BoundSubmodule
    <2>4. dict[m][a] = cache[k]
      BY DEF Joined
    <2> HIDE DEF m, a
    <2>5. Bound(f)[m][a] = cache[k]
      BY <2>1, <2>2, <2>3, <2>4, BoundValue
    <2> QED BY <2>5 DEF Joined, m, a
  <1>5. KeepsBound
    <2> SUFFICES ASSUME NEW n \in Names, NEW a \in Attrs, cache[n] \in finished,
                        dict[cache[n]][a] # Null
                 PROVE  Bound(f)[cache[n]][a] # Null
      BY DEF KeepsBound
    <2> DEFINE m == cache[n]
    <2>1. m \in Mods /\ dict[m][a] # Null
      BY <1>3
    <2> HIDE DEF m
    <2>2. Bound(f)[m][a] # Null
      BY <1>2, <2>1, BoundValue, ModulesAssumption
    <2> QED BY <2>2 DEF m
  <1> QED BY <1>4, <1>5

LEMMA FinishImportBinds ==
  ASSUME ImportInv, BindInv, NEW t \in Threads, stack[t] # <<>>, FinishImport(t)
  PROVE  BindInv'
  <1> DEFINE f == Top(t)
             d == IF ByVm(f) THEN Bound(f) ELSE dict
             g1 == [f EXCEPT !.pc = @ + 1, !.stage = "run", !.got = <<>>]
             g2 == [f EXCEPT !.pc = @ + 1, !.stage = "run", !.got = <<>>, !.locals = Bindings(f, d)]
             g == CASE ~ByVm(f) -> g1 [] ByVm(f) /\ Missing(f, d) -> Failed(f) [] OTHER -> g2
  <1>1. /\ f \in FrameSet /\ Fits(f) /\ FrameBinds(cache, dict, f) /\ ModulesTyped /\ StacksFit
        /\ \A m : Uses(f, m) => InUse(stack, m)
    BY TopBinds
  <1>2. /\ f.stage = "find" /\ f.todo = <<>> /\ SetTop(t, g) /\ dict' = d
        /\ UNCHANGED <<program, registry, cache, finished>>
    BY DEF FinishImport
  <1>3. FramesBind(cache, dict, stack)
    BY DEF BindInv
  <1> HIDE DEF f
  <1>4. f.got # <<>> /\ f.pc \in DOMAIN f.code /\ Statement(f).op \in {"import", "from", "star"}
    BY <1>1, <1>2 DEF Fits
  <1>5. CacheGrows
    BY <1>2 DEF CacheGrows
  <1>6. KeepsJoined /\ KeepsBound
    <2>1. CASE ByVm(f)
      <3>1. dict' = Bound(f)
        BY <1>2, <2>1
      <3> HIDE DEF d
      <3> QED BY <1>1, <1>2, <1>4, <2>1, <3>1, BoundKeeps DEF FrameBinds
    <2>2. CASE ~ByVm(f)
      <3>1. dict' = dict
        BY <1>2, <2>2
      <3> HIDE DEF d
      <3> QED BY <1>2, <3>1 DEF KeepsJoined, KeepsBound
    <2> QED BY <2>1, <2>2
  <1>7. FrameBinds(cache', dict', f)
    BY <1>1, <1>5, <1>6, OldFrame DEF Fits
  <1>8. ByVm(f) /\ Joins(f, f.pc) => Joined(cache', dict', Statement(f).name)
    <2> SUFFICES ASSUME ByVm(f), Joins(f, f.pc) PROVE Joined(cache, d, Statement(f).name)
      BY <1>2
    <2> DEFINE n == Statement(f).name
    <2>1. n \in Names
      BY <1>1, <1>4, StatementAt DEF Statement
    <2>2. Parent[n] # Null /\ Settled(n)
      BY DEF Joins, Statement
    <2>3. d = Bound(f)
      OBVIOUS
    <2> HIDE DEF d
    <2>4. n = Statement(f).name
      OBVIOUS
    <2> HIDE DEF n
    <2>5. Joined(cache, Bound(f), n)
      BY <1>1, <1>2, <1>4, <2>1, <2>2, <2>4, ImportJoins DEF FrameBinds
    <2> QED BY <2>3, <2>4, <2>5
  <1>9. ByVm(f) => d \in [Mods -> [Attrs -> Values]]
    BY <1>1, <1>4, BoundTyped
  <1> HIDE DEF d
  <1>10. g \in FrameSet /\ FrameBinds(cache', dict', g)
    <2>1. CASE ~ByVm(f)
      <3>1. g = g1
        BY <2>1
      <3>2. /\ Same(f, g1) /\ g1.code = f.code /\ g1.pc = f.pc + 1 /\ g1.stage = "run"
        BY <1>1 DEF FrameSet, Same
      <3>3. g1 \in FrameSet
        <4>1. f.pc + 1 \in Nat \ {0} /\ <<>> \in Seq(Mods)
          BY <1>1, FrameFields, EmptySeq
        <4> QED BY <1>1, <4>1 DEF FrameSet
      <3> HIDE DEF g, g1
      <3>4. FrameBinds(cache', dict', g1)
        BY <1>1, <1>4, <1>7, <2>1, <3>2, FrameAdvances
      <3> QED BY <3>1, <3>3, <3>4
    <2>2. CASE ByVm(f) /\ Missing(f, d)
      <3>1. g = Failed(f)
        BY <2>2
      <3> HIDE DEF g
      <3>2. Fits(Failed(f)) /\ FrameBinds(cache', dict', Failed(f))
        BY <1>1, <1>4, <1>7, FailedFits, FailedBinds
      <3> QED BY <3>1, <3>2 DEF Fits
    <2>3. CASE ByVm(f) /\ ~Missing(f, d)
      <3>1. g = g2
        BY <2>3
      <3> DEFINE l == Bindings(f, d)
      <3>2. l \in [Attrs -> Values]
        BY <1>1, <1>4, <1>9, <2>3, BindingsTyped
      <3>3. /\ Same(f, g2) /\ g2.code = f.code /\ g2.pc = f.pc + 1 /\ g2.stage = "run"
            /\ g2.locals = l
        BY <1>1 DEF FrameSet, Same
      <3>4. g2 \in FrameSet
        <4>1. f.kind = "c" => l = Empty
          BY <2>3 DEF ByVm
        <4>2. g2 = [f EXCEPT !.pc = @ + 1, !.stage = "run", !.got = <<>>, !.locals = l]
          OBVIOUS
        <4> HIDE DEF l, g2
        <4>3. Fits(g2)
          BY <1>1, <1>2, <3>2, <4>1, <4>2, FinishedFits
        <4> QED BY <4>3 DEF Fits
      <3> HIDE DEF g, g2
      <3>5. BindsMore(f, g2)
        BY <1>1, <1>4, <2>3, <3>3, BindingsBind
      <3> HIDE DEF l
      <3>6. FrameBinds(cache', dict', g2)
        BY <1>1, <1>4, <1>7, <1>8, <3>3, <3>5, FrameAdvances
      <3> QED BY <3>1, <3>4, <3>6
    <2> QED BY <2>1, <2>2, <2>3
  <1> HIDE DEF g
  <1>11. OnlyNew(stack, g, stack')
    BY <1>1, <1>2, <1>10, TopNew
  <1> QED BY <1>2, <1>6, <1>10, <1>11, DictMoves

-----------------------------------------------------------------------------
LEMMA BindInit ==
  ASSUME ImportInit
  PROVE  BindInv
  <1>1. /\ program \in Programs /\ finished = {}
        /\ stack = [t \in Threads |-> <<Frame("script", Null, Null, program.scripts[t])>>]
        /\ registry = [n \in Names |-> Null] /\ cache = [n \in Names |-> Null]
    BY DEF ImportInit
  <1>2. ASSUME NEW t \in Threads, NEW i \in DOMAIN stack[t]
        PROVE  FrameBinds(cache, dict, stack[t][i])
    <2> DEFINE code == program.scripts[t]
               f == Frame("script", Null, Null, code)
    <2>1. code \in Seq(Statements)
      BY <1>1, ProgramsAssumption
    <2>2. f.kind = "script" /\ f.code = code /\ f.pc = 1 /\ f.stage = "run"
      BY DEF Frame
    <2>3. stack[t][i] = f
      <3>1. stack[t] = <<f>>
        BY <1>1
      <3> HIDE DEF f
      <3> QED BY <3>1
    <2> HIDE DEF f
    <2>4. CodeFits(f)
      <3>1. Len(code) \in Nat /\ f.code = program.scripts[t]
        BY <2>1, <2>2
      <3> HIDE DEF code
      <3>2. 1 <= Len(code) + 1
        BY <3>1
      <3> QED BY <2>2, <3>1, <3>2 DEF CodeFits
    <2>5. \A j \in 1 .. f.pc - 1 : FALSE
      BY <2>2
    <2>6. Cached(cache, f) /\ OnlyBound(f) /\ Asks(cache, f)
      BY <2>2 DEF Cached, OnlyBound, Asks
    <2>7. HasBound(f) /\ HasJoined(cache, dict, f)
      BY <2>5 DEF HasBound, HasJoined
    <2> QED BY <2>3, <2>4, <2>6, <2>7 DEF FrameBinds
  <1>3. FramesBind(cache, dict, stack)
    BY <1>2 DEF FramesBind
  <1>4. TablesAgree(registry, cache)
    BY <1>1 DEF TablesAgree
  <1>5. FinishedBind(cache, dict, finished)
    BY <1>1 DEF FinishedBind
  <1> QED BY <1>3, <1>4, <1>5 DEF BindInv

LEMMA BindStep ==
  ASSUME ImportInv, BindInv, [ImportNext]_importVars
  PROVE  BindInv'
  <1>1. CASE ImportNext
    <2>1. gil \in Threads /\ stack[gil] # <<>> /\ Step(gil)
      BY <1>1 DEF ImportNext, ImportInv, ModulesTyped
    <2>2. PICK t \in Threads : t = gil
      BY <2>1
    <2>3. stack[t] # <<>> /\ Step(t)
      BY <2>1, <2>2
    <2> QED
      BY <2>3, BeginImportBinds, FindLoadedBinds, LoadExtensionBinds, NoExtensionBinds,
         InitReturnsBinds, InitFailsBinds, SourceCachedBinds, MakeBuiltinBinds, NoSourceBinds,
         RunSourceBinds, BodyReturnsBinds, BodyFailsBinds, FinishImportBinds, AssignBinds,
         RaiseBinds, SucceedBinds, YieldBinds, AddModuleBinds, EndThreadBinds DEF Step
  <1>2. CASE UNCHANGED importVars
    <2>1. program' = program /\ UNCHANGED <<stack, registry, cache, dict, finished>>
      BY <1>2 DEF importVars
    <2> QED BY <2>1, BindNext DEF BindInv
  <1> QED BY <1>1, <1>2

(* A finished module is the one its name is cached under, and a submodule   *)
(* that is joined to its package is the registered one.                     *)
LEMMA BindInvBinds ==
  ASSUME ImportInv, BindInv
  PROVE  ImportsBind
  <1>1. TablesAgree(registry, cache) /\ FinishedBind(cache, dict, finished)
    BY DEF BindInv
  <1>2. FinishedComplete
    <2> SUFFICES ASSUME NEW n \in Names, registry[n] \in finished
                 PROVE  Complete(dict, n, registry[n])
      BY DEF FinishedComplete, Complete, BindsOne
    <2>1. PICK k \in Names : cache[k] = registry[n]
      BY <1>1 DEF FinishedBind
    <2>2. registry[n] # Null
      BY ModulesAssumption DEF ImportInv, ModulesTyped
    <2>3. k = n
      BY <1>1, <2>1, <2>2 DEF TablesAgree
    <2> QED BY <1>1, <2>1, <2>3 DEF FinishedBind
  <1>3. SubmodulesBound
    <2>1. ASSUME NEW f \in Frames, NEW i \in 1 .. f.pc - 1, ByVm(f),
                 f.code[i].op \in {"import", "from"}, ~f.code[i].guarded,
                 Parent[f.code[i].name] # Null, Settled(f.code[i].name)
          PROVE  dict[registry[Parent[f.code[i].name]]][Leaf[f.code[i].name]]
                     = registry[f.code[i].name]
      <3>1. PICK t \in Threads : f \in Range(stack[t])
        BY DEF Frames
      <3>2. PICK j \in DOMAIN stack[t] : f = stack[t][j]
        BY <3>1 DEF Range
      <3>3. Fits(stack[t][j])
        BY DEF ImportInv, StacksFit, StackFits
      <3>4. FrameBinds(cache, dict, stack[t][j])
        BY DEF BindInv, FramesBind
      <3>5. f \in FrameSet /\ CodeFits(f) /\ HasJoined(cache, dict, f)
        BY <3>2, <3>3, <3>4 DEF Fits, FrameBinds
      <3> DEFINE n == f.code[i].name
      <3>6. n \in Names
        BY <3>5, StatementsRun
      <3>7. Joined(cache, dict, n)
        BY <2>1, <3>5 DEF HasJoined, Joins
      <3>8. Parent[n] \in Names /\ FromSource(n) /\ FromSource(Parent[n])
        BY <2>1, <3>6, ModulesAssumption DEF Settled
      <3> HIDE DEF n
      <3>9. dict[registry[Parent[n]]][Leaf[n]] = registry[n]
        BY <1>1, <3>6, <3>7, <3>8 DEF Joined, TablesAgree
      <3> QED BY <3>9 DEF n
    <2> QED BY <2>1 DEF SubmodulesBound
  <1> QED BY <1>2, <1>3 DEF ImportsBind

LEMMA BindAlways ==
  ImportInit /\ [][ImportNext]_importVars => []ImportsBind
  <1>1. ImportInit => ImportInv /\ BindInv
    BY ImportInitInv, BindInit
  <1>2. (ImportInv /\ BindInv) /\ [ImportNext]_importVars => (ImportInv /\ BindInv)'
    BY ImportNextInv, BindStep
  <1>3. ImportInv /\ BindInv => ImportsBind
    BY BindInvBinds
  <1> QED BY <1>1, <1>2, <1>3, PTL

(* A module whose body ran to its end has every name the body binds, under  *)
(* whichever name it is imported; and once `import a.b` of Python modules   *)
(* has succeeded in a frame, a has b as its attribute, however the imports  *)
(* of other frames and threads interleave with its own, fail or end.        *)
THEOREM ImportsKeepBinding == ImportSpec => []ImportsBind
  BY BindAlways, PTL DEF ImportSpec
=============================================================================
