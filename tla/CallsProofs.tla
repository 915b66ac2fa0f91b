------------------------------ MODULE CallsProofs ------------------------------
(***************************************************************************)
(* Proofs about Calls, for any programs, names and depth limit: a call     *)
(* binds its arguments as Python does, a use of a name finds the variable  *)
(* Python means, and call_depth counts the calls that run.                 *)
(*                                                                         *)
(* None is inductive alone.  Arguments are bound by what the frames and    *)
(* functions hold (Shapes, CellsMade); call_depth is that of the VM of the *)
(* frame on top, which must be the last (Stacked), and goes down with the  *)
(* frames that counted it (Accounted).  Names are of frames that do not    *)
(* run as well: their locals are their scopes' variables (LocalGood), their*)
(* copies of other names are of variables that were written once           *)
(* (CopyGood, AroundGood), the functions that share variables use one cell *)
(* map for each call of the one that owns them (MapsGood, TakenGood), whose*)
(* cells are those variables once a function has taken them (CellGood).    *)
(***************************************************************************)
EXTENDS Calls, RecursionProofs, FiniteSetTheorems, SequenceTheorems

USE CallAssumption

(* What variables and the parameters * and ** hold.                        *)
VmValues == Passable \cup {Null} \cup Seq(Passable) \cup SUBSET Identifiers

Locals == [Identifiers -> VmValues]

VmFrame == [code : Codes, locals : Locals, globals : Locals, cells : Nat, scope : Nat,
          generator : Nat, vm : Nat \ {0}, known : SUBSET (Nat \X Identifiers), until : Nat]

Function == [code : Codes, globals : Locals, cells : Nat, scope : Nat,
             known : SUBSET (Nat \X Identifiers)]

Generator == [frame : VmFrame, state : {"ready", "running", "done"}]

Scope == [code : Codes, inside : Nat,
          vars : [Identifiers -> [value : VmValues, first : Nat, once : BOOLEAN, foreign : BOOLEAN]]]

Shapes ==
    /\ source \in Sources /\ stores \in Nat
    /\ frames \in Seq(VmFrame) /\ Len(frames) >= 1
    /\ functions \in Seq(Function) /\ cellMaps \in Seq(Locals) /\ scopes \in Seq(Scope)
    /\ generators \in Seq(Generator)
    /\ depths \in Seq(0 .. DepthLimit) /\ unbalanced \in Seq(Nat) /\ Len(unbalanced) = Len(depths)

(* A frame whose code shares variables has a cell map, and so does a       *)
(* function whose code has such variables of the code around it.           *)
Shared(p, c) == (UNION {p.defs[k].nonlocals : k \in {d \in Codes : p.defs[d].parent = c}})
                \cup p.defs[c].nonlocals

FrameHas(p, maps, f)    == f.cells <= maps /\ (Shared(p, f.code) # {} => f.cells # 0)
FunctionHas(p, maps, f) == f.cells <= maps /\ (p.defs[f.code].nonlocals # {} => f.cells # 0)

CellsMade ==
    /\ \A i \in 1 .. Len(frames) : FrameHas(source, Len(cellMaps), frames[i])
    /\ \A g \in 1 .. Len(generators) : FrameHas(source, Len(cellMaps), generators[g].frame)
    /\ \A f \in 1 .. Len(functions) : FunctionHas(source, Len(cellMaps), functions[f])

(* The frames of a VM are next to each other, its first one a callback's   *)
(* or a generator's, and the VMs are one in the other.                     *)
Stacked(fs, ds) ==
    /\ fs[1].vm = 1 /\ fs[Len(fs)].vm = Len(ds)
    /\ \A i \in 1 .. Len(fs) - 1 :
          \/ fs[i + 1].vm = fs[i].vm /\ fs[i + 1].generator = 0
          \/ fs[i + 1].vm = fs[i].vm + 1
    /\ \A i, j \in 1 .. Len(fs) : i <= j => fs[i].vm <= fs[j].vm

(* The depth of a VM, what its calls left behind and those that run.       *)
Running(fs, v) == {i \in 2 .. Len(fs) : fs[i].vm = v /\ fs[i].generator = 0}

Accounted(fs, ds, us) ==
    \A v \in 1 .. Len(ds) : ds[v] = us[v] + Cardinality(Running(fs, v))

CallInv ==
    /\ Shapes /\ CellsMade /\ ArgumentsBound
    /\ Stacked(frames, depths) /\ Accounted(frames, depths, unbalanced)

-----------------------------------------------------------------------------
LEMMA DefTyped ==
  ASSUME source \in Sources, NEW c \in Codes
  PROVE  /\ Def(c) \in Definition
         /\ Def(c).parent \in Codes \cup {Null} /\ Def(c).params \in Seq(Identifiers)
         /\ Def(c).defaults \in Nat /\ Def(c).kwonly \in Seq(Identifiers)
         /\ Def(c).vararg \in Identifiers \cup {Null} /\ Def(c).kwarg \in Identifiers \cup {Null}
         /\ Def(c).nonlocals \subseteq Identifiers /\ Def(c).defaults <= Len(Def(c).params)
         /\ Def(c).parent \in {MainCode, Null} => Def(c).nonlocals = {}
         /\ \A i, j \in DOMAIN Def(c).params : Def(c).params[i] = Def(c).params[j] => i = j
         /\ ToSet(Def(c).params) \cap ToSet(Def(c).kwonly) = {}
         /\ {Def(c).vararg, Def(c).kwarg} \cap (ToSet(Def(c).params) \cup ToSet(Def(c).kwonly)) = {}
         /\ Def(c).vararg = Def(c).kwarg => Def(c).vararg = Null
  <1> DEFINE D == source.defs[c]
  <1>1. D \in Definition
    BY SourcesAssumption
  <1>2. /\ D.defaults <= Len(D.params)
        /\ D.parent \in {MainCode, Null} => D.nonlocals = {}
        /\ \A i, j \in DOMAIN D.params : D.params[i] = D.params[j] => i = j
        /\ ToSet(D.params) \cap ToSet(D.kwonly) = {}
        /\ {D.vararg, D.kwarg} \cap (ToSet(D.params) \cup ToSet(D.kwonly)) = {}
        /\ D.vararg = D.kwarg => D.vararg = Null
    BY SourcesAssumption
  <1> HIDE DEF D
  <1>3. Def(c) = D
    BY DEF Def, D
  <1> QED BY <1>1, <1>2, <1>3 DEF Definition

LEMMA InJoined ==
  ASSUME NEW S, NEW a \in Seq(S), NEW b \in Seq(S)
  PROVE  ToSet(a \o b) = ToSet(a) \cup ToSet(b)
  <1>1. \A i \in 1 .. Len(a) : (a \o b)[i] = a[i]
    OBVIOUS
  <1>2. \A i \in 1 .. Len(b) : (a \o b)[Len(a) + i] = b[i] /\ Len(a) + i \in 1 .. Len(a \o b)
    OBVIOUS
  <1>3. \A i \in 1 .. Len(a \o b) : i \in 1 .. Len(a) \/ i - Len(a) \in 1 .. Len(b)
    OBVIOUS
  <1>4. DOMAIN (a \o b) = 1 .. Len(a \o b) /\ DOMAIN a = 1 .. Len(a) /\ DOMAIN b = 1 .. Len(b)
        /\ Len(a) \in Nat /\ Len(b) \in Nat /\ Len(a \o b) = Len(a) + Len(b)
    OBVIOUS
  <1>5. ASSUME NEW x \in ToSet(a \o b) PROVE x \in ToSet(a) \cup ToSet(b)
    <2>1. PICK i \in 1 .. Len(a \o b) : x = (a \o b)[i]
      BY <1>4 DEF ToSet
    <2>2. CASE i \in 1 .. Len(a)
      BY <1>1, <1>4, <2>1, <2>2 DEF ToSet
    <2>3. CASE i - Len(a) \in 1 .. Len(b)
      <3>1. (a \o b)[Len(a) + (i - Len(a))] = b[i - Len(a)] /\ Len(a) + (i - Len(a)) = i
        BY <1>2, <1>4, <2>3
      <3> QED BY <1>4, <2>1, <2>3, <3>1 DEF ToSet
    <2> QED BY <1>3, <2>2, <2>3
  <1>6. ASSUME NEW x \in ToSet(a) PROVE x \in ToSet(a \o b)
    <2>1. PICK i \in 1 .. Len(a) : x = a[i]
      BY <1>4 DEF ToSet
    <2>2. i \in 1 .. Len(a \o b) /\ x = (a \o b)[i]
      BY <1>1, <1>4, <2>1
    <2> QED BY <1>4, <2>2 DEF ToSet
  <1>7. ASSUME NEW x \in ToSet(b) PROVE x \in ToSet(a \o b)
    <2>1. PICK i \in 1 .. Len(b) : x = b[i]
      BY <1>4 DEF ToSet
    <2>2. Len(a) + i \in 1 .. Len(a \o b) /\ x = (a \o b)[Len(a) + i]
      BY <1>2, <2>1
    <2> QED BY <1>4, <2>2 DEF ToSet
  <1> QED BY <1>5, <1>6, <1>7

LEMMA ParametersAre ==
  ASSUME source \in Sources, NEW c \in Codes
  PROVE  ToSet(Parameters(c)) =
            ToSet(Def(c).params) \cup ToSet(Def(c).kwonly)
              \cup ({Def(c).vararg, Def(c).kwarg} \ {Null})
  <1> DEFINE a == Def(c).params
             b == Optional(Def(c).vararg)
             k == Def(c).kwonly
             d == Optional(Def(c).kwarg)
  <1>1. a \in Seq(Identifiers) /\ k \in Seq(Identifiers)
    BY DefTyped
  <1>2. ASSUME NEW n \in Identifiers \cup {Null}
        PROVE  Optional(n) \in Seq(Identifiers) /\ ToSet(Optional(n)) = {n} \ {Null}
    BY DEF Optional, ToSet
  <1>3. b \in Seq(Identifiers) /\ d \in Seq(Identifiers)
        /\ ToSet(b) = {Def(c).vararg} \ {Null} /\ ToSet(d) = {Def(c).kwarg} \ {Null}
    BY <1>2, DefTyped
  <1>4. Parameters(c) = ((a \o b) \o k) \o d
    BY DEF Parameters
  <1> HIDE DEF a, b, k, d
  <1>5. a \o b \in Seq(Identifiers) /\ (a \o b) \o k \in Seq(Identifiers)
    BY <1>1, <1>3
  <1>6. ToSet(((a \o b) \o k) \o d) = ToSet(a) \cup ToSet(b) \cup ToSet(k) \cup ToSet(d)
    <2>1. ToSet(a \o b) = ToSet(a) \cup ToSet(b)
      BY <1>1, <1>3, InJoined
    <2> DEFINE e == a \o b
    <2>2. e \in Seq(Identifiers) /\ e \o k \in Seq(Identifiers)
      BY <1>5
    <2> HIDE DEF e
    <2>3. ToSet(e \o k) = ToSet(e) \cup ToSet(k)
      BY <1>1, <2>2, InJoined
    <2> DEFINE g == e \o k
    <2>4. g \in Seq(Identifiers)
      BY <2>2
    <2> HIDE DEF g
    <2>5. ToSet(g \o d) = ToSet(g) \cup ToSet(d)
      BY <1>3, <2>4, InJoined
    <2> QED BY <2>1, <2>3, <2>5 DEF g, e
  <1> QED BY <1>3, <1>4, <1>6 DEF a, k

-----------------------------------------------------------------------------
(* The arguments of a call.                                                *)
ValueOf(i, n, P, D, args, kw) ==
    IF i <= Len(args) THEN args[i] ELSE IF n \in kw THEN <<"keyword", n>>
    ELSE IF i > P - D THEN <<"default", n>> ELSE Null

LEMMA PositionalIs ==
  ASSUME source \in Sources, NEW c \in Codes, NEW args \in Seq(Passable),
         NEW kw \in SUBSET Identifiers, NEW i \in 1 .. Len(Def(c).params)
  PROVE  /\ Positional(c, i, args, kw) =
              ValueOf(i, Def(c).params[i], Len(Def(c).params), Def(c).defaults, args, kw)
         /\ i <= Len(args) => args[i] \in Passable
         /\ <<"keyword", Def(c).params[i]>> \in Passable
         /\ <<"default", Def(c).params[i]>> \in Passable
  <1> DEFINE P == Len(Def(c).params)
             D == Def(c).defaults
             d == i - (P - D)
             n == Def(c).params[i]
  <1>1. P \in Nat /\ D \in Nat /\ D <= P /\ n \in Identifiers /\ i \in 1 .. P
    BY DefTyped
  <1>2. Len(args) \in Nat
    OBVIOUS
  <1>3. ASSUME d >= 1 PROVE Defaults(c)[d] = <<"default", n>>
    <2>1. d \in 1 .. D /\ P - D + d = i
      BY <1>1, <1>3
    <2>2. Defaults(c)[d] = <<"default", Def(c).params[P - D + d]>>
      BY <2>1, Zenon DEF Defaults
    <2> QED BY <2>1, <2>2
  <1>4. d >= 1 <=> i > P - D
    BY <1>1
  <1>5. Positional(c, i, args, kw) = IF i <= Len(args) THEN args[i]
                                     ELSE IF n \in kw THEN <<"keyword", n>>
                                     ELSE IF d >= 1 THEN Defaults(c)[d] ELSE Null
    BY DEF Positional, Keyword
  <1>6. <<"keyword", n>> \in Passable /\ <<"default", n>> \in Passable
    BY <1>1 DEF Passable
  <1> HIDE DEF d
  <1>7. i <= Len(args) => args[i] \in Passable
    BY <1>1, <1>2
  <1> QED BY <1>3, <1>4, <1>5, <1>6, <1>7 DEF ValueOf

LEMMA UnfilledAsPython ==
  ASSUME source \in Sources, NEW c \in Codes, NEW args \in Seq(Passable),
         NEW kw \in SUBSET Identifiers
  PROVE  Unfilled(c, args, kw) <=> PyUnfilled(c, args, kw)
  <1> DEFINE P == Len(Def(c).params)
  <1>1. P \in Nat /\ Def(c).defaults \in Nat /\ DOMAIN Def(c).params = 1 .. P /\ Len(args) \in Nat
    BY DefTyped
  <1>2. ASSUME NEW i \in 1 .. P
        PROVE  Positional(c, i, args, kw) = Null <=>
                 i > Len(args) /\ i <= P - Def(c).defaults /\ Def(c).params[i] \notin kw
    <2> DEFINE p == Positional(c, i, args, kw)
               n == Def(c).params[i]
               D == Def(c).defaults
    <2>1. /\ p = ValueOf(i, n, P, D, args, kw)
          /\ i <= Len(args) => args[i] \in Passable
          /\ <<"keyword", n>> \in Passable /\ <<"default", n>> \in Passable
      BY PositionalIs
    <2>5. i <= Len(args) => args[i] # Null
      BY <2>1
    <2>6. <<"keyword", n>> # Null /\ <<"default", n>> # Null
      BY <2>1
    <2>2. i <= Len(args) \/ i > Len(args)
      BY <1>1
    <2>3. ~(i <= Len(args) /\ i > Len(args))
      BY <1>1
    <2>4. i > P - Def(c).defaults <=> ~(i <= P - Def(c).defaults)
      BY <1>1
    <2> HIDE DEF p, n, D
    <2> QED BY <2>1, <2>2, <2>3, <2>4, <2>5, <2>6 DEF ValueOf, p, n, D
  <1> HIDE DEF P
  <1> QED BY <1>1, <1>2 DEF Unfilled, PyUnfilled, P

LEMMA BindsAsPython ==
  ASSUME source \in Sources, NEW c \in Codes, NEW args \in Seq(Passable),
         NEW kw \in SUBSET Identifiers, ~Unfilled(c, args, kw),
         ToSet(Def(c).kwonly) \subseteq kw, Def(c).kwarg = Null \/ Def(c).kwonly = <<>>
  PROVE  Arguments(c, args, kw) = PyArguments(c, args, kw)
  <1> DEFINE P == Len(Def(c).params)
             N == ToSet(Parameters(c))
             D == Def(c).defaults
             params == Def(c).params
             kwonly == Def(c).kwonly
  <1>1. /\ P \in Nat /\ D \in Nat /\ D <= P /\ DOMAIN params = 1 .. P /\ Len(args) \in Nat
        /\ \A i, j \in 1 .. P : params[i] = params[j] => i = j
        /\ ToSet(params) \cap ToSet(kwonly) = {}
        /\ {Def(c).vararg, Def(c).kwarg} \cap (ToSet(params) \cup ToSet(kwonly)) = {}
        /\ Def(c).vararg = Def(c).kwarg => Def(c).vararg = Null
    <2>1. P \in Nat /\ DOMAIN params = 1 .. P /\ Len(args) \in Nat
      BY DefTyped
    <2> QED BY <2>1, DefTyped, Zenon
  <1>2. \A n \in N : n # Null /\ (n \in ToSet(params) \/ n \in ToSet(kwonly) \/ n = Def(c).vararg \/ n = Def(c).kwarg)
    <2>1. N = ToSet(params) \cup ToSet(kwonly) \cup ({Def(c).vararg, Def(c).kwarg} \ {Null})
      BY ParametersAre
    <2>2. ToSet(params) \subseteq Identifiers /\ ToSet(kwonly) \subseteq Identifiers
      BY DefTyped DEF ToSet
    <2> HIDE DEF N, params, kwonly
    <2> QED BY <2>1, <2>2
  <1>3. \A n : n \in ToSet(params) <=> \E i \in 1 .. P : params[i] = n
    BY <1>1 DEF ToSet
  <1> DEFINE got(n) ==
        IF n = Def(c).kwarg THEN {k \in kw : k \notin ToSet(params)}
        ELSE IF n \in ToSet(kwonly) THEN (IF n \in kw THEN Keyword(n) ELSE <<"None", 0>>)
        ELSE IF n = Def(c).vararg THEN SubSeq(args, P + 1, Len(args))
        ELSE Positional(c, CHOOSE i \in 1 .. P : params[i] = n, args, kw)
             given(n) == {i \in DOMAIN params : params[i] = n /\ i <= Len(args)}
             rest == [i \in 1 .. IF Len(args) > P THEN Len(args) - P ELSE 0 |-> args[P + i]]
             want(n) ==
        IF n = Def(c).vararg THEN rest
        ELSE IF n = Def(c).kwarg THEN kw \ ToSet(params \o kwonly)
        ELSE IF given(n) # {} THEN args[CHOOSE i \in given(n) : TRUE]
        ELSE IF n \in kw THEN Keyword(n)
        ELSE <<"default", n>>
  <1>4. Arguments(c, args, kw) = [n \in N |-> got(n)] /\ PyArguments(c, args, kw) = [n \in N |-> want(n)]
    BY DEF Arguments, PyArguments
  <1>5. ASSUME NEW n \in N PROVE got(n) = want(n)
    <2>1. CASE n = Def(c).kwarg
      <3>1. n # Def(c).vararg /\ kwonly = <<>>
        BY <1>1, <1>2, <2>1
      <3>2. params \o kwonly = params
        <4>1. params \in Seq(Identifiers)
          BY DefTyped
        <4> QED BY <3>1, <4>1
      <3> QED BY <2>1, <3>1, <3>2
    <2>2. CASE n = Def(c).vararg
      <3>1. n # Def(c).kwarg /\ n \notin ToSet(kwonly)
        BY <1>1, <1>2, <2>2
      <3>2. SubSeq(args, P + 1, Len(args)) = rest
        <4> DEFINE L == IF Len(args) > P THEN Len(args) - P ELSE 0
                   sub == SubSeq(args, P + 1, Len(args))
        <4>1. P + 1 \in Int /\ Len(args) \in Int /\ \A i \in P + 1 .. Len(args) : args[i] \in Passable
          BY <1>1
        <4> HIDE DEF P
        <4>2. /\ sub \in Seq(Passable)
              /\ Len(sub) = IF P + 1 <= Len(args) THEN Len(args) - (P + 1) + 1 ELSE 0
              /\ \A i \in 1 .. Len(args) - (P + 1) + 1 : sub[i] = args[(P + 1) + i - 1]
          BY <4>1, SubSeqProperties
        <4>3. L \in Nat /\ L = IF P + 1 <= Len(args) THEN Len(args) - (P + 1) + 1 ELSE 0
          BY <1>1
        <4>4. \A i \in 1 .. L : i \in 1 .. Len(args) - (P + 1) + 1 /\ (P + 1) + i - 1 = P + i
          BY <1>1
        <4> HIDE DEF L, sub
        <4>5. \A i \in 1 .. L : sub[i] = args[P + i]
          BY <4>2, <4>4
        <4>6. Len(sub) = L /\ sub \in Seq(Passable)
          BY <4>2, <4>3
        <4>7. sub = [i \in 1 .. L |-> sub[i]]
          BY <4>6
        <4>8. sub = [i \in 1 .. L |-> args[P + i]]
          BY <4>5, <4>7
        <4> QED BY <4>8 DEF sub, L
      <3> QED BY <2>2, <3>1, <3>2
    <2>3. CASE n \in ToSet(kwonly)
      <3>1. n # Def(c).kwarg /\ n # Def(c).vararg /\ n \in kw /\ n \notin ToSet(params)
        BY <1>1, <2>3
      <3>2. given(n) = {}
        BY <1>1, <1>3, <3>1
      <3> QED BY <2>3, <3>1, <3>2
    <2>4. CASE n \in ToSet(params)
      <3>1. n # Def(c).kwarg /\ n # Def(c).vararg /\ n \notin ToSet(kwonly)
        BY <1>1, <2>4
      <3>2. PICK i \in 1 .. P : params[i] = n
        BY <1>3, <2>4
      <3>3. (CHOOSE j \in 1 .. P : params[j] = n) = i
        BY <1>1, <3>2
      <3>4. got(n) = Positional(c, i, args, kw)
        BY <3>1, <3>3
      <3>5. Positional(c, i, args, kw) = ValueOf(i, n, P, D, args, kw)
        BY <3>2, PositionalIs
      <3>6. ValueOf(i, n, P, D, args, kw) # Null
        BY <1>1, <3>2, <3>5 DEF Unfilled
      <3>7. CASE i <= Len(args)
        <4>1. given(n) = {i}
          BY <1>1, <3>2, <3>7
        <4>2. (CHOOSE j \in given(n) : TRUE) = i
          BY <4>1
        <4>3. want(n) = args[i]
          BY <3>1, <4>1, <4>2
        <4> QED BY <3>4, <3>5, <3>7, <4>3 DEF ValueOf
      <3>8. CASE ~(i <= Len(args))
        <4>1. given(n) = {}
          BY <1>1, <3>2, <3>8
        <4>2. want(n) = IF n \in kw THEN <<"keyword", n>> ELSE <<"default", n>>
          BY <3>1, <4>1 DEF Keyword
        <4> HIDE DEF want, got
        <4> QED BY <3>4, <3>5, <3>6, <3>8, <4>2 DEF ValueOf
      <3> QED BY <3>7, <3>8
    <2> QED BY <1>2, <2>1, <2>2, <2>3, <2>4
  <1> HIDE DEF got, want
  <1> QED BY <1>4, <1>5

LEMMA ArgumentsTyped ==
  ASSUME source \in Sources, NEW c \in Codes, NEW args \in Seq(Passable),
         NEW kw \in SUBSET Identifiers
  PROVE  /\ DOMAIN Arguments(c, args, kw) = ToSet(Parameters(c))
         /\ \A n \in ToSet(Parameters(c)) : Arguments(c, args, kw)[n] \in VmValues
  <1> DEFINE P == Len(Def(c).params)
             N == ToSet(Parameters(c))
             params == Def(c).params
             kwonly == Def(c).kwonly
             got(n) ==
        IF n = Def(c).kwarg THEN {k \in kw : k \notin ToSet(params)}
        ELSE IF n \in ToSet(kwonly) THEN (IF n \in kw THEN Keyword(n) ELSE <<"None", 0>>)
        ELSE IF n = Def(c).vararg THEN SubSeq(args, P + 1, Len(args))
        ELSE Positional(c, CHOOSE i \in 1 .. P : params[i] = n, args, kw)
  <1>1. Arguments(c, args, kw) = [n \in N |-> got(n)]
    BY DEF Arguments
  <1>2. /\ P \in Nat /\ DOMAIN params = 1 .. P /\ Len(args) \in Nat
        /\ params \in Seq(Identifiers) /\ kwonly \in Seq(Identifiers)
    BY DefTyped
  <1>3. ASSUME NEW n \in N PROVE got(n) \in VmValues
    <2>1. CASE n = Def(c).kwarg
      <3>1. {k \in kw : k \notin ToSet(params)} \in SUBSET Identifiers
        OBVIOUS
      <3> QED BY <2>1, <3>1 DEF VmValues
    <2>2. CASE n # Def(c).kwarg /\ n \in ToSet(kwonly)
      <3>1. n \in Identifiers
        BY <1>2, <2>2 DEF ToSet
      <3>2. Keyword(n) \in Passable /\ <<"None", 0>> \in Passable
        BY <3>1 DEF Keyword, Passable
      <3> QED BY <2>2, <3>2 DEF VmValues
    <2>3. CASE n # Def(c).kwarg /\ n \notin ToSet(kwonly) /\ n = Def(c).vararg
      <3>1. SubSeq(args, P + 1, Len(args)) \in Seq(Passable)
        BY <1>2
      <3> QED BY <2>3, <3>1 DEF VmValues
    <2>4. CASE n # Def(c).kwarg /\ n \notin ToSet(kwonly) /\ n # Def(c).vararg
      <3>1. n \in ToSet(params)
        BY <2>4, ParametersAre
      <3>2. \E i \in 1 .. P : params[i] = n
        BY <1>2, <3>1 DEF ToSet
      <3>3. PICK i \in 1 .. P : i = CHOOSE j \in 1 .. P : params[j] = n
        BY <3>2
      <3>4. /\ Positional(c, i, args, kw) = ValueOf(i, params[i], P, Def(c).defaults, args, kw)
            /\ i <= Len(args) => args[i] \in Passable
            /\ <<"keyword", params[i]>> \in Passable /\ <<"default", params[i]>> \in Passable
        BY PositionalIs
      <3>5. got(n) = Positional(c, i, args, kw)
        BY <2>4, <3>3
      <3> HIDE DEF got
      <3> QED BY <3>4, <3>5 DEF ValueOf, VmValues
    <2> QED BY <2>1, <2>2, <2>3, <2>4
  <1> HIDE DEF got
  <1> QED BY <1>1, <1>3

-----------------------------------------------------------------------------
(* Frames that are pushed and popped, and the depths of their VMs.         *)
LEMMA RunningFinite ==
  ASSUME NEW fs \in Seq(VmFrame), NEW v
  PROVE  IsFiniteSet(Running(fs, v)) /\ Cardinality(Running(fs, v)) \in Nat
  <1>1. IsFiniteSet(2 .. Len(fs))
    <2>1. 2 \in Int /\ Len(fs) \in Int
      OBVIOUS
    <2> QED BY <2>1, FS_Interval
  <1>2. IsFiniteSet(Running(fs, v))
    BY <1>1, FS_Subset DEF Running
  <1> QED BY <1>2, FS_CardinalityType

LEMMA Pushed ==
  ASSUME NEW fs \in Seq(VmFrame), Len(fs) >= 1, NEW f \in VmFrame, NEW v
  PROVE  /\ Append(fs, f) \in Seq(VmFrame) /\ Len(Append(fs, f)) = Len(fs) + 1
         /\ \A i \in 1 .. Len(fs) : Append(fs, f)[i] = fs[i]
         /\ Append(fs, f)[Len(fs) + 1] = f
         /\ Cardinality(Running(Append(fs, f), v)) =
              Cardinality(Running(fs, v)) + IF f.vm = v /\ f.generator = 0 THEN 1 ELSE 0
  <1> DEFINE gs == Append(fs, f)
  <1>1. /\ gs \in Seq(VmFrame) /\ Len(gs) = Len(fs) + 1 /\ \A i \in 1 .. Len(fs) : gs[i] = fs[i]
        /\ gs[Len(fs) + 1] = f /\ Len(fs) \in Nat
    OBVIOUS
  <1> HIDE DEF gs
  <1>2. CASE f.vm = v /\ f.generator = 0
    <2>1. Running(gs, v) = Running(fs, v) \cup {Len(fs) + 1}
      <3>1. ASSUME NEW i \in Nat PROVE i \in 2 .. Len(gs) <=> i \in 2 .. Len(fs) \/ i = Len(fs) + 1
        BY <1>1
      <3> QED BY <1>1, <1>2, <3>1 DEF Running
    <2>2. Len(fs) + 1 \notin Running(fs, v)
      BY <1>1 DEF Running
    <2>3. IsFiniteSet(Running(fs, v))
      BY RunningFinite
    <2>4. Cardinality(Running(gs, v)) = Cardinality(Running(fs, v)) + 1
      BY <2>1, <2>2, <2>3, FS_AddElement
    <2> QED BY <1>1, <1>2, <2>4 DEF gs
  <1>3. CASE ~(f.vm = v /\ f.generator = 0)
    <2>1. Running(gs, v) = Running(fs, v)
      <3>1. ASSUME NEW i \in Nat PROVE i \in 2 .. Len(gs) <=> i \in 2 .. Len(fs) \/ i = Len(fs) + 1
        BY <1>1
      <3>2. Len(fs) + 1 \notin Running(gs, v) /\ Len(fs) + 1 \notin Running(fs, v)
        BY <1>1, <1>3 DEF Running
      <3>3. ASSUME NEW i \in 2 .. Len(fs) PROVE i \in Running(gs, v) <=> i \in Running(fs, v)
        BY <1>1 DEF Running
      <3> QED BY <3>1, <3>2, <3>3 DEF Running
    <2> QED BY <1>1, <1>3, <2>1, RunningFinite DEF gs
  <1> QED BY <1>1, <1>2, <1>3 DEF gs

LEMMA PushSame ==
  ASSUME NEW fs \in Seq(VmFrame), Len(fs) >= 1, NEW ds \in Seq(Nat), NEW us \in Seq(Nat),
         NEW f \in VmFrame, Stacked(fs, ds), Accounted(fs, ds, us), Len(us) = Len(ds),
         f.vm = Len(ds), f.generator = 0
  PROVE  LET gs == Append(fs, f)  es == [ds EXCEPT ![Len(ds)] = @ + 1]
         IN  Stacked(gs, es) /\ Accounted(gs, es, us) /\ es \in Seq(Nat) /\ Len(es) = Len(ds)
  <1> DEFINE gs == Append(fs, f)
             es == [ds EXCEPT ![Len(ds)] = @ + 1]
  <1>1. /\ gs \in Seq(VmFrame) /\ Len(gs) = Len(fs) + 1 /\ \A i \in 1 .. Len(fs) : gs[i] = fs[i]
        /\ gs[Len(fs) + 1] = f /\ Len(fs) \in Nat
        /\ \A v : Cardinality(Running(gs, v)) =
              Cardinality(Running(fs, v)) + IF f.vm = v THEN 1 ELSE 0
    BY Pushed
  <1>2. /\ Len(ds) \in Nat /\ es \in Seq(Nat) /\ Len(es) = Len(ds)
        /\ \A v \in 1 .. Len(ds) : es[v] = IF v = Len(ds) THEN ds[v] + 1 ELSE ds[v]
    <2>1. Len(ds) \in 1 .. Len(ds)
      BY DEF VmFrame
    <2>2. ds[Len(ds)] + 1 \in Nat
      BY <2>1
    <2> QED BY <2>1, <2>2
  <1> HIDE DEF gs, es
  <1>3. /\ fs[1].vm = 1 /\ fs[Len(fs)].vm = Len(ds)
        /\ \A i \in 1 .. Len(fs) - 1 :
              \/ fs[i + 1].vm = fs[i].vm /\ fs[i + 1].generator = 0
              \/ fs[i + 1].vm = fs[i].vm + 1
        /\ \A i, j \in 1 .. Len(fs) : i <= j => fs[i].vm <= fs[j].vm
    BY DEF Stacked
  <1>4. Stacked(gs, es)
    <2>1. gs[1].vm = 1 /\ gs[Len(gs)].vm = Len(es)
      BY <1>1, <1>2, <1>3
    <2>2. ASSUME NEW i \in 1 .. Len(gs) - 1
          PROVE  \/ gs[i + 1].vm = gs[i].vm /\ gs[i + 1].generator = 0
                 \/ gs[i + 1].vm = gs[i].vm + 1
      <3>1. CASE i \in 1 .. Len(fs) - 1
        <4>1. gs[i] = fs[i] /\ gs[i + 1] = fs[i + 1]
          BY <1>1, <3>1
        <4> QED BY <1>3, <3>1, <4>1
      <3>2. CASE i = Len(fs)
        BY <1>1, <1>3, <3>2
      <3> QED BY <1>1, <3>1, <3>2
    <2>3. ASSUME NEW i \in 1 .. Len(gs), NEW j \in 1 .. Len(gs), i <= j
          PROVE  gs[i].vm <= gs[j].vm
      <3>1. CASE j = Len(fs) + 1 /\ i # j
        <4>1. i \in 1 .. Len(fs) /\ fs[i].vm <= fs[Len(fs)].vm
          BY <1>1, <1>3, <3>1
        <4> QED BY <1>1, <1>3, <3>1, <4>1
      <3>2. CASE j = Len(fs) + 1 /\ i = j
        BY <1>1, <1>2, <3>2
      <3>3. CASE j # Len(fs) + 1
        <4>1. i \in 1 .. Len(fs) /\ j \in 1 .. Len(fs)
          BY <1>1, <2>3, <3>3
        <4>2. fs[i].vm <= fs[j].vm
          BY <1>3, <2>3, <4>1
        <4> QED BY <1>1, <4>1, <4>2
      <3> QED BY <3>1, <3>2, <3>3
    <2> QED BY <2>1, <2>2, <2>3 DEF Stacked
  <1>5. Accounted(gs, es, us)
    <2> SUFFICES ASSUME NEW v \in 1 .. Len(ds) PROVE es[v] = us[v] + Cardinality(Running(gs, v))
      BY <1>2 DEF Accounted
    <2>1. ds[v] = us[v] + Cardinality(Running(fs, v))
      BY DEF Accounted
    <2>2. ds[v] \in Nat /\ us[v] \in Nat /\ Cardinality(Running(fs, v)) \in Nat
      BY <1>2, RunningFinite
    <2>3. Cardinality(Running(gs, v)) = Cardinality(Running(fs, v)) + IF Len(ds) = v THEN 1 ELSE 0
      BY <1>1
    <2>4. CASE v = Len(ds)
      BY <1>2, <2>1, <2>2, <2>3, <2>4, SMTT(30)
    <2>5. CASE v # Len(ds)
      BY <1>2, <2>1, <2>2, <2>3, <2>5
    <2> QED BY <2>4, <2>5
  <1> QED BY <1>2, <1>4, <1>5 DEF gs, es

LEMMA PushVm ==
  ASSUME NEW fs \in Seq(VmFrame), Len(fs) >= 1, NEW ds \in Seq(Nat), NEW us \in Seq(Nat),
         NEW f \in VmFrame, Stacked(fs, ds), Accounted(fs, ds, us), Len(us) = Len(ds),
         f.vm = Len(ds) + 1, NEW k \in Nat, k = IF f.generator = 0 THEN 1 ELSE 0
  PROVE  Stacked(Append(fs, f), Append(ds, k)) /\ Accounted(Append(fs, f), Append(ds, k), Append(us, 0))
  <1> DEFINE gs == Append(fs, f)
             es == Append(ds, k)
             ws == Append(us, 0)
  <1>1. /\ gs \in Seq(VmFrame) /\ Len(gs) = Len(fs) + 1 /\ \A i \in 1 .. Len(fs) : gs[i] = fs[i]
        /\ gs[Len(fs) + 1] = f /\ Len(fs) \in Nat
        /\ \A v : Cardinality(Running(gs, v)) =
              Cardinality(Running(fs, v)) + IF f.vm = v /\ f.generator = 0 THEN 1 ELSE 0
    BY Pushed
  <1>2. /\ Len(ds) \in Nat /\ Len(es) = Len(ds) + 1
        /\ \A v \in 1 .. Len(ds) : es[v] = ds[v] /\ ws[v] = us[v]
        /\ es[Len(ds) + 1] = k /\ ws[Len(ds) + 1] = 0
    OBVIOUS
  <1> HIDE DEF gs, es, ws
  <1>3. /\ fs[1].vm = 1 /\ fs[Len(fs)].vm = Len(ds)
        /\ \A i \in 1 .. Len(fs) - 1 :
              \/ fs[i + 1].vm = fs[i].vm /\ fs[i + 1].generator = 0
              \/ fs[i + 1].vm = fs[i].vm + 1
        /\ \A i, j \in 1 .. Len(fs) : i <= j => fs[i].vm <= fs[j].vm
    BY DEF Stacked
  <1>0. \A i \in 1 .. Len(fs) : fs[i].vm \in Nat /\ fs[i].vm <= Len(ds)
    <2>1. \A i \in 1 .. Len(fs) : fs[i].vm \in Nat
      <3>1. \A g \in VmFrame : g.vm \in Nat
        BY DEF VmFrame
      <3>2. \A i \in 1 .. Len(fs) : fs[i] \in VmFrame
        OBVIOUS
      <3> QED BY <3>1, <3>2
    <2>2. \A i \in 1 .. Len(fs) : fs[i].vm <= fs[Len(fs)].vm
      BY <1>1, <1>3, SMTT(30)
    <2> QED BY <1>3, <2>1, <2>2
  <1>4. Stacked(gs, es)
    <2>1. gs[1].vm = 1 /\ gs[Len(gs)].vm = Len(es)
      BY <1>1, <1>2, <1>3
    <2>2. ASSUME NEW i \in 1 .. Len(gs) - 1
          PROVE  \/ gs[i + 1].vm = gs[i].vm /\ gs[i + 1].generator = 0
                 \/ gs[i + 1].vm = gs[i].vm + 1
      <3>1. CASE i \in 1 .. Len(fs) - 1
        <4>1. gs[i] = fs[i] /\ gs[i + 1] = fs[i + 1]
          BY <1>1, <3>1
        <4> QED BY <1>3, <3>1, <4>1
      <3>2. CASE i = Len(fs)
        BY <1>1, <1>3, <3>2
      <3> QED BY <1>1, <3>1, <3>2
    <2>3. ASSUME NEW i \in 1 .. Len(gs), NEW j \in 1 .. Len(gs), i <= j
          PROVE  gs[i].vm <= gs[j].vm
      <3>1. CASE j = Len(fs) + 1 /\ i # j
        <4>1. i \in 1 .. Len(fs) /\ gs[i] = fs[i]
          BY <1>1, <3>1
        <4> QED BY <1>0, <1>1, <1>2, <3>1, <4>1
      <3>2. CASE j = Len(fs) + 1 /\ i = j
        BY <1>1, <1>2, <3>2
      <3>3. CASE j # Len(fs) + 1
        <4>1. i \in 1 .. Len(fs) /\ j \in 1 .. Len(fs)
          BY <1>1, <2>3, <3>3
        <4>2. fs[i].vm <= fs[j].vm
          BY <1>3, <2>3, <4>1
        <4> QED BY <1>1, <4>1, <4>2
      <3> QED BY <3>1, <3>2, <3>3
    <2> QED BY <2>1, <2>2, <2>3 DEF Stacked
  <1>5. Accounted(gs, es, ws)
    <2> SUFFICES ASSUME NEW v \in 1 .. Len(ds) + 1 PROVE es[v] = ws[v] + Cardinality(Running(gs, v))
      BY <1>2 DEF Accounted
    <2>1. CASE v = Len(ds) + 1
      <3>1. Running(fs, v) = {}
        BY <1>0, <1>1, <1>2, <2>1 DEF Running
      <3>2. Cardinality(Running(fs, v)) = 0
        BY <3>1, FS_EmptySet
      <3> QED BY <1>1, <1>2, <2>1, <3>2
    <2>2. CASE v \in 1 .. Len(ds)
      <3>1. ds[v] = us[v] + Cardinality(Running(fs, v))
        BY <2>2 DEF Accounted
      <3>2. ds[v] \in Nat /\ us[v] \in Nat /\ Cardinality(Running(fs, v)) \in Nat
        BY <2>2, RunningFinite
      <3>3. f.vm # v
        BY <1>2, <2>2
      <3> QED BY <1>1, <1>2, <2>2, <3>1, <3>2, <3>3
    <2> QED BY <1>2, <2>1, <2>2
  <1> QED BY <1>4, <1>5 DEF gs, es, ws

LEMMA Appended ==
  ASSUME NEW S, NEW s \in Seq(S), NEW x \in S, NEW t, t = Append(s, x)
  PROVE  /\ t \in Seq(S) /\ Len(t) = Len(s) + 1 /\ t[Len(s) + 1] = x
         /\ \A i \in 1 .. Len(s) : t[i] = s[i]
         /\ \A i \in 1 .. Len(t) : i \in 1 .. Len(s) \/ i = Len(s) + 1
  OBVIOUS

LEMMA FrontIs ==
  ASSUME NEW S, NEW s \in Seq(S), Len(s) >= 1
  PROVE  /\ Front(s) \in Seq(S) /\ Len(Front(s)) = Len(s) - 1
         /\ \A i \in 1 .. Len(s) - 1 : Front(s)[i] = s[i]
  <1> DEFINE sub == SubSeq(s, 1, Len(s) - 1)
  <1>1. Len(s) \in Nat /\ Len(s) - 1 \in Int /\ 1 \in Int /\ \A i \in 1 .. Len(s) - 1 : s[i] \in S
    OBVIOUS
  <1>2. /\ sub \in Seq(S) /\ Len(sub) = IF 1 <= Len(s) - 1 THEN (Len(s) - 1) - 1 + 1 ELSE 0
        /\ \A i \in 1 .. (Len(s) - 1) - 1 + 1 : sub[i] = s[1 + i - 1]
    BY <1>1, SubSeqProperties
  <1>3. Front(s) = sub
    BY DEF Front
  <1> HIDE DEF sub
  <1>4. ASSUME NEW i \in 1 .. Len(s) - 1 PROVE i \in 1 .. (Len(s) - 1) - 1 + 1 /\ 1 + i - 1 = i
    BY <1>1
  <1>5. \A i \in 1 .. Len(s) - 1 : sub[i] = s[i]
    BY <1>2, <1>4
  <1>6. Len(sub) = Len(s) - 1
    <2>1. CASE Len(s) = 1
      BY <1>2, <2>1
    <2>2. CASE Len(s) >= 2
      BY <1>1, <1>2, <2>2
    <2>3. Len(s) = 1 \/ Len(s) >= 2
      <3>1. Len(s) \in Nat /\ Len(s) >= 1
        OBVIOUS
      <3>2. \A n \in Nat : n >= 1 => n = 1 \/ n >= 2
        OBVIOUS
      <3> QED BY <3>1, <3>2
    <2> QED BY <2>1, <2>2, <2>3
  <1> QED BY <1>2, <1>3, <1>5, <1>6

LEMMA Popped ==
  ASSUME NEW fs \in Seq(VmFrame), Len(fs) >= 2, NEW v
  PROVE  Cardinality(Running(fs, v)) =
            Cardinality(Running(Front(fs), v))
              + IF fs[Len(fs)].vm = v /\ fs[Len(fs)].generator = 0 THEN 1 ELSE 0
  <1> DEFINE f == fs[Len(fs)]
             gs == Front(fs)
  <1>1. gs \in Seq(VmFrame) /\ Len(gs) = Len(fs) - 1 /\ Len(fs) \in Nat
        /\ \A i \in 1 .. Len(fs) - 1 : gs[i] = fs[i]
    BY FrontIs
  <1>2. f \in VmFrame
    OBVIOUS
  <1>3. fs = Append(gs, f)
    <2>1. Append(gs, f) \in Seq(VmFrame) /\ Len(Append(gs, f)) = Len(fs)
      BY <1>1, <1>2
    <2>2. \A i \in 1 .. Len(fs) : Append(gs, f)[i] = fs[i]
      BY <1>1, <1>2
    <2> HIDE DEF gs, f
    <2> QED BY <2>1, <2>2, SeqEqual
  <1> HIDE DEF gs
  <1>4. Len(gs) >= 1
    BY <1>1
  <1> HIDE DEF f
  <1>5. Cardinality(Running(Append(gs, f), v)) =
            Cardinality(Running(gs, v)) + IF f.vm = v /\ f.generator = 0 THEN 1 ELSE 0
    BY <1>1, <1>2, <1>4, Pushed
  <1> QED BY <1>3, <1>5 DEF f, gs

LEMMA PopKeepsOrder ==
  ASSUME NEW fs \in Seq(VmFrame), Len(fs) >= 2, NEW ds, NEW es, Stacked(fs, ds),
         Len(es) = fs[Len(fs) - 1].vm
  PROVE  Stacked(Front(fs), es)
  <1> DEFINE gs == Front(fs)
  <1>1. gs \in Seq(VmFrame) /\ Len(gs) = Len(fs) - 1 /\ Len(fs) \in Nat
        /\ \A i \in 1 .. Len(fs) - 1 : gs[i] = fs[i]
    BY FrontIs
  <1> HIDE DEF gs
  <1>2. \A i \in 1 .. Len(gs) - 1 : gs[i] = fs[i] /\ gs[i + 1] = fs[i + 1] /\ i \in 1 .. Len(fs) - 1
    BY <1>1
  <1>3. gs[1].vm = 1 /\ gs[Len(gs)].vm = Len(es)
    BY <1>1 DEF Stacked
  <1>4. \A i \in 1 .. Len(gs) - 1 :
            \/ gs[i + 1].vm = gs[i].vm /\ gs[i + 1].generator = 0
            \/ gs[i + 1].vm = gs[i].vm + 1
    BY <1>2 DEF Stacked
  <1>5. \A i, j \in 1 .. Len(gs) : i <= j => gs[i].vm <= gs[j].vm
    BY <1>1 DEF Stacked
  <1> QED BY <1>3, <1>4, <1>5 DEF Stacked, gs

LEMMA PopSame ==
  ASSUME NEW fs \in Seq(VmFrame), Len(fs) >= 2, NEW ds \in Seq(Nat), NEW us \in Seq(Nat),
         Stacked(fs, ds), Accounted(fs, ds, us), Len(us) = Len(ds),
         fs[Len(fs) - 1].vm = fs[Len(fs)].vm
  PROVE  LET es == [ds EXCEPT ![fs[Len(fs)].vm] = @ - 1]
         IN  /\ Stacked(Front(fs), es) /\ Accounted(Front(fs), es, us)
             /\ es \in Seq(Nat) /\ Len(es) = Len(ds) /\ \A v \in 1 .. Len(ds) : es[v] <= ds[v]
  <1> DEFINE f == fs[Len(fs)]
             es == [ds EXCEPT ![f.vm] = @ - 1]
             gs == Front(fs)
  <1>1. f.vm = Len(ds) /\ f.generator = 0 /\ Len(ds) \in 1 .. Len(ds)
    <2>1. Len(fs) - 1 \in 1 .. Len(fs) - 1 /\ (Len(fs) - 1) + 1 = Len(fs)
      OBVIOUS
    <2>2. f \in VmFrame /\ fs[Len(fs) - 1] \in VmFrame
      OBVIOUS
    <2>3. f.vm = Len(ds)
      BY DEF Stacked
    <2>4. f.vm \in Nat \ {0} /\ fs[Len(fs) - 1].vm \in Nat
      BY <2>2 DEF VmFrame
    <2>5. \/ fs[(Len(fs) - 1) + 1].vm = fs[Len(fs) - 1].vm /\ fs[(Len(fs) - 1) + 1].generator = 0
          \/ fs[(Len(fs) - 1) + 1].vm = fs[Len(fs) - 1].vm + 1
      BY <2>1 DEF Stacked
    <2>6. f.generator = 0
      BY <2>1, <2>4, <2>5
    <2> QED BY <2>3, <2>4, <2>6
  <1>2. \A v : Cardinality(Running(fs, v)) = Cardinality(Running(gs, v)) + IF f.vm = v THEN 1 ELSE 0
    BY <1>1, Popped
  <1>3. \A v : Cardinality(Running(gs, v)) \in Nat
    BY FrontIs, RunningFinite
  <1> HIDE DEF gs
  <1>4. \A v \in 1 .. Len(ds) : ds[v] \in Nat /\ us[v] \in Nat
        /\ ds[v] = us[v] + (Cardinality(Running(gs, v)) + IF f.vm = v THEN 1 ELSE 0)
    BY <1>2 DEF Accounted
  <1>5. ds[Len(ds)] - 1 \in Nat
    <2>1. ds[Len(ds)] = us[Len(ds)] + (Cardinality(Running(gs, Len(ds))) + 1)
          /\ us[Len(ds)] \in Nat
      BY <1>1, <1>4
    <2> QED BY <1>3, <2>1
  <1>6. /\ es \in Seq(Nat) /\ Len(es) = Len(ds)
        /\ \A v \in 1 .. Len(ds) : es[v] = IF v = Len(ds) THEN ds[v] - 1 ELSE ds[v]
    BY <1>1, <1>5
  <1> HIDE DEF es
  <1>7. Accounted(gs, es, us)
    <2> SUFFICES ASSUME NEW v \in 1 .. Len(ds) PROVE es[v] = us[v] + Cardinality(Running(gs, v))
      BY <1>6 DEF Accounted
    <2>1. CASE v = Len(ds)
      <3>1. ds[v] = us[v] + (Cardinality(Running(gs, v)) + 1) /\ us[v] \in Nat
        BY <1>1, <1>4, <2>1
      <3> QED BY <1>3, <1>6, <2>1, <3>1, SMTT(30)
    <2>2. CASE v # Len(ds)
      <3>1. ds[v] = us[v] + (Cardinality(Running(gs, v)) + 0) /\ us[v] \in Nat
        BY <1>1, <1>4, <2>2
      <3> QED BY <1>3, <1>6, <2>2, <3>1
    <2> QED BY <2>1, <2>2
  <1>8. Stacked(gs, es)
    BY <1>1, <1>6, PopKeepsOrder DEF gs
  <1>9. \A v \in 1 .. Len(ds) : es[v] <= ds[v]
    BY <1>4, <1>6
  <1> QED BY <1>6, <1>7, <1>8, <1>9 DEF gs, es

LEMMA PopVm ==
  ASSUME NEW fs \in Seq(VmFrame), Len(fs) >= 2, NEW ds \in Seq(Nat), NEW us \in Seq(Nat),
         Stacked(fs, ds), Accounted(fs, ds, us), Len(us) = Len(ds),
         fs[Len(fs) - 1].vm # fs[Len(fs)].vm
  PROVE  Len(ds) >= 1 /\ Stacked(Front(fs), Front(ds)) /\ Accounted(Front(fs), Front(ds), Front(us))
  <1> DEFINE f == fs[Len(fs)]
             gs == Front(fs)
  <1>1. f.vm = Len(ds) /\ fs[Len(fs) - 1].vm = Len(ds) - 1 /\ Len(ds) \in Nat /\ Len(ds) >= 1
    <2>1. Len(fs) - 1 \in 1 .. Len(fs) - 1 /\ (Len(fs) - 1) + 1 = Len(fs)
      OBVIOUS
    <2>2. f \in VmFrame /\ fs[Len(fs) - 1] \in VmFrame
      OBVIOUS
    <2>3. f.vm = Len(ds)
      BY DEF Stacked
    <2>4. f.vm \in Nat \ {0} /\ fs[Len(fs) - 1].vm \in Nat
      BY <2>2 DEF VmFrame
    <2>5. f.vm = fs[Len(fs) - 1].vm + 1
      BY <2>1, <2>4 DEF Stacked
    <2> DEFINE m == fs[Len(fs) - 1].vm
               n == Len(ds)
    <2>6. f.vm = n /\ f.vm = m + 1 /\ m \in Nat
      BY <2>3, <2>4, <2>5
    <2> HIDE DEF m
    <2> HIDE DEF n
    <2>7. f.vm = n /\ m = n - 1 /\ n \in Nat /\ n >= 1
      BY <2>6
    <2> QED BY <2>7 DEF m, n
  <1>2. \A v : Cardinality(Running(fs, v)) = Cardinality(Running(gs, v))
                  + IF f.vm = v /\ f.generator = 0 THEN 1 ELSE 0
    BY Popped
  <1>3. \A v : Cardinality(Running(gs, v)) \in Nat
    BY FrontIs, RunningFinite
  <1>4. /\ Len(Front(ds)) = Len(ds) - 1
        /\ \A v \in 1 .. Len(ds) - 1 : Front(ds)[v] = ds[v] /\ Front(us)[v] = us[v]
    BY <1>1, FrontIs
  <1> HIDE DEF gs
  <1>5. Accounted(gs, Front(ds), Front(us))
    <2> SUFFICES ASSUME NEW v \in 1 .. Len(ds) - 1
                 PROVE  ds[v] = us[v] + Cardinality(Running(gs, v))
      BY <1>4 DEF Accounted
    <2>1. v \in 1 .. Len(ds) /\ f.vm # v
      BY <1>1, SMTT(30)
    <2>2. ds[v] = us[v] + Cardinality(Running(fs, v))
      BY <2>1 DEF Accounted
    <2>3. Cardinality(Running(fs, v)) = Cardinality(Running(gs, v)) + 0
      BY <1>2, <2>1
    <2> QED BY <1>3, <2>2, <2>3
  <1>6. Stacked(gs, Front(ds))
    BY <1>1, <1>4, PopKeepsOrder DEF gs
  <1> QED BY <1>1, <1>5, <1>6 DEF gs

LEMMA SameStack ==
  ASSUME NEW fs \in Seq(VmFrame), NEW gs \in Seq(VmFrame), Len(gs) = Len(fs), Len(fs) >= 1,
         \A i \in 1 .. Len(fs) : gs[i].vm = fs[i].vm /\ gs[i].generator = fs[i].generator,
         NEW ds, NEW us, Stacked(fs, ds), Accounted(fs, ds, us)
  PROVE  Stacked(gs, ds) /\ Accounted(gs, ds, us)
  <1>1. ASSUME NEW v PROVE Running(gs, v) = Running(fs, v)
    <2>1. \A i \in 2 .. Len(fs) : gs[i].vm = fs[i].vm /\ gs[i].generator = fs[i].generator
      OBVIOUS
    <2> QED BY <2>1 DEF Running
  <1>2. Accounted(gs, ds, us)
    BY <1>1 DEF Accounted
  <1>3. Len(fs) \in Nat /\ 1 \in 1 .. Len(fs) /\ Len(fs) \in 1 .. Len(fs)
    OBVIOUS
  <1>4. gs[1].vm = 1 /\ gs[Len(gs)].vm = Len(ds)
    BY <1>3 DEF Stacked
  <1>5. ASSUME NEW i \in 1 .. Len(gs) - 1
        PROVE  \/ gs[i + 1].vm = gs[i].vm /\ gs[i + 1].generator = 0
               \/ gs[i + 1].vm = gs[i].vm + 1
    <2>1. i \in 1 .. Len(fs) /\ i + 1 \in 1 .. Len(fs) /\ i \in 1 .. Len(fs) - 1
      BY <1>3
    <2> QED BY <2>1 DEF Stacked
  <1>6. \A i, j \in 1 .. Len(gs) : i <= j => gs[i].vm <= gs[j].vm
    BY DEF Stacked
  <1> QED BY <1>2, <1>4, <1>5, <1>6 DEF Stacked

-----------------------------------------------------------------------------
(* The steps.                                                              *)
LEMMA HereIs ==
  ASSUME CallInv
  PROVE  Here = frames[Len(frames)] /\ Here \in VmFrame /\ Len(frames) \in 1 .. Len(frames)
         /\ FrameHas(source, Len(cellMaps), Here) /\ Here.vm = Len(depths)
  BY DEF CallInv, Shapes, CellsMade, Here, Last, Stacked

LEMMA StepKept ==
  ASSUME CallInv, source' = source, Len(cellMaps') >= Len(cellMaps), cellMaps' \in Seq(Locals)
  PROVE  /\ \A i \in 1 .. Len(frames) : FrameHas(source', Len(cellMaps'), frames[i])
         /\ \A g \in 1 .. Len(generators) : FrameHas(source', Len(cellMaps'), generators[g].frame)
         /\ \A f \in 1 .. Len(functions) : FunctionHas(source', Len(cellMaps'), functions[f])
  <1>1. Len(cellMaps) \in Nat /\ Len(cellMaps') \in Nat
    BY DEF CallInv, Shapes
  <1>2. ASSUME NEW n \in Nat, n <= Len(cellMaps) PROVE n <= Len(cellMaps')
    BY <1>1, <1>2
  <1>3. /\ \A i \in 1 .. Len(frames) : frames[i].cells \in Nat
        /\ \A g \in 1 .. Len(generators) : generators[g].frame.cells \in Nat
        /\ \A f \in 1 .. Len(functions) : functions[f].cells \in Nat
    <2>1. \A f \in VmFrame : f.cells \in Nat
      BY DEF VmFrame
    <2>2. \A f \in Function : f.cells \in Nat
      BY DEF Function
    <2>3. /\ \A i \in 1 .. Len(frames) : frames[i] \in VmFrame
          /\ \A g \in 1 .. Len(generators) : generators[g].frame \in VmFrame
          /\ \A f \in 1 .. Len(functions) : functions[f] \in Function
      <3>1. frames \in Seq(VmFrame) /\ functions \in Seq(Function)
            /\ generators \in Seq(Generator)
        BY DEF CallInv, Shapes
      <3>2. \A g \in Generator : g.frame \in VmFrame
        BY DEF Generator
      <3>3. \A g \in 1 .. Len(generators) : generators[g] \in Generator
        BY <3>1
      <3> QED BY <3>1, <3>2, <3>3
    <2> QED BY <2>1, <2>2, <2>3
  <1> QED BY <1>2, <1>3 DEF CallInv, CellsMade, FrameHas, FunctionHas

LEMMA StoreInv ==
  ASSUME CallInv, NEW n \in Identifiers, Store(n)
  PROVE  CallInv'
  <1>1. PICK v, l : v = <<"stored", stores + 1>> /\ l = Len(frames)
    OBVIOUS
  <1>2. /\ Shapes /\ l \in 1 .. Len(frames) /\ Here = frames[l] /\ Here \in VmFrame
    BY <1>1, HereIs DEF CallInv
  <1>3. v \in VmValues
    BY <1>1, <1>2 DEF Shapes, VmValues, Passable
  <1>4. /\ frames' = frames \/ frames' = [frames EXCEPT ![l].locals[n] = v]
        /\ cellMaps' = cellMaps \/ cellMaps' = [cellMaps EXCEPT ![Here.cells][n] = v]
        /\ scopes' = Written(Here.scope, n, v)
        /\ stores' = stores + 1 /\ bound' = NoCall
        /\ UNCHANGED <<source, functions, generators, depths, unbalanced>>
    BY <1>1 DEF Store, StoreDeref, StoreFast
  <1>5. ASSUME NEW f \in Locals PROVE [f EXCEPT ![n] = v] \in Locals
    BY <1>3 DEF Locals
  <1>6. /\ frames' \in Seq(VmFrame) /\ Len(frames') = Len(frames)
        /\ \A i \in 1 .. Len(frames) : /\ frames'[i].vm = frames[i].vm
                                       /\ frames'[i].generator = frames[i].generator
                                       /\ frames'[i].cells = frames[i].cells
                                       /\ frames'[i].code = frames[i].code
    <2>1. CASE frames' = frames
      BY <1>2, <2>1 DEF Shapes
    <2>2. CASE frames' = [frames EXCEPT ![l].locals[n] = v]
      <3> DEFINE g == [frames[l] EXCEPT !.locals[n] = v]
      <3>1. g \in VmFrame /\ g.vm = frames[l].vm /\ g.generator = frames[l].generator
            /\ g.cells = frames[l].cells /\ g.code = frames[l].code
        <4>1. frames[l].locals \in Locals /\ frames[l] \in VmFrame
          BY <1>2 DEF VmFrame
        <4>2. [frames[l].locals EXCEPT ![n] = v] \in Locals
          BY <1>5, <4>1
        <4> QED BY <4>1, <4>2 DEF VmFrame
      <3>2. frames' = [frames EXCEPT ![l] = g]
        BY <2>2
      <3> HIDE DEF g
      <3>3. frames \in Seq(VmFrame)
        BY <1>2 DEF Shapes
      <3> QED BY <1>2, <3>1, <3>2, <3>3
    <2> QED BY <1>4, <2>1, <2>2
  <1>7. cellMaps' \in Seq(Locals) /\ Len(cellMaps') = Len(cellMaps)
    <2>1. cellMaps \in Seq(Locals)
      BY <1>2 DEF Shapes
    <2>2. ASSUME NEW i \in 1 .. Len(cellMaps) PROVE [cellMaps[i] EXCEPT ![n] = v] \in Locals
      BY <1>5, <2>1
    <2> QED BY <1>4, <2>1, <2>2
  <1>8. scopes' \in Seq(Scope)
    <2> DEFINE o == Owner(Here.scope, n)
               w == [value |-> v, first |-> IF scopes[o].vars[n].value = Null THEN Len(scopes)
                                            ELSE scopes[o].vars[n].first,
                     once |-> scopes[o].vars[n].value = Null,
                     foreign |-> scopes[o].vars[n].foreign \/ o # Here.scope]
    <2>1. scopes' = [scopes EXCEPT ![o].vars[n] = w] /\ scopes \in Seq(Scope)
      BY <1>2, <1>4 DEF Written, Shapes
    <2> HIDE DEF o
    <2>2. ASSUME o \in 1 .. Len(scopes) PROVE [scopes[o] EXCEPT !.vars[n] = w] \in Scope
      <3>1. scopes[o] \in Scope
        BY <2>1, <2>2
      <3>2. scopes[o].vars \in [Identifiers -> [value : VmValues, first : Nat, once : BOOLEAN, foreign : BOOLEAN]]
            /\ Len(scopes) \in Nat
        BY <2>1, <3>1 DEF Scope
      <3>3. w \in [value : VmValues, first : Nat, once : BOOLEAN, foreign : BOOLEAN]
        BY <1>3, <3>2
      <3> HIDE DEF w
      <3> QED BY <3>1, <3>2, <3>3 DEF Scope
    <2> HIDE DEF w
    <2>3. CASE o \in 1 .. Len(scopes)
      BY <2>1, <2>2, <2>3
    <2>4. CASE o \notin 1 .. Len(scopes)
      <3>1. scopes' = scopes
        BY <2>1, <2>4
      <3> QED BY <2>1, <3>1
    <2> QED BY <2>3, <2>4
  <1>9. Shapes'
    BY <1>2, <1>4, <1>6, <1>7, <1>8 DEF Shapes
  <1>10. CellsMade'
    <2>1. /\ \A i \in 1 .. Len(frames) : FrameHas(source', Len(cellMaps'), frames[i])
          /\ \A g \in 1 .. Len(generators) : FrameHas(source', Len(cellMaps'), generators[g].frame)
          /\ \A f \in 1 .. Len(functions) : FunctionHas(source', Len(cellMaps'), functions[f])
      <3>1. source' = source /\ Len(cellMaps') >= Len(cellMaps)
        BY <1>2, <1>4, <1>7 DEF Shapes
      <3> QED BY <1>7, <3>1, StepKept
    <2> QED BY <1>4, <1>6, <2>1 DEF CellsMade, FrameHas
  <1>11. Stacked(frames', depths') /\ Accounted(frames', depths', unbalanced')
    <2>1. frames \in Seq(VmFrame) /\ Len(frames) >= 1 /\ depths' = depths /\ unbalanced' = unbalanced
      BY <1>2, <1>4 DEF Shapes
    <2> QED BY <1>6, <2>1, SameStack DEF CallInv
  <1>12. ArgumentsBound'
    BY <1>4 DEF ArgumentsBound, NoCall
  <1> QED BY <1>9, <1>10, <1>11, <1>12 DEF CallInv

LEMMA OverTyped ==
  ASSUME NEW f \in Locals, NEW g \in Locals
  PROVE  Over(f, g) \in Locals /\ NoValues \in Locals
  <1>1. Null \in VmValues
    BY DEF VmValues
  <1> HIDE DEF VmValues
  <1> QED BY <1>1 DEF Over, Locals, NoValues

LEMMA MakeFunctionInv ==
  ASSUME CallInv, NEW c \in Codes, MakeFunction(c)
  PROVE  CallInv'
  <1>1. Shapes /\ Here \in VmFrame /\ FrameHas(source, Len(cellMaps), Here)
    BY HereIs DEF CallInv
  <1>2. PICK fn : fn = [code |-> c, globals |-> Captured(Here),
            cells |-> IF Freevars(c) = {} THEN 0 ELSE Here.cells, scope |-> Here.scope,
            known |-> Here.known \cup {<<Here.scope, n>> : n \in {n \in Identifiers :
                                            scopes[Here.scope].vars[n].value # Null}}]
    OBVIOUS
  <1>3. /\ Def(c).parent = Here.code
        /\ functions' = Append(functions, fn)
        /\ bound' = NoCall
        /\ UNCHANGED <<source, frames, generators, depths, unbalanced, scopes, stores>>
        /\ cellMaps' = IF Freevars(c) = {} THEN cellMaps ELSE
             [cellMaps EXCEPT ![Here.cells] =
               [n \in Identifiers |-> IF n \in Freevars(c) /\ @[n] = Null THEN Here.locals[n] ELSE @[n]]]
    BY <1>2 DEF MakeFunction
  <1>4. Here.locals \in Locals /\ Here.globals \in Locals /\ Here.cells \in Nat /\ Here.scope \in Nat
        /\ Here.known \in SUBSET (Nat \X Identifiers) /\ Here.code \in Codes
    BY <1>1 DEF VmFrame
  <1>5. Captured(Here) \in Locals
    BY <1>4, OverTyped DEF Captured
  <1>6. fn \in Function /\ fn.code = c /\ fn.cells = IF Freevars(c) = {} THEN 0 ELSE Here.cells
    <2>1. Here.known \cup {<<Here.scope, n>> : n \in {n \in Identifiers :
              scopes[Here.scope].vars[n].value # Null}} \in SUBSET (Nat \X Identifiers)
      BY <1>4
    <2> QED BY <1>2, <1>4, <1>5, <2>1 DEF Function
  <1>7. cellMaps' \in Seq(Locals) /\ Len(cellMaps') = Len(cellMaps)
    <2>1. cellMaps \in Seq(Locals)
      BY <1>1 DEF Shapes
    <2> DEFINE filled(m) ==
                 [n \in Identifiers |-> IF n \in Freevars(c) /\ m[n] = Null THEN Here.locals[n] ELSE m[n]]
    <2>2. \A m \in Locals : filled(m) \in Locals
      BY <1>4 DEF Locals
    <2>5. cellMaps' = IF Freevars(c) = {} THEN cellMaps
                      ELSE [cellMaps EXCEPT ![Here.cells] = filled(cellMaps[Here.cells])]
      BY <1>3
    <2> HIDE DEF filled
    <2>3. CASE Freevars(c) = {}
      BY <1>3, <2>1, <2>3
    <2>4. CASE Freevars(c) # {}
      <3>1. Here.cells \in 1 .. Len(cellMaps) => filled(cellMaps[Here.cells]) \in Locals
        BY <2>1, <2>2
      <3>2. CASE Here.cells \in 1 .. Len(cellMaps)
        BY <2>1, <2>4, <2>5, <3>1, <3>2
      <3>3. CASE Here.cells \notin 1 .. Len(cellMaps)
        <4>1. cellMaps' = cellMaps
          BY <2>1, <2>4, <2>5, <3>3
        <4> QED BY <2>1, <4>1
      <3> QED BY <3>2, <3>3
    <2> QED BY <2>3, <2>4
  <1>8. functions' \in Seq(Function) /\ Len(functions') = Len(functions) + 1
        /\ functions'[Len(functions) + 1] = fn /\ Len(functions) \in Nat
        /\ \A i \in 1 .. Len(functions) : functions'[i] = functions[i]
    <2>1. functions \in Seq(Function)
      BY <1>1 DEF Shapes
    <2> QED BY <1>3, <1>6, <2>1
  <1>9. Shapes'
    BY <1>1, <1>3, <1>7, <1>8 DEF Shapes
  <1>10. FunctionHas(source, Len(cellMaps), fn)
    <2>1. Freevars(c) = source.defs[c].nonlocals /\ source.defs[c].parent = Here.code
      BY <1>3 DEF Freevars, Def
    <2>2. Freevars(c) \subseteq Shared(source, Here.code)
      BY <2>1 DEF Shared
    <2>3. 0 <= Len(cellMaps) /\ Here.cells <= Len(cellMaps) /\ (Freevars(c) # {} => Here.cells # 0)
      BY <1>1, <2>2 DEF FrameHas, Shapes
    <2> QED BY <1>6, <2>1, <2>3 DEF FunctionHas
  <1>11. CellsMade'
    <2>1. /\ \A i \in 1 .. Len(frames) : FrameHas(source', Len(cellMaps'), frames[i])
          /\ \A g \in 1 .. Len(generators) : FrameHas(source', Len(cellMaps'), generators[g].frame)
          /\ \A f \in 1 .. Len(functions) : FunctionHas(source', Len(cellMaps'), functions[f])
      <3>1. source' = source /\ Len(cellMaps') >= Len(cellMaps)
        BY <1>1, <1>3, <1>7 DEF Shapes
      <3> QED BY <1>7, <3>1, StepKept
    <2>2. \A f \in 1 .. Len(functions') : FunctionHas(source', Len(cellMaps'), functions'[f])
      <3>1. \A f \in 1 .. Len(functions') : f \in 1 .. Len(functions) \/ f = Len(functions) + 1
        BY <1>8
      <3> QED BY <1>3, <1>7, <1>8, <1>10, <2>1, <3>1
    <2> QED BY <1>3, <2>1, <2>2 DEF CellsMade
  <1>12. Stacked(frames', depths') /\ Accounted(frames', depths', unbalanced')
    BY <1>3 DEF CallInv
  <1>13. ArgumentsBound'
    BY <1>3 DEF ArgumentsBound, NoCall
  <1> QED BY <1>9, <1>11, <1>12, <1>13 DEF CallInv

LEMMA TooDeepInv ==
  ASSUME CallInv, NEW how, TooDeep(how)
  PROVE  CallInv'
  <1>1. bound' = NoCall /\ UNCHANGED <<source, frames, functions, cellMaps, generators, depths,
                                       unbalanced, scopes, stores>>
    BY DEF TooDeep
  <1> QED BY <1>1 DEF CallInv, Shapes, CellsMade, ArgumentsBound, NoCall

LEMMA DepthGrows ==
  ASSUME CallInv, NEW how, ~OwnVm(how), ~Refused(how)
  PROVE  /\ [depths EXCEPT ![Len(depths)] = @ + 1] \in Seq(0 .. DepthLimit)
         /\ Len([depths EXCEPT ![Len(depths)] = @ + 1]) = Len(depths)
         /\ Len(depths) \in 1 .. Len(depths) /\ depths \in Seq(Nat)
  <1>1. /\ depths \in Seq(0 .. DepthLimit) /\ DepthLimit \in Nat
        /\ frames[Len(frames)].vm = Len(depths) /\ frames[Len(frames)] \in VmFrame
    BY DEF CallInv, Shapes, Stacked
  <1>2. Len(depths) \in 1 .. Len(depths)
    BY <1>1 DEF VmFrame
  <1>3. depths[Len(depths)] \in 0 .. DepthLimit /\ depths[Len(depths)] # DepthLimit
    BY <1>1, <1>2 DEF Refused, Last
  <1>4. depths[Len(depths)] + 1 \in 0 .. DepthLimit
    BY <1>1, <1>3
  <1>5. depths \in Seq(Nat)
    BY <1>1
  <1> QED BY <1>1, <1>2, <1>4, <1>5

LEMMA LacksArgumentInv ==
  ASSUME CallInv, NEW f \in DOMAIN functions, NEW how, NEW args \in Seq(Passable),
         NEW kw \in SUBSET Identifiers, LacksArgument(f, how, args, kw)
  PROVE  CallInv'
  <1>1. PICK c : c = functions[f].code
    OBVIOUS
  <1>2. /\ ~Refused(how) /\ Unfilled(c, args, kw)
        /\ bound' = [judged |-> PyAccepts(c, args, kw) \/ PyUnfilled(c, args, kw), got |-> Null,
                     want |-> IF PyUnfilled(c, args, kw) THEN Null ELSE PyArguments(c, args, kw)]
        /\ IF OwnVm(how) THEN UNCHANGED <<depths, unbalanced>>
           ELSE /\ depths' = [depths EXCEPT ![Len(depths)] = @ + 1]
                /\ unbalanced' = [unbalanced EXCEPT ![Len(depths)] = @ + 1]
        /\ UNCHANGED <<source, frames, functions, cellMaps, generators, scopes, stores>>
    BY <1>1, Zenon DEF LacksArgument
  <1>3. c \in Codes /\ source \in Sources
    <2>1. functions \in Seq(Function) /\ source \in Sources
      BY DEF CallInv, Shapes
    <2>2. functions[f] \in Function
      BY <2>1
    <2> QED BY <1>1, <2>1, <2>2 DEF Function
  <1>4. ArgumentsBound'
    BY <1>2, <1>3, UnfilledAsPython DEF ArgumentsBound
  <1>5. CellsMade'
    BY <1>2 DEF CallInv, CellsMade
  <1>6. CASE OwnVm(how)
    BY <1>2, <1>4, <1>5, <1>6 DEF CallInv, Shapes
  <1>7. CASE ~OwnVm(how)
    <2>1. /\ depths' = [depths EXCEPT ![Len(depths)] = @ + 1]
          /\ unbalanced' = [unbalanced EXCEPT ![Len(depths)] = @ + 1]
      BY <1>2, <1>7
    <2>2. /\ depths' \in Seq(0 .. DepthLimit) /\ Len(depths') = Len(depths)
          /\ Len(depths) \in 1 .. Len(depths) /\ depths \in Seq(Nat)
      BY <1>2, <1>7, <2>1, DepthGrows
    <2>3. /\ unbalanced \in Seq(Nat) /\ Len(unbalanced) = Len(depths) /\ frames \in Seq(VmFrame)
      BY DEF CallInv, Shapes
    <2>4. unbalanced' \in Seq(Nat) /\ Len(unbalanced') = Len(depths')
      <3>1. unbalanced[Len(depths)] + 1 \in Nat
        BY <2>2, <2>3
      <3> QED BY <2>1, <2>2, <2>3, <3>1
    <2>5. Shapes'
      BY <1>2, <2>2, <2>4 DEF CallInv, Shapes
    <2>6. Accounted(frames', depths', unbalanced')
      <3> SUFFICES ASSUME NEW v \in 1 .. Len(depths)
                   PROVE  depths'[v] = unbalanced'[v] + Cardinality(Running(frames, v))
        BY <1>2, <2>2 DEF Accounted
      <3>1. depths[v] = unbalanced[v] + Cardinality(Running(frames, v))
        BY DEF CallInv, Accounted
      <3>2. depths[v] \in Nat /\ unbalanced[v] \in Nat /\ Cardinality(Running(frames, v)) \in Nat
        BY <2>2, <2>3, RunningFinite
      <3>3. CASE v = Len(depths)
        <4>1. depths'[v] = depths[v] + 1 /\ unbalanced'[v] = unbalanced[v] + 1
          BY <2>1, <2>2, <2>3, <3>3
        <4> QED BY <3>1, <3>2, <4>1
      <3>4. CASE v # Len(depths)
        <4>1. depths'[v] = depths[v]
          <5>1. v \in DOMAIN depths
            BY <2>2
          <5> QED BY <2>1, <3>4, <5>1, Zenon
        <4>2. unbalanced'[v] = unbalanced[v]
          BY <2>1, <2>3, <3>4
        <4> QED BY <3>1, <4>1, <4>2
      <3> QED BY <3>3, <3>4
    <2>7. Stacked(frames', depths')
      BY <1>2, <2>2 DEF CallInv, Stacked
    <2> QED BY <1>4, <1>5, <2>5, <2>6, <2>7 DEF CallInv
  <1> QED BY <1>6, <1>7

(* What is to be known of the frame that a call of the code c makes.       *)
FrameFor(c, fr) ==
    /\ fr \in VmFrame
    /\ fr.code = c /\ fr.vm = Len(depths) /\ fr.generator = 0
    /\ fr.cells \in 0 .. Len(cellMaps) + 1
    /\ Shared(source, c) # {} => fr.cells # 0

LEMMA NewFrameTyped ==
  ASSUME CallInv, NEW f \in DOMAIN functions, NEW how, NEW args \in Seq(Passable),
         NEW kw \in SUBSET Identifiers, NEW fr,
         fr = NewFrame(f, how, Arguments(functions[f].code, args, kw))
  PROVE  FrameFor(functions[f].code, fr)
  <1> DEFINE c == functions[f].code
             got == Arguments(c, args, kw)
             locals == [n \in Identifiers |-> IF n \in DOMAIN got THEN got[n] ELSE Null]
             globals == Over(functions[f].globals, FromCaller(how))
             cells == IF functions[f].cells # 0 THEN functions[f].cells
                      ELSE IF Cellvars(c) # {} THEN Len(cellMaps) + 1 ELSE 0
             until == IF OwnVm(how) THEN 0 ELSE IF Len(frames) = 1 THEN Len(scopes) ELSE Here.until
  <1>1. /\ functions \in Seq(Function) /\ source \in Sources /\ Len(cellMaps) \in Nat
        /\ Len(scopes) \in Nat /\ Here \in VmFrame /\ Here.vm = Len(depths)
    BY HereIs DEF CallInv, Shapes
  <1>2. /\ functions[f] \in Function /\ FunctionHas(source, Len(cellMaps), functions[f])
    BY <1>1 DEF CallInv, CellsMade
  <1>3. /\ c \in Codes /\ functions[f].globals \in Locals /\ functions[f].cells \in Nat
        /\ functions[f].scope \in Nat /\ functions[f].known \in SUBSET (Nat \X Identifiers)
    BY <1>2 DEF Function
  <1>4. Here.locals \in Locals /\ Here.globals \in Locals /\ Here.until \in Nat /\ Here.vm \in Nat \ {0}
    BY <1>1 DEF VmFrame
  <1>5. locals \in Locals
    <2>1. DOMAIN got = ToSet(Parameters(c)) /\ \A n \in ToSet(Parameters(c)) : got[n] \in VmValues
      BY <1>1, <1>3, ArgumentsTyped
    <2>2. Null \in VmValues
      BY DEF VmValues
    <2> HIDE DEF got
    <2> HIDE DEF VmValues
    <2> QED BY <2>1, <2>2 DEF Locals
  <1>6. globals \in Locals
    <2>1. FromCaller(how) \in Locals
      <3>1. NoValues \in Locals /\ Over(Here.globals, Here.locals) \in Locals
            /\ Over(Here.locals, Here.globals) \in Locals
        BY <1>4, OverTyped
      <3> QED BY <3>1, Zenon DEF FromCaller, OwnVm
    <2> QED BY <1>3, <2>1, OverTyped
  <1>7. cells \in 0 .. Len(cellMaps) + 1
    BY <1>1, <1>2, <1>3 DEF FunctionHas
  <1>8. Shared(source, c) # {} => cells # 0
    <2>1. Shared(source, c) = Cellvars(c) \cup source.defs[c].nonlocals
      <3>1. Cellvars(c) = UNION {source.defs[k].nonlocals : k \in {d \in Codes : source.defs[d].parent = c}}
        BY Zenon DEF Cellvars, Def
      <3> QED BY <3>1 DEF Shared
    <2> QED BY <1>1, <1>2, <1>3, <2>1 DEF FunctionHas
  <1>9. until \in Nat
    BY <1>1, <1>4
  <1>10. Len(scopes) + 1 \in Nat /\ Len(depths) \in Nat \ {0}
    BY <1>1, <1>4
  <1>11. fr = [code |-> c, locals |-> locals, globals |-> globals, cells |-> cells,
               scope |-> Len(scopes) + 1, generator |-> 0, vm |-> Len(depths),
               known |-> functions[f].known, until |-> until]
    BY Zenon DEF NewFrame
  <1> HIDE DEF c, got, locals, globals, cells, until
  <1>12. cells \in Nat
    BY <1>1, <1>7
  <1>13. fr \in VmFrame
    BY <1>3, <1>5, <1>6, <1>9, <1>10, <1>11, <1>12 DEF VmFrame
  <1>14. fr.code = c /\ fr.vm = Len(depths) /\ fr.generator = 0 /\ fr.cells = cells
    BY <1>11
  <1> QED BY <1>7, <1>8, <1>13, <1>14 DEF c, FrameFor

LEMMA EntersInv ==
  ASSUME CallInv, NEW f \in DOMAIN functions, NEW how, NEW args \in Seq(Passable),
         NEW kw \in SUBSET Identifiers, Enters(f, how, args, kw)
  PROVE  CallInv'
  <1>1. PICK c, fr, got : c = functions[f].code /\ got = Arguments(c, args, kw) /\ fr = NewFrame(f, how, got)
    OBVIOUS
  <1>2. PICK sc : sc = [code |-> c, inside |-> functions[f].scope,
            vars |-> [n \in Identifiers |-> IF n \in DOMAIN got
                          THEN [NoVariable EXCEPT !.value = got[n], !.first = Len(scopes) + 1]
                          ELSE NoVariable]]
    OBVIOUS
  <1>3. /\ ~Refused(how) /\ ~Unfilled(c, args, kw)
        /\ bound' = [judged |-> /\ PyAccepts(c, args, kw)
                                /\ ToSet(Def(c).kwonly) \subseteq kw
                                /\ Def(c).kwarg = Null \/ Def(c).kwonly = <<>>,
                     got |-> got, want |-> PyArguments(c, args, kw)]
        /\ scopes' = Append(scopes, sc)
        /\ cellMaps' = IF fr.cells > Len(cellMaps) THEN Append(cellMaps, NoValues) ELSE cellMaps
        /\ IF Def(c).generator
           THEN /\ generators' = Append(generators, [frame |-> fr, state |-> "ready"])
                /\ UNCHANGED <<frames, depths, unbalanced>>
           ELSE IF OwnVm(how)
           THEN /\ frames' = Append(frames, [fr EXCEPT !.vm = Len(depths) + 1])
                /\ depths' = Append(depths, 1) /\ unbalanced' = Append(unbalanced, 0)
                /\ UNCHANGED generators
           ELSE /\ frames' = Append(frames, fr)
                /\ depths' = [depths EXCEPT ![Len(depths)] = @ + 1]
                /\ UNCHANGED <<generators, unbalanced>>
        /\ UNCHANGED <<source, functions, stores>>
    BY <1>1, <1>2, Zenon DEF Enters
  <1>4. Shapes /\ source \in Sources /\ functions \in Seq(Function) /\ functions[f] \in Function
    BY DEF CallInv, Shapes
  <1>5. c \in Codes /\ functions[f].scope \in Nat
    BY <1>1, <1>4 DEF Function
  <1>6. /\ fr \in VmFrame /\ fr.code = c /\ fr.vm = Len(depths) /\ fr.generator = 0
        /\ fr.cells \in 0 .. Len(cellMaps) + 1 /\ (Shared(source, c) # {} => fr.cells # 0)
    <2>1. fr = NewFrame(f, how, Arguments(c, args, kw)) /\ c = functions[f].code
      BY <1>1
    <2>2. FrameFor(c, fr)
      BY <2>1, NewFrameTyped
    <2> QED BY <2>2 DEF FrameFor
  <1>7. ArgumentsBound'
    BY <1>1, <1>3, <1>4, <1>5, BindsAsPython DEF ArgumentsBound
  <1>8. sc \in Scope
    <2>1. DOMAIN got = ToSet(Parameters(c)) /\ \A n \in ToSet(Parameters(c)) : got[n] \in VmValues
      BY <1>1, <1>4, <1>5, ArgumentsTyped
    <2>2. Null \in VmValues /\ Len(scopes) + 1 \in Nat
      BY <1>4 DEF VmValues, Shapes
    <2> DEFINE V == [value : VmValues, first : Nat, once : BOOLEAN, foreign : BOOLEAN]
    <2>3. ASSUME NEW x \in VmValues
          PROVE  NoVariable \in V /\ [NoVariable EXCEPT !.value = x, !.first = Len(scopes) + 1] \in V
      BY <2>2 DEF NoVariable
    <2>4. [n \in Identifiers |-> IF n \in DOMAIN got
                          THEN [NoVariable EXCEPT !.value = got[n], !.first = Len(scopes) + 1]
                          ELSE NoVariable] \in [Identifiers -> V]
      <3> HIDE DEF V
      <3> QED BY <2>1, <2>2, <2>3
    <2> QED BY <1>2, <1>5, <2>4 DEF Scope
  <1>9. scopes' \in Seq(Scope)
    BY <1>3, <1>4, <1>8 DEF Shapes
  <1>10. /\ cellMaps' \in Seq(Locals) /\ Len(cellMaps') >= Len(cellMaps) /\ Len(cellMaps') \in Nat
         /\ Len(cellMaps) \in Nat /\ fr.cells <= Len(cellMaps')
    <2>1. cellMaps \in Seq(Locals) /\ Len(cellMaps) \in Nat /\ NoValues \in Locals
      BY <1>4 DEF Shapes, Locals, NoValues, VmValues
    <2>2. CASE fr.cells > Len(cellMaps)
      <3>1. cellMaps' \in Seq(Locals) /\ Len(cellMaps') = Len(cellMaps) + 1
        BY <1>3, <2>1, <2>2
      <3>2. \A m, n \in Nat : \A k \in 0 .. m + 1 : n = m + 1 => n >= m /\ n \in Nat /\ k <= n
        OBVIOUS
      <3>3. Len(cellMaps') \in Nat
        BY <3>1
      <3>4. fr.cells \in 0 .. Len(cellMaps) + 1
        BY <1>6
      <3>5. Len(cellMaps') >= Len(cellMaps) /\ fr.cells <= Len(cellMaps')
        BY <2>1, <3>1, <3>2, <3>3, <3>4
      <3> QED BY <2>1, <3>1, <3>3, <3>5
    <2>3. CASE ~(fr.cells > Len(cellMaps))
      <3>1. cellMaps' = cellMaps
        BY <1>3, <2>3
      <3>2. \A m \in Nat : \A k \in 0 .. m + 1 : ~(k > m) => k <= m /\ m >= m
        OBVIOUS
      <3>3. fr.cells \in 0 .. Len(cellMaps) + 1
        BY <1>6
      <3>4. fr.cells <= Len(cellMaps) /\ Len(cellMaps) >= Len(cellMaps)
        BY <2>1, <2>3, <3>2, <3>3
      <3> QED BY <2>1, <3>1, <3>4
    <2> QED BY <2>2, <2>3
  <1>11. /\ \A i \in 1 .. Len(frames) : FrameHas(source', Len(cellMaps'), frames[i])
         /\ \A g \in 1 .. Len(generators) : FrameHas(source', Len(cellMaps'), generators[g].frame)
         /\ \A g \in 1 .. Len(functions') : FunctionHas(source', Len(cellMaps'), functions'[g])
    BY <1>3, <1>10, StepKept
  <1>12. FrameHas(source', Len(cellMaps'), fr)
    BY <1>3, <1>6, <1>10 DEF FrameHas
  <1>13. /\ frames \in Seq(VmFrame) /\ Len(frames) >= 1 /\ generators \in Seq(Generator)
         /\ depths \in Seq(0 .. DepthLimit) /\ unbalanced \in Seq(Nat) /\ Len(unbalanced) = Len(depths)
         /\ depths \in Seq(Nat) /\ Len(depths) \in Nat
         /\ Stacked(frames, depths) /\ Accounted(frames, depths, unbalanced)
    BY <1>4 DEF Shapes, CallInv
  <1>14. CASE Def(c).generator
    <2>1. generators' = Append(generators, [frame |-> fr, state |-> "ready"])
          /\ UNCHANGED <<frames, depths, unbalanced>>
      BY <1>3, <1>14
    <2> DEFINE g == [frame |-> fr, state |-> "ready"]
    <2>2. g \in Generator /\ g.frame = fr
      BY <1>6 DEF Generator
    <2> HIDE DEF g
    <2>3. /\ generators' \in Seq(Generator) /\ Len(generators') = Len(generators) + 1
          /\ generators'[Len(generators) + 1] = g /\ Len(generators) \in Nat
          /\ \A i \in 1 .. Len(generators) : generators'[i] = generators[i]
      BY <1>13, <2>1, <2>2 DEF g
    <2>4. \A i \in 1 .. Len(generators') : FrameHas(source', Len(cellMaps'), generators'[i].frame)
      <3>1. \A i \in 1 .. Len(generators') : i \in 1 .. Len(generators) \/ i = Len(generators) + 1
        BY <2>3
      <3> QED BY <1>11, <1>12, <2>2, <2>3, <3>1
    <2>5. CellsMade'
      BY <1>11, <2>1, <2>4 DEF CellsMade
    <2>6. Shapes'
      BY <1>3, <1>4, <1>9, <1>10, <2>1, <2>3 DEF Shapes
    <2> QED BY <1>7, <1>13, <2>1, <2>5, <2>6 DEF CallInv
  <1>15. ASSUME NEW h \in VmFrame, frames' = Append(frames, h), FrameHas(source', Len(cellMaps'), h),
                UNCHANGED generators, depths' \in Seq(0 .. DepthLimit), unbalanced' \in Seq(Nat),
                Len(unbalanced') = Len(depths')
         PROVE  Shapes' /\ CellsMade'
    <2>1. /\ frames' \in Seq(VmFrame) /\ Len(frames') = Len(frames) + 1
          /\ frames'[Len(frames) + 1] = h /\ Len(frames) \in Nat
          /\ \A i \in 1 .. Len(frames) : frames'[i] = frames[i]
      BY <1>13, <1>15
    <2>2. \A i \in 1 .. Len(frames') : FrameHas(source', Len(cellMaps'), frames'[i])
      <3>1. \A i \in 1 .. Len(frames') : i \in 1 .. Len(frames) \/ i = Len(frames) + 1
        BY <2>1
      <3> QED BY <1>11, <1>15, <2>1, <3>1
    <2>3. CellsMade'
      BY <1>11, <1>15, <2>2 DEF CellsMade
    <2>4. Len(frames') >= 1
      BY <2>1
    <2>5. Shapes'
      BY <1>3, <1>4, <1>9, <1>10, <1>15, <2>1, <2>4 DEF Shapes
    <2> QED BY <2>3, <2>5
  <1>16. CASE ~Def(c).generator /\ OwnVm(how)
    <2>1. PICK h : h = [fr EXCEPT !.vm = Len(depths) + 1]
      OBVIOUS
    <2>2. /\ frames' = Append(frames, h) /\ depths' = Append(depths, 1)
          /\ unbalanced' = Append(unbalanced, 0) /\ UNCHANGED generators
      BY <1>3, <1>16, <2>1
    <2>3. /\ h \in VmFrame /\ h.vm = Len(depths) + 1 /\ h.generator = 0
          /\ h.cells = fr.cells /\ h.code = fr.code
      <3>1. Len(depths) + 1 \in Nat \ {0}
        BY <1>13
      <3>2. ASSUME NEW g \in VmFrame, NEW n \in Nat \ {0}
            PROVE  /\ [g EXCEPT !.vm = n] \in VmFrame /\ [g EXCEPT !.vm = n].vm = n
                   /\ [g EXCEPT !.vm = n].generator = g.generator
                   /\ [g EXCEPT !.vm = n].cells = g.cells /\ [g EXCEPT !.vm = n].code = g.code
        BY DEF VmFrame
      <3> QED BY <1>6, <2>1, <3>1, <3>2
    <2>4. FrameHas(source', Len(cellMaps'), h)
      BY <1>12, <2>3 DEF FrameHas
    <2>5. /\ depths' \in Seq(0 .. DepthLimit) /\ unbalanced' \in Seq(Nat)
          /\ Len(unbalanced') = Len(depths')
      <3>1. 1 \in 0 .. DepthLimit
        OBVIOUS
      <3>2. depths' \in Seq(0 .. DepthLimit) /\ Len(depths') = Len(depths) + 1
        BY <1>13, <2>2, <3>1
      <3>3. unbalanced' \in Seq(Nat) /\ Len(unbalanced') = Len(unbalanced) + 1
        <4>1. unbalanced \in Seq(Nat) /\ unbalanced' = Append(unbalanced, 0) /\ 0 \in Nat
          BY <1>13, <2>2
        <4> QED BY <4>1, Appended
      <3> QED BY <1>13, <3>2, <3>3
    <2>6. Shapes' /\ CellsMade'
      BY <1>15, <2>2, <2>3, <2>4, <2>5
    <2>7. Stacked(frames', depths') /\ Accounted(frames', depths', unbalanced')
      BY <1>13, <2>2, <2>3, PushVm
    <2> QED BY <1>7, <2>6, <2>7 DEF CallInv
  <1>17. CASE ~Def(c).generator /\ ~OwnVm(how)
    <2>1. /\ frames' = Append(frames, fr) /\ depths' = [depths EXCEPT ![Len(depths)] = @ + 1]
          /\ UNCHANGED <<generators, unbalanced>>
      BY <1>3, <1>17
    <2>2. depths' \in Seq(0 .. DepthLimit) /\ Len(depths') = Len(depths)
      BY <1>3, <1>17, <2>1, DepthGrows
    <2>3. Shapes' /\ CellsMade'
      <3>1. unbalanced' \in Seq(Nat) /\ Len(unbalanced') = Len(depths')
        BY <1>13, <2>1, <2>2
      <3> QED BY <1>6, <1>12, <1>15, <2>1, <2>2, <3>1
    <2>4. Stacked(frames', depths') /\ Accounted(frames', depths', unbalanced')
      BY <1>6, <1>13, <2>1, PushSame
    <2> QED BY <1>7, <2>3, <2>4 DEF CallInv
  <1> QED BY <1>14, <1>16, <1>17

LEMMA CallInvKept ==
  ASSUME CallInv, Call
  PROVE  CallInv'
  <1>1. PICK f \in DOMAIN functions, how \in source.hows, l \in 0 .. source.args,
             kw \in SUBSET source.keywords :
          LET args == Passed(how, [i \in 1 .. l |-> <<"argument", i>>])
              keys == Keywords(how, kw)
          IN  \/ TooDeep(how)
              \/ LacksArgument(f, how, args, keys)
              \/ Enters(f, how, args, keys)
    BY DEF Call
  <1>2. source.args \in Nat /\ source.keywords \subseteq Identifiers
    BY SourcesAssumption DEF CallInv, Shapes
  <1> DEFINE pos == [i \in 1 .. l |-> <<"argument", i>>]
             args == Passed(how, pos)
             keys == Keywords(how, kw)
  <1>3. pos \in Seq(Passable)
    <2>1. l \in Nat
      BY <1>2
    <2>2. \A i \in 1 .. l : <<"argument", i>> \in Passable
      BY <2>1 DEF Passable
    <2> QED BY <2>1, <2>2
  <1>4. args \in Seq(Passable)
    <2>1. <<"self", 0>> \in Passable
      BY DEF Passable
    <2>2. <<<<"self", 0>>>> \in Seq(Passable)
      BY <2>1
    <2> HIDE DEF pos
    <2>3. <<<<"self", 0>>>> \o pos \in Seq(Passable)
      BY <1>3, <2>2
    <2> QED BY <1>3, <2>3 DEF Passed
  <1>5. keys \in SUBSET Identifiers
    BY <1>2 DEF Keywords
  <1> HIDE DEF args, keys, pos
  <1>6. TooDeep(how) \/ LacksArgument(f, how, args, keys) \/ Enters(f, how, args, keys)
    BY <1>1 DEF args, keys, pos
  <1> QED BY <1>4, <1>5, <1>6, TooDeepInv, LacksArgumentInv, EntersInv

LEMMA BackInv ==
  ASSUME CallInv, Back, NEW st \in {"ready", "running", "done"},
         \/ generators' = generators
         \/ generators' = [generators EXCEPT ![Here.generator] = [frame |-> Here, state |-> st]]
  PROVE  CallInv'
  <1>1. /\ Len(frames) > 1 /\ frames' = Front(frames)
        /\ IF frames[Len(frames) - 1].vm # Here.vm
           THEN depths' = Front(depths) /\ unbalanced' = Front(unbalanced)
           ELSE depths' = [depths EXCEPT ![Here.vm] = @ - 1] /\ UNCHANGED unbalanced
        /\ bound' = NoCall
        /\ UNCHANGED <<source, functions, cellMaps, scopes, stores>>
    BY Zenon DEF Back
  <1>2. /\ Here = frames[Len(frames)] /\ Here \in VmFrame /\ FrameHas(source, Len(cellMaps), Here)
    BY HereIs
  <1>3. /\ Shapes /\ CellsMade /\ frames \in Seq(VmFrame) /\ generators \in Seq(Generator)
        /\ depths \in Seq(0 .. DepthLimit) /\ unbalanced \in Seq(Nat) /\ Len(unbalanced) = Len(depths)
        /\ Stacked(frames, depths) /\ Accounted(frames, depths, unbalanced)
    BY DEF CallInv, Shapes
  <1>4. depths \in Seq(Nat)
    BY <1>3
  <1>5. Len(frames) \in Nat /\ Len(frames) >= 2
    BY <1>1, <1>3
  <1>6. /\ frames' \in Seq(VmFrame) /\ Len(frames') = Len(frames) - 1
        /\ \A i \in 1 .. Len(frames) - 1 : frames'[i] = frames[i]
    <2>1. frames \in Seq(VmFrame) /\ Len(frames) >= 1
      BY <1>3, <1>5
    <2>2. /\ Front(frames) \in Seq(VmFrame) /\ Len(Front(frames)) = Len(frames) - 1
          /\ \A i \in 1 .. Len(frames) - 1 : Front(frames)[i] = frames[i]
      BY <2>1, FrontIs
    <2> QED BY <1>1, <2>2
  <1>7. /\ depths' \in Seq(0 .. DepthLimit) /\ unbalanced' \in Seq(Nat)
        /\ Len(unbalanced') = Len(depths')
        /\ Stacked(frames', depths') /\ Accounted(frames', depths', unbalanced')
    <2>1. CASE frames[Len(frames) - 1].vm # Here.vm
      <3>1. depths' = Front(depths) /\ unbalanced' = Front(unbalanced)
        BY <1>1, <2>1
      <3>2. /\ Len(depths) >= 1 /\ Stacked(Front(frames), Front(depths))
            /\ Accounted(Front(frames), Front(depths), Front(unbalanced))
        BY <1>2, <1>3, <1>4, <1>5, <2>1, PopVm
      <3>3. Front(depths) \in Seq(0 .. DepthLimit) /\ Len(Front(depths)) = Len(depths) - 1
        BY <1>3, <3>2, FrontIs
      <3>4. Front(unbalanced) \in Seq(Nat) /\ Len(Front(unbalanced)) = Len(unbalanced) - 1
        BY <1>3, <3>2, FrontIs
      <3> QED BY <1>1, <1>3, <3>1, <3>2, <3>3, <3>4
    <2>2. CASE frames[Len(frames) - 1].vm = Here.vm
      <3>1. depths' = [depths EXCEPT ![frames[Len(frames)].vm] = @ - 1] /\ unbalanced' = unbalanced
        BY <1>1, <1>2, <2>2
      <3>2. /\ Stacked(frames', depths') /\ Accounted(frames', depths', unbalanced)
            /\ depths' \in Seq(Nat) /\ Len(depths') = Len(depths)
            /\ \A v \in 1 .. Len(depths) : depths'[v] <= depths[v]
        <4>1. frames[Len(frames) - 1].vm = frames[Len(frames)].vm
          BY <1>2, <2>2
        <4> QED BY <1>1, <1>3, <1>4, <1>5, <3>1, <4>1, PopSame
      <3>3. \A v \in 1 .. Len(depths) : depths[v] \in 0 .. DepthLimit /\ depths'[v] \in Nat
        BY <1>3, <3>2
      <3>4. \A m \in 0 .. DepthLimit : \A n \in Nat : n <= m => n \in 0 .. DepthLimit
        OBVIOUS
      <3>5. \A v \in 1 .. Len(depths) : depths'[v] \in 0 .. DepthLimit
        BY <3>2, <3>3, <3>4
      <3>6. depths' \in Seq(0 .. DepthLimit)
        BY <3>2, <3>5
      <3> QED BY <1>3, <3>1, <3>2, <3>6
    <2> QED BY <2>1, <2>2
  <1>8. /\ generators' \in Seq(Generator)
        /\ \A g \in 1 .. Len(generators') : FrameHas(source, Len(cellMaps), generators'[g].frame)
    <2>1. CASE generators' = generators
      BY <1>3, <2>1 DEF CellsMade
    <2>2. CASE generators' = [generators EXCEPT ![Here.generator] = [frame |-> Here, state |-> st]]
      <3>1. PICK h : h = [frame |-> Here, state |-> st]
        OBVIOUS
      <3>2. h \in Generator /\ h.frame = Here
        BY <1>2, <3>1 DEF Generator
      <3>3. generators' = [generators EXCEPT ![Here.generator] = h]
        BY <2>2, <3>1
      <3>4. generators' \in Seq(Generator) /\ Len(generators') = Len(generators)
            /\ \A g \in 1 .. Len(generators) : generators'[g] = generators[g] \/ generators'[g] = h
        <4>1. generators \in Seq(Generator) /\ h \in Generator
          BY <1>3, <3>2
        <4>2. PICK k, t : k = Here.generator /\ t = generators'
          OBVIOUS
        <4>3. t = [generators EXCEPT ![k] = h]
          BY <3>3, <4>2
        <4>4. /\ t \in Seq(Generator) /\ Len(t) = Len(generators)
              /\ \A i \in 1 .. Len(generators) : t[i] = generators[i] \/ t[i] = h
          <5>1. CASE k \in 1 .. Len(generators)
            BY <4>1, <4>3, <5>1
          <5>2. CASE k \notin 1 .. Len(generators)
            <6>1. t = generators
              BY <4>1, <4>3, <5>2
            <6> QED BY <4>1, <6>1
          <5> QED BY <5>1, <5>2
        <4> QED BY <4>2, <4>4
      <3>5. \A g \in 1 .. Len(generators) : FrameHas(source, Len(cellMaps), generators[g].frame)
        BY <1>3 DEF CellsMade
      <3>6. FrameHas(source, Len(cellMaps), h.frame)
        BY <1>2, <3>2
      <3> QED BY <3>4, <3>5, <3>6
    <2> QED BY <2>1, <2>2
  <1>9. Len(frames') >= 1
    BY <1>5, <1>6
  <1>10. Shapes'
    BY <1>1, <1>3, <1>6, <1>7, <1>8, <1>9 DEF Shapes
  <1>11. CellsMade'
    <2>1. \A i \in 1 .. Len(frames') : i \in 1 .. Len(frames) - 1 /\ i \in 1 .. Len(frames)
      BY <1>5, <1>6
    <2>2. \A i \in 1 .. Len(frames') : FrameHas(source, Len(cellMaps), frames'[i])
      BY <1>3, <1>6, <2>1 DEF CellsMade
    <2> QED BY <1>1, <1>3, <1>8, <2>2 DEF CellsMade
  <1>12. ArgumentsBound'
    BY <1>1 DEF ArgumentsBound, NoCall
  <1> QED BY <1>7, <1>10, <1>11, <1>12 DEF CallInv

LEMMA ResumeInv ==
  ASSUME CallInv, NEW g \in DOMAIN generators, Resume(g)
  PROVE  CallInv'
  <1>1. PICK h : h = [generators[g].frame EXCEPT !.generator = g, !.vm = Len(depths) + 1]
    OBVIOUS
  <1>2. /\ frames' = Append(frames, h)
        /\ generators' = [generators EXCEPT ![g].state = "running"]
        /\ depths' = Append(depths, 0) /\ unbalanced' = Append(unbalanced, 0)
        /\ bound' = NoCall
        /\ UNCHANGED <<source, functions, cellMaps, scopes, stores>>
    BY <1>1 DEF Resume
  <1>3. /\ Shapes /\ CellsMade /\ frames \in Seq(VmFrame) /\ Len(frames) >= 1
        /\ generators \in Seq(Generator) /\ g \in 1 .. Len(generators)
        /\ depths \in Seq(0 .. DepthLimit) /\ unbalanced \in Seq(Nat) /\ Len(unbalanced) = Len(depths)
        /\ Stacked(frames, depths) /\ Accounted(frames, depths, unbalanced)
        /\ Len(depths) \in Nat /\ Len(frames) \in Nat /\ Len(generators) \in Nat
    BY DEF CallInv, Shapes
  <1>4. depths \in Seq(Nat)
    BY <1>3
  <1>5. generators[g] \in Generator /\ generators[g].frame \in VmFrame
    <2>1. generators[g] \in Generator
      BY <1>3
    <2> QED BY <2>1 DEF Generator
  <1>6. /\ h \in VmFrame /\ h.vm = Len(depths) + 1 /\ h.generator = g
        /\ h.cells = generators[g].frame.cells /\ h.code = generators[g].frame.code
    <2>1. Len(depths) + 1 \in Nat \ {0} /\ g \in Nat
      BY <1>3
    <2>2. PICK f, n : f = generators[g].frame /\ n = Len(depths) + 1
      OBVIOUS
    <2>3. f \in VmFrame /\ n \in Nat \ {0} /\ h = [f EXCEPT !.generator = g, !.vm = n] /\ g \in Nat
      BY <1>1, <1>5, <2>1, <2>2
    <2>4. h \in VmFrame /\ h.vm = n /\ h.generator = g /\ h.cells = f.cells /\ h.code = f.code
      BY <2>3 DEF VmFrame
    <2> QED BY <2>2, <2>4
  <1>7. Stacked(frames', depths') /\ Accounted(frames', depths', unbalanced')
    <2>1. 0 \in Nat /\ 0 = IF h.generator = 0 THEN 1 ELSE 0
      BY <1>3, <1>6
    <2> QED BY <1>2, <1>3, <1>4, <1>6, <2>1, PushVm
  <1>8. /\ depths' \in Seq(0 .. DepthLimit) /\ unbalanced' \in Seq(Nat)
        /\ Len(unbalanced') = Len(depths')
    <2>1. 0 \in 0 .. DepthLimit
      OBVIOUS
    <2>2. depths' \in Seq(0 .. DepthLimit) /\ Len(depths') = Len(depths) + 1
      BY <1>2, <1>3, <2>1
    <2>3. unbalanced' \in Seq(Nat) /\ Len(unbalanced') = Len(unbalanced) + 1
      BY <1>2, <1>3
    <2> QED BY <1>3, <2>2, <2>3
  <1>9. /\ frames' \in Seq(VmFrame) /\ Len(frames') = Len(frames) + 1
        /\ frames'[Len(frames) + 1] = h
        /\ \A i \in 1 .. Len(frames) : frames'[i] = frames[i]
    BY <1>2, <1>3, <1>6
  <1>10. /\ generators' \in Seq(Generator) /\ Len(generators') = Len(generators)
         /\ \A i \in 1 .. Len(generators) : generators'[i].frame = generators[i].frame
    <2>1. PICK x : x = [generators[g] EXCEPT !.state = "running"]
      OBVIOUS
    <2>2. x \in Generator /\ x.frame = generators[g].frame
      BY <1>5, <2>1 DEF Generator
    <2>3. generators' = [generators EXCEPT ![g] = x]
      BY <1>2, <2>1
    <2> QED BY <1>3, <2>2, <2>3
  <1>11. Len(frames') >= 1
    BY <1>3, <1>9
  <1>12. Shapes'
    BY <1>2, <1>3, <1>8, <1>9, <1>10, <1>11 DEF Shapes
  <1>13. CellsMade'
    <2>1. FrameHas(source, Len(cellMaps), h)
      BY <1>3, <1>6 DEF CellsMade, FrameHas
    <2>2. \A i \in 1 .. Len(frames') : i \in 1 .. Len(frames) \/ i = Len(frames) + 1
      BY <1>3, <1>9
    <2>3. \A i \in 1 .. Len(frames') : FrameHas(source, Len(cellMaps), frames'[i])
      BY <1>3, <1>9, <2>1, <2>2 DEF CellsMade
    <2> QED BY <1>2, <1>3, <1>10, <2>3 DEF CellsMade
  <1>14. ArgumentsBound'
    BY <1>2 DEF ArgumentsBound, NoCall
  <1> QED BY <1>7, <1>12, <1>13, <1>14 DEF CallInv

-----------------------------------------------------------------------------
(* No code of the module's own has a cell: its variables are not nonlocal. *)
LEMMA CallInitInv ==
  ASSUME CallInit
  PROVE  CallInv
  <1>1. PICK fr : fr = [code |-> MainCode, locals |-> NoValues, globals |-> NoValues, cells |-> 0,
                        scope |-> 1, generator |-> 0, vm |-> 1, known |-> {}, until |-> 0]
    OBVIOUS
  <1>2. PICK sc : sc = [code |-> MainCode, inside |-> 0, vars |-> [n \in Identifiers |-> NoVariable]]
    OBVIOUS
  <1>3. /\ source \in Sources /\ frames = <<fr>> /\ functions = <<>> /\ cellMaps = <<>>
        /\ generators = <<>> /\ depths = <<0>> /\ unbalanced = <<0>> /\ scopes = <<sc>>
        /\ stores = 0 /\ bound = NoCall
    BY <1>1, <1>2 DEF CallInit
  <1>4. NoValues \in Locals /\ Null \in VmValues
    BY DEF NoValues, Locals, VmValues
  <1>5. fr \in VmFrame /\ fr.vm = 1 /\ fr.generator = 0 /\ fr.cells = 0 /\ fr.code = MainCode
    BY <1>1, <1>4 DEF VmFrame
  <1>6. sc \in Scope
    <2>1. NoVariable \in [value : VmValues, first : Nat, once : BOOLEAN, foreign : BOOLEAN]
      BY <1>4 DEF NoVariable
    <2> QED BY <1>2, <2>1 DEF Scope
  <1>7. Len(cellMaps) = 0 /\ Len(generators) = 0 /\ Len(functions) = 0 /\ Len(frames) = 1
        /\ frames[1] = fr /\ Len(depths) = 1 /\ depths[1] = 0 /\ unbalanced[1] = 0
    BY <1>3
  <1>8. Shapes
    BY <1>3, <1>5, <1>6 DEF Shapes
  <1>9. Shared(source, MainCode) = {}
    <2>1. ASSUME NEW k \in Codes, source.defs[k].parent = MainCode PROVE source.defs[k].nonlocals = {}
      BY <1>3, <2>1, DefTyped DEF Def
    <2>2. source.defs[MainCode].nonlocals = {}
      BY <1>3, SourcesAssumption
    <2> QED BY <2>1, <2>2 DEF Shared
  <1>10. CellsMade
    BY <1>5, <1>7, <1>9 DEF CellsMade, FrameHas
  <1>11. Stacked(frames, depths)
    BY <1>5, <1>7 DEF Stacked
  <1>12. Accounted(frames, depths, unbalanced)
    <2>1. Running(frames, 1) = {}
      BY <1>7 DEF Running
    <2>2. Cardinality(Running(frames, 1)) = 0
      BY <2>1, FS_EmptySet
    <2> QED BY <1>7, <2>2 DEF Accounted
  <1>13. ArgumentsBound
    BY <1>3 DEF ArgumentsBound, NoCall
  <1> QED BY <1>8, <1>10, <1>11, <1>12, <1>13 DEF CallInv

LEMMA CallNextInv ==
  ASSUME CallInv, [CallNext]_callVars
  PROVE  CallInv'
  <1>1. ASSUME NEW n \in Identifiers, Store(n) PROVE CallInv'
    BY <1>1, StoreInv
  <1>2. ASSUME NEW c \in Codes, MakeFunction(c) PROVE CallInv'
    BY <1>2, MakeFunctionInv
  <1>3. CASE Call
    BY <1>3, CallInvKept
  <1>4. CASE Leave
    <2>1. Back /\ \/ generators' = generators
                  \/ generators' = [generators EXCEPT ![Here.generator] =
                                        [frame |-> Here, state |-> "done"]]
      BY <1>4 DEF Leave
    <2> QED BY <2>1, BackInv
  <1>5. ASSUME NEW g \in DOMAIN generators, Resume(g) PROVE CallInv'
    BY <1>5, ResumeInv
  <1>6. CASE YieldValue
    <2>1. Back /\ generators' = [generators EXCEPT ![Here.generator] =
                                    [frame |-> Here, state |-> "ready"]]
      BY <1>6 DEF YieldValue
    <2> QED BY <2>1, BackInv
  <1>7. CASE UNCHANGED callVars
    BY <1>7 DEF callVars, CallInv, Shapes, CellsMade, ArgumentsBound
  <1> QED BY <1>1, <1>2, <1>3, <1>4, <1>5, <1>6, <1>7 DEF CallNext

LEMMA CallInvTyped ==
  ASSUME CallInv
  PROVE  CallsTypeOK
  <1>1. /\ Shapes /\ CellsMade /\ frames \in Seq(VmFrame) /\ generators \in Seq(Generator)
        /\ depths \in Seq(0 .. DepthLimit) /\ Len(unbalanced) = Len(depths)
        /\ Stacked(frames, depths) /\ Len(frames) \in Nat /\ Len(depths) \in Nat
    BY DEF CallInv, Shapes
  <1>2. ASSUME NEW i \in 1 .. Len(frames)
        PROVE  /\ frames[i].cells \in 0 .. Len(cellMaps) /\ frames[i].vm \in 1 .. Len(depths)
               /\ (Cellvars(frames[i].code) \cup Freevars(frames[i].code) # {} => frames[i].cells # 0)
    <2>1. frames[i] \in VmFrame /\ frames[Len(frames)] \in VmFrame
      BY <1>1
    <2>2. frames[i].cells \in Nat /\ frames[i].vm \in Nat \ {0} /\ frames[i].code \in Codes
      BY <2>1 DEF VmFrame
    <2>3. FrameHas(source, Len(cellMaps), frames[i]) /\ Len(cellMaps) \in Nat
      BY <1>1 DEF CellsMade, Shapes
    <2>4. frames[i].cells \in 0 .. Len(cellMaps)
      BY <2>2, <2>3 DEF FrameHas
    <2>5. frames[i].vm <= Len(depths)
      BY <1>1 DEF Stacked
    <2>6. frames[i].vm \in 1 .. Len(depths)
      BY <1>1, <2>2, <2>5
    <2>7. Cellvars(frames[i].code) \cup Freevars(frames[i].code) = Shared(source, frames[i].code)
      <3>1. PICK c : c = frames[i].code
        OBVIOUS
      <3>2. /\ Cellvars(c) = UNION {source.defs[k].nonlocals : k \in {d \in Codes : source.defs[d].parent = c}}
            /\ Freevars(c) = source.defs[c].nonlocals
        BY Zenon DEF Cellvars, Freevars, Def
      <3> QED BY <3>1, <3>2 DEF Shared
    <2> QED BY <2>3, <2>4, <2>6, <2>7 DEF FrameHas
  <1>3. \A v \in 1 .. Len(depths) : depths[v] \in 0 .. DepthLimit
    BY <1>1
  <1>4. {generators[g].state : g \in DOMAIN generators} \subseteq {"ready", "running", "done"}
    <2>1. \A g \in Generator : g.state \in {"ready", "running", "done"}
      BY DEF Generator
    <2>2. \A g \in DOMAIN generators : generators[g] \in Generator
      BY <1>1
    <2> QED BY <2>1, <2>2
  <1>5. DOMAIN depths = 1 .. Len(depths) /\ DOMAIN frames = 1 .. Len(frames) /\ source \in Sources
    BY <1>1 DEF Shapes
  <1> QED BY <1>1, <1>2, <1>3, <1>4, <1>5 DEF CallsTypeOK

LEMMA CallInvDepth ==
  ASSUME CallInv
  PROVE  DepthExact
  <1>1. depths \in Seq(0 .. DepthLimit) /\ Accounted(frames, depths, unbalanced)
    BY DEF CallInv, Shapes
  <1>2. DOMAIN depths = 1 .. Len(depths)
    BY <1>1
  <1> QED BY <1>1, <1>2 DEF DepthExact, Accounted, Running

LEMMA CallAlways == CallSpec => []CallInv
  <1>1. CallInit => CallInv
    BY CallInitInv
  <1>2. CallInv /\ [CallNext]_callVars => CallInv'
    BY CallNextInv
  <1> QED BY <1>1, <1>2, PTL DEF CallSpec

-----------------------------------------------------------------------------
(* Names.  The owner of a name in a scope, that of the scope around it if  *)
(* its function does not bind the name.                                    *)
(* The names of a function, those it binds, takes from around it and       *)
(* shares with the functions in it, and those that functions share as      *)
(* Shares says.                                                            *)
Owns(p, c) ==
    (ToSet(p.defs[c].params \o Optional(p.defs[c].vararg) \o p.defs[c].kwonly
           \o Optional(p.defs[c].kwarg)) \cup p.defs[c].assigned) \ p.defs[c].nonlocals
Takes(p, c) == p.defs[c].nonlocals
Lends(p, c) == UNION {p.defs[k].nonlocals : k \in {d \in Codes : p.defs[d].parent = c}}
SharedBy(p) ==
    {n \in Identifiers : \A c \in Codes : n \in Lends(p, c) =>
        n \in Takes(p, c) \/ (n \in Owns(p, c) /\ Takes(p, c) = {})}

OwnerIn(p, sc, s, n) ==
    LET up[k \in 1 .. Len(sc)] ==
            IF k = 1 \/ n \in Owns(p, sc[k].code) THEN k ELSE up[sc[k].inside]
    IN  up[s]

Upward(sc) == Len(sc) \in Nat /\ Len(sc) >= 1 /\ \A k \in 2 .. Len(sc) : sc[k].inside \in 1 .. k - 1

(* Two scopes' owners, the next one's from those before it.                *)
OwnerFrom(f, p, sc, n, k) ==
    IF k = 1 \/ n \in Owns(p, sc[k].code) THEN k ELSE f[sc[k].inside]

LEMMA OwnerSolves ==
  ASSUME NEW p, NEW sc, Upward(sc), NEW n, NEW k \in 1 .. Len(sc)
  PROVE  /\ OwnerIn(p, sc, k, n) = IF k = 1 \/ n \in Owns(p, sc[k].code) THEN k
                                   ELSE OwnerIn(p, sc, sc[k].inside, n)
         /\ OwnerIn(p, sc, k, n) \in 1 .. k
  <1> DEFINE T == 1 .. Len(sc)
             h == [j \in T |-> j]
             D == [x \in T \X [T -> T] |-> OwnerFrom(x[2], p, sc, n, x[1])]
  <1>0. Len(sc) \in Nat /\ h \in [T -> Nat] /\ T # {} /\ \A j \in T : h[j] = j /\ j \in Nat /\ j >= 1
    BY DEF Upward
  <1>1. ASSUME NEW j \in T, j # 1
        PROVE  sc[j].inside \in T /\ sc[j].inside < j /\ sc[j].inside \in Nat
    <2>1. j \in 2 .. Len(sc)
      BY <1>0, <1>1
    <2>2. sc[j].inside \in 1 .. j - 1
      BY <2>1 DEF Upward
    <2> QED BY <1>0, <2>1, <2>2
  <1> HIDE DEF T, h
  <1>2. ASSUME NEW j \in T, NEW f \in [T -> T]
        PROVE  OwnerFrom(f, p, sc, n, j) \in T
    BY <1>1 DEF OwnerFrom
  <1>3. D \in [T \X [T -> T] -> T]
    BY <1>2
  <1>4. PICK f \in [T -> T] : \A j \in T : f[j] = OwnerFrom(f, p, sc, n, j)
    <2>1. \A j \in T, f \in [T -> T] : D[<<j, f>>] = OwnerFrom(f, p, sc, n, j)
      OBVIOUS
    <2>2. ASSUME NEW j \in T, NEW f \in [T -> T], NEW g \in [T -> T],
                 \A i \in T : h[i] < h[j] => f[i] = g[i]
          PROVE  OwnerFrom(f, p, sc, n, j) = OwnerFrom(g, p, sc, n, j)
      <3>1. j # 1 => f[sc[j].inside] = g[sc[j].inside]
        BY <1>0, <1>1, <2>2
      <3> QED BY <3>1 DEF OwnerFrom
    <2>3. LooksBelow(D, T, T, h)
      <3> HIDE DEF D
      <3> QED BY <2>1, <2>2 DEF LooksBelow
    <2> HIDE DEF D
    <2>4. \E f \in [T -> T] : Solves(f, D, T)
      BY <1>0, <1>3, <2>3, Solution
    <2> QED BY <2>1, <2>4 DEF Solves
  <1>5. f = [j \in T |-> OwnerFrom(f, p, sc, n, j)]
    BY <1>4
  <1> DEFINE r == CHOOSE up : up = [j \in T |-> OwnerFrom(up, p, sc, n, j)]
  <1>6. r = [j \in T |-> OwnerFrom(r, p, sc, n, j)]
    BY <1>5, Zenon
  <1>7. \A j : OwnerIn(p, sc, j, n) = r[j]
    BY Zenon DEF OwnerIn, OwnerFrom, T
  <1> HIDE DEF r
  <1>8. \A j \in T : r[j] = OwnerFrom(r, p, sc, n, j)
    BY <1>6
  <1>9. \A j \in T : r[j] \in 1 .. j
    <2> DEFINE Bad == {j \in T : r[j] \notin 1 .. j}
    <2> SUFFICES ASSUME Bad # {} PROVE FALSE
      OBVIOUS
    <2>1. PICK j \in Bad : \A i \in Bad : h[j] <= h[i]
      <3>1. Bad \in SUBSET T /\ Bad # {} /\ h \in [T -> Nat]
        BY <1>0
      <3> HIDE DEF Bad
      <3> QED BY <3>1, Lowest
    <2>2. j \in T /\ r[j] \notin 1 .. j
      OBVIOUS
    <2>3. \A i \in T : i < j => r[i] \in 1 .. i
      <3>1. ASSUME NEW i \in T, i < j, r[i] \notin 1 .. i PROVE FALSE
        <4>1. i \in Bad
          BY <3>1
        <4>2. j <= i
          BY <1>0, <2>1, <2>2, <4>1
        <4> HIDE DEF Bad
        <4> QED BY <1>0, <2>2, <3>1, <4>2
      <3> QED BY <3>1
    <2> HIDE DEF Bad
    <2>4. r[j] = j \/ (j # 1 /\ r[j] = r[sc[j].inside])
      BY <1>8, <2>2 DEF OwnerFrom
    <2>5. r[j] # j
      BY <1>0, <2>2
    <2>6. r[j] \in 1 .. sc[j].inside /\ sc[j].inside < j /\ sc[j].inside \in Nat
      BY <1>1, <2>2, <2>3, <2>4, <2>5
    <2> QED BY <1>0, <2>2, <2>6
  <1>10. k \in T
    BY DEF T
  <1> QED BY <1>7, <1>8, <1>9, <1>10 DEF OwnerFrom

(* Owners stay when variables change and scopes are added.                 *)
LEMMA OwnersStay ==
  ASSUME NEW p, NEW sc, Upward(sc), NEW new, Upward(new), Len(new) >= Len(sc),
         \A k \in 1 .. Len(sc) : new[k].code = sc[k].code /\ new[k].inside = sc[k].inside,
         NEW n, NEW k \in 1 .. Len(sc)
  PROVE  OwnerIn(p, new, k, n) = OwnerIn(p, sc, k, n)
  <1> DEFINE T == 1 .. Len(sc)
             h == [j \in T |-> j]
             Bad == {j \in T : OwnerIn(p, new, j, n) # OwnerIn(p, sc, j, n)}
  <1>0. /\ Len(sc) \in Nat /\ Len(new) \in Nat /\ h \in [T -> Nat]
        /\ \A j \in T : h[j] = j /\ j \in Nat /\ j >= 1 /\ j \in 1 .. Len(new)
    BY DEF Upward
  <1> SUFFICES ASSUME Bad # {} PROVE FALSE
    OBVIOUS
  <1>1. PICK j \in Bad : \A i \in Bad : h[j] <= h[i]
    <2>1. Bad \in SUBSET T /\ Bad # {}
      OBVIOUS
    <2> HIDE DEF Bad, h, T
    <2> QED BY <1>0, <2>1, Lowest
  <1>2. j \in T /\ OwnerIn(p, new, j, n) # OwnerIn(p, sc, j, n)
    OBVIOUS
  <1>3. \A i \in T : i < j => OwnerIn(p, new, i, n) = OwnerIn(p, sc, i, n)
    <2>1. ASSUME NEW i \in T, i < j, OwnerIn(p, new, i, n) # OwnerIn(p, sc, i, n) PROVE FALSE
      <3>1. i \in Bad
        BY <2>1
      <3>2. j <= i
        BY <1>0, <1>1, <1>2, <3>1
      <3> HIDE DEF Bad
      <3> QED BY <1>0, <1>2, <2>1, <3>2
    <2> QED BY <2>1
  <1> HIDE DEF Bad
  <1>4. OwnerIn(p, sc, j, n) = IF j = 1 \/ n \in Owns(p, sc[j].code) THEN j
                               ELSE OwnerIn(p, sc, sc[j].inside, n)
    BY <1>2, OwnerSolves
  <1>5. OwnerIn(p, new, j, n) = IF j = 1 \/ n \in Owns(p, new[j].code) THEN j
                                ELSE OwnerIn(p, new, new[j].inside, n)
    BY <1>0, <1>2, OwnerSolves
  <1>6. new[j].code = sc[j].code /\ new[j].inside = sc[j].inside
    BY <1>2
  <1>7. j # 1 /\ OwnerIn(p, new, sc[j].inside, n) # OwnerIn(p, sc, sc[j].inside, n)
    BY <1>2, <1>4, <1>5, <1>6
  <1>8. j \in 2 .. Len(sc)
    BY <1>0, <1>2, <1>7
  <1>9. sc[j].inside \in 1 .. j - 1
    BY <1>8 DEF Upward
  <1>10. sc[j].inside \in T /\ sc[j].inside < j
    BY <1>0, <1>8, <1>9
  <1> QED BY <1>3, <1>7, <1>10

LEMMA ProgramIs ==
  ASSUME NEW p \in Sources, NEW c \in Codes
  PROVE  /\ Takes(p, c) \subseteq Identifiers /\ Owns(p, c) \cap Takes(p, c) = {}
         /\ p.defs[c].parent \in {MainCode, Null} => Takes(p, c) = {}
         /\ Takes(p, MainCode) = {} /\ Lends(p, MainCode) = {} /\ MainCode \in Codes
         /\ p.defs[c].parent \in Codes => Takes(p, c) \subseteq Lends(p, p.defs[c].parent)
         /\ \A n \in SharedBy(p) : n \in Identifiers /\ (n \in Lends(p, c) =>
                n \in Takes(p, c) \/ (n \in Owns(p, c) /\ Takes(p, c) = {}))
  <1>1. ASSUME NEW d \in Codes
        PROVE  /\ p.defs[d] \in Definition
               /\ p.defs[d].parent \in {MainCode, Null} => p.defs[d].nonlocals = {}
    BY SourcesAssumption
  <1>2. ASSUME NEW d \in Codes PROVE p.defs[d].nonlocals \subseteq Identifiers
    BY <1>1 DEF Definition
  <1>3. p.defs[MainCode].parent = Null
    BY SourcesAssumption
  <1>4. Lends(p, MainCode) = {}
    BY <1>1 DEF Lends
  <1>5. Takes(p, MainCode) = {}
    BY <1>1, <1>3, CallAssumption DEF Takes
  <1>6. p.defs[c].parent \in Codes => Takes(p, c) \subseteq Lends(p, p.defs[c].parent)
    BY DEF Takes, Lends
  <1>7. \A n \in SharedBy(p) : n \in Identifiers /\ (n \in Lends(p, c) =>
                n \in Takes(p, c) \/ (n \in Owns(p, c) /\ Takes(p, c) = {}))
    BY DEF SharedBy
  <1>8. Owns(p, c) \cap Takes(p, c) = {}
    BY DEF Owns, Takes
  <1> QED BY <1>1, <1>2, <1>4, <1>5, <1>6, <1>7, <1>8, CallAssumption DEF Takes

-----------------------------------------------------------------------------
(* The invariant of names.  m gives each scope the number of the cell map  *)
(* that its call uses.                                                     *)
Root(p, sc, k) == Takes(p, sc[k].code) = {}

ScopesNested(p, sc) ==
    /\ Len(sc) >= 1 /\ sc[1].code = MainCode
    /\ \A k \in 2 .. Len(sc) : /\ sc[k].inside \in 1 .. k - 1 /\ sc[k].code # MainCode
                               /\ p.defs[sc[k].code].parent = sc[sc[k].inside].code

MapsGood(p, sc, m, N) ==
    /\ m \in [1 .. Len(sc) -> 0 .. N] /\ m[1] = 0
    /\ \A k \in 1 .. Len(sc) : Root(p, sc, k) /\ Lends(p, sc[k].code) # {} => m[k] # 0
    /\ \A j, k \in 1 .. Len(sc) :
          Root(p, sc, j) /\ Root(p, sc, k) /\ m[j] = m[k] /\ m[j] # 0 => j = k

(* Some function made in the scope o takes n from around it.               *)
Handed(p, Fs, o, n) == \E i \in 1 .. Len(Fs) : Fs[i].scope = o /\ n \in Takes(p, Fs[i].code)

TakenGood(p, Fs, sc, m, k, n) ==
    LET o == OwnerIn(p, sc, k, n) IN
    /\ o \in 1 .. Len(sc) /\ Root(p, sc, o) /\ n \in Owns(p, sc[o].code)
    /\ n \in Lends(p, sc[o].code) /\ m[k] = m[o] /\ Handed(p, Fs, o, n)

AllTaken(p, Fs, sc, m) ==
    \A k \in 1 .. Len(sc), n \in SharedBy(p) :
        n \in Takes(p, sc[k].code) => TakenGood(p, Fs, sc, m, k, n)

CellGood(p, Fs, sc, ms, m, o, n) ==
    LET cv == ms[m[o]][n] IN
    /\ cv = Null \/ cv = sc[o].vars[n].value
    /\ sc[o].vars[n].foreign => cv # Null
    /\ Handed(p, Fs, o, n) => cv = sc[o].vars[n].value

AllCells(p, Fs, sc, ms, m) ==
    \A o \in 1 .. Len(sc), n \in SharedBy(p) :
        Root(p, sc, o) /\ n \in Lends(p, sc[o].code) => CellGood(p, Fs, sc, ms, m, o, n)

OfMain(p, n) == \A c \in Codes \ {MainCode} : n \notin Owns(p, c)

MainGood(sc) ==
    \A n \in Identifiers : IF sc[1].vars[n].value = Null THEN sc[1].vars[n].once
                           ELSE sc[1].vars[n].first >= 1

(* The copy that a frame or function inside s has of a name around it.     *)
CopyGood(p, sc, s, known, globals, n) ==
    LET o == OwnerIn(p, sc, s, n)
        v == sc[o].vars[n]
        w == sc[1].vars[n] IN
    /\ <<o, n>> \in known /\ v.once /\ ~v.foreign => globals[n] = v.value
    /\ OfMain(p, n) /\ w.once /\ ~w.foreign => globals[n] \in {Null, w.value}

AroundGood(p, sc, s, until, globals, n) ==
    LET w == sc[1].vars[n] IN
    OfMain(p, n) /\ w.once /\ ~w.foreign /\ s # 1 /\ w.value # Null /\ w.first <= until
        => globals[n] = w.value

KnownGood(sc, s, known) ==
    \A x \in known : x[1] \in 1 .. s /\ x[2] \in Identifiers /\ sc[x[1]].vars[x[2]].value # Null

LocalGood(p, sc, f, n) ==
    /\ f.locals[n] # Null => n \in Owns(p, f.code)
    /\ OwnerIn(p, sc, f.scope, n) = f.scope /\ ~sc[f.scope].vars[n].foreign
          => f.locals[n] = sc[f.scope].vars[n].value

PlaceGood(sc, m, f) ==
    /\ f.scope \in 1 .. Len(sc) /\ f.code = sc[f.scope].code /\ f.cells = m[f.scope]
    /\ f.until < Len(sc) /\ KnownGood(sc, f.scope - 1, f.known)

SeesGood(p, sc, f) ==
    \A n \in Identifiers :
        /\ OwnerIn(p, sc, f.scope, n) # f.scope => CopyGood(p, sc, f.scope, f.known, f.globals, n)
        /\ AroundGood(p, sc, f.scope, f.until, f.globals, n)

FrameGood(p, sc, m, f) ==
    PlaceGood(sc, m, f) /\ SeesGood(p, sc, f) /\ \A n \in Identifiers : LocalGood(p, sc, f, n)

FunctionGood(p, sc, m, f) ==
    /\ f.scope \in 1 .. Len(sc) /\ p.defs[f.code].parent = sc[f.scope].code
    /\ f.cells = IF Takes(p, f.code) = {} THEN 0 ELSE m[f.scope]
    /\ KnownGood(sc, f.scope, f.known)
    /\ \A n \in Identifiers : CopyGood(p, sc, f.scope, f.known, f.globals, n)

Apart(fs, gs) ==
    /\ fs[1].scope = 1 /\ fs[1].globals = NoValues
    /\ \A i, j \in 1 .. Len(fs) : fs[i].scope = fs[j].scope => i = j
    /\ \A i \in 1 .. Len(fs), g \in 1 .. Len(gs) :
          gs[g].state = "ready" => fs[i].scope # gs[g].frame.scope
    /\ \A g, h \in 1 .. Len(gs) :
          gs[g].state = "ready" /\ gs[h].state = "ready" /\ gs[g].frame.scope = gs[h].frame.scope
          => g = h

FramesGood(p, fs, gs, sc, m) ==
    /\ \A i \in 1 .. Len(fs) : FrameGood(p, sc, m, fs[i])
    /\ \A g \in 1 .. Len(gs) : gs[g].state = "ready" => FrameGood(p, sc, m, gs[g].frame)

FunctionsGood(p, Fs, sc, m) == \A i \in 1 .. Len(Fs) : FunctionGood(p, sc, m, Fs[i])

NamesGood(p, fs, Fs, gs, sc, ms, m) ==
    /\ ScopesNested(p, sc) /\ MapsGood(p, sc, m, Len(ms)) /\ MainGood(sc)
    /\ AllTaken(p, Fs, sc, m) /\ AllCells(p, Fs, sc, ms, m)
    /\ FramesGood(p, fs, gs, sc, m) /\ FunctionsGood(p, Fs, sc, m) /\ Apart(fs, gs)

NameInv ==
    \E m \in [1 .. Len(scopes) -> 0 .. Len(cellMaps)] :
        NamesGood(source, frames, functions, generators, scopes, cellMaps, m)

-----------------------------------------------------------------------------
(* What a step does to the variables there are.                            *)
VarMoved(a, b, L) ==
    b = a \/ (b.value # Null /\ b.once = (a.value = Null) /\ (a.foreign => b.foreign) /\ (a.value = Null => b.first >= L))

ScopesMoved(sc, new) ==
    /\ Upward(sc) /\ Upward(new) /\ Len(new) >= Len(sc)
    /\ \A k \in 1 .. Len(sc) : new[k].code = sc[k].code /\ new[k].inside = sc[k].inside
    /\ \A k \in 1 .. Len(sc), n \in Identifiers : VarMoved(sc[k].vars[n], new[k].vars[n], Len(sc))

LEMMA NestedUpward ==
  ASSUME NEW p, NEW sc, ScopesNested(p, sc), Len(sc) \in Nat
  PROVE  Upward(sc)
  BY DEF ScopesNested, Upward

LEMMA KnownKept ==
  ASSUME NEW sc, NEW new, ScopesMoved(sc, new), NEW s, NEW known, KnownGood(sc, s, known), s \in 0 .. Len(sc)
  PROVE  KnownGood(new, s, known)
  <1>1. Len(sc) \in Nat
    BY DEF ScopesMoved, Upward
  <1>2. ASSUME NEW x \in known
        PROVE  x[1] \in 1 .. s /\ x[2] \in Identifiers /\ new[x[1]].vars[x[2]].value # Null
    <2>1. x[1] \in 1 .. s /\ x[2] \in Identifiers /\ sc[x[1]].vars[x[2]].value # Null
      BY DEF KnownGood
    <2>2. x[1] \in 1 .. Len(sc)
      BY <1>1, <2>1
    <2>3. VarMoved(sc[x[1]].vars[x[2]], new[x[1]].vars[x[2]], Len(sc))
      BY <2>1, <2>2 DEF ScopesMoved
    <2> QED BY <2>1, <2>3 DEF VarMoved
  <1> QED BY <1>2 DEF KnownGood

LEMMA CopyKept ==
  ASSUME NEW p, NEW sc, NEW new, ScopesMoved(sc, new), MainGood(sc), NEW s \in 1 .. Len(sc),
         NEW known, NEW globals, KnownGood(sc, s, known), NEW n \in Identifiers,
         CopyGood(p, sc, s, known, globals, n)
  PROVE  CopyGood(p, new, s, known, globals, n)
  <1>1. PICK o : o = OwnerIn(p, sc, s, n)
    OBVIOUS
  <1>2. Len(sc) \in Nat /\ Len(sc) >= 1 /\ Upward(sc) /\ s \in Nat
    BY DEF ScopesMoved, Upward
  <1>3. o \in 1 .. Len(sc) /\ 1 \in 1 .. Len(sc)
    <2>1. o \in 1 .. s
      BY <1>1, <1>2, OwnerSolves
    <2> QED BY <1>2, <2>1
  <1>4. OwnerIn(p, new, s, n) = o
    <2>1. /\ Upward(new) /\ Len(new) >= Len(sc)
          /\ \A k \in 1 .. Len(sc) : new[k].code = sc[k].code /\ new[k].inside = sc[k].inside
      BY DEF ScopesMoved
    <2> QED BY <1>1, <1>2, <2>1, OwnersStay
  <1>5. VarMoved(sc[o].vars[n], new[o].vars[n], Len(sc)) /\ VarMoved(sc[1].vars[n], new[1].vars[n], Len(sc))
    BY <1>3 DEF ScopesMoved
  <1>6. <<o, n>> \in known => sc[o].vars[n].value # Null
    <2>1. <<o, n>>[1] = o /\ <<o, n>>[2] = n
      OBVIOUS
    <2> QED BY <2>1 DEF KnownGood
  <1>7. sc[1].vars[n].value = Null => sc[1].vars[n].once
    BY DEF MainGood
  <1>8. /\ <<o, n>> \in known /\ sc[o].vars[n].once /\ ~sc[o].vars[n].foreign => globals[n] = sc[o].vars[n].value
        /\ OfMain(p, n) /\ sc[1].vars[n].once /\ ~sc[1].vars[n].foreign => globals[n] \in {Null, sc[1].vars[n].value}
    BY <1>1 DEF CopyGood
  <1>9. <<o, n>> \in known /\ new[o].vars[n].once /\ ~new[o].vars[n].foreign => globals[n] = new[o].vars[n].value
    BY <1>5, <1>6, <1>8 DEF VarMoved
  <1>10. OfMain(p, n) /\ new[1].vars[n].once /\ ~new[1].vars[n].foreign => globals[n] \in {Null, new[1].vars[n].value}
    BY <1>5, <1>7, <1>8 DEF VarMoved
  <1> QED BY <1>4, <1>9, <1>10 DEF CopyGood

LEMMA AroundKept ==
  ASSUME NEW p, NEW sc, NEW new, ScopesMoved(sc, new), NEW s, NEW until \in Nat, until < Len(sc),
         NEW globals, NEW n \in Identifiers, new \in Seq(Scope), AroundGood(p, sc, s, until, globals, n)
  PROVE  AroundGood(p, new, s, until, globals, n)
  <1>1. Len(sc) \in Nat /\ Len(sc) >= 1 /\ Len(new) \in Nat /\ Len(new) >= Len(sc)
    BY DEF ScopesMoved, Upward
  <1>2. VarMoved(sc[1].vars[n], new[1].vars[n], Len(sc))
    BY <1>1 DEF ScopesMoved
  <1>3. new[1].vars[n].first \in Nat
    <2>1. new[1] \in Scope
      BY <1>1
    <2> QED BY <2>1 DEF Scope
  <1>4. new[1].vars[n].first <= until => ~(new[1].vars[n].first >= Len(sc))
    BY <1>1, <1>3
  <1> QED BY <1>2, <1>4 DEF AroundGood, VarMoved

LEMMA PlaceKept ==
  ASSUME NEW p, NEW sc, NEW new, ScopesMoved(sc, new), MainGood(sc), new \in Seq(Scope),
         NEW m, NEW mm, NEW f \in VmFrame, FrameGood(p, sc, m, f), mm[f.scope] = m[f.scope]
  PROVE  /\ PlaceGood(new, mm, f) /\ SeesGood(p, new, f)
         /\ \A n \in Identifiers : OwnerIn(p, new, f.scope, n) = OwnerIn(p, sc, f.scope, n)
  <1>1. PlaceGood(sc, m, f) /\ SeesGood(p, sc, f) /\ \A n \in Identifiers : LocalGood(p, sc, f, n)
    BY DEF FrameGood
  <1>2. Len(sc) \in Nat /\ Len(new) \in Nat /\ Len(new) >= Len(sc) /\ f.until \in Nat /\ f.scope \in Nat
    BY DEF ScopesMoved, Upward, VmFrame
  <1>3. f.scope \in 1 .. Len(sc) /\ f.until < Len(sc) /\ KnownGood(sc, f.scope - 1, f.known)
        /\ f.code = sc[f.scope].code /\ f.cells = m[f.scope]
    BY <1>1 DEF PlaceGood
  <1>4. KnownGood(new, f.scope - 1, f.known)
    <2>1. f.scope - 1 \in 0 .. Len(sc)
      BY <1>2, <1>3
    <2> QED BY <1>3, <2>1, KnownKept
  <1>5. new[f.scope].code = sc[f.scope].code
    BY <1>3 DEF ScopesMoved
  <1>6. PlaceGood(new, mm, f)
    <2>1. f.scope \in 1 .. Len(new) /\ f.until < Len(new)
      BY <1>2, <1>3
    <2> QED BY <1>3, <1>4, <1>5, <2>1 DEF PlaceGood
  <1>7. ASSUME NEW n \in Identifiers PROVE OwnerIn(p, new, f.scope, n) = OwnerIn(p, sc, f.scope, n)
    <2>1. /\ Upward(sc) /\ Upward(new) /\ Len(new) >= Len(sc)
          /\ \A k \in 1 .. Len(sc) : new[k].code = sc[k].code /\ new[k].inside = sc[k].inside
      BY DEF ScopesMoved
    <2> QED BY <1>3, <2>1, OwnersStay
  <1>8. KnownGood(sc, f.scope, f.known)
    BY <1>2, <1>3 DEF KnownGood
  <1>9. SeesGood(p, new, f)
    <2>1. ASSUME NEW n \in Identifiers
          PROVE  /\ OwnerIn(p, new, f.scope, n) # f.scope => CopyGood(p, new, f.scope, f.known, f.globals, n)
                 /\ AroundGood(p, new, f.scope, f.until, f.globals, n)
      <3>1. /\ OwnerIn(p, sc, f.scope, n) # f.scope => CopyGood(p, sc, f.scope, f.known, f.globals, n)
            /\ AroundGood(p, sc, f.scope, f.until, f.globals, n)
        BY <1>1 DEF SeesGood
      <3>2. AroundGood(p, new, f.scope, f.until, f.globals, n)
        BY <1>2, <1>3, <3>1, AroundKept
      <3>3. OwnerIn(p, new, f.scope, n) # f.scope => CopyGood(p, new, f.scope, f.known, f.globals, n)
        BY <1>3, <1>7, <1>8, <3>1, CopyKept
      <3> QED BY <3>2, <3>3
    <2> QED BY <2>1 DEF SeesGood
  <1> QED BY <1>6, <1>7, <1>9

LEMMA FrameKept ==
  ASSUME NEW p, NEW sc, NEW new, ScopesMoved(sc, new), MainGood(sc), new \in Seq(Scope),
         NEW m, NEW mm, NEW f \in VmFrame, FrameGood(p, sc, m, f), mm[f.scope] = m[f.scope],
         \A n \in Identifiers : new[f.scope].vars[n] = sc[f.scope].vars[n] \/ new[f.scope].vars[n].foreign
  PROVE  FrameGood(p, new, mm, f)
  <1>1. /\ PlaceGood(new, mm, f) /\ SeesGood(p, new, f)
        /\ \A n \in Identifiers : OwnerIn(p, new, f.scope, n) = OwnerIn(p, sc, f.scope, n)
    BY PlaceKept, ZenonT(40)
  <1>2. ASSUME NEW n \in Identifiers PROVE LocalGood(p, new, f, n)
    <2>1. LocalGood(p, sc, f, n)
      BY DEF FrameGood
    <2> QED BY <1>1, <2>1 DEF LocalGood
  <1> QED BY <1>1, <1>2 DEF FrameGood

LEMMA FunctionKept ==
  ASSUME NEW p, NEW sc, NEW new, ScopesMoved(sc, new), MainGood(sc),
         NEW m, NEW mm, NEW f, FunctionGood(p, sc, m, f), mm[f.scope] = m[f.scope]
  PROVE  FunctionGood(p, new, mm, f)
  <1>1. /\ f.scope \in 1 .. Len(sc) /\ p.defs[f.code].parent = sc[f.scope].code
        /\ f.cells = IF Takes(p, f.code) = {} THEN 0 ELSE m[f.scope]
        /\ KnownGood(sc, f.scope, f.known)
        /\ \A n \in Identifiers : CopyGood(p, sc, f.scope, f.known, f.globals, n)
    BY DEF FunctionGood
  <1>2. Len(sc) \in Nat /\ Len(new) \in Nat /\ Len(new) >= Len(sc)
    BY DEF ScopesMoved, Upward
  <1>3. f.scope \in 0 .. Len(sc) /\ f.scope \in 1 .. Len(new)
    BY <1>1, <1>2
  <1>4. KnownGood(new, f.scope, f.known)
    BY <1>1, <1>3, KnownKept
  <1>5. new[f.scope].code = sc[f.scope].code
    BY <1>1 DEF ScopesMoved
  <1>6. ASSUME NEW n \in Identifiers PROVE CopyGood(p, new, f.scope, f.known, f.globals, n)
    <2>1. CopyGood(p, sc, f.scope, f.known, f.globals, n)
      BY <1>1
    <2> QED BY <1>1, <2>1, CopyKept
  <1> QED BY <1>1, <1>3, <1>4, <1>5, <1>6 DEF FunctionGood

-----------------------------------------------------------------------------
(* A use of a name, and MakeFunction, which copies the names it sees.      *)
LEMMA NamesAre ==
  /\ \A c : Varnames(c) = Owns(source, c) /\ Freevars(c) = Takes(source, c)
            /\ Cellvars(c) = Lends(source, c)
  /\ \A s, n : Owner(s, n) = OwnerIn(source, scopes, s, n)
  /\ \A n \in Identifiers : Shares(n) <=> n \in SharedBy(source)
  <1>1. ASSUME NEW c
        PROVE  Varnames(c) = Owns(source, c) /\ Freevars(c) = Takes(source, c)
               /\ Cellvars(c) = Lends(source, c)
    BY Zenon DEF Varnames, Owns, Freevars, Takes, Cellvars, Lends, Parameters, Def
  <1>2. ASSUME NEW s, NEW n PROVE Owner(s, n) = OwnerIn(source, scopes, s, n)
    BY Zenon DEF Owner, OwnerIn, Varnames, Owns, Freevars, Parameters, Def
  <1>3. ASSUME NEW n \in Identifiers PROVE Shares(n) <=> n \in SharedBy(source)
    BY <1>1 DEF Shares, SharedBy
  <1> QED BY <1>1, <1>2, <1>3

(* What the frame that runs is.                                            *)
LEMMA HereGood ==
  ASSUME CallInv, NEW m, NamesGood(source, frames, functions, generators, scopes, cellMaps, m)
  PROVE  /\ Here = frames[Len(frames)] /\ Len(frames) \in 1 .. Len(frames) /\ Here \in VmFrame
         /\ PlaceGood(scopes, m, Here) /\ SeesGood(source, scopes, Here)
         /\ \A n \in Identifiers : LocalGood(source, scopes, Here, n)
         /\ Here.code \in Codes /\ Here.scope \in 1 .. Len(scopes)
         /\ Upward(scopes) /\ source \in Sources /\ scopes \in Seq(Scope)
  <1>1. Here = frames[Len(frames)] /\ Len(frames) \in 1 .. Len(frames) /\ Here \in VmFrame
    BY HereIs
  <1>2. FrameGood(source, scopes, m, Here)
    BY <1>1 DEF NamesGood, FramesGood
  <1>3. source \in Sources /\ scopes \in Seq(Scope)
    BY DEF CallInv, Shapes
  <1>4. Upward(scopes)
    BY <1>3, NestedUpward DEF NamesGood
  <1>5. Here.code \in Codes
    BY <1>1 DEF VmFrame
  <1> QED BY <1>1, <1>2, <1>3, <1>4, <1>5 DEF FrameGood, PlaceGood

LEMMA NameResolves ==
  ASSUME CallInv, NEW m, NamesGood(source, frames, functions, generators, scopes, cellMaps, m),
         NEW n \in Identifiers, Promised(n)
  PROVE  FoundIn(Here, n) = Variable(Here.scope, n).value
  <1>1. PICK f, o : f = Here /\ o = OwnerIn(source, scopes, f.scope, n)
    OBVIOUS
  <1>2. /\ f \in VmFrame /\ PlaceGood(scopes, m, f) /\ SeesGood(source, scopes, f)
        /\ LocalGood(source, scopes, f, n)
        /\ f.code \in Codes /\ f.scope \in 1 .. Len(scopes)
        /\ Upward(scopes) /\ source \in Sources
    BY <1>1, HereGood
  <1>3. f.code = scopes[f.scope].code /\ f.cells = m[f.scope]
    BY <1>2 DEF PlaceGood
  <1>4. Owner(f.scope, n) = o /\ Variable(f.scope, n) = scopes[o].vars[n]
    BY <1>1, NamesAre DEF Variable
  <1>5. FoundIn(f, n) = IF n \in Takes(source, f.code) THEN cellMaps[f.cells][n]
                        ELSE IF n \in Owns(source, f.code) THEN f.locals[n]
                        ELSE IF f.locals[n] # Null THEN f.locals[n] ELSE f.globals[n]
    BY NamesAre DEF FoundIn, LoadDeref, LoadFast, LoadName, Over
  <1>6. IF n \in Takes(source, f.code) THEN n \in SharedBy(source)
        ELSE IF n \in Owns(source, f.code) THEN ~scopes[o].vars[n].foreign
        ELSE /\ scopes[o].vars[n].value # Null /\ scopes[o].vars[n].once /\ ~scopes[o].vars[n].foreign
             /\ \/ <<o, n>> \in f.known
                \/ /\ o = 1 /\ scopes[o].vars[n].first <= f.until
                   /\ OfMain(source, n)
    BY <1>1, <1>4, NamesAre DEF Promised, OfMain
  <1>7. /\ o \in 1 .. f.scope
        /\ o = IF f.scope = 1 \/ n \in Owns(source, scopes[f.scope].code) THEN f.scope
               ELSE OwnerIn(source, scopes, scopes[f.scope].inside, n)
    BY <1>1, <1>2, OwnerSolves
  <1>8. CASE n \in Takes(source, f.code)
    <2>1. n \in SharedBy(source)
      BY <1>6, <1>8
    <2>2. TakenGood(source, functions, scopes, m, f.scope, n)
      BY <1>2, <1>3, <1>8, <2>1 DEF NamesGood, AllTaken
    <2>3. /\ o \in 1 .. Len(scopes) /\ Root(source, scopes, o) /\ n \in Lends(source, scopes[o].code)
          /\ m[f.scope] = m[o] /\ Handed(source, functions, o, n)
      BY <1>1, <2>2 DEF TakenGood
    <2>4. CellGood(source, functions, scopes, cellMaps, m, o, n)
      BY <2>1, <2>3 DEF NamesGood, AllCells
    <2>5. cellMaps[m[o]][n] = scopes[o].vars[n].value
      BY <2>3, <2>4 DEF CellGood
    <2> QED BY <1>1, <1>3, <1>4, <1>5, <1>8, <2>3, <2>5
  <1>9. CASE n \notin Takes(source, f.code) /\ n \in Owns(source, f.code)
    <2>1. o = f.scope /\ ~scopes[o].vars[n].foreign
      BY <1>3, <1>6, <1>7, <1>9
    <2>2. f.locals[n] = scopes[o].vars[n].value
      BY <1>1, <1>2, <2>1 DEF LocalGood
    <2> QED BY <1>1, <1>4, <1>5, <1>9, <2>2
  <1>10. CASE n \notin Takes(source, f.code) /\ n \notin Owns(source, f.code)
    <2>1. f.locals[n] = Null
      BY <1>2, <1>10 DEF LocalGood
    <2>2. /\ scopes[o].vars[n].value # Null /\ scopes[o].vars[n].once /\ ~scopes[o].vars[n].foreign
          /\ \/ <<o, n>> \in f.known
             \/ o = 1 /\ scopes[o].vars[n].first <= f.until /\ OfMain(source, n)
      BY <1>6, <1>10
    <2>3. o # f.scope
      BY <1>1, <1>2, <2>1, <2>2 DEF LocalGood
    <2>4. f.globals[n] = scopes[o].vars[n].value
      <3>1. CASE <<o, n>> \in f.known
        <4>1. CopyGood(source, scopes, f.scope, f.known, f.globals, n)
          BY <1>1, <1>2, <2>3 DEF SeesGood
        <4> QED BY <1>1, <2>2, <3>1, <4>1 DEF CopyGood
      <3>2. CASE o = 1 /\ scopes[o].vars[n].first <= f.until /\ OfMain(source, n)
        <4>1. AroundGood(source, scopes, f.scope, f.until, f.globals, n)
          BY <1>2 DEF SeesGood
        <4> QED BY <2>2, <2>3, <3>2, <4>1 DEF AroundGood
      <3> QED BY <2>2, <3>1, <3>2
    <2> QED BY <1>1, <1>4, <1>5, <1>10, <2>1, <2>4
  <1> QED BY <1>8, <1>9, <1>10

(* Adding a function changes nothing of the frames.                        *)
LEMMA HandedMore ==
  ASSUME NEW p, NEW S, NEW Fs \in Seq(S), NEW fn \in S, NEW o, NEW n
  PROVE  Handed(p, Append(Fs, fn), o, n) <=> Handed(p, Fs, o, n) \/ (fn.scope = o /\ n \in Takes(p, fn.code))
  <1>1. PICK gs : gs = Append(Fs, fn)
    OBVIOUS
  <1>2. /\ Len(Fs) \in Nat /\ Len(gs) = Len(Fs) + 1 /\ gs[Len(Fs) + 1] = fn
        /\ \A i \in 1 .. Len(Fs) : gs[i] = Fs[i] /\ i \in 1 .. Len(gs)
    BY <1>1
  <1>3. \A i \in 1 .. Len(gs) : i \in 1 .. Len(Fs) \/ i = Len(Fs) + 1
    BY <1>2
  <1>4. Len(Fs) + 1 \in 1 .. Len(gs)
    BY <1>2
  <1>5. Handed(p, gs, o, n) <=> Handed(p, Fs, o, n) \/ (fn.scope = o /\ n \in Takes(p, fn.code))
    BY <1>2, <1>3, <1>4 DEF Handed
  <1> QED BY <1>1, <1>5

(* A function is handed what its frame has.                                *)
LEMMA MakeFunctionNames ==
  ASSUME CallInv, NEW m, NamesGood(source, frames, functions, generators, scopes, cellMaps, m),
         NEW c \in Codes, MakeFunction(c)
  PROVE  NamesGood(source, frames, functions', generators, scopes, cellMaps', m)
         /\ Len(cellMaps') = Len(cellMaps)
  <1> DEFINE s == Here.scope
             p == source
             kn == {<<s, n>> : n \in {n \in Identifiers : scopes[s].vars[n].value # Null}}
  <1>1. /\ Here \in VmFrame /\ PlaceGood(scopes, m, Here) /\ SeesGood(p, scopes, Here)
        /\ \A n \in Identifiers : LocalGood(p, scopes, Here, n)
        /\ Here.code \in Codes /\ s \in 1 .. Len(scopes)
        /\ Upward(scopes) /\ p \in Sources /\ scopes \in Seq(Scope)
    BY HereGood
  <1>2. PICK fn : fn = [code |-> c, globals |-> Captured(Here),
            cells |-> IF Freevars(c) = {} THEN 0 ELSE Here.cells, scope |-> s,
            known |-> Here.known \cup kn]
    OBVIOUS
  <1>3. /\ Def(c).parent = Here.code
        /\ functions' = Append(functions, fn)
        /\ cellMaps' = IF Freevars(c) = {} THEN cellMaps ELSE
             [cellMaps EXCEPT ![Here.cells] =
               [n \in Identifiers |-> IF n \in Freevars(c) /\ @[n] = Null THEN Here.locals[n] ELSE @[n]]]
    BY <1>2 DEF MakeFunction
  <1>4. /\ fn.code = c /\ fn.scope = s /\ fn.known = Here.known \cup kn
        /\ fn.cells = (IF Takes(p, c) = {} THEN 0 ELSE m[s])
        /\ \A n \in Identifiers : fn.globals[n] = IF Here.locals[n] # Null THEN Here.locals[n] ELSE Here.globals[n]
    <2>1. fn.cells = IF Freevars(c) = {} THEN 0 ELSE Here.cells
      BY <1>2
    <2>2. Here.cells = m[s] /\ Freevars(c) = Takes(p, c)
      BY <1>1, NamesAre DEF PlaceGood
    <2>3. fn.globals = Captured(Here)
      BY <1>2
    <2>4. \A n \in Identifiers : fn.globals[n] = IF Here.locals[n] # Null THEN Here.locals[n] ELSE Here.globals[n]
      BY <2>3 DEF Captured, Over
    <2> QED BY <1>2, <2>1, <2>2, <2>4
  <1>5. /\ Here.code = scopes[s].code /\ Here.cells = m[s] /\ KnownGood(scopes, s - 1, Here.known)
        /\ s \in Nat /\ s >= 1
    BY <1>1 DEF PlaceGood
  <1>6. Takes(p, c) \subseteq Lends(p, Here.code) /\ p.defs[c].parent = Here.code
    <2>1. p.defs[c].parent = Here.code
      BY <1>3 DEF Def
    <2> QED BY <1>1, <2>1, ProgramIs
  <1>7. ASSUME NEW n \in Identifiers PROVE CopyGood(p, scopes, s, fn.known, fn.globals, n)
    <2>1. PICK o : o = OwnerIn(p, scopes, s, n)
      OBVIOUS
    <2>2. /\ o \in 1 .. s
          /\ o = IF s = 1 \/ n \in Owns(p, Here.code) THEN s ELSE OwnerIn(p, scopes, scopes[s].inside, n)
      BY <1>1, <1>5, <2>1, OwnerSolves
    <2>3. LocalGood(p, scopes, Here, n)
      BY <1>1
    <2>4. fn.globals[n] = IF Here.locals[n] # Null THEN Here.locals[n] ELSE Here.globals[n]
      BY <1>4
    <2>5. o # s => CopyGood(p, scopes, s, Here.known, Here.globals, n) /\ Here.locals[n] = Null
      <3>1. o # s => Here.locals[n] = Null
        BY <2>2, <2>3 DEF LocalGood
      <3> QED BY <1>1, <2>1, <3>1 DEF SeesGood
    <2>6. ASSUME <<o, n>> \in fn.known, scopes[o].vars[n].once, ~scopes[o].vars[n].foreign
          PROVE  fn.globals[n] = scopes[o].vars[n].value
      <3>1. CASE o = s
        <4>1. scopes[s].vars[n].value # Null
          <5>1. <<o, n>> \notin Here.known
            <6>1. <<o, n>>[1] = s
              BY <3>1
            <6>2. \A x \in Here.known : x[1] \in 1 .. s - 1
              BY <1>5 DEF KnownGood
            <6>3. s \notin 1 .. s - 1
              BY <1>5
            <6> QED BY <6>1, <6>2, <6>3
          <5>2. <<o, n>> \in kn
            BY <1>4, <2>6, <5>1
          <5> QED BY <5>2
        <4>2. Here.locals[n] = scopes[s].vars[n].value
          BY <2>1, <2>3, <2>6, <3>1 DEF LocalGood
        <4> QED BY <2>4, <3>1, <4>1, <4>2
      <3>2. CASE o # s
        <4>1. <<o, n>> \in Here.known
          BY <1>4, <2>6, <3>2
        <4>2. Here.globals[n] = scopes[o].vars[n].value
          BY <2>1, <2>5, <2>6, <3>2, <4>1 DEF CopyGood
        <4> QED BY <2>4, <2>5, <3>2, <4>2
      <3> QED BY <3>1, <3>2
    <2>7. ASSUME OfMain(p, n), scopes[1].vars[n].once, ~scopes[1].vars[n].foreign
          PROVE  fn.globals[n] \in {Null, scopes[1].vars[n].value}
      <3>1. CASE o = s
        <4>1. s = 1
          <5>1. s # 1 => Here.code # MainCode
            <6>1. s # 1 => s \in 2 .. Len(scopes)
              BY <1>1, <1>5
            <6> QED BY <1>5, <6>1 DEF NamesGood, ScopesNested
          <5>2. s # 1 => n \in Owns(p, Here.code)
            <6>1. s # 1 /\ n \notin Owns(p, Here.code) => o = OwnerIn(p, scopes, scopes[s].inside, n)
              BY <2>2
            <6>2. s # 1 => OwnerIn(p, scopes, scopes[s].inside, n) # s
              <7>1. s # 1 => scopes[s].inside \in 1 .. s - 1
                <8>1. s # 1 => s \in 2 .. Len(scopes)
                  BY <1>1, <1>5
                <8> QED BY <1>1, <8>1 DEF Upward
              <7>2. ASSUME s # 1 PROVE OwnerIn(p, scopes, scopes[s].inside, n) \in 1 .. scopes[s].inside
                <8>1. scopes[s].inside \in 1 .. Len(scopes)
                  BY <1>1, <1>5, <7>1, <7>2
                <8> QED BY <1>1, <8>1, OwnerSolves
              <7> QED BY <1>5, <7>1, <7>2
            <6> QED BY <3>1, <6>1, <6>2
          <5> QED BY <1>1, <2>7, <5>1, <5>2 DEF OfMain
        <4>2. Here.locals[n] = scopes[1].vars[n].value
          BY <2>1, <2>3, <2>7, <3>1, <4>1 DEF LocalGood
        <4>3. Here.globals[n] = Null \/ Here.locals[n] # Null
          <5>1. Len(frames) = 1
            <6>1. frames[1].scope = 1 /\ Here.scope = 1 /\ 1 \in 1 .. Len(frames)
              BY <4>1, HereGood DEF NamesGood, Apart
            <6> QED BY <6>1, HereGood DEF NamesGood, Apart
          <5>2. Here.globals = NoValues
            BY <5>1, HereGood DEF NamesGood, Apart
          <5> QED BY <5>2 DEF NoValues
        <4> QED BY <2>4, <4>2, <4>3
      <3>2. CASE o # s
        <4>1. Here.globals[n] \in {Null, scopes[1].vars[n].value}
          BY <2>5, <2>7, <3>2 DEF CopyGood
        <4> QED BY <2>4, <2>5, <3>2, <4>1
      <3> QED BY <3>1, <3>2
    <2> HIDE DEF kn
    <2> QED BY <2>1, <2>6, <2>7 DEF CopyGood
  <1>8. KnownGood(scopes, s, fn.known)
    <2>1. ASSUME NEW x \in Here.known
          PROVE  x[1] \in 1 .. s /\ x[2] \in Identifiers /\ scopes[x[1]].vars[x[2]].value # Null
      BY <1>5 DEF KnownGood
    <2>2. ASSUME NEW x \in kn
          PROVE  x[1] \in 1 .. s /\ x[2] \in Identifiers /\ scopes[x[1]].vars[x[2]].value # Null
      BY <1>5
    <2> HIDE DEF kn
    <2> QED BY <1>4, <2>1, <2>2 DEF KnownGood
  <1> HIDE DEF kn
  <1>9. FunctionGood(p, scopes, m, fn)
    BY <1>1, <1>4, <1>5, <1>6, <1>7, <1>8 DEF FunctionGood
  <1>10. /\ functions \in Seq(Function) /\ fn \in Function /\ cellMaps \in Seq(Locals)
         /\ Len(cellMaps) \in Nat
    <2>1. functions \in Seq(Function) /\ functions' \in Seq(Function) /\ cellMaps \in Seq(Locals)
      BY MakeFunctionInv DEF CallInv, Shapes
    <2>2. functions'[Len(functions) + 1] = fn /\ Len(functions') = Len(functions) + 1 /\ Len(functions) \in Nat
      BY <1>3, <2>1
    <2>3. Len(functions) + 1 \in 1 .. Len(functions')
      BY <2>2
    <2> QED BY <2>1, <2>2, <2>3
  <1>11. FunctionsGood(p, functions', scopes, m)
    <2>1. /\ Len(functions) \in Nat /\ Len(functions') = Len(functions) + 1
          /\ functions'[Len(functions) + 1] = fn
          /\ \A i \in 1 .. Len(functions) : functions'[i] = functions[i]
      BY <1>3, <1>10
    <2>2. \A i \in 1 .. Len(functions') : i \in 1 .. Len(functions) \/ i = Len(functions) + 1
      BY <2>1
    <2> QED BY <1>9, <2>1, <2>2 DEF FunctionsGood, NamesGood
  <1>12. \A o, n : Handed(p, functions', o, n)
                   <=> Handed(p, functions, o, n) \/ (o = s /\ n \in Takes(p, c))
    BY <1>3, <1>4, <1>10, HandedMore
  <1>13. AllTaken(p, functions', scopes, m)
    BY <1>12 DEF NamesGood, AllTaken, TakenGood
  <1>14. Here.cells = m[s] /\ (Takes(p, c) # {} => m[s] \in 1 .. Len(cellMaps))
    <2>1. FrameHas(p, Len(cellMaps), Here)
      BY HereIs
    <2>2. Lends(p, Here.code) \subseteq Shared(p, Here.code)
      BY DEF Lends, Shared
    <2>3. m[s] \in 0 .. Len(cellMaps)
      BY <1>1 DEF NamesGood, MapsGood
    <2>4. Takes(p, c) # {} => m[s] # 0
      BY <1>5, <1>6, <2>1, <2>2 DEF FrameHas
    <2> QED BY <1>5, <1>10, <2>3, <2>4
  <1>15. Len(cellMaps') = Len(cellMaps)
         /\ \A i \in 1 .. Len(cellMaps), n \in Identifiers :
               cellMaps'[i][n] = IF n \in Takes(p, c) /\ i = m[s] /\ cellMaps[i][n] = Null
                                 THEN Here.locals[n] ELSE cellMaps[i][n]
    <2>1. CASE Takes(p, c) = {}
      BY <1>3, <2>1, NamesAre
    <2>2. CASE Takes(p, c) # {}
      <3> DEFINE filled(g) ==
                   [n \in Identifiers |-> IF n \in Takes(p, c) /\ g[n] = Null THEN Here.locals[n] ELSE g[n]]
      <3>1. cellMaps' = [cellMaps EXCEPT ![m[s]] = filled(cellMaps[m[s]])]
        BY <1>3, <1>14, <2>2, NamesAre
      <3>2. \A g : \A n \in Identifiers :
               filled(g)[n] = IF n \in Takes(p, c) /\ g[n] = Null THEN Here.locals[n] ELSE g[n]
        OBVIOUS
      <3> HIDE DEF filled
      <3>3. Len(cellMaps') = Len(cellMaps)
            /\ \A i \in 1 .. Len(cellMaps) :
                  cellMaps'[i] = IF i = m[s] THEN filled(cellMaps[i]) ELSE cellMaps[i]
        BY <1>10, <3>1
      <3> QED BY <3>2, <3>3
    <2> QED BY <2>1, <2>2
  <1>16. ASSUME NEW o \in 1 .. Len(scopes), NEW n \in SharedBy(p),
                Root(p, scopes, o), n \in Lends(p, scopes[o].code)
         PROVE  CellGood(p, functions', scopes, cellMaps', m, o, n)
    <2>1. CellGood(p, functions, scopes, cellMaps, m, o, n)
      BY <1>16 DEF NamesGood, AllCells
    <2>2. n \in Identifiers
      BY DEF SharedBy
    <2>3. m[o] \in 1 .. Len(cellMaps)
      <3>1. m[o] \in 0 .. Len(cellMaps)
        BY DEF NamesGood, MapsGood
      <3>2. m[o] # 0
        BY <1>16 DEF NamesGood, MapsGood
      <3> QED BY <1>10, <3>1, <3>2
    <2>4. cellMaps'[m[o]][n] = IF n \in Takes(p, c) /\ m[o] = m[s] /\ cellMaps[m[o]][n] = Null
                               THEN Here.locals[n] ELSE cellMaps[m[o]][n]
      BY <1>15, <2>2, <2>3
    <2>5. Handed(p, functions', o, n) <=> Handed(p, functions, o, n) \/ (o = s /\ n \in Takes(p, c))
      BY <1>12
    <2>6. LocalGood(p, scopes, Here, n)
      BY <1>1, <2>2
    <2>7. CASE n \notin Takes(p, c)
      BY <2>1, <2>4, <2>5, <2>7 DEF CellGood
    <2>8. CASE n \in Takes(p, c) /\ n \in Takes(p, Here.code)
      <3>1. n \notin Owns(p, Here.code)
        BY <1>1, <2>8, ProgramIs
      <3>2. Here.locals[n] = Null
        BY <2>6, <3>1 DEF LocalGood
      <3>3. o # s
        BY <1>5, <1>16, <2>8 DEF Root
      <3> QED BY <2>1, <2>4, <2>5, <3>2, <3>3 DEF CellGood
    <2>9. CASE n \in Takes(p, c) /\ n \notin Takes(p, Here.code)
      <3>1. n \in Owns(p, Here.code) /\ Takes(p, Here.code) = {}
        BY <1>1, <1>6, <2>9, ProgramIs
      <3>2. Root(p, scopes, s)
        BY <1>5, <3>1 DEF Root
      <3>3. CASE o = s
        <4>1. OwnerIn(p, scopes, s, n) = s
          BY <1>1, <1>5, <3>1, OwnerSolves
        <4>2. ~scopes[s].vars[n].foreign => Here.locals[n] = scopes[s].vars[n].value
          BY <2>6, <4>1 DEF LocalGood
        <4> QED BY <2>1, <2>4, <2>5, <2>9, <3>3, <4>2 DEF CellGood
      <3>4. CASE o # s
        <4>1. m[o] # m[s]
          BY <1>1, <1>16, <2>3, <3>2, <3>4 DEF NamesGood, MapsGood
        <4> QED BY <2>1, <2>4, <2>5, <3>4, <4>1 DEF CellGood
      <3> QED BY <3>3, <3>4
    <2> QED BY <2>7, <2>8, <2>9
  <1>17. AllCells(p, functions', scopes, cellMaps', m)
    BY <1>16 DEF AllCells
  <1> QED BY <1>11, <1>13, <1>15, <1>17 DEF NamesGood

-----------------------------------------------------------------------------
(* Store: the owner's variable, the frame's copy and the cell.             *)
(* What a store does to the variable of the owner, and to nothing else.    *)
StoredTo(sc, new, o, n, v, s) ==
    /\ Len(new) = Len(sc)
    /\ \A k \in 1 .. Len(sc) : new[k].code = sc[k].code /\ new[k].inside = sc[k].inside
    /\ \A k \in 1 .. Len(sc), x \in Identifiers :
          k # o \/ x # n => new[k].vars[x] = sc[k].vars[x]
    /\ new[o].vars[n].value = v /\ new[o].vars[n].once = (sc[o].vars[n].value = Null)
    /\ new[o].vars[n].foreign = (sc[o].vars[n].foreign \/ o # s)
    /\ new[o].vars[n].first = IF sc[o].vars[n].value = Null THEN Len(sc) ELSE sc[o].vars[n].first

LEMMA StoreWrites ==
  ASSUME NEW sc \in Seq(Scope), NEW o \in 1 .. Len(sc), NEW n \in Identifiers, NEW v, NEW s, NEW new,
         new = [sc EXCEPT ![o].vars[n] =
                  [value |-> v, first |-> IF sc[o].vars[n].value = Null THEN Len(sc) ELSE sc[o].vars[n].first,
                   once |-> sc[o].vars[n].value = Null, foreign |-> sc[o].vars[n].foreign \/ o # s]]
  PROVE  StoredTo(sc, new, o, n, v, s)
  <1>1. PICK w : w = [value |-> v,
                      first |-> IF sc[o].vars[n].value = Null THEN Len(sc) ELSE sc[o].vars[n].first,
                      once |-> sc[o].vars[n].value = Null, foreign |-> sc[o].vars[n].foreign \/ o # s]
    OBVIOUS
  <1>2. new = [sc EXCEPT ![o].vars[n] = w]
    BY <1>1
  <1>3. PICK x : x = [sc[o] EXCEPT !.vars[n] = w]
    OBVIOUS
  <1>4. sc[o] \in Scope
    OBVIOUS
  <1>5. /\ x.code = sc[o].code /\ x.inside = sc[o].inside /\ x.vars[n] = w
        /\ \A y \in Identifiers : y # n => x.vars[y] = sc[o].vars[y]
    BY <1>3, <1>4 DEF Scope
  <1>6. Len(new) = Len(sc) /\ \A k \in 1 .. Len(sc) : new[k] = IF k = o THEN x ELSE sc[k]
    BY <1>2, <1>3, SMTT(30)
  <1>7. w.value = v /\ w.once = (sc[o].vars[n].value = Null) /\ w.foreign = (sc[o].vars[n].foreign \/ o # s)
        /\ w.first = IF sc[o].vars[n].value = Null THEN Len(sc) ELSE sc[o].vars[n].first
    BY <1>1
  <1>8. new[o] = x /\ \A k \in 1 .. Len(sc) : k # o => new[k] = sc[k]
    BY <1>6
  <1>9. /\ \A k \in 1 .. Len(sc) : new[k].code = sc[k].code /\ new[k].inside = sc[k].inside
        /\ \A k \in 1 .. Len(sc), y \in Identifiers : k # o \/ y # n => new[k].vars[y] = sc[k].vars[y]
    BY <1>5, <1>8
  <1>10. new[o].vars[n] = w
    BY <1>5, <1>8
  <1> QED BY <1>6, <1>7, <1>9, <1>10, Zenon DEF StoredTo

LEMMA StoreMoves ==
  ASSUME NEW sc, Upward(sc), MainGood(sc), NEW o \in 1 .. Len(sc), NEW n \in Identifiers,
         NEW v, v # Null, NEW s, NEW new, StoredTo(sc, new, o, n, v, s)
  PROVE  ScopesMoved(sc, new) /\ MainGood(new)
  <1>1. Len(sc) \in Nat /\ Len(sc) >= 1 /\ 1 \in 1 .. Len(sc) /\ Len(new) = Len(sc)
    BY DEF Upward, StoredTo
  <1>2. Upward(new)
    <2>1. \A k \in 2 .. Len(sc) : k \in 1 .. Len(sc)
      BY <1>1
    <2> QED BY <1>1, <2>1 DEF Upward, StoredTo
  <1>3. ASSUME NEW k \in 1 .. Len(sc), NEW x \in Identifiers
        PROVE  VarMoved(sc[k].vars[x], new[k].vars[x], Len(sc))
    <2>1. CASE k = o /\ x = n
      <3>1. Len(sc) >= Len(sc)
        BY <1>1
      <3> QED BY <2>1, <3>1 DEF StoredTo, VarMoved
    <2>2. CASE k # o \/ x # n
      BY <2>2 DEF StoredTo, VarMoved
    <2> QED BY <2>1, <2>2
  <1>4. ScopesMoved(sc, new)
    <2>1. Len(new) >= Len(sc)
      BY <1>1
    <2> QED BY <1>2, <1>3, <2>1 DEF ScopesMoved, StoredTo
  <1>5. ASSUME NEW x \in Identifiers
        PROVE  IF new[1].vars[x].value = Null THEN new[1].vars[x].once ELSE new[1].vars[x].first >= 1
    <2>1. IF sc[1].vars[x].value = Null THEN sc[1].vars[x].once ELSE sc[1].vars[x].first >= 1
      BY DEF MainGood
    <2>2. CASE 1 = o /\ x = n
      BY <1>1, <2>1, <2>2 DEF StoredTo
    <2>3. CASE 1 # o \/ x # n
      <3>1. new[1].vars[x] = sc[1].vars[x]
        BY <1>1, <2>3 DEF StoredTo
      <3> QED BY <2>1, <3>1
    <2> QED BY <2>2, <2>3
  <1> QED BY <1>4, <1>5 DEF MainGood

(* The parts of the invariant that no variable's value matters to.         *)
LEMMA PlacesKept ==
  ASSUME NEW p, NEW sc, NEW new, ScopesMoved(sc, new), Len(new) = Len(sc), NEW m, NEW N, NEW Fs,
         ScopesNested(p, sc), MapsGood(p, sc, m, N), AllTaken(p, Fs, sc, m)
  PROVE  ScopesNested(p, new) /\ MapsGood(p, new, m, N) /\ AllTaken(p, Fs, new, m)
  <1>1. Len(sc) \in Nat /\ Len(sc) >= 1 /\ Upward(sc) /\ Upward(new)
        /\ \A k \in 1 .. Len(sc) : new[k].code = sc[k].code /\ new[k].inside = sc[k].inside
    BY DEF ScopesMoved, Upward
  <1>2. ScopesNested(p, new)
    <2>1. \A k \in 2 .. Len(sc) : k \in 1 .. Len(sc) /\ sc[k].inside \in 1 .. Len(sc)
      <3>1. ASSUME NEW k \in 2 .. Len(sc) PROVE k \in 1 .. Len(sc) /\ sc[k].inside \in 1 .. Len(sc)
        <4>1. sc[k].inside \in 1 .. k - 1
          BY DEF ScopesNested
        <4> QED BY <1>1, <4>1
      <3> QED BY <3>1
    <2>2. 1 \in 1 .. Len(sc)
      BY <1>1
    <2> QED BY <1>1, <2>1, <2>2, SMTT(30) DEF ScopesNested
  <1>3. \A k \in 1 .. Len(sc) : Root(p, new, k) <=> Root(p, sc, k)
    BY <1>1 DEF Root
  <1>4. MapsGood(p, new, m, N)
    BY <1>1, <1>3 DEF MapsGood
  <1>5. ASSUME NEW k \in 1 .. Len(new), NEW n \in SharedBy(p), n \in Takes(p, new[k].code)
        PROVE  TakenGood(p, Fs, new, m, k, n)
    <2>1. TakenGood(p, Fs, sc, m, k, n)
      BY <1>1, <1>5 DEF AllTaken
    <2>2. OwnerIn(p, new, k, n) = OwnerIn(p, sc, k, n)
      <3>1. Len(new) >= Len(sc)
        BY <1>1
      <3> QED BY <1>1, <3>1, OwnersStay
    <2> QED BY <1>1, <1>3, <2>1, <2>2 DEF TakenGood
  <1> QED BY <1>2, <1>4, <1>5 DEF AllTaken

LEMMA StoreNames ==
  ASSUME CallInv, NEW m, NamesGood(source, frames, functions, generators, scopes, cellMaps, m),
         NEW n \in Identifiers, Store(n)
  PROVE  NamesGood(source, frames', functions, generators, scopes', cellMaps', m)
         /\ Len(cellMaps') = Len(cellMaps)
  <1>1. PICK p, s, v, o, l : p = source /\ s = Here.scope /\ v = <<"stored", stores + 1>>
                             /\ o = OwnerIn(p, scopes, s, n) /\ l = Len(frames)
    OBVIOUS
  <1>2. /\ Here \in VmFrame /\ PlaceGood(scopes, m, Here) /\ SeesGood(p, scopes, Here)
        /\ \A x \in Identifiers : LocalGood(p, scopes, Here, x)
        /\ Here.code \in Codes /\ s \in 1 .. Len(scopes)
        /\ Upward(scopes) /\ p \in Sources /\ scopes \in Seq(Scope)
        /\ Here = frames[l] /\ l \in 1 .. Len(frames)
    BY <1>1, HereGood
  <1>3. Here.code = scopes[s].code /\ Here.cells = m[s]
    BY <1>1, <1>2 DEF PlaceGood
  <1>4. /\ ScopesNested(p, scopes) /\ MapsGood(p, scopes, m, Len(cellMaps)) /\ MainGood(scopes)
        /\ AllTaken(p, functions, scopes, m) /\ AllCells(p, functions, scopes, cellMaps, m)
        /\ FramesGood(p, frames, generators, scopes, m) /\ FunctionsGood(p, functions, scopes, m)
        /\ Apart(frames, generators)
    BY <1>1 DEF NamesGood
  <1>5. CallInv' /\ frames' \in Seq(VmFrame) /\ frames \in Seq(VmFrame) /\ scopes' \in Seq(Scope)
        /\ generators \in Seq(Generator) /\ cellMaps \in Seq(Locals) /\ stores \in Nat
    BY StoreInv DEF CallInv, Shapes
  <1>6. v # Null
    <2>1. v \in Passable
      BY <1>1, <1>5 DEF Passable
    <2> QED BY <2>1, CallAssumption
  <1>7. o \in 1 .. s /\ o \in 1 .. Len(scopes)
        /\ o = IF s = 1 \/ n \in Owns(p, Here.code) THEN s ELSE OwnerIn(p, scopes, scopes[s].inside, n)
    <2>1. o \in 1 .. s
          /\ o = IF s = 1 \/ n \in Owns(p, Here.code) THEN s ELSE OwnerIn(p, scopes, scopes[s].inside, n)
      BY <1>1, <1>2, <1>3, OwnerSolves
    <2>2. Len(scopes) \in Nat
      BY <1>2 DEF Upward
    <2> QED BY <1>2, <2>1, <2>2
  <1>8. /\ n \in Def(Here.code).assigned
        /\ scopes' = Written(Here.scope, n, v)
        /\ IF n \in Takes(p, Here.code)
           THEN cellMaps' = [cellMaps EXCEPT ![m[s]][n] = v] /\ frames' = frames
           ELSE /\ frames' = [frames EXCEPT ![l].locals[n] = v]
                /\ cellMaps' = IF n \in Lends(p, Here.code)
                               THEN [cellMaps EXCEPT ![m[s]][n] = v] ELSE cellMaps
    BY <1>1, <1>3, NamesAre DEF Store, StoreDeref, StoreFast
  <1>9. n \notin Takes(p, Here.code) => n \in Owns(p, Here.code)
    BY <1>1, <1>8 DEF Owns, Takes, Def
  <1>10. StoredTo(scopes, scopes', o, n, v, s)
    <2>1. Owner(Here.scope, n) = o
      BY <1>1, NamesAre
    <2>2. scopes' = [scopes EXCEPT ![o].vars[n] =
            [value |-> v, first |-> IF scopes[o].vars[n].value = Null THEN Len(scopes) ELSE scopes[o].vars[n].first,
             once |-> scopes[o].vars[n].value = Null, foreign |-> scopes[o].vars[n].foreign \/ o # s]]
      BY <1>1, <1>8, <2>1 DEF Written
    <2> QED BY <1>2, <1>7, <2>2, StoreWrites
  <1>11. ScopesMoved(scopes, scopes') /\ MainGood(scopes')
    BY <1>2, <1>4, <1>6, <1>7, <1>10, StoreMoves
  <1>12. ScopesNested(p, scopes') /\ MapsGood(p, scopes', m, Len(cellMaps)) /\ AllTaken(p, functions, scopes', m)
    BY <1>4, <1>10, <1>11, PlacesKept DEF StoredTo
  <1>13. FunctionsGood(p, functions, scopes', m)
    BY <1>4, <1>11, FunctionKept DEF FunctionsGood
  <1>14. n \in Takes(p, Here.code) <=> o # s
    <2>1. s = 1 => Takes(p, Here.code) = {}
      BY <1>2, <1>3, <1>4, ProgramIs DEF ScopesNested
    <2>2. n \in Owns(p, Here.code) => n \notin Takes(p, Here.code)
      BY <1>2, ProgramIs
    <2>3. ASSUME s # 1, n \notin Owns(p, Here.code) PROVE o # s
      <3>1. scopes[s].inside \in 1 .. s - 1 /\ scopes[s].inside \in 1 .. Len(scopes) /\ s \in Nat
        <4>1. s \in 2 .. Len(scopes) /\ Len(scopes) \in Nat
          BY <1>2, <2>3 DEF Upward
        <4>2. scopes[s].inside \in 1 .. s - 1
          BY <1>2, <4>1 DEF Upward
        <4> QED BY <4>1, <4>2
      <3>2. o \in 1 .. scopes[s].inside
        BY <1>2, <1>7, <2>3, <3>1, OwnerSolves
      <3> QED BY <3>1, <3>2
    <2> QED BY <1>7, <1>9, <2>1, <2>2, <2>3
  <1>15. ASSUME NEW f \in VmFrame, FrameGood(p, scopes, m, f), f.scope # s
         PROVE  FrameGood(p, scopes', m, f)
    <2>1. f.scope \in 1 .. Len(scopes)
      BY <1>15 DEF FrameGood, PlaceGood
    <2>2. \A x \in Identifiers : scopes'[f.scope].vars[x] = scopes[f.scope].vars[x]
                                 \/ scopes'[f.scope].vars[x].foreign
      BY <1>10, <1>15, <2>1 DEF StoredTo
    <2> QED BY <1>4, <1>5, <1>11, <1>15, <2>2, FrameKept
  <1>16. FrameGood(p, scopes', m, frames'[l])
         /\ frames'[l].scope = s /\ frames'[l].globals = Here.globals
         /\ Len(frames') = Len(frames) /\ \A i \in 1 .. Len(frames) : i # l => frames'[i] = frames[i]
    <2>1. FrameGood(p, scopes, m, Here)
      BY <1>2, <1>4 DEF FramesGood
    <2>2. CASE n \in Takes(p, Here.code)
      <3>1. \A x \in Identifiers : scopes'[s].vars[x] = scopes[s].vars[x]
        BY <1>2, <1>10, <1>14, <2>2 DEF StoredTo
      <3>2. ASSUME NEW h, h = Here PROVE FrameGood(p, scopes', m, h)
        <4>1. h \in VmFrame /\ FrameGood(p, scopes, m, h) /\ h.scope = s
          BY <1>1, <1>2, <2>1, <3>2
        <4>2. \A x \in Identifiers : scopes'[h.scope].vars[x] = scopes[h.scope].vars[x]
                                     \/ scopes'[h.scope].vars[x].foreign
          BY <3>1, <4>1
        <4> QED BY <1>4, <1>5, <1>11, <4>1, <4>2, FrameKept
      <3> QED BY <1>1, <1>2, <1>8, <2>2, <3>2
    <2>3. CASE n \notin Takes(p, Here.code)
      <3>1. PICK g : g = [Here EXCEPT !.locals[n] = v]
        OBVIOUS
      <3>2. frames' = [frames EXCEPT ![l] = g]
        BY <1>2, <1>8, <2>3, <3>1
      <3>3. frames'[l] = g /\ Len(frames') = Len(frames)
            /\ \A i \in 1 .. Len(frames) : i # l => frames'[i] = frames[i]
        BY <1>2, <1>5, <3>2
      <3>4. /\ g.code = Here.code /\ g.globals = Here.globals /\ g.cells = Here.cells
            /\ g.scope = s /\ g.known = Here.known /\ g.until = Here.until
            /\ g.locals[n] = v /\ \A x \in Identifiers : x # n => g.locals[x] = Here.locals[x]
        <4>1. Here.locals \in Locals
          BY <1>2 DEF VmFrame
        <4> QED BY <1>1, <1>2, <3>1, <4>1 DEF VmFrame, Locals
      <3>5. /\ PlaceGood(scopes', m, Here) /\ SeesGood(p, scopes', Here)
            /\ \A x \in Identifiers : OwnerIn(p, scopes', s, x) = OwnerIn(p, scopes, s, x)
        <4>1. PICK h : h = Here
          OBVIOUS
        <4>2. h \in VmFrame /\ FrameGood(p, scopes, m, h) /\ h.scope = s
          BY <1>1, <1>2, <2>1, <4>1
        <4>4. ScopesMoved(scopes, scopes') /\ MainGood(scopes) /\ scopes' \in Seq(Scope)
              /\ m[h.scope] = m[h.scope]
          BY <1>4, <1>5, <1>11
        <4>3. /\ PlaceGood(scopes', m, h) /\ SeesGood(p, scopes', h)
              /\ \A x \in Identifiers : OwnerIn(p, scopes', h.scope, x) = OwnerIn(p, scopes, h.scope, x)
          BY <4>2, <4>4, PlaceKept, ZenonT(40)
        <4> QED BY <4>1, <4>2, <4>3
      <3>6. PlaceGood(scopes', m, g) /\ SeesGood(p, scopes', g)
        BY <1>1, <3>4, <3>5 DEF PlaceGood, SeesGood
      <3>7. ASSUME NEW x \in Identifiers PROVE LocalGood(p, scopes', g, x)
        <4>1. LocalGood(p, scopes, Here, x)
          BY <1>2
        <4>2. CASE x = n
          BY <1>9, <1>10, <1>14, <2>3, <3>4, <4>2 DEF LocalGood, StoredTo
        <4>3. CASE x # n
          <5>1. scopes'[s].vars[x] = scopes[s].vars[x]
            BY <1>2, <1>10, <4>3 DEF StoredTo
          <5> QED BY <1>1, <3>4, <3>5, <4>1, <4>3, <5>1 DEF LocalGood
        <4> QED BY <4>2, <4>3
      <3> QED BY <3>3, <3>4, <3>6, <3>7 DEF FrameGood
    <2> QED BY <2>2, <2>3
  <1>17. FramesGood(p, frames', generators, scopes', m)
    <2>1. ASSUME NEW i \in 1 .. Len(frames') PROVE FrameGood(p, scopes', m, frames'[i])
      <3>1. CASE i # l
        <4>1. i \in 1 .. Len(frames) /\ frames'[i] = frames[i]
          BY <1>16, <3>1
        <4>2. frames[i] \in VmFrame
          BY <1>5, <4>1
        <4>3. frames[i].scope # s
          BY <1>1, <1>2, <1>4, <3>1, <4>1 DEF Apart
        <4>4. FrameGood(p, scopes, m, frames[i])
          BY <1>4, <4>1 DEF FramesGood
        <4> QED BY <1>15, <4>1, <4>2, <4>3, <4>4
      <3> QED BY <1>16, <3>1
    <2>2. ASSUME NEW g \in 1 .. Len(generators), generators[g].state = "ready"
          PROVE  FrameGood(p, scopes', m, generators[g].frame)
      <3>1. generators[g].frame \in VmFrame
        <4>1. generators[g] \in Generator
          BY <1>5
        <4> QED BY <4>1 DEF Generator
      <3>2. generators[g].frame.scope # s
        BY <1>1, <1>2, <1>4, <2>2 DEF Apart
      <3>3. FrameGood(p, scopes, m, generators[g].frame)
        BY <1>4, <2>2 DEF FramesGood
      <3> QED BY <1>15, <3>1, <3>2, <3>3
    <2> QED BY <2>1, <2>2 DEF FramesGood
  <1>18. Apart(frames', generators)
    <2>1. \A i \in 1 .. Len(frames) : frames'[i].scope = frames[i].scope /\ frames'[i].globals = frames[i].globals
      BY <1>1, <1>2, <1>16
    <2>2. 1 \in 1 .. Len(frames)
      BY <1>2
    <2> QED BY <1>4, <1>16, <2>1, <2>2 DEF Apart
  <1>19. Len(cellMaps') = Len(cellMaps)
         /\ \A i \in 1 .. Len(cellMaps), x \in Identifiers :
               cellMaps'[i][x] = IF x = n /\ i = m[s] /\ (n \in Takes(p, Here.code) \/ n \in Lends(p, Here.code))
                                 THEN v ELSE cellMaps[i][x]
    <2>1. CASE cellMaps' = cellMaps /\ n \notin Takes(p, Here.code) /\ n \notin Lends(p, Here.code)
      BY <2>1
    <2>2. CASE cellMaps' = [cellMaps EXCEPT ![m[s]][n] = v]
               /\ (n \in Takes(p, Here.code) \/ n \in Lends(p, Here.code))
      <3>1. Len(cellMaps') = Len(cellMaps)
            /\ \A i \in 1 .. Len(cellMaps) :
                 cellMaps'[i] = IF i = m[s] THEN [cellMaps[i] EXCEPT ![n] = v] ELSE cellMaps[i]
        <4>1. PICK k, y, maps : k = m[s] /\ y = [cellMaps[k] EXCEPT ![n] = v] /\ maps = cellMaps'
          OBVIOUS
        <4>2. maps = [cellMaps EXCEPT ![k] = y] /\ cellMaps \in Seq(Locals)
          BY <1>5, <2>2, <4>1
        <4>3. DOMAIN maps = 1 .. Len(cellMaps) /\ Len(cellMaps) \in Nat
          BY <4>2
        <4>4. Len(maps) = Len(cellMaps)
          BY <4>2, <4>3
        <4>5. \A i \in 1 .. Len(cellMaps) : maps[i] = IF i = k THEN y ELSE cellMaps[i]
          BY <4>2
        <4> QED BY <4>1, <4>4, <4>5
      <3>2. \A i \in 1 .. Len(cellMaps) : cellMaps[i] \in Locals
        BY <1>5
      <3>3. \A i \in 1 .. Len(cellMaps), x \in Identifiers :
              [cellMaps[i] EXCEPT ![n] = v][x] = IF x = n THEN v ELSE cellMaps[i][x]
        BY <3>2 DEF Locals
      <3> QED BY <2>2, <3>1, <3>3
    <2> QED BY <1>8, <2>1, <2>2
  <1>20. ASSUME NEW k \in 1 .. Len(scopes), NEW x \in SharedBy(p),
                Root(p, scopes, k), x \in Lends(p, scopes[k].code)
         PROVE  CellGood(p, functions, scopes', cellMaps', m, k, x)
    <2>1. CellGood(p, functions, scopes, cellMaps, m, k, x) /\ x \in Identifiers
      BY <1>4, <1>20 DEF AllCells, SharedBy
    <2>2. m[k] \in 1 .. Len(cellMaps) /\ m[k] # 0
      <3>1. m[k] \in 0 .. Len(cellMaps) /\ m[k] # 0
        BY <1>4, <1>20 DEF MapsGood
      <3>2. Len(cellMaps) \in Nat
        BY <1>5
      <3> QED BY <3>1, <3>2
    <2>3. cellMaps'[m[k]][x] = IF x = n /\ m[k] = m[s] /\ (n \in Takes(p, Here.code) \/ n \in Lends(p, Here.code))
                                 THEN v ELSE cellMaps[m[k]][x]
      BY <1>19, <2>1, <2>2
    <2>4. k # o \/ x # n => scopes'[k].vars[x] = scopes[k].vars[x]
      BY <1>10, <2>1 DEF StoredTo
    <2>5. scopes'[o].vars[n].value = v
      BY <1>10 DEF StoredTo
    <2>6. CASE x # n
      BY <2>1, <2>3, <2>4, <2>6 DEF CellGood
    <2>7. CASE x = n /\ (n \in Takes(p, Here.code) \/ n \in Lends(p, Here.code))
      <3>1. Root(p, scopes, o) /\ m[s] = m[o]
        <4>1. CASE n \in Takes(p, Here.code)
          <5>1. TakenGood(p, functions, scopes, m, s, n)
            BY <1>2, <1>3, <1>4, <2>7, <4>1 DEF AllTaken
          <5> QED BY <1>1, <5>1 DEF TakenGood
        <4>2. CASE n \notin Takes(p, Here.code)
          <5>1. Takes(p, Here.code) = {}
            BY <1>2, <2>7, <4>2, ProgramIs
          <5> QED BY <1>3, <1>14, <4>2, <5>1 DEF Root
        <4> QED BY <4>1, <4>2
      <3>2. CASE k = o
        BY <1>6, <2>3, <2>5, <2>7, <3>1, <3>2 DEF CellGood
      <3>3. CASE k # o
        <4>1. m[k] # m[o]
          BY <1>4, <1>7, <1>20, <2>2, <3>1, <3>3 DEF MapsGood
        <4> QED BY <2>1, <2>3, <2>4, <3>1, <3>3, <4>1 DEF CellGood
      <3> QED BY <3>2, <3>3
    <2>8. CASE x = n /\ n \notin Takes(p, Here.code) /\ n \notin Lends(p, Here.code)
      <3>1. k # o
        BY <1>3, <1>14, <1>20, <2>8
      <3> QED BY <2>1, <2>3, <2>4, <2>8, <3>1 DEF CellGood
    <2> QED BY <2>6, <2>7, <2>8
  <1>21. AllCells(p, functions, scopes', cellMaps', m)
    <2>1. Len(scopes') = Len(scopes) /\ \A k \in 1 .. Len(scopes) : scopes'[k].code = scopes[k].code
      BY <1>10 DEF StoredTo
    <2> QED BY <1>20, <2>1 DEF AllCells, Root
  <1>22. NamesGood(p, frames', functions, generators, scopes', cellMaps', m)
    BY <1>11, <1>12, <1>13, <1>17, <1>18, <1>19, <1>21 DEF NamesGood
  <1> QED BY <1>1, <1>19, <1>22

-----------------------------------------------------------------------------
(* A call: a scope, a frame that sees its function's names and its         *)
(* caller's, and a cell map if functions in it share its variables.        *)
LEMMA ParametersOwned ==
  ASSUME source \in Sources, NEW c \in Codes
  PROVE  ToSet(Parameters(c)) \subseteq Owns(source, c)
  <1>1. ToSet(Parameters(c)) =
            ToSet(Def(c).params) \cup ToSet(Def(c).kwonly) \cup ({Def(c).vararg, Def(c).kwarg} \ {Null})
    BY ParametersAre
  <1>2. Def(c).nonlocals \cap
            (ToSet(Def(c).params) \cup ToSet(Def(c).kwonly) \cup {Def(c).vararg, Def(c).kwarg}) = {}
    BY SourcesAssumption DEF Def
  <1>3. Owns(source, c) = (ToSet(Parameters(c)) \cup Def(c).assigned) \ Def(c).nonlocals
    BY Zenon DEF Owns, Parameters, Def
  <1> QED BY <1>1, <1>2, <1>3

LEMMA OwnerOwns ==
  ASSUME NEW p, NEW sc, Upward(sc), NEW n, NEW k \in 1 .. Len(sc), OwnerIn(p, sc, k, n) = k
  PROVE  k = 1 \/ n \in Owns(p, sc[k].code)
  <1> SUFFICES ASSUME k # 1, n \notin Owns(p, sc[k].code) PROVE FALSE
    OBVIOUS
  <1>1. k \in 2 .. Len(sc) /\ Len(sc) \in Nat
    BY DEF Upward
  <1>2. sc[k].inside \in 1 .. k - 1
    BY <1>1 DEF Upward
  <1>3. sc[k].inside \in 1 .. Len(sc)
    BY <1>1, <1>2
  <1>4. OwnerIn(p, sc, sc[k].inside, n) \in 1 .. sc[k].inside
    BY <1>3, OwnerSolves
  <1>5. OwnerIn(p, sc, k, n) = OwnerIn(p, sc, sc[k].inside, n)
    BY OwnerSolves
  <1> QED BY <1>1, <1>2, <1>4, <1>5

LEMMA OwnerAbove ==
  ASSUME NEW p, NEW sc, Upward(sc), NEW n, NEW k \in 1 .. Len(sc), OwnerIn(p, sc, k, n) # k
  PROVE  OwnerIn(p, sc, k, n) = OwnerIn(p, sc, sc[k].inside, n)
  BY OwnerSolves

(* The scopes with the one of a new call.                                  *)
LEMMA ScopeAdded ==
  ASSUME NEW p, NEW sc \in Seq(Scope), NEW x \in Scope, ScopesNested(p, sc), MainGood(sc),
         x.inside \in 1 .. Len(sc), p.defs[x.code].parent = sc[x.inside].code, x.code # MainCode
  PROVE  /\ ScopesMoved(sc, Append(sc, x)) /\ ScopesNested(p, Append(sc, x)) /\ MainGood(Append(sc, x))
         /\ Append(sc, x) \in Seq(Scope) /\ Len(Append(sc, x)) = Len(sc) + 1 /\ Append(sc, x)[Len(sc) + 1] = x
         /\ \A k \in 1 .. Len(sc) : Append(sc, x)[k] = sc[k]
  <1>1. PICK new : new = Append(sc, x)
    OBVIOUS
  <1>2. /\ new \in Seq(Scope) /\ Len(new) = Len(sc) + 1 /\ new[Len(sc) + 1] = x
        /\ \A k \in 1 .. Len(sc) : new[k] = sc[k]
        /\ Len(sc) \in Nat
    BY <1>1
  <1>3. Len(sc) >= 1 /\ sc[1].code = MainCode /\ 1 \in 1 .. Len(sc)
    BY <1>2 DEF ScopesNested
  <1>4. ASSUME NEW k \in 2 .. Len(new)
        PROVE  /\ new[k].inside \in 1 .. k - 1 /\ new[k].code # MainCode
               /\ p.defs[new[k].code].parent = new[new[k].inside].code
               /\ new[k].inside \in 1 .. Len(sc)
    <2>1. CASE k \in 2 .. Len(sc)
      <3>1. /\ sc[k].inside \in 1 .. k - 1 /\ sc[k].code # MainCode
            /\ p.defs[sc[k].code].parent = sc[sc[k].inside].code
        BY <2>1 DEF ScopesNested
      <3>2. k \in 1 .. Len(sc) /\ sc[k].inside \in 1 .. Len(sc)
        BY <1>2, <2>1, <3>1
      <3> QED BY <1>2, <3>1, <3>2
    <2>2. CASE k = Len(sc) + 1
      <3>1. new[k] = x /\ k - 1 = Len(sc)
        BY <1>2, <2>2
      <3> QED BY <1>2, <3>1
    <2> QED BY <1>2, <2>1, <2>2
  <1>5. ScopesNested(p, new)
    BY <1>2, <1>3, <1>4 DEF ScopesNested
  <1>6. Upward(sc) /\ Upward(new)
    <2>1. Len(new) \in Nat
      BY <1>2
    <2> QED BY <1>2, <1>5, <2>1, NestedUpward
  <1>7. ScopesMoved(sc, new)
    <2>1. \A k \in 1 .. Len(sc), n \in Identifiers : VarMoved(sc[k].vars[n], new[k].vars[n], Len(sc))
      BY <1>2 DEF VarMoved
    <2>2. Len(new) >= Len(sc)
      BY <1>2
    <2> QED BY <1>2, <1>6, <2>1, <2>2 DEF ScopesMoved
  <1>8. MainGood(new)
    BY <1>2, <1>3 DEF MainGood
  <1> QED BY <1>1, <1>2, <1>5, <1>7, <1>8

(* What a caller's names are to a name of the module's own.                *)
LEMMA FromCallerGood ==
  ASSUME CallInv, NEW m, NamesGood(source, frames, functions, generators, scopes, cellMaps, m),
         NEW how, NEW n \in Identifiers, OfMain(source, n),
         scopes[1].vars[n].once, ~scopes[1].vars[n].foreign
  PROVE  /\ FromCaller(how)[n] \in {Null, scopes[1].vars[n].value}
         /\ (/\ scopes[1].vars[n].value # Null
             /\ scopes[1].vars[n].first <= (IF OwnVm(how) THEN 0 ELSE IF Len(frames) = 1 THEN Len(scopes) ELSE Here.until))
            => FromCaller(how)[n] = scopes[1].vars[n].value
  <1> DEFINE w == scopes[1].vars[n]
             s == Here.scope
  <1>1. /\ Here = frames[Len(frames)] /\ Len(frames) \in 1 .. Len(frames)
        /\ PlaceGood(scopes, m, Here) /\ SeesGood(source, scopes, Here)
        /\ LocalGood(source, scopes, Here, n)
        /\ Here.code \in Codes /\ s \in 1 .. Len(scopes) /\ Upward(scopes)
        /\ source \in Sources /\ scopes \in Seq(Scope)
    BY HereGood
  <1>2. Here.code = scopes[s].code
    BY <1>1 DEF PlaceGood
  <1>3. frames[1].scope = 1 /\ frames[1].globals = NoValues
        /\ \A i, j \in 1 .. Len(frames) : frames[i].scope = frames[j].scope => i = j
    BY DEF NamesGood, Apart
  <1>4. s = 1 <=> Len(frames) = 1
    <2>1. Len(frames) \in Nat /\ 1 \in 1 .. Len(frames)
      BY <1>1 DEF CallInv, Shapes
    <2> QED BY <1>1, <1>3, <2>1
  <1>5. CASE s = 1
    <2>1. Here.locals[n] = w.value
      <3>1. OwnerIn(source, scopes, s, n) = s
        BY <1>1, <1>5, OwnerSolves
      <3> QED BY <1>1, <1>5, <3>1 DEF LocalGood
    <2>2. Here.globals[n] = Null
      BY <1>1, <1>3, <1>4, <1>5 DEF NoValues
    <2>3. ~OwnVm(how) => FromCaller(how)[n] = w.value
      BY <2>1, <2>2 DEF FromCaller, Over
    <2>4. OwnVm(how) => FromCaller(how)[n] = Null /\ ~(w.value # Null /\ w.first <= 0)
      <3>1. OwnVm(how) => FromCaller(how) = NoValues
        BY DEF FromCaller, OwnVm
      <3>2. ~(w.value # Null /\ w.first <= 0)
        <4>1. w.value # Null => w.first >= 1
          BY DEF NamesGood, MainGood
        <4>2. w.first \in Nat
          <5>1. scopes[1] \in Scope
            BY <1>1 DEF Upward
          <5> QED BY <5>1 DEF Scope
        <4> HIDE DEF w
        <4> QED BY <4>1, <4>2
      <3> QED BY <3>1, <3>2 DEF NoValues
    <2> QED BY <2>3, <2>4
  <1>6. CASE s # 1
    <2>1. n \notin Owns(source, Here.code)
      <3>1. s \in 2 .. Len(scopes)
        BY <1>1, <1>6 DEF Upward
      <3>2. Here.code # MainCode
        BY <1>2, <3>1 DEF NamesGood, ScopesNested
      <3> QED BY <1>1, <3>2 DEF OfMain
    <2>2. Here.locals[n] = Null
      BY <1>1, <2>1 DEF LocalGood
    <2>3. OwnerIn(source, scopes, s, n) # s
      BY <1>1, <1>2, <1>6, <2>1, OwnerOwns
    <2>4. CopyGood(source, scopes, s, Here.known, Here.globals, n)
          /\ AroundGood(source, scopes, s, Here.until, Here.globals, n)
      BY <1>1, <2>3 DEF SeesGood
    <2>5. Here.globals[n] \in {Null, w.value} /\ (w.value # Null /\ w.first <= Here.until => Here.globals[n] = w.value)
      BY <1>6, <2>4 DEF CopyGood, AroundGood
    <2>6. ~OwnVm(how) => FromCaller(how)[n] = Here.globals[n]
      BY <2>2 DEF FromCaller, Over
    <2>7. OwnVm(how) => FromCaller(how)[n] = Null /\ ~(w.value # Null /\ w.first <= 0)
      <3>1. OwnVm(how) => FromCaller(how) = NoValues
        BY DEF FromCaller, OwnVm
      <3>2. ~(w.value # Null /\ w.first <= 0)
        <4>1. w.value # Null => w.first >= 1
          BY DEF NamesGood, MainGood
        <4>2. w.first \in Nat
          <5>1. scopes[1] \in Scope
            BY <1>1 DEF Upward
          <5> QED BY <5>1 DEF Scope
        <4> HIDE DEF w
        <4> QED BY <4>1, <4>2
      <3> QED BY <3>1, <3>2 DEF NoValues
    <2> QED BY <1>4, <1>6, <2>5, <2>6, <2>7
  <1> QED BY <1>5, <1>6

ScopeOf(c, s, got, L) ==
    [code |-> c, inside |-> s,
     vars |-> [n \in Identifiers |-> IF n \in DOMAIN got
                   THEN [NoVariable EXCEPT !.value = got[n], !.first = L + 1] ELSE NoVariable]]

LEMMA ScopeIs ==
  ASSUME NEW c, NEW s, NEW got, NEW L, NEW n \in Identifiers
  PROVE  /\ ScopeOf(c, s, got, L).vars[n].value = IF n \in DOMAIN got THEN got[n] ELSE Null
         /\ ~ScopeOf(c, s, got, L).vars[n].foreign
         /\ ScopeOf(c, s, got, L).code = c /\ ScopeOf(c, s, got, L).inside = s
  <1>1. PICK a : a = [NoVariable EXCEPT !.value = got[n], !.first = L + 1]
    OBVIOUS
  <1>2. a.value = got[n] /\ a.foreign = FALSE /\ NoVariable.value = Null /\ NoVariable.foreign = FALSE
    BY <1>1 DEF NoVariable
  <1>3. ScopeOf(c, s, got, L).vars[n] = IF n \in DOMAIN got THEN a ELSE NoVariable
    BY <1>1 DEF ScopeOf
  <1>4. ScopeOf(c, s, got, L).code = c /\ ScopeOf(c, s, got, L).inside = s
    BY DEF ScopeOf
  <1> QED BY <1>2, <1>3, <1>4

(* The frame of a call sees what its function does, and for the rest its   *)
(* caller's names.                                                         *)
LEMMA EnteredFrame ==
  ASSUME CallInv, NEW m, NamesGood(source, frames, functions, generators, scopes, cellMaps, m),
         NEW f \in DOMAIN functions, NEW how, NEW got, NEW fr, fr = NewFrame(f, how, got),
         DOMAIN got \subseteq Owns(source, functions[f].code),
         NEW new, ScopesMoved(scopes, new), Len(new) = Len(scopes) + 1,
         new[Len(scopes) + 1] = ScopeOf(functions[f].code, functions[f].scope, got, Len(scopes)),
         \A k \in 1 .. Len(scopes) : new[k] = scopes[k],
         NEW mm, mm[Len(scopes) + 1] = fr.cells
  PROVE  FrameGood(source, new, mm, fr)
  <1>0. PICK k : k = Len(scopes) + 1
    OBVIOUS
  <1> DEFINE until == IF OwnVm(how) THEN 0 ELSE IF Len(frames) = 1 THEN Len(scopes) ELSE Here.until
  <1>1. PICK p, F, c : p = source /\ F = functions[f] /\ c = F.code
    OBVIOUS
  <1>2. /\ F \in Function /\ FunctionGood(p, scopes, m, F) /\ scopes \in Seq(Scope)
        /\ Len(scopes) \in Nat /\ p \in Sources /\ MainGood(scopes) /\ c \in Codes
    <2>1. functions \in Seq(Function) /\ scopes \in Seq(Scope) /\ p \in Sources
      BY <1>1 DEF CallInv, Shapes
    <2>2. F \in Function /\ FunctionGood(p, scopes, m, F) /\ MainGood(scopes)
      BY <1>1, <2>1 DEF NamesGood, FunctionsGood
    <2> QED BY <1>1, <2>1, <2>2 DEF Function
  <1>3. /\ F.scope \in 1 .. Len(scopes) /\ KnownGood(scopes, F.scope, F.known)
        /\ \A n \in Identifiers : CopyGood(p, scopes, F.scope, F.known, F.globals, n)
    BY <1>2 DEF FunctionGood
  <1>4. /\ fr.code = c /\ fr.scope = k /\ fr.known = F.known /\ fr.until = until
        /\ fr.globals = Over(F.globals, FromCaller(how))
        /\ fr.locals = [n \in Identifiers |-> IF n \in DOMAIN got THEN got[n] ELSE Null]
    BY <1>0, <1>1, Zenon DEF NewFrame
  <1>5. /\ Upward(scopes) /\ Upward(new) /\ k \in 1 .. Len(new) /\ k # 1 /\ Len(new) \in Nat
        /\ Len(scopes) >= 1 /\ 1 \in 1 .. Len(scopes)
    BY <1>0, <1>2 DEF ScopesMoved, Upward
  <1>6. /\ new[k].code = c /\ new[k].inside = F.scope
        /\ \A n \in Identifiers : new[k].vars[n].value = IF n \in DOMAIN got THEN got[n] ELSE Null
    <2>1. PICK x : x = ScopeOf(c, F.scope, got, Len(scopes))
      OBVIOUS
    <2>2. new[k] = x
      BY <1>0, <1>1, <2>1
    <2>3. x.code = c /\ x.inside = F.scope
      BY <2>1 DEF ScopeOf
    <2>4. \A n \in Identifiers : x.vars[n].value = IF n \in DOMAIN got THEN got[n] ELSE Null
      BY <2>1, ScopeIs
    <2> QED BY <2>2, <2>3, <2>4
  <1>7. KnownGood(new, k - 1, F.known)
    <2>1. KnownGood(new, F.scope, F.known)
      <3>1. F.scope \in 0 .. Len(scopes)
        BY <1>2, <1>3
      <3> QED BY <1>3, <3>1, KnownKept
    <2>2. \A i \in 1 .. F.scope : i \in 1 .. k - 1
      BY <1>0, <1>2, <1>3
    <2> QED BY <2>1, <2>2 DEF KnownGood
  <1>8. until < Len(new)
    <2>1. Here.until < Len(scopes) /\ Here.until \in Nat
      BY HereGood DEF PlaceGood, VmFrame
    <2> QED BY <1>2, <2>1
  <1>9. PlaceGood(new, mm, fr)
    BY <1>0, <1>4, <1>5, <1>6, <1>7, <1>8 DEF PlaceGood
  <1>10. ASSUME NEW n \in Identifiers PROVE LocalGood(p, new, fr, n)
    <2>1. fr.locals[n] = IF n \in DOMAIN got THEN got[n] ELSE Null
      BY <1>4
    <2>2. DOMAIN got \subseteq Owns(p, c)
      BY <1>1
    <2> QED BY <1>4, <1>6, <2>1, <2>2 DEF LocalGood
  <1> HIDE DEF until
  <1>11. ASSUME NEW n \in Identifiers
         PROVE  /\ OwnerIn(p, new, k, n) # k => CopyGood(p, new, k, fr.known, fr.globals, n)
                /\ AroundGood(p, new, k, until, fr.globals, n)
    <2> DEFINE w == scopes[1].vars[n]
    <2>1. fr.globals[n] = IF F.globals[n] # Null THEN F.globals[n] ELSE FromCaller(how)[n]
      BY <1>4 DEF Over
    <2>2. CopyGood(p, new, F.scope, F.known, F.globals, n)
      BY <1>2, <1>3, CopyKept
    <2>3. CopyGood(p, scopes, F.scope, F.known, F.globals, n)
      BY <1>3
    <2>4. new[1].vars[n] = w
      BY <1>5
    <2>5. OfMain(p, n) /\ w.once /\ ~w.foreign
          => /\ FromCaller(how)[n] \in {Null, w.value} /\ F.globals[n] \in {Null, w.value}
             /\ (w.value # Null /\ w.first <= until => FromCaller(how)[n] = w.value)
      BY <1>1, <2>3, FromCallerGood DEF CopyGood, until
    <2>6. OfMain(p, n) /\ w.once /\ ~w.foreign
          => /\ fr.globals[n] \in {Null, w.value}
             /\ (w.value # Null /\ w.first <= until => fr.globals[n] = w.value)
      <3> HIDE DEF w
      <3> QED BY <2>1, <2>5
    <2>7. AroundGood(p, new, k, until, fr.globals, n)
      BY <2>4, <2>6 DEF AroundGood
    <2>8. ASSUME OwnerIn(p, new, k, n) # k PROVE CopyGood(p, new, k, fr.known, fr.globals, n)
      <3>1. OwnerIn(p, new, k, n) = OwnerIn(p, new, F.scope, n)
        BY <1>5, <1>6, <2>8, OwnerAbove
      <3>2. PICK o : o = OwnerIn(p, new, F.scope, n)
        OBVIOUS
      <3>3. ASSUME <<o, n>> \in F.known, new[o].vars[n].once, ~new[o].vars[n].foreign
            PROVE  fr.globals[n] = new[o].vars[n].value
        <4>1. F.globals[n] = new[o].vars[n].value
          BY <2>2, <3>2, <3>3 DEF CopyGood
        <4>2. new[o].vars[n].value # Null
          <5>1. <<o, n>>[1] = o /\ <<o, n>>[2] = n
            OBVIOUS
          <5> QED BY <1>7, <3>3, <5>1 DEF KnownGood
        <4> QED BY <2>1, <4>1, <4>2
      <3> QED BY <1>4, <2>4, <2>6, <3>1, <3>2, <3>3 DEF CopyGood
    <2> QED BY <2>7, <2>8
  <1>12. SeesGood(p, new, fr)
    BY <1>4, <1>11 DEF SeesGood
  <1> QED BY <1>1, <1>9, <1>10, <1>12 DEF FrameGood

LEMMA FrameSame ==
  ASSUME NEW p, NEW sc, NEW m, NEW f, NEW g, FrameGood(p, sc, m, f),
         g.code = f.code, g.locals = f.locals, g.globals = f.globals, g.cells = f.cells,
         g.scope = f.scope, g.known = f.known, g.until = f.until
  PROVE  FrameGood(p, sc, m, g)
  <1>1. PlaceGood(sc, m, g)
    BY DEF FrameGood, PlaceGood
  <1>2. SeesGood(p, sc, g)
    BY DEF FrameGood, SeesGood
  <1>3. ASSUME NEW n \in Identifiers PROVE LocalGood(p, sc, g, n)
    BY DEF FrameGood, LocalGood
  <1> QED BY <1>1, <1>2, <1>3 DEF FrameGood

(* The scopes sc and one more, whose call uses the cell map e: a new one   *)
(* if its function shares variables with those in it and takes none, and   *)
(* that of the scope around it if it takes any.                            *)
Entered(sc, new, m, mm, e) ==
    /\ ScopesMoved(sc, new) /\ Len(new) = Len(sc) + 1
    /\ \A k \in 1 .. Len(sc) : new[k] = sc[k] /\ mm[k] = m[k]
    /\ mm = [k \in 1 .. Len(new) |-> mm[k]] /\ mm[Len(sc) + 1] = e

(* Of N cell maps, and then of M, the one that a call of c uses.           *)
MapFor(p, c, e, N, M) ==
    /\ N \in Nat /\ M \in Nat /\ M >= N /\ e \in 0 .. M
    /\ Takes(p, c) = {} => e = IF Lends(p, c) # {} THEN N + 1 ELSE 0

LEMMA MapsAdded ==
  ASSUME NEW p, NEW sc, NEW new, NEW m, NEW mm, NEW e, Entered(sc, new, m, mm, e),
         NEW N, NEW M, MapsGood(p, sc, m, N), MapFor(p, new[Len(sc) + 1].code, e, N, M)
  PROVE  MapsGood(p, new, mm, M)
  <1>1. PICK c : c = new[Len(sc) + 1].code
    OBVIOUS
  <1>2. /\ N \in Nat /\ M \in Nat /\ M >= N /\ e \in 0 .. M
        /\ Takes(p, c) = {} => e = IF Lends(p, c) # {} THEN N + 1 ELSE 0
    BY <1>1 DEF MapFor
  <1>3. /\ Len(sc) \in Nat /\ Len(sc) >= 1 /\ Len(new) = Len(sc) + 1 /\ 1 \in 1 .. Len(sc)
        /\ \A k \in 1 .. Len(new) : k \in 1 .. Len(sc) \/ k = Len(sc) + 1
        /\ \A k \in 1 .. Len(sc) : new[k] = sc[k] /\ mm[k] = m[k]
        /\ mm = [k \in 1 .. Len(new) |-> mm[k]] /\ mm[Len(sc) + 1] = e
    <2>1. Len(sc) \in Nat /\ Len(sc) >= 1 /\ Upward(sc) /\ Upward(new)
      BY DEF Entered, ScopesMoved, Upward
    <2>2. Len(new) = Len(sc) + 1 /\ \A k \in 1 .. Len(sc) : new[k] = sc[k] /\ mm[k] = m[k]
      BY DEF Entered
    <2>3. mm = [k \in 1 .. Len(new) |-> mm[k]] /\ mm[Len(sc) + 1] = e
      BY Zenon DEF Entered
    <2>4. 1 \in 1 .. Len(sc) /\ \A k \in 1 .. Len(new) : k \in 1 .. Len(sc) \/ k = Len(sc) + 1
      BY <2>1, <2>2
    <2>5. \A k \in 1 .. Len(sc) : k \in 1 .. Len(new)
      BY <2>1, <2>2
    <2> QED BY <2>1, <2>2, <2>3, <2>4, <2>5, Zenon
  <1>4. /\ m \in [1 .. Len(sc) -> 0 .. N] /\ m[1] = 0
        /\ \A k \in 1 .. Len(sc) : Root(p, sc, k) /\ Lends(p, sc[k].code) # {} => m[k] # 0
        /\ \A j, k \in 1 .. Len(sc) :
              Root(p, sc, j) /\ Root(p, sc, k) /\ m[j] = m[k] /\ m[j] # 0 => j = k
    BY DEF MapsGood
  <1>5. \A k \in 1 .. Len(new) : mm[k] \in 0 .. M
    <2>1. \A k \in 1 .. Len(sc) : m[k] \in 0 .. M
      BY <1>4, <1>2
    <2> QED BY <1>3, <1>2, <2>1
  <1>6. mm \in [1 .. Len(new) -> 0 .. M]
    BY <1>3, <1>5
  <1>7. \A k \in 1 .. Len(sc) : (Root(p, new, k) <=> Root(p, sc, k)) /\ mm[k] \in 0 .. N /\ mm[k] # N + 1
    <2>1. \A k \in 1 .. Len(sc) : m[k] \in 0 .. N /\ m[k] # N + 1
      BY <1>4, <1>2
    <2> QED BY <1>3, <2>1 DEF Root
  <1>8. Root(p, new, Len(sc) + 1) => e = (IF Lends(p, c) # {} THEN N + 1 ELSE 0)
    BY <1>1, <1>2 DEF Root
  <1>9. ASSUME NEW k \in 1 .. Len(new), Root(p, new, k), Lends(p, new[k].code) # {}
        PROVE  mm[k] # 0
    <2>1. CASE k \in 1 .. Len(sc)
      BY <1>3, <1>4, <1>7, <1>9, <2>1
    <2>2. CASE k = Len(sc) + 1
      BY <1>1, <1>3, <1>2, <1>8, <1>9, <2>2
    <2> QED BY <1>3, <2>1, <2>2
  <1>10. ASSUME NEW j \in 1 .. Len(new), NEW k \in 1 .. Len(new),
               Root(p, new, j), Root(p, new, k), mm[j] = mm[k], mm[j] # 0
        PROVE  j = k
    <2>1. CASE j \in 1 .. Len(sc) /\ k \in 1 .. Len(sc)
      BY <1>3, <1>4, <1>7, <1>10, <2>1
    <2>2. CASE j = Len(sc) + 1 /\ k \in 1 .. Len(sc)
      BY <1>3, <1>7, <1>8, <1>10, <2>2
    <2>3. CASE j \in 1 .. Len(sc) /\ k = Len(sc) + 1
      BY <1>3, <1>7, <1>8, <1>10, <2>3
    <2> QED BY <1>3, <2>1, <2>2, <2>3
  <1> QED BY <1>3, <1>4, <1>6, <1>9, <1>10 DEF MapsGood

LEMMA TakenAdded ==
  ASSUME NEW p \in Sources, NEW sc \in Seq(Scope), NEW new, NEW m, NEW mm, NEW e, Entered(sc, new, m, mm, e),
         ScopesNested(p, sc), NEW Fs, AllTaken(p, Fs, sc, m),
         NEW i \in 1 .. Len(Fs), FunctionGood(p, sc, m, Fs[i]), Fs[i].code \in Codes,
         new[Len(sc) + 1].code = Fs[i].code, new[Len(sc) + 1].inside = Fs[i].scope,
         Takes(p, Fs[i].code) # {} => e = m[Fs[i].scope]
  PROVE  AllTaken(p, Fs, new, mm)
  <1>1. /\ Len(sc) \in Nat /\ Len(sc) >= 1 /\ Len(new) = Len(sc) + 1
        /\ \A k \in 1 .. Len(new) : k \in 1 .. Len(sc) \/ k = Len(sc) + 1
        /\ \A k \in 1 .. Len(sc) : new[k] = sc[k] /\ mm[k] = m[k] /\ k \in 1 .. Len(new)
        /\ mm[Len(sc) + 1] = e /\ Upward(sc) /\ Upward(new)
    <2>1. Len(sc) \in Nat /\ Len(sc) >= 1 /\ Upward(sc) /\ Upward(new)
      BY DEF Entered, ScopesMoved, Upward
    <2>2. Len(new) = Len(sc) + 1 /\ \A k \in 1 .. Len(sc) : new[k] = sc[k] /\ mm[k] = m[k]
      BY DEF Entered
    <2>3. mm = [k \in 1 .. Len(new) |-> mm[k]] /\ mm[Len(sc) + 1] = e
      BY Zenon DEF Entered
    <2>4. 1 \in 1 .. Len(sc) /\ \A k \in 1 .. Len(new) : k \in 1 .. Len(sc) \/ k = Len(sc) + 1
      BY <2>1, <2>2
    <2>5. \A k \in 1 .. Len(sc) : k \in 1 .. Len(new)
      BY <2>1, <2>2
    <2> QED BY <2>1, <2>2, <2>3, <2>4, <2>5, Zenon
  <1>2. ASSUME NEW k \in 1 .. Len(sc), NEW n PROVE OwnerIn(p, new, k, n) = OwnerIn(p, sc, k, n)
    <2>1. /\ Len(new) >= Len(sc)
          /\ \A j \in 1 .. Len(sc) : new[j].code = sc[j].code /\ new[j].inside = sc[j].inside
      BY <1>1
    <2> QED BY <1>1, <2>1, OwnersStay
  <1>3. ASSUME NEW k \in 1 .. Len(sc), NEW n \in SharedBy(p), TakenGood(p, Fs, sc, m, k, n)
        PROVE  TakenGood(p, Fs, new, mm, k, n)
    <2>1. PICK o : o = OwnerIn(p, sc, k, n)
      OBVIOUS
    <2>2. /\ o \in 1 .. Len(sc) /\ Root(p, sc, o) /\ n \in Owns(p, sc[o].code)
          /\ n \in Lends(p, sc[o].code) /\ m[k] = m[o] /\ Handed(p, Fs, o, n)
      BY <1>3, <2>1 DEF TakenGood
    <2>3. OwnerIn(p, new, k, n) = o
      BY <1>2, <2>1
    <2>4. Root(p, new, o)
      BY <1>1, <2>2 DEF Root
    <2> QED BY <1>1, <2>2, <2>3, <2>4 DEF TakenGood
  <1>4. ASSUME NEW n \in SharedBy(p), n \in Takes(p, Fs[i].code)
        PROVE  TakenGood(p, Fs, new, mm, Len(sc) + 1, n)
    <2>1. PICK s, c, d : s = Fs[i].scope /\ c = Fs[i].code /\ d = sc[s].code
      OBVIOUS
    <2>2. s \in 1 .. Len(sc) /\ p.defs[c].parent = d
      BY <2>1 DEF FunctionGood
    <2>3. d \in Codes
      <3>1. sc[s] \in Scope
        BY <2>2
      <3> QED BY <2>1, <3>1 DEF Scope
    <2>4. n \in Lends(p, d) /\ n \notin Owns(p, c)
      BY <1>4, <2>1, <2>2, <2>3, ProgramIs
    <2>5. OwnerIn(p, new, Len(sc) + 1, n) = OwnerIn(p, sc, s, n)
      <3>1. PICK k : k = Len(sc) + 1
        OBVIOUS
      <3>2. k \in 1 .. Len(new) /\ k # 1 /\ new[k].code = c /\ new[k].inside = s
        BY <1>1, <2>1, <3>1
      <3>3. OwnerIn(p, new, k, n) = OwnerIn(p, new, s, n)
        <4>1. OwnerIn(p, new, k, n) # k
          BY <1>1, <2>4, <3>2, OwnerOwns
        <4> QED BY <1>1, <3>2, <4>1, OwnerAbove
      <3> QED BY <1>2, <2>2, <3>1, <3>3
    <2>6. mm[Len(sc) + 1] = m[s]
      BY <1>1, <1>4, <2>1
    <2>7. CASE n \in Takes(p, d)
      <3>1. TakenGood(p, Fs, sc, m, s, n)
        BY <2>1, <2>2, <2>7 DEF AllTaken
      <3>2. TakenGood(p, Fs, new, mm, s, n)
        BY <1>3, <2>2, <3>1
      <3> QED BY <1>1, <1>2, <2>2, <2>5, <2>6, <3>2 DEF TakenGood
    <2>8. CASE n \in Owns(p, d) /\ Takes(p, d) = {}
      <3>1. OwnerIn(p, sc, s, n) = s
        BY <1>1, <2>1, <2>2, <2>8, OwnerSolves
      <3>2. Handed(p, Fs, s, n)
        BY <1>4, <2>1 DEF Handed
      <3>3. Root(p, new, s) /\ new[s].code = d /\ s \in 1 .. Len(new)
        BY <1>1, <2>1, <2>2, <2>8 DEF Root
      <3> QED BY <1>1, <2>2, <2>4, <2>5, <2>6, <2>8, <3>1, <3>2, <3>3 DEF TakenGood
    <2> QED BY <2>3, <2>4, <2>7, <2>8, ProgramIs
  <1>5. ASSUME NEW k \in 1 .. Len(new), NEW n \in SharedBy(p), n \in Takes(p, new[k].code)
        PROVE  TakenGood(p, Fs, new, mm, k, n)
    <2>1. CASE k \in 1 .. Len(sc)
      <3>1. TakenGood(p, Fs, sc, m, k, n)
        BY <1>1, <1>5, <2>1 DEF AllTaken
      <3> QED BY <1>3, <2>1, <3>1
    <2>2. CASE k = Len(sc) + 1
      BY <1>4, <1>5, <2>2
    <2> QED BY <1>1, <2>1, <2>2
  <1> QED BY <1>5 DEF AllTaken

(* The cell map e, if it is for the calls in the new scope x, is empty.    *)
FreshCells(p, Fs, sc, x, ms, maps, e, N) ==
    /\ N \in Nat /\ \A i \in 1 .. N : maps[i] = ms[i]
    /\ \A n \in Identifiers : ~x.vars[n].foreign
    /\ \A i \in 1 .. Len(Fs) : Fs[i].scope \in 1 .. Len(sc)
    /\ Takes(p, x.code) = {} /\ Lends(p, x.code) # {} => maps[e] = NoValues

LEMMA CellsAdded ==
  ASSUME NEW p, NEW sc, NEW new, NEW m, NEW mm, NEW e, Entered(sc, new, m, mm, e),
         NEW N, MapsGood(p, sc, m, N), NEW Fs, NEW ms, NEW maps, AllCells(p, Fs, sc, ms, m),
         FreshCells(p, Fs, sc, new[Len(sc) + 1], ms, maps, e, N)
  PROVE  AllCells(p, Fs, new, maps, mm)
  <1>1. PICK x : x = new[Len(sc) + 1]
    OBVIOUS
  <1>2. /\ N \in Nat /\ \A i \in 1 .. N : maps[i] = ms[i]
        /\ \A n \in Identifiers : ~x.vars[n].foreign
        /\ \A i \in 1 .. Len(Fs) : Fs[i].scope \in 1 .. Len(sc)
        /\ Takes(p, x.code) = {} /\ Lends(p, x.code) # {} => maps[e] = NoValues
    BY <1>1 DEF FreshCells
  <1>3. /\ Len(sc) \in Nat /\ Len(new) = Len(sc) + 1
        /\ \A k \in 1 .. Len(new) : k \in 1 .. Len(sc) \/ k = Len(sc) + 1
        /\ \A k \in 1 .. Len(sc) : new[k] = sc[k] /\ mm[k] = m[k]
        /\ mm[Len(sc) + 1] = e
    <2>1. Len(sc) \in Nat /\ Len(sc) >= 1 /\ Upward(sc) /\ Upward(new)
      BY DEF Entered, ScopesMoved, Upward
    <2>2. Len(new) = Len(sc) + 1 /\ \A k \in 1 .. Len(sc) : new[k] = sc[k] /\ mm[k] = m[k]
      BY DEF Entered
    <2>3. mm = [k \in 1 .. Len(new) |-> mm[k]] /\ mm[Len(sc) + 1] = e
      BY Zenon DEF Entered
    <2>4. 1 \in 1 .. Len(sc) /\ \A k \in 1 .. Len(new) : k \in 1 .. Len(sc) \/ k = Len(sc) + 1
      BY <2>1, <2>2
    <2>5. \A k \in 1 .. Len(sc) : k \in 1 .. Len(new)
      BY <2>1, <2>2
    <2> QED BY <2>1, <2>2, <2>3, <2>4, <2>5, Zenon
  <1>4. ASSUME NEW o \in 1 .. Len(new), NEW n \in SharedBy(p), Root(p, new, o), n \in Lends(p, new[o].code)
        PROVE  CellGood(p, Fs, new, maps, mm, o, n)
    <2>1. n \in Identifiers
      BY DEF SharedBy
    <2>2. CASE o \in 1 .. Len(sc)
      <3>1. Root(p, sc, o) /\ Lends(p, sc[o].code) # {} /\ n \in Lends(p, sc[o].code)
        BY <1>3, <1>4, <2>2 DEF Root
      <3>2. CellGood(p, Fs, sc, ms, m, o, n)
        BY <2>2, <3>1 DEF AllCells
      <3>3. m[o] \in 1 .. N
        <4>1. m[o] \in 0 .. N /\ m[o] # 0
          BY <2>2, <3>1 DEF MapsGood
        <4> QED BY <1>2, <4>1
      <3> QED BY <1>3, <1>2, <2>2, <3>2, <3>3 DEF CellGood
    <2>3. CASE o = Len(sc) + 1
      <3>1. maps[mm[o]] = NoValues
        BY <1>1, <1>3, <1>2, <1>4, <2>3 DEF Root
      <3>2. ~Handed(p, Fs, o, n)
        <4>1. Len(sc) + 1 \notin 1 .. Len(sc)
          BY <1>3
        <4> QED BY <1>2, <2>3, <4>1 DEF Handed
      <3> QED BY <1>1, <1>3, <1>2, <2>1, <2>3, <3>1, <3>2 DEF CellGood, NoValues
    <2> QED BY <1>3, <2>2, <2>3
  <1> QED BY <1>4 DEF AllCells

(* What becomes of the cell maps for a call of c, a function that captured *)
(* the cell map `up`, if any.                                              *)
CellsEntered(p, ms, maps, e, c, up) ==
    /\ Len(maps) \in Nat /\ Len(maps) >= Len(ms) /\ e \in 0 .. Len(maps)
    /\ \A i \in 1 .. Len(ms) : maps[i] = ms[i]
    /\ Takes(p, c) = {} => e = IF Lends(p, c) # {} THEN Len(ms) + 1 ELSE 0
    /\ Takes(p, c) # {} => e = up
    /\ Takes(p, c) = {} /\ Lends(p, c) # {} => maps[e] = NoValues

LEMMA EnteredCells ==
  ASSUME CallInv, NEW m, NamesGood(source, frames, functions, generators, scopes, cellMaps, m),
         NEW f \in DOMAIN functions, NEW how, NEW got, NEW maps,
         maps = IF NewFrame(f, how, got).cells > Len(cellMaps) THEN Append(cellMaps, NoValues) ELSE cellMaps
  PROVE  CellsEntered(source, cellMaps, maps, NewFrame(f, how, got).cells,
                      functions[f].code, m[functions[f].scope])
  <1>1. PICK F, N, e, c, fr : /\ F = functions[f] /\ N = Len(cellMaps) /\ e = fr.cells
                              /\ c = functions[f].code /\ fr = NewFrame(f, how, got)
    OBVIOUS
  <1>2. /\ F \in Function /\ FunctionGood(source, scopes, m, F) /\ N \in Nat /\ cellMaps \in Seq(Locals)
        /\ FunctionHas(source, N, F)
    <2>1. functions \in Seq(Function) /\ cellMaps \in Seq(Locals)
      BY DEF CallInv, Shapes
    <2>2. F \in Function /\ FunctionGood(source, scopes, m, F) /\ FunctionHas(source, N, F)
      BY <1>1, <2>1 DEF NamesGood, FunctionsGood, CallInv, CellsMade
    <2> QED BY <1>1, <2>1, <2>2
  <1>3. F.cells \in Nat /\ F.cells <= N
    BY <1>2 DEF Function, FunctionHas
  <1>4. F.cells = (IF Takes(source, c) = {} THEN 0 ELSE m[F.scope]) /\ (Takes(source, c) # {} => F.cells # 0)
    BY <1>1, <1>2 DEF FunctionGood, FunctionHas, Takes
  <1>5. e = IF F.cells # 0 THEN F.cells ELSE IF Lends(source, c) # {} THEN N + 1 ELSE 0
    <2>1. e = IF functions[f].cells # 0 THEN functions[f].cells
              ELSE IF Cellvars(functions[f].code) # {} THEN Len(cellMaps) + 1 ELSE 0
      BY <1>1, Zenon DEF NewFrame
    <2> QED BY <1>1, <2>1, NamesAre
  <1>6. maps = IF e > N THEN Append(cellMaps, NoValues) ELSE cellMaps
    BY <1>1
  <1>7. NoValues \in Locals
    BY DEF NoValues, Locals, VmValues
  <1>8. CASE e > N
    <2>1. e = N + 1
      BY <1>2, <1>3, <1>5, <1>8
    <2>2. /\ Len(maps) = N + 1 /\ maps[N + 1] = NoValues /\ \A i \in 1 .. N : maps[i] = cellMaps[i]
      BY <1>1, <1>2, <1>6, <1>7, <1>8
    <2>3. N + 1 \in Nat /\ N + 1 >= N /\ N + 1 \in 0 .. N + 1
      BY <1>2
    <2> QED BY <1>1, <1>3, <1>4, <1>5, <2>1, <2>2, <2>3 DEF CellsEntered
  <1>9. CASE ~(e > N)
    <2>1. maps = cellMaps /\ e \in 0 .. N /\ N >= N
      BY <1>2, <1>3, <1>5, <1>6, <1>9
    <2>2. F.cells = 0 => Lends(source, c) = {}
      BY <1>2, <1>5, <1>9
    <2> QED BY <1>1, <1>2, <1>4, <1>5, <2>1, <2>2 DEF CellsEntered
  <1> QED BY <1>8, <1>9

LEMMA EntersNames ==
  ASSUME CallInv, NEW m, NamesGood(source, frames, functions, generators, scopes, cellMaps, m),
         NEW f \in DOMAIN functions, NEW how, NEW args \in Seq(Passable),
         NEW kw \in SUBSET Identifiers, Enters(f, how, args, kw)
  PROVE  \E mm : NamesGood(source, frames', functions, generators', scopes', cellMaps', mm)
  <1>1. PICK c, fr, got, F, L : /\ F = functions[f] /\ c = F.code /\ got = Arguments(c, args, kw)
                                /\ fr = NewFrame(f, how, got) /\ L = Len(scopes)
    OBVIOUS
  <1>2. PICK x, e, p : x = ScopeOf(c, F.scope, got, L) /\ e = fr.cells /\ p = source
    OBVIOUS
  <1>3. /\ scopes' = Append(scopes, x)
        /\ cellMaps' = IF fr.cells > Len(cellMaps) THEN Append(cellMaps, NoValues) ELSE cellMaps
        /\ \/ generators' = Append(generators, [frame |-> fr, state |-> "ready"]) /\ frames' = frames
           \/ frames' = Append(frames, [fr EXCEPT !.vm = Len(depths) + 1]) /\ generators' = generators
           \/ frames' = Append(frames, fr) /\ generators' = generators
    BY <1>1, <1>2, Zenon DEF Enters, ScopeOf
  <1>4. /\ ScopesNested(p, scopes) /\ MapsGood(p, scopes, m, Len(cellMaps)) /\ MainGood(scopes)
        /\ AllTaken(p, functions, scopes, m) /\ AllCells(p, functions, scopes, cellMaps, m)
        /\ FramesGood(p, frames, generators, scopes, m) /\ FunctionsGood(p, functions, scopes, m)
        /\ Apart(frames, generators)
    BY <1>2 DEF NamesGood
  <1>5. /\ CallInv' /\ frames \in Seq(VmFrame) /\ scopes \in Seq(Scope) /\ scopes' \in Seq(Scope)
        /\ generators \in Seq(Generator) /\ cellMaps \in Seq(Locals) /\ functions \in Seq(Function)
        /\ Len(cellMaps) \in Nat /\ L \in Nat /\ p \in Sources /\ Len(frames) >= 1
    BY <1>1, <1>2, EntersInv DEF CallInv, Shapes
  <1>6. /\ FunctionGood(p, scopes, m, F) /\ F \in Function /\ c \in Codes
        /\ F.scope \in 1 .. L /\ p.defs[c].parent = scopes[F.scope].code
    <2>1. f \in 1 .. Len(functions)
      BY <1>5
    <2>2. F \in Function
      BY <1>1, <1>5, <2>1
    <2>3. FunctionGood(p, scopes, m, F)
      BY <1>1, <1>4, <2>1 DEF FunctionsGood
    <2> QED BY <1>1, <2>2, <2>3 DEF FunctionGood, Function
  <1>7. c # MainCode
    <2>1. scopes[F.scope] \in Scope
      BY <1>1, <1>5, <1>6
    <2>2. scopes[F.scope].code \in Codes
      BY <2>1 DEF Scope
    <2>3. p.defs[MainCode].parent = Null /\ Null \notin Codes
      BY <1>5, SourcesAssumption, CallAssumption
    <2> QED BY <1>6, <2>2, <2>3
  <1>8. x \in Scope /\ x.code = c /\ x.inside = F.scope /\ \A n \in Identifiers : ~x.vars[n].foreign
    <2>1. scopes' \in Seq(Scope) /\ Len(scopes') = L + 1 /\ scopes'[L + 1] = x /\ L + 1 \in 1 .. Len(scopes')
      BY <1>1, <1>3, <1>5
    <2>2. x \in Scope
      BY <2>1
    <2>3. \A n \in Identifiers : ~x.vars[n].foreign
      BY <1>2, ScopeIs
    <2> QED BY <1>2, <2>2, <2>3 DEF ScopeOf
  <1>9. /\ ScopesMoved(scopes, scopes') /\ ScopesNested(p, scopes') /\ MainGood(scopes')
        /\ Len(scopes') = L + 1 /\ scopes'[L + 1] = x
        /\ \A k \in 1 .. L : scopes'[k] = scopes[k]
    <2>1. /\ x.inside \in 1 .. Len(scopes) /\ p.defs[x.code].parent = scopes[x.inside].code
          /\ x.code # MainCode /\ x \in Scope
      BY <1>1, <1>6, <1>7, <1>8
    <2>2. PICK new : new = Append(scopes, x)
      OBVIOUS
    <2>3. /\ ScopesMoved(scopes, new) /\ ScopesNested(p, new) /\ MainGood(new)
          /\ Len(new) = Len(scopes) + 1 /\ new[Len(scopes) + 1] = x
          /\ \A k \in 1 .. Len(scopes) : new[k] = scopes[k]
      BY <1>4, <1>5, <2>1, <2>2, ScopeAdded
    <2> QED BY <1>1, <1>3, <2>2, <2>3
  <1>10. PICK mm : mm = [k \in 1 .. L + 1 |-> IF k <= L THEN m[k] ELSE e]
    OBVIOUS
  <1>11. Entered(scopes, scopes', m, mm, e)
    <2>1. /\ mm = [k \in 1 .. L + 1 |-> mm[k]] /\ mm[L + 1] = e
          /\ \A k \in 1 .. L : mm[k] = m[k]
      BY <1>5, <1>10
    <2> QED BY <1>1, <1>9, <2>1 DEF Entered
  <1>12. /\ Len(cellMaps') \in Nat /\ Len(cellMaps') >= Len(cellMaps) /\ e \in 0 .. Len(cellMaps')
         /\ \A i \in 1 .. Len(cellMaps) : cellMaps'[i] = cellMaps[i]
         /\ Takes(p, c) = {} => e = IF Lends(p, c) # {} THEN Len(cellMaps) + 1 ELSE 0
         /\ Takes(p, c) # {} => e = m[F.scope]
         /\ Takes(p, c) = {} /\ Lends(p, c) # {} => cellMaps'[e] = NoValues
    <2>1. PICK maps : maps = cellMaps'
      OBVIOUS
    <2>2. maps = IF NewFrame(f, how, got).cells > Len(cellMaps) THEN Append(cellMaps, NoValues) ELSE cellMaps
      BY <1>1, <1>3, <2>1
    <2>3. CellsEntered(source, cellMaps, maps, NewFrame(f, how, got).cells,
                       functions[f].code, m[functions[f].scope])
      BY <2>2, EnteredCells
    <2>4. CellsEntered(p, cellMaps, maps, e, c, m[F.scope])
      BY <1>1, <1>2, <2>3
    <2> QED BY <2>1, <2>4 DEF CellsEntered
  <1>13. MapsGood(p, scopes', mm, Len(cellMaps'))
    <2>1. PICK new, M, N : new = scopes' /\ M = Len(cellMaps') /\ N = Len(cellMaps)
      OBVIOUS
    <2>2. Entered(scopes, new, m, mm, e) /\ MapsGood(p, scopes, m, N)
      BY <1>4, <1>11, <2>1
    <2>3. MapFor(p, c, e, N, M)
      BY <1>5, <1>12, <2>1 DEF MapFor
    <2>4. c = new[Len(scopes) + 1].code
      BY <1>1, <1>8, <1>9, <2>1
    <2>5. MapsGood(p, new, mm, M)
      BY <2>2, <2>3, <2>4, MapsAdded
    <2> QED BY <2>1, <2>5
  <1>14. AllTaken(p, functions, scopes', mm)
    <2>1. f \in 1 .. Len(functions)
      BY <1>5
    <2> QED BY <1>1, <1>4, <1>5, <1>6, <1>8, <1>9, <1>11, <1>12, <2>1, TakenAdded
  <1>15. AllCells(p, functions, scopes', cellMaps', mm)
    <2>1. \A i \in 1 .. Len(functions) : functions[i].scope \in 1 .. Len(scopes)
      BY <1>4 DEF FunctionsGood, FunctionGood
    <2>2. PICK new, N, maps : new = scopes' /\ N = Len(cellMaps) /\ maps = cellMaps'
      OBVIOUS
    <2>3. /\ Entered(scopes, new, m, mm, e) /\ MapsGood(p, scopes, m, N)
          /\ AllCells(p, functions, scopes, cellMaps, m)
      BY <1>4, <1>11, <2>2
    <2>4. FreshCells(p, functions, scopes, x, cellMaps, maps, e, N)
      BY <1>5, <1>8, <1>12, <2>1, <2>2 DEF FreshCells
    <2>5. x = new[Len(scopes) + 1]
      BY <1>1, <1>9, <2>2
    <2>6. AllCells(p, functions, new, maps, mm)
      BY <2>3, <2>4, <2>5, CellsAdded
    <2> QED BY <2>2, <2>6
  <1>16. FunctionsGood(p, functions, scopes', mm)
    <2>1. ASSUME NEW i \in 1 .. Len(functions) PROVE FunctionGood(p, scopes', mm, functions[i])
      <3>1. FunctionGood(p, scopes, m, functions[i])
        BY <1>4 DEF FunctionsGood
      <3>2. mm[functions[i].scope] = m[functions[i].scope]
        BY <1>11, <3>1 DEF FunctionGood, Entered
      <3> QED BY <1>4, <1>9, <3>1, <3>2, FunctionKept
    <2> QED BY <2>1 DEF FunctionsGood
  <1>17. ASSUME NEW g \in VmFrame, FrameGood(p, scopes, m, g) PROVE FrameGood(p, scopes', mm, g)
    <2>1. g.scope \in 1 .. Len(scopes)
      BY <1>17 DEF FrameGood, PlaceGood
    <2>2. mm[g.scope] = m[g.scope]
      BY <1>11, <2>1 DEF Entered
    <2>3. \A n \in Identifiers : scopes'[g.scope].vars[n] = scopes[g.scope].vars[n]
      BY <1>1, <1>9, <2>1
    <2> QED BY <1>4, <1>5, <1>9, <1>17, <2>2, <2>3, FrameKept, ZenonT(40)
  <1>18. fr \in VmFrame /\ fr.scope = L + 1 /\ FrameGood(p, scopes', mm, fr)
    <2>1. fr \in VmFrame
      BY <1>1, NewFrameTyped DEF FrameFor
    <2>2. fr.scope = L + 1
      BY <1>1, Zenon DEF NewFrame
    <2>3. DOMAIN got \subseteq Owns(p, c)
      BY <1>1, <1>2, <1>5, <1>6, ArgumentsTyped, ParametersOwned
    <2>4. mm[L + 1] = e
      BY <1>5, <1>10
    <2>5. PICK new : new = scopes'
      OBVIOUS
    <2>6. FrameGood(source, new, mm, fr)
      BY <1>1, <1>2, <1>5, <1>9, <2>3, <2>4, <2>5, EnteredFrame
    <2> QED BY <1>2, <2>1, <2>2, <2>5, <2>6
  <1>19. /\ \A i \in 1 .. Len(frames) : FrameGood(p, scopes', mm, frames[i])
         /\ \A g \in 1 .. Len(generators) : generators[g].state = "ready"
                => FrameGood(p, scopes', mm, generators[g].frame)
    <2>1. \A i \in 1 .. Len(frames) : frames[i] \in VmFrame
      BY <1>5
    <2>2. \A g \in 1 .. Len(generators) : generators[g].frame \in VmFrame
      <3>1. \A g \in 1 .. Len(generators) : generators[g] \in Generator
        BY <1>5
      <3> QED BY <3>1 DEF Generator
    <2> QED BY <1>4, <1>17, <2>1, <2>2 DEF FramesGood
  <1>20. /\ \A i \in 1 .. Len(frames) : frames[i].scope # L + 1
         /\ \A g \in 1 .. Len(generators) : generators[g].state = "ready"
                => generators[g].frame.scope # L + 1
    <2>1. ASSUME NEW g, FrameGood(p, scopes, m, g) PROVE g.scope # L + 1
      <3>1. g.scope \in 1 .. L
        BY <1>1, <2>1 DEF FrameGood, PlaceGood
      <3> QED BY <1>5, <3>1
    <2> QED BY <1>4, <2>1 DEF FramesGood
  <1>21. FramesGood(p, frames', generators', scopes', mm) /\ Apart(frames', generators')
    <2>1. ASSUME NEW g \in VmFrame, g.scope = L + 1, FrameGood(p, scopes', mm, g),
                 frames' = Append(frames, g), generators' = generators
          PROVE  FramesGood(p, frames', generators', scopes', mm) /\ Apart(frames', generators')
      <3>1. /\ Len(frames') = Len(frames) + 1 /\ frames'[Len(frames) + 1] = g /\ Len(frames) \in Nat
            /\ \A i \in 1 .. Len(frames) : frames'[i] = frames[i]
        BY <1>5, <2>1
      <3>2. \A i \in 1 .. Len(frames') : i \in 1 .. Len(frames) \/ i = Len(frames) + 1
        BY <3>1
      <3>3. 1 \in 1 .. Len(frames)
        BY <1>5, <3>1
      <3>4. FramesGood(p, frames', generators', scopes', mm)
        BY <1>19, <2>1, <3>1, <3>2 DEF FramesGood
      <3>5. \A i, j \in 1 .. Len(frames') : frames'[i].scope = frames'[j].scope => i = j
        BY <1>4, <1>20, <2>1, <3>1, <3>2 DEF Apart
      <3>6. \A i \in 1 .. Len(frames'), h \in 1 .. Len(generators) :
               generators[h].state = "ready" => frames'[i].scope # generators[h].frame.scope
        BY <1>4, <1>20, <2>1, <3>1, <3>2 DEF Apart
      <3> QED BY <1>4, <2>1, <3>1, <3>3, <3>4, <3>5, <3>6 DEF Apart
    <2>2. CASE generators' = Append(generators, [frame |-> fr, state |-> "ready"]) /\ frames' = frames
      <3>1. PICK g : g = [frame |-> fr, state |-> "ready"]
        OBVIOUS
      <3>2. g.frame = fr /\ g.state = "ready" /\ g \in Generator
        BY <1>18, <3>1 DEF Generator
      <3>3. /\ Len(generators') = Len(generators) + 1 /\ generators'[Len(generators) + 1] = g
            /\ Len(generators) \in Nat /\ \A i \in 1 .. Len(generators) : generators'[i] = generators[i]
        BY <1>5, <2>2, <3>1, <3>2
      <3>4. \A i \in 1 .. Len(generators') : i \in 1 .. Len(generators) \/ i = Len(generators) + 1
        BY <3>3
      <3>5. FramesGood(p, frames', generators', scopes', mm)
        BY <1>18, <1>19, <2>2, <3>2, <3>3, <3>4 DEF FramesGood
      <3>6. \A i, j \in 1 .. Len(generators') :
               generators'[i].state = "ready" /\ generators'[j].state = "ready"
                 /\ generators'[i].frame.scope = generators'[j].frame.scope => i = j
        BY <1>4, <1>18, <1>20, <3>2, <3>3, <3>4 DEF Apart
      <3>7. \A i \in 1 .. Len(frames), h \in 1 .. Len(generators') :
               generators'[h].state = "ready" => frames[i].scope # generators'[h].frame.scope
        BY <1>4, <1>18, <1>20, <3>2, <3>3, <3>4 DEF Apart
      <3> QED BY <1>4, <2>2, <3>5, <3>6, <3>7 DEF Apart
    <2>3. CASE frames' = Append(frames, [fr EXCEPT !.vm = Len(depths) + 1]) /\ generators' = generators
      <3>1. PICK g : g = [fr EXCEPT !.vm = Len(depths) + 1]
        OBVIOUS
      <3>2. Len(depths) + 1 \in Nat \ {0}
        BY DEF CallInv, Shapes
      <3>3. /\ g \in VmFrame /\ g.code = fr.code /\ g.locals = fr.locals /\ g.globals = fr.globals
            /\ g.cells = fr.cells /\ g.scope = fr.scope /\ g.known = fr.known /\ g.until = fr.until
        BY <1>18, <3>1, <3>2 DEF VmFrame
      <3>4. FrameGood(p, scopes', mm, g)
        BY <1>18, <3>3, FrameSame
      <3> QED BY <1>18, <2>1, <2>3, <3>1, <3>3, <3>4
    <2>4. CASE frames' = Append(frames, fr) /\ generators' = generators
      BY <1>18, <2>1, <2>4
    <2> QED BY <1>3, <2>2, <2>3, <2>4
  <1>22. NamesGood(p, frames', functions, generators', scopes', cellMaps', mm)
    BY <1>9, <1>13, <1>14, <1>15, <1>16, <1>21 DEF NamesGood
  <1> QED BY <1>2, <1>22

-----------------------------------------------------------------------------
(* A return and a yield take a frame off, and resume_generator puts one    *)
(* back: no two frames that can run are of one call.                       *)
LEMMA PopNames ==
  ASSUME NEW fs \in Seq(VmFrame), Len(fs) >= 2, NEW gs \in Seq(Generator), NEW hs, Len(hs) = Len(gs),
         \A i \in 1 .. Len(gs) : hs[i] = gs[i] \/ (i = fs[Len(fs)].generator /\ hs[i].frame = fs[Len(fs)]),
         NEW p, NEW sc, NEW m, FramesGood(p, fs, gs, sc, m), Apart(fs, gs)
  PROVE  FramesGood(p, Front(fs), hs, sc, m) /\ Apart(Front(fs), hs)
  <1>1. PICK l, es, f : l = Len(fs) /\ es = Front(fs) /\ f = fs[l]
    OBVIOUS
  <1>2. /\ l \in Nat /\ l >= 2 /\ Len(es) = l - 1 /\ 1 \in 1 .. l - 1 /\ l \in 1 .. l
        /\ \A i \in 1 .. l - 1 : es[i] = fs[i] /\ i \in 1 .. l /\ i # l
    <2>1. l \in Nat /\ l >= 2
      BY <1>1
    <2>2. Len(es) = l - 1 /\ \A i \in 1 .. l - 1 : es[i] = fs[i]
      BY <1>1, FrontIs
    <2> QED BY <2>1, <2>2
  <1>3. \A i \in 1 .. Len(gs) : hs[i] = gs[i] \/ (i = f.generator /\ hs[i].frame = f)
    BY <1>1
  <1>4. /\ \A i \in 1 .. l : FrameGood(p, sc, m, fs[i])
        /\ \A g \in 1 .. Len(gs) : gs[g].state = "ready" => FrameGood(p, sc, m, gs[g].frame)
    BY <1>1 DEF FramesGood
  <1>5. /\ fs[1].scope = 1 /\ fs[1].globals = NoValues
        /\ \A i, j \in 1 .. l : fs[i].scope = fs[j].scope => i = j
        /\ \A i \in 1 .. l, g \in 1 .. Len(gs) :
              gs[g].state = "ready" => fs[i].scope # gs[g].frame.scope
        /\ \A g, h \in 1 .. Len(gs) :
              gs[g].state = "ready" /\ gs[h].state = "ready" /\ gs[g].frame.scope = gs[h].frame.scope
              => g = h
    BY <1>1 DEF Apart
  <1>6. FramesGood(p, es, hs, sc, m)
    BY <1>1, <1>2, <1>3, <1>4 DEF FramesGood
  <1>7. \A i, j \in 1 .. l - 1 : es[i].scope = es[j].scope => i = j
    BY <1>2, <1>5
  <1>8. \A i \in 1 .. l - 1, g \in 1 .. Len(gs) :
            hs[g].state = "ready" => es[i].scope # hs[g].frame.scope
    <2> SUFFICES ASSUME NEW i \in 1 .. l - 1, NEW g \in 1 .. Len(gs), hs[g].state = "ready"
                 PROVE  es[i].scope # hs[g].frame.scope
      OBVIOUS
    <2>1. es[i] = fs[i] /\ i \in 1 .. l /\ i # l /\ l \in 1 .. l
      BY <1>2
    <2>2. CASE hs[g] = gs[g]
      BY <1>5, <2>1, <2>2
    <2>3. CASE hs[g].frame = f
      <3>1. fs[i].scope # fs[l].scope
        BY <1>5, <2>1
      <3> QED BY <1>1, <2>1, <2>3, <3>1
    <2> QED BY <1>3, <2>2, <2>3
  <1>9. \A g, h \in 1 .. Len(gs) :
            hs[g].state = "ready" /\ hs[h].state = "ready" /\ hs[g].frame.scope = hs[h].frame.scope
            => g = h
    <2> SUFFICES ASSUME NEW g \in 1 .. Len(gs), NEW h \in 1 .. Len(gs), hs[g].state = "ready",
                        hs[h].state = "ready", hs[g].frame.scope = hs[h].frame.scope
                 PROVE  g = h
      OBVIOUS
    <2>1. \A j \in 1 .. Len(gs) : gs[j].state = "ready" => f.scope # gs[j].frame.scope
      BY <1>1, <1>2, <1>5
    <2>2. CASE hs[g] = gs[g] /\ hs[h] = gs[h]
      BY <1>5, <2>2
    <2>3. CASE hs[g] = gs[g] /\ hs[h].frame = f
      BY <2>1, <2>3
    <2>4. CASE hs[h] = gs[h] /\ hs[g].frame = f
      BY <2>1, <2>4
    <2>5. CASE g = f.generator /\ h = f.generator
      BY <2>5
    <2> QED BY <1>3, <2>2, <2>3, <2>4, <2>5
  <1> QED BY <1>1, <1>2, <1>5, <1>6, <1>7, <1>8, <1>9 DEF Apart

LEMMA BackNames ==
  ASSUME CallInv, NEW m, NamesGood(source, frames, functions, generators, scopes, cellMaps, m), Back,
         NEW st, \/ generators' = generators
                 \/ generators' = [generators EXCEPT ![Here.generator] = [frame |-> Here, state |-> st]]
  PROVE  NamesGood(source, frames', functions', generators', scopes', cellMaps', m)
  <1>1. frames' = Front(frames) /\ Len(frames) > 1 /\ UNCHANGED <<functions, scopes, cellMaps>>
    BY Zenon DEF Back
  <1>2. frames \in Seq(VmFrame) /\ generators \in Seq(Generator) /\ Here = frames[Len(frames)]
    BY HereGood DEF CallInv, Shapes
  <1>3. PICK k, h, hs : k = Here.generator /\ h = [frame |-> Here, state |-> st] /\ hs = generators'
    OBVIOUS
  <1>4. hs = generators \/ hs = [generators EXCEPT ![k] = h]
    BY <1>3
  <1>5. /\ Len(hs) = Len(generators)
        /\ \A i \in 1 .. Len(generators) : hs[i] = generators[i] \/ (i = k /\ hs[i].frame = frames[Len(frames)])
    <2>1. h.frame = frames[Len(frames)]
      BY <1>2, <1>3
    <2>2. CASE hs = generators
      BY <1>2, <2>2
    <2>3. CASE hs = [generators EXCEPT ![k] = h]
      <3>1. DOMAIN hs = 1 .. Len(generators) /\ Len(generators) \in Nat
        BY <1>2, <2>3
      <3>2. Len(hs) = Len(generators)
        BY <1>2, <2>3, <3>1
      <3> QED BY <1>2, <2>1, <2>3, <3>2
    <2> QED BY <1>4, <2>2, <2>3
  <1>6. FramesGood(source, frames, generators, scopes, m) /\ Apart(frames, generators)
    BY DEF NamesGood
  <1>7. FramesGood(source, Front(frames), hs, scopes, m) /\ Apart(Front(frames), hs)
    <2>1. Len(frames) >= 2
      BY <1>1, <1>2
    <2>2. k = frames[Len(frames)].generator
      BY <1>2, <1>3
    <2> QED BY <1>2, <1>5, <1>6, <2>1, <2>2, PopNames
  <1> QED BY <1>1, <1>3, <1>7 DEF NamesGood

LEMMA PushNames ==
  ASSUME NEW fs \in Seq(VmFrame), Len(fs) >= 1, NEW gs \in Seq(Generator), NEW g \in 1 .. Len(gs),
         gs[g].state = "ready", NEW h, NEW hs, Len(hs) = Len(gs), hs[g].state # "ready",
         \A i \in 1 .. Len(gs) : i = g \/ hs[i] = gs[i],
         NEW p, NEW sc, NEW m, FramesGood(p, fs, gs, sc, m), Apart(fs, gs),
         FrameGood(p, sc, m, h), h.scope = gs[g].frame.scope
  PROVE  FramesGood(p, Append(fs, h), hs, sc, m) /\ Apart(Append(fs, h), hs)
  <1>1. PICK l, es : l = Len(fs) /\ es = Append(fs, h)
    OBVIOUS
  <1>2. /\ l \in Nat /\ Len(es) = l + 1 /\ 1 \in 1 .. l /\ es[l + 1] = h
        /\ \A i \in 1 .. l : es[i] = fs[i]
        /\ \A i \in 1 .. l + 1 : i \in 1 .. l \/ i = l + 1
    <2>1. l \in Nat /\ l >= 1 /\ Len(es) = l + 1 /\ es[l + 1] = h /\ \A i \in 1 .. l : es[i] = fs[i]
      BY <1>1
    <2> QED BY <2>1
  <1>3. /\ \A i \in 1 .. l : FrameGood(p, sc, m, fs[i])
        /\ \A k \in 1 .. Len(gs) : gs[k].state = "ready" => FrameGood(p, sc, m, gs[k].frame)
    BY <1>1 DEF FramesGood
  <1>4. /\ fs[1].scope = 1 /\ fs[1].globals = NoValues
        /\ \A i, j \in 1 .. l : fs[i].scope = fs[j].scope => i = j
        /\ \A i \in 1 .. l, k \in 1 .. Len(gs) :
              gs[k].state = "ready" => fs[i].scope # gs[k].frame.scope
        /\ \A k, j \in 1 .. Len(gs) :
              gs[k].state = "ready" /\ gs[j].state = "ready" /\ gs[k].frame.scope = gs[j].frame.scope
              => k = j
    BY <1>1 DEF Apart
  <1>5. FramesGood(p, es, hs, sc, m)
    BY <1>2, <1>3 DEF FramesGood
  <1>6. \A i, j \in 1 .. l + 1 : es[i].scope = es[j].scope => i = j
    BY <1>2, <1>4
  <1>7. \A i \in 1 .. l + 1, k \in 1 .. Len(gs) :
            hs[k].state = "ready" => es[i].scope # hs[k].frame.scope
    BY <1>2, <1>4
  <1>8. \A k, j \in 1 .. Len(gs) :
            hs[k].state = "ready" /\ hs[j].state = "ready" /\ hs[k].frame.scope = hs[j].frame.scope
            => k = j
    BY <1>4
  <1> QED BY <1>1, <1>2, <1>4, <1>5, <1>6, <1>7, <1>8 DEF Apart

LEMMA ResumeNames ==
  ASSUME CallInv, NEW m, NamesGood(source, frames, functions, generators, scopes, cellMaps, m),
         NEW g \in DOMAIN generators, Resume(g)
  PROVE  NamesGood(source, frames', functions', generators', scopes', cellMaps', m)
  <1>1. PICK f, h, x, hs : /\ f = generators[g].frame /\ h = [f EXCEPT !.generator = g, !.vm = Len(depths) + 1]
                           /\ x = [generators[g] EXCEPT !.state = "running"] /\ hs = generators'
    OBVIOUS
  <1>2. /\ frames' = Append(frames, h) /\ generators[g].state = "ready"
        /\ hs = [generators EXCEPT ![g] = x] /\ UNCHANGED <<functions, scopes, cellMaps>>
    BY <1>1 DEF Resume
  <1>3. /\ frames \in Seq(VmFrame) /\ Len(frames) >= 1 /\ generators \in Seq(Generator)
        /\ g \in 1 .. Len(generators) /\ generators[g] \in Generator
    BY DEF CallInv, Shapes
  <1>4. f \in VmFrame /\ x.state = "running"
    BY <1>1, <1>3 DEF Generator
  <1>5. /\ h.code = f.code /\ h.locals = f.locals /\ h.globals = f.globals /\ h.cells = f.cells
        /\ h.scope = f.scope /\ h.known = f.known /\ h.until = f.until
    BY <1>1, <1>4 DEF VmFrame
  <1>6. FramesGood(source, frames, generators, scopes, m) /\ Apart(frames, generators)
    BY DEF NamesGood
  <1>7. FrameGood(source, scopes, m, h)
    <2>1. FrameGood(source, scopes, m, f)
      BY <1>1, <1>2, <1>3, <1>6 DEF FramesGood
    <2> QED BY <1>5, <2>1, FrameSame
  <1>8. /\ Len(hs) = Len(generators) /\ hs[g].state # "ready"
        /\ \A i \in 1 .. Len(generators) : i = g \/ hs[i] = generators[i]
    <2>1. DOMAIN hs = 1 .. Len(generators) /\ Len(generators) \in Nat
      BY <1>2, <1>3
    <2>2. Len(hs) = Len(generators)
      BY <1>2, <1>3, <2>1
    <2>3. hs[g] = x
      BY <1>2, <1>3
    <2> QED BY <1>2, <1>3, <1>4, <2>2, <2>3
  <1>9. FramesGood(source, Append(frames, h), hs, scopes, m) /\ Apart(Append(frames, h), hs)
    BY <1>1, <1>2, <1>3, <1>5, <1>6, <1>7, <1>8, PushNames, ZenonT(40)
  <1> QED BY <1>1, <1>2, <1>9 DEF NamesGood

-----------------------------------------------------------------------------
(* What Call passes.                                                       *)
LEMMA PassedTyped ==
  ASSUME NEW how, NEW l \in Nat, NEW kw, kw \subseteq Identifiers
  PROVE  /\ Passed(how, [i \in 1 .. l |-> <<"argument", i>>]) \in Seq(Passable)
         /\ Keywords(how, kw) \in SUBSET Identifiers
  <1> DEFINE pos == [i \in 1 .. l |-> <<"argument", i>>]
  <1>1. pos \in Seq(Passable)
    <2>1. \A i \in 1 .. l : <<"argument", i>> \in Passable
      BY DEF Passable
    <2> QED BY <2>1
  <1>2. Passed(how, pos) \in Seq(Passable)
    <2>1. <<"self", 0>> \in Passable
      BY DEF Passable
    <2>2. <<<<"self", 0>>>> \in Seq(Passable)
      BY <2>1
    <2> HIDE DEF pos
    <2>3. <<<<"self", 0>>>> \o pos \in Seq(Passable)
      BY <1>1, <2>2
    <2> QED BY <1>1, <2>3 DEF Passed
  <1> QED BY <1>2 DEF Keywords

LEMMA SourceStays ==
  ASSUME [CallNext]_callVars
  PROVE  source' = source
  <1>1. CASE UNCHANGED callVars
    BY <1>1 DEF callVars
  <1>2. CASE CallNext
    <2>1. ASSUME Call PROVE source' = source
      <3>1. \A how : TooDeep(how) => source' = source
        BY Zenon DEF TooDeep
      <3>2. \A f, how, args, kw : LacksArgument(f, how, args, kw) => source' = source
        BY Zenon DEF LacksArgument
      <3>3. ASSUME NEW f, NEW how, NEW args, NEW kw, Enters(f, how, args, kw) PROVE source' = source
        <4>1. UNCHANGED <<source, functions, stores>>
          BY <3>3, Zenon DEF Enters
        <4> QED BY <4>1
      <3> QED BY <2>1, <3>1, <3>2, <3>3, Zenon DEF Call
    <2>2. \A n, c, g : Store(n) \/ MakeFunction(c) \/ Resume(g) \/ Back => source' = source
      BY Zenon DEF Store, MakeFunction, Resume, Back
    <2> QED BY <1>2, <2>1, <2>2, Zenon DEF CallNext, Leave, YieldValue
  <1> QED BY <1>1, <1>2

LEMMA CallNames ==
  ASSUME CallInv, NEW m, NamesGood(source, frames, functions, generators, scopes, cellMaps, m), Call
  PROVE  \E mm : NamesGood(source, frames', functions', generators', scopes', cellMaps', mm)
  <1>1. PICK f \in DOMAIN functions, how \in source.hows, l \in 0 .. source.args,
             kw \in SUBSET source.keywords :
          LET args == Passed(how, [i \in 1 .. l |-> <<"argument", i>>])
              keys == Keywords(how, kw)
          IN  \/ TooDeep(how)
              \/ LacksArgument(f, how, args, keys)
              \/ Enters(f, how, args, keys)
    BY DEF Call
  <1>2. source.args \in Nat /\ source.keywords \subseteq Identifiers
    BY SourcesAssumption DEF CallInv, Shapes
  <1> DEFINE pos == [i \in 1 .. l |-> <<"argument", i>>]
             args == Passed(how, pos)
             keys == Keywords(how, kw)
  <1>3. args \in Seq(Passable) /\ keys \in SUBSET Identifiers
    <2>1. l \in Nat /\ kw \subseteq Identifiers
      BY <1>2
    <2> QED BY <2>1, PassedTyped
  <1> HIDE DEF args, keys, pos
  <1>4. TooDeep(how) \/ LacksArgument(f, how, args, keys) \/ Enters(f, how, args, keys)
    BY <1>1 DEF args, keys, pos
  <1>5. CASE TooDeep(how) \/ LacksArgument(f, how, args, keys)
    <2>1. UNCHANGED <<frames, functions, generators, scopes, cellMaps>>
      BY <1>5, Zenon DEF TooDeep, LacksArgument
    <2> QED BY <2>1
  <1>6. CASE Enters(f, how, args, keys)
    <2>1. functions' = functions
      BY <1>6, Zenon DEF Enters
    <2>2. \E mm : NamesGood(source, frames', functions, generators', scopes', cellMaps', mm)
      BY <1>3, <1>6, EntersNames
    <2> QED BY <2>1, <2>2
  <1> QED BY <1>4, <1>5, <1>6

LEMMA InitNames ==
  ASSUME CallInit
  PROVE  NamesGood(source, frames, functions, generators, scopes, cellMaps, [k \in 1 .. 1 |-> 0])
  <1>1. PICK fr : fr = [code |-> MainCode, locals |-> NoValues, globals |-> NoValues, cells |-> 0,
                        scope |-> 1, generator |-> 0, vm |-> 1, known |-> {}, until |-> 0]
    OBVIOUS
  <1>2. PICK sc : sc = [code |-> MainCode, inside |-> 0, vars |-> [n \in Identifiers |-> NoVariable]]
    OBVIOUS
  <1>3. PICK m, p, ss : m = [k \in 1 .. 1 |-> 0] /\ p = source /\ ss = scopes
    OBVIOUS
  <1>4. /\ p \in Sources /\ frames = <<fr>> /\ functions = <<>> /\ cellMaps = <<>>
        /\ generators = <<>> /\ ss = <<sc>>
    BY <1>1, <1>2, <1>3 DEF CallInit
  <1>5. /\ Len(cellMaps) = 0 /\ Len(generators) = 0 /\ Len(functions) = 0 /\ Len(frames) = 1
        /\ frames[1] = fr /\ Len(ss) = 1 /\ ss[1] = sc /\ sc \in {sc}
    BY <1>4
  <1>6. /\ sc.code = MainCode /\ m \in [1 .. 1 -> {0}] /\ m[1] = 0
        /\ \A n \in Identifiers : /\ sc.vars[n].value = Null /\ sc.vars[n].once
                                  /\ sc.vars[n].foreign = FALSE
    BY <1>2, <1>3 DEF NoVariable
  <1>7. /\ fr.code = MainCode /\ fr.locals = NoValues /\ fr.globals = NoValues /\ fr.cells = 0
        /\ fr.scope = 1 /\ fr.known = {} /\ fr.until = 0
    BY <1>1
  <1>8. Takes(p, MainCode) = {} /\ Lends(p, MainCode) = {}
    BY <1>4, ProgramIs, CallAssumption
  <1>9. ScopesNested(p, ss) /\ MainGood(ss)
    <2>1. \A k \in 2 .. 1 : FALSE
      OBVIOUS
    <2> QED BY <1>5, <1>6, <2>1 DEF ScopesNested, MainGood
  <1>10. MapsGood(p, ss, m, 0)
    <2>1. m \in [1 .. 1 -> 0 .. 0] /\ \A k \in 1 .. 1 : k = 1
      BY <1>6
    <2> QED BY <1>5, <1>6, <1>8, <2>1 DEF MapsGood
  <1>11. AllTaken(p, functions, ss, m) /\ AllCells(p, functions, ss, cellMaps, m)
    <2>1. \A k \in 1 .. Len(ss) : ss[k].code = MainCode
      BY <1>5, <1>6
    <2> QED BY <1>8, <2>1 DEF AllTaken, AllCells
  <1>12. FunctionsGood(p, functions, ss, m) /\ Apart(frames, generators)
    BY <1>5, <1>7 DEF FunctionsGood, Apart
  <1>13. FrameGood(p, ss, m, fr)
    <2>1. PlaceGood(ss, m, fr)
      BY <1>5, <1>6, <1>7 DEF PlaceGood, KnownGood
    <2>2. Upward(ss)
      BY <1>5, <1>9, NestedUpward
    <2>3. ASSUME NEW n \in Identifiers
          PROVE  OwnerIn(p, ss, 1, n) = 1 /\ LocalGood(p, ss, fr, n) /\ AroundGood(p, ss, 1, 0, fr.globals, n)
      <3>1. OwnerIn(p, ss, 1, n) = 1
        BY <1>5, <2>2, OwnerSolves
      <3>2. fr.locals[n] = Null
        BY <1>7 DEF NoValues
      <3> QED BY <1>5, <1>6, <1>7, <3>1, <3>2 DEF LocalGood, AroundGood
    <2> QED BY <1>7, <2>1, <2>3 DEF FrameGood, SeesGood
  <1>14. FramesGood(p, frames, generators, ss, m)
    BY <1>5, <1>13 DEF FramesGood
  <1> QED BY <1>3, <1>5, <1>9, <1>10, <1>11, <1>12, <1>14 DEF NamesGood

LEMMA NamesNext ==
  ASSUME CallInv, NameInv, [CallNext]_callVars
  PROVE  NameInv'
  <1>1. PICK m : NamesGood(source, frames, functions, generators, scopes, cellMaps, m)
    BY DEF NameInv
  <1>2. \E mm : NamesGood(source, frames', functions', generators', scopes', cellMaps', mm)
    <2>1. ASSUME NEW n \in Identifiers, Store(n)
          PROVE  NamesGood(source, frames', functions', generators', scopes', cellMaps', m)
      <3>1. functions' = functions /\ generators' = generators
        BY <2>1, Zenon DEF Store
      <3> QED BY <1>1, <2>1, <3>1, StoreNames
    <2>2. ASSUME NEW c \in Codes, MakeFunction(c)
          PROVE  NamesGood(source, frames', functions', generators', scopes', cellMaps', m)
      <3>1. frames' = frames /\ generators' = generators /\ scopes' = scopes
        BY <2>2, Zenon DEF MakeFunction
      <3> QED BY <1>1, <2>2, <3>1, MakeFunctionNames
    <2>3. CASE Call
      BY <1>1, <2>3, CallNames
    <2>4. CASE Leave
      <3>1. Back /\ \/ generators' = generators
                    \/ generators' = [generators EXCEPT ![Here.generator] = [frame |-> Here, state |-> "done"]]
        BY <2>4 DEF Leave
      <3> QED BY <1>1, <3>1, BackNames
    <2>5. ASSUME NEW g \in DOMAIN generators, Resume(g)
          PROVE  NamesGood(source, frames', functions', generators', scopes', cellMaps', m)
      BY <1>1, <2>5, ResumeNames
    <2>6. CASE YieldValue
      <3>1. Back /\ generators' = [generators EXCEPT ![Here.generator] = [frame |-> Here, state |-> "ready"]]
        BY <2>6 DEF YieldValue
      <3> QED BY <1>1, <3>1, BackNames
    <2>7. CASE UNCHANGED callVars
      BY <1>1, <2>7 DEF callVars
    <2> QED BY <2>1, <2>2, <2>3, <2>4, <2>5, <2>6, <2>7 DEF CallNext
  <1>3. source' = source
    BY SourceStays
  <1>4. PICK mm : NamesGood(source, frames', functions', generators', scopes', cellMaps', mm)
    BY <1>2
  <1>5. mm \in [1 .. Len(scopes') -> 0 .. Len(cellMaps')]
    BY <1>4 DEF NamesGood, MapsGood
  <1> QED BY <1>3, <1>4, <1>5 DEF NameInv

LEMMA NameInvResolves ==
  ASSUME CallInv, NameInv
  PROVE  NamesResolve
  BY NameResolves DEF NameInv, NamesResolve

LEMMA NamesAlways == CallSpec => []NameInv
  <1>1. CallInit => NameInv
    <2>1. ASSUME CallInit PROVE NameInv
      <3>1. PICK m : m = [k \in 1 .. 1 |-> 0]
        OBVIOUS
      <3>2. NamesGood(source, frames, functions, generators, scopes, cellMaps, m)
        BY <2>1, <3>1, InitNames
      <3>3. m \in [1 .. Len(scopes) -> 0 .. Len(cellMaps)]
        BY <3>2 DEF NamesGood, MapsGood
      <3> QED BY <3>2, <3>3 DEF NameInv
    <2> QED BY <2>1
  <1>2. CallInv /\ NameInv /\ [CallNext]_callVars => NameInv'
    BY NamesNext
  <1> QED BY <1>1, <1>2, CallAlways, PTL DEF CallSpec

-----------------------------------------------------------------------------
(* interpreter.rs: every frame is of a VM that runs, has a cell map when   *)
(* its code shares a variable with another, and call_depth is never below  *)
(* zero or above its limit.                                                *)
THEOREM CallsTyped == CallSpec => []CallsTypeOK
  <1>1. CallInv => CallsTypeOK
    BY CallInvTyped
  <1> QED BY <1>1, CallAlways, PTL

(* call_rust_function: in every program, a call that Python accepts gives  *)
(* each parameter what Python gives it, and one that lacks an argument     *)
(* fails.                                                                  *)
THEOREM ArgumentsBindAsPython == CallSpec => []ArgumentsBound
  <1>1. CallInv => ArgumentsBound
    BY DEF CallInv
  <1> QED BY <1>1, CallAlways, PTL

(* VirtualMachine: call_depth is the number of the VM's calls that run and *)
(* of those that ended for want of an argument, whatever the program does  *)
(* and however its callbacks and generators are nested.                    *)
THEOREM DepthCounts == CallSpec => []DepthExact
  <1>1. CallInv => DepthExact
    BY CallInvDepth
  <1> QED BY <1>1, CallAlways, PTL

(* StoreFast, StoreDeref, LoadFast, LoadDeref, LoadName, MakeFunction and  *)
(* call_rust_function: in every program, a use of a name finds the         *)
(* variable that Python's scopes give it, wherever the code promises it:   *)
(* its own variable, one that is nonlocal all the way from its owner, or   *)
(* one that was written once and before the functions around the use.      *)
THEOREM NamesFound == CallSpec => []NamesResolve
  <1>1. CallInv /\ NameInv => NamesResolve
    BY NameInvResolves
  <1> QED BY <1>1, CallAlways, NamesAlways, PTL

(* The calls of interpreter.rs keep to Python: arguments, names and depth. *)
THEOREM CallsKeepToPython == CallSpec => []CallsAsPython
  <1>1. ArgumentsBound /\ NamesResolve /\ DepthExact => CallsAsPython
    BY DEF CallsAsPython
  <1> QED BY <1>1, ArgumentsBindAsPython, NamesFound, DepthCounts, PTL
=============================================================================
