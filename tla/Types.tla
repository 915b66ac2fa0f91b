-------------------------------- MODULE Types --------------------------------
(***************************************************************************)
(* Type objects: static types that extensions declare and make ready, heap *)
(* types made from a spec, the exception types of PyErr_NewException and   *)
(* the classes of Python programs (object/typeobj.rs, runtime/error.rs,    *)
(* vm/interpreter.rs), and what attribute look-ups find in them.           *)
(*                                                                         *)
(* A slot or an attribute is known by the type that defines it.  Sizes and *)
(* offsets are counted in words of eight bytes.                            *)
(***************************************************************************)
EXTENDS Common, Naturals, Sequences, SequencesExt, FiniteSetsExt

CONSTANTS
    Types,        \* type objects
    Object,       \* PyBaseObject_Type
    TypeAttrs,    \* attributes
    Slots,        \* function slots
    InitSlot,     \* tp_init
    CopiedSlots,  \* those that PyErr_NewException copies
    Specs,        \* the specs of heap types: [slots, attrs, size], size 0 to inherit it
    VmInit,       \* the function vm_tp_init
    MaxStores,    \* bound on the types an attribute is assigned in
    Declarations  \* the programs: what each type will be, and the static types

(* The fields of a type before it is made ready, as its declaration sets    *)
(* them; those of a type that is made at run time are set then.            *)
Declaration ==
    [kind : {"static", "spec", "exception", "class", "unused"}, base : Types \cup {Null},
     size : Nat, dictoffset : Nat, slots : SUBSET Slots, attrs : SUBSET TypeAttrs]

ASSUME TypeAssumption ==
    /\ Object \in Types /\ IsFiniteSet(Types) /\ Null \notin Types
    /\ InitSlot \in CopiedSlots /\ CopiedSlots \subseteq Slots /\ VmInit # Null /\ Data # Null

ASSUME SpecsAssumption ==
    Specs \subseteq [slots : SUBSET Slots, attrs : SUBSET TypeAttrs, size : Nat]

Word   == 1
Header == 2       \* a PyObject: the reference count and the type

(* The base is object when none is set.                                    *)
BaseOf(fields) == IF fields.base = Null THEN Object ELSE fields.base

(* Static types have static bases, and no type is above itself.  The       *)
(* struct of a static type begins with that of its base; the pointer to a  *)
(* dict is inside it, behind that of the base or where the base has it.    *)
ASSUME DeclarationsAssumption ==
    \A p \in Declarations :
        /\ p \in [Types -> Declaration]
        /\ p[Object].kind = "static" /\ p[Object].base = Null
        /\ \A t \in Types :
              /\ p[t].kind # "static" => p[t].base = Null /\ p[t].slots = {} /\ p[t].attrs = {}
              /\ p[t].base # Null => p[p[t].base].kind = "static"
        /\ \E height \in [Types -> 0 .. Cardinality(Types)] :
              \A t \in Types : p[t].base # Null => height[p[t].base] < height[t]
        /\ p[Object].size = Header /\ p[Object].dictoffset = 0
        /\ \E struct \in [Types -> {p[t].size : t \in Types}] :
              \A t \in Types :
                LET b == BaseOf(p[t]) IN
                p[t].kind = "static" =>
                  /\ struct[t] >= struct[b]
                  /\ struct[t] = IF p[t].size = 0 THEN struct[b] ELSE p[t].size
                  /\ p[t].dictoffset # 0 =>
                        /\ p[t].dictoffset \in Header .. struct[t] - Word
                        /\ p[t].dictoffset >= struct[b] \/ p[t].dictoffset = p[b].dictoffset

VARIABLES
    kind,         \* [Types -> "static", "spec", "exception", "class" or "unused"]
    ready,        \* the types with PY_TPFLAGS_READY
    base,         \* tp_base
    bases,        \* tp_bases, empty for NULL
    slots,        \* [Types -> [Slots -> the type that defines it, or Null]]
    attrs,        \* tp_dict, [Types -> [TypeAttrs -> value or Null]]
    size,         \* tp_basicsize
    dictoffset,   \* tp_dictoffset, 0 for none
    own,          \* what each type itself defines: [slots, attrs]
    stale         \* <<type, name>> assigned after classes copied the type's dict

typeVars == <<kind, ready, base, bases, slots, attrs, size, dictoffset, own, stale>>

(* Memory for one more type of a kind.                                     *)
Unmade(k)    == {t \in Types \ ready : kind[t] = k}
FreshType(k) == CHOOSE t \in Unmade(k) : TRUE

Defines(t, S) == [s \in Slots |-> IF s \in S THEN t ELSE Null]
Binds(t, N)   == [n \in TypeAttrs |-> IF n \in N THEN t ELSE Null]

(* The first that is not NULL.                                             *)
FirstOf(values) ==
    LET found == {i \in DOMAIN values : values[i] # Null}
    IN  IF found = {} THEN Null ELSE values[Min(found)]

(* The bases a walk through tp_bases comes to, or through tp_base if there *)
(* is no tuple.                                                            *)
Walked(t) ==
    IF bases[t] # <<>> THEN bases[t]
    ELSE IF base[t] = Null THEN <<>> ELSE <<base[t]>>

Above(t) ==
    LET up[u \in Types] == {u} \cup UNION {up[Walked(u)[i]] : i \in DOMAIN Walked(u)}
    IN  up[t] \ {t}

-----------------------------------------------------------------------------
(* What is set of a type before it is made ready: [base, bases, slots,      *)
(* size, dictoffset].                                                      *)
Fields(t) == [base |-> base[t], bases |-> bases[t], slots |-> slots[t], size |-> size[t],
              dictoffset |-> dictoffset[t]]

(* Mutant: the base is left as it is.                                      *)
BaseChainAlone(t, F) == {t}

(* A base that is not ready is made ready first, and so on up the chain.   *)
BaseChain(t, F) ==
    LET up[u \in Types] == IF u \in ready THEN {} ELSE {u} \cup up[BaseOf(F[u])]
    IN  up[t]

(* NULL slots and a size of 0 are inherited.                               *)
Inherited(mine, theirs) == [s \in Slots |-> IF mine[s] = Null THEN theirs[s] ELSE mine[s]]

ReadySlots(todo, F) ==
    LET slot[u \in Types] == IF u \notin todo THEN F[u].slots
                             ELSE Inherited(F[u].slots, slot[BaseOf(F[u])])
    IN  slot

ReadySizes(todo, F) ==
    LET room[u \in Types] == IF u \in todo /\ F[u].size = 0 THEN room[BaseOf(F[u])]
                             ELSE F[u].size
    IN  room

(* PyType_Ready for a type t whose fields are f.                           *)
Ready(t, f) ==
    LET F    == [u \in Types |-> IF u = t THEN f ELSE Fields(u)]
        todo == BaseChain(t, F)
    IN  /\ ready' = ready \cup todo
        /\ base' = [u \in Types |-> IF u \in todo THEN BaseOf(F[u]) ELSE base[u]]
        /\ bases' = [u \in Types |-> IF u \in todo /\ F[u].bases = <<>>
                                     THEN <<BaseOf(F[u])>> ELSE F[u].bases]
        /\ slots' = ReadySlots(todo, F)
        /\ size' = ReadySizes(todo, F)
        /\ dictoffset' = [dictoffset EXCEPT ![t] = f.dictoffset]

(* An extension makes one of its static types ready, those it derives from *)
(* included; the methods, members and getters of each go to its dict.      *)
ReadyStatic(t) ==
    /\ kind[t] = "static" /\ t \notin ready
    /\ Ready(t, Fields(t))
    /\ attrs' = [u \in Types |-> IF u \in ready' \ ready THEN own[u].attrs ELSE attrs[u]]
    /\ UNCHANGED <<kind, own, stale>>

(* PyType_FromModuleAndSpec and PyType_FromSpecWithBases: the base is the  *)
(* one of slot Py_tp_base, else the first of the bases; the bases stay     *)
(* those that were passed.  Instances begin with those of the base: what   *)
(* the C API asks of a spec, and the code does not check.                  *)
FromSpec(slotBase, bs, spec) ==
    LET t == FreshType("spec")
        b == IF slotBase # Null THEN slotBase ELSE IF bs # <<>> THEN Head(bs) ELSE Null
    IN  /\ Unmade("spec") # {}
        /\ Ready(t, [base |-> b, bases |-> bs, slots |-> Defines(t, spec.slots),
                     size |-> spec.size, dictoffset |-> 0])
        /\ size'[t] >= size'[base'[t]]
        /\ own' = [own EXCEPT ![t] = [slots |-> Defines(t, spec.slots),
                                      attrs |-> Binds(t, spec.attrs)]]
        /\ attrs' = [u \in Types |-> IF u \in ready' \ ready THEN own'[u].attrs ELSE attrs[u]]
        /\ UNCHANGED <<kind, stale>>

(* PyErr_NewException: marked ready at once, with a few slots of its base, *)
(* no dict and the size of a bare object.                                  *)
NewException(b) ==
    LET t == FreshType("exception") IN
    /\ Unmade("exception") # {} /\ b \in ready
    /\ ready' = ready \cup {t}
    /\ base' = [base EXCEPT ![t] = b]
    /\ bases' = [bases EXCEPT ![t] = <<b>>]
    /\ slots' = [slots EXCEPT ![t] =
          [s \in Slots |-> IF s \in CopiedSlots THEN slots[b][s] ELSE Null]]
    /\ size' = [size EXCEPT ![t] = Header]
    /\ UNCHANGED <<kind, attrs, dictoffset, own, stale>>

-----------------------------------------------------------------------------
(* Mutant: always right behind the header.                                 *)
RoomAtHeader(bs) ==
    [size |-> Max({Header + Word} \cup {size[b] : b \in Range(bs)}), dictoffset |-> Header]

(* create_vm_type: instances are as large as those of the largest base,    *)
(* with the pointer to their dict where the last base that has one puts    *)
(* it; if that is right behind the header and a base is larger than that,  *)
(* or none has one, behind the largest base.                               *)
Room(bs) ==
    LET largest == Max({Header + Word} \cup {size[b] : b \in Range(bs)})
        with    == {i \in DOMAIN bs : dictoffset[bs[i]] > 0}
        offset  == IF with = {} THEN Header ELSE dictoffset[bs[Max(with)]]
    IN  IF offset = Header /\ largest > Header + Word
        THEN [size |-> largest + Word, dictoffset |-> largest]
        ELSE [size |-> largest, dictoffset |-> offset]

(* Mutant: bases in the order of the tuple, so that the last one wins.     *)
MergedForward(t, bs, N) ==
    [n \in TypeAttrs |-> IF n \in N THEN t
                     ELSE FirstOf(Reverse([i \in DOMAIN bs |-> attrs[bs[i]][n]]))]

(* The names of a class: those of its body, else those in the dict of its  *)
(* first base that has them.                                               *)
Merged(t, bs, N) ==
    [n \in TypeAttrs |-> IF n \in N THEN t ELSE FirstOf([i \in DOMAIN bs |-> attrs[bs[i]][n]])]

(* __build_class__ with bases bs and a body that binds N.  A class defines *)
(* one slot, tp_init.                                                      *)
BuildClass(bs, N) ==
    LET t == FreshType("class")
        mine == [Defines(t, {}) EXCEPT ![InitSlot] = VmInit]
    IN
    /\ Unmade("class") # {}
    /\ Ready(t, [base |-> IF bs = <<>> THEN Object ELSE Head(bs), bases |-> bs,
                 slots |-> mine, size |-> Room(bs).size, dictoffset |-> Room(bs).dictoffset])
    /\ own' = [own EXCEPT ![t] = [slots |-> mine, attrs |-> Binds(t, N)]]
    /\ attrs' = [attrs EXCEPT ![t] = Merged(t, bs, N)]
    /\ UNCHANGED <<kind, stale>>

(* An assignment to an attribute of a type, or of an instance of a type    *)
(* that has no room for a dict in its instances.                           *)
StoreAttr(t, n) ==
    /\ t \in ready /\ kind[t] # "exception"
    /\ Cardinality({u \in Types : own[u].attrs[n] = Data}) < MaxStores
    /\ attrs' = [attrs EXCEPT ![t][n] = Data]
    /\ own' = [own EXCEPT ![t].attrs[n] = Data]
    /\ stale' = IF \E u \in ready : kind[u] = "class" /\ t \in Above(u)
                THEN stale \cup {<<t, n>>} ELSE stale
    /\ UNCHANGED <<kind, ready, base, bases, slots, size, dictoffset>>

-----------------------------------------------------------------------------
(* type_dict_lookup and mro_lookup: depth first through the tuples.        *)
TypeLookup(t, n) ==
    LET found[u \in Types] ==
            FirstOf(<<attrs[u][n]>> \o [i \in DOMAIN Walked(u) |-> found[Walked(u)[i]]])
    IN  found[t]

(* _PyType_Lookup: up the tp_base chain only.                              *)
BaseLookup(t, n) ==
    LET found[u \in Types] ==
            IF attrs[u][n] # Null THEN attrs[u][n]
            ELSE IF base[u] = Null THEN Null ELSE found[base[u]]
    IN  found[t]

(* collect_mro goes through the tuples depth first and takes a type where  *)
(* it first comes to it; a super() in class c starts from the one it takes *)
(* next.                                                                   *)
Walk(t) ==
    LET walk[u \in Types] == <<u>> \o FlattenSeq([i \in DOMAIN Walked(u) |-> walk[Walked(u)[i]]])
    IN  walk[t]

SuperStart(t, c) ==
    LET mro  == Walk(t)
        next == {j \in DOMAIN mro : /\ \E i \in 1 .. j - 1 : mro[i] = c
                                   /\ \A i \in 1 .. j - 1 : mro[i] # mro[j]}
    IN  IF next # {} THEN mro[Min(next)]
        ELSE IF base[t] # Null THEN base[t] ELSE Object

-----------------------------------------------------------------------------
(* Nothing is ready but object, which has slots and a dict (init_base_types). *)
TypeInit ==
    \E p \in Declarations :
        /\ kind = [t \in Types |-> p[t].kind]
        /\ ready = {Object}
        /\ base = [t \in Types |-> p[t].base]
        /\ bases = [t \in Types |-> <<>>]
        /\ slots = [t \in Types |-> Defines(t, p[t].slots)]
        /\ attrs = [t \in Types |-> Binds(t, IF t = Object THEN p[t].attrs ELSE {})]
        /\ size = [t \in Types |-> p[t].size]
        /\ dictoffset = [t \in Types |-> p[t].dictoffset]
        /\ own = [t \in Types |-> [slots |-> Defines(t, p[t].slots),
                                   attrs |-> Binds(t, p[t].attrs)]]
        /\ stale = {}

BaseLists == {bs \in SeqOf(ready, 2) : Len(bs) = 2 => bs[1] # bs[2]}

TypeNext ==
    \/ \E t \in Types : ReadyStatic(t)
    \/ \E bs \in BaseLists, s \in Specs : FromSpec(Null, bs, s)
    \/ \E b \in Types, s \in Specs : kind[b] = "static" /\ FromSpec(b, <<>>, s)
    \/ \E b \in ready : NewException(b)
    \/ \E bs \in BaseLists, N \in SUBSET TypeAttrs : BuildClass(bs, N)
    \/ \E t \in Types, n \in TypeAttrs : StoreAttr(t, n)

TypeSpec == TypeInit /\ [][TypeNext]_typeVars

-----------------------------------------------------------------------------
Functions == [Slots -> Types \cup {Null, VmInit}]
Dicts     == [TypeAttrs -> Types \cup {Null, Data}]

TypesTypeOK ==
    /\ kind \in [Types -> {"static", "spec", "exception", "class", "unused"}]
    /\ ready \subseteq Types
    /\ base \in [Types -> Types \cup {Null}]
    /\ bases \in [Types -> Seq(Types)]
    /\ slots \in [Types -> Functions] /\ attrs \in [Types -> Dicts]
    /\ own \in [Types -> [slots : Functions, attrs : Dicts]]
    /\ size \in [Types -> Nat] /\ dictoffset \in [Types -> Nat]
    /\ stale \subseteq Types \X TypeAttrs

(* A ready type has in each slot the function of the nearest type up its   *)
(* tp_base chain that defines one, whatever the order the types were made  *)
(* ready in.  Exception types stop the slots that are not copied.          *)
Definer(t, s) ==
    LET nearest[u \in Types] ==
            IF own[u].slots[s] # Null \/ base[u] = Null
               \/ (kind[u] = "exception" /\ s \notin CopiedSlots)
            THEN own[u].slots[s] ELSE nearest[base[u]]
    IN  nearest[t]

SlotsInherited == \A t \in ready, s \in Slots : slots[t][s] = Definer(t, s)

(* What t itself and its bases define, depth first, object last: Python's  *)
(* order where no class is reached along two paths.                        *)
Expected(t, n) ==
    LET defs[u \in Types] ==
            IF u = Object THEN Null
            ELSE FirstOf(<<own[u].attrs[n]>> \o [i \in DOMAIN Walked(u) |-> defs[Walked(u)[i]]])
    IN  FirstOf(<<defs[t], own[Object].attrs[n]>>)

Line(t)   == {t} \cup Above(t)
Single(t) == \A u \in Line(t) : u = Object \/ bases[u] = <<base[u]>>

(* Several bases, but only of Python classes that have no class in common, *)
(* and of an attribute that object does not have.                          *)
Plain(t, n) ==
    \A u \in Line(t) :
      \/ u = Object \/ bases[u] = <<base[u]>>
      \/ /\ \A v \in Line(u) \ {Object} : kind[v] = "class"
         /\ Object \notin Range(bases[u]) /\ own[Object].attrs[n] = Null
         /\ \A i, j \in DOMAIN bases[u] :
              i # j => Line(bases[u][i]) \cap Line(bases[u][j]) = {Object}

(* The look-ups of the interpreter and of the C API find the same, what    *)
(* Python's order of the classes says, and super() in a class what that    *)
(* order has behind the class; but for assignments to classes after they   *)
(* were derived from.                                                      *)
LookupsAgree ==
    \A t \in ready, n \in TypeAttrs : (\A a \in Line(t) : <<a, n>> \notin stale) =>
        /\ Plain(t, n) => TypeLookup(t, n) = Expected(t, n) /\ BaseLookup(t, n) = Expected(t, n)
        /\ Single(t) => \A c \in Line(t) \ {Object} :
                           TypeLookup(SuperStart(t, c), n) = Expected(base[c], n)

(* The dict pointer of the instances of a class is inside them and outside *)
(* what its C base keeps there.  Of its bases only one derives from a C    *)
(* type, and that is not one of 24 bytes.                                  *)
LayoutsNest ==
    \A t \in ready :
        LET native(u) == {c \in Line(u) \ {Object} : kind[c] \in {"static", "spec"}} IN
        /\ kind[t] = "class"
        /\ \A u \in Line(t) : kind[u] # "exception"
        /\ \A u \in Line(t) :
              Cardinality({i \in DOMAIN bases[u] : native(bases[u][i]) # {}}) <= 1
        /\ \A c \in native(t) : Single(c) /\ size[c] # Header + Word
        => /\ dictoffset[t] >= Header /\ dictoffset[t] + Word <= size[t]
           /\ \A c \in native(t) :
                 dictoffset[t] >= size[c] \/ dictoffset[t] = dictoffset[c]
=============================================================================
