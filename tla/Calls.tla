-------------------------------- MODULE Calls --------------------------------
(***************************************************************************)
(* Functions of Python programs: what the compiler says of their names     *)
(* (compiler/compile.rs), how a call binds its arguments and where a name  *)
(* is looked up (vm/interpreter.rs, vm/frame.rs), and generators.          *)
(*                                                                         *)
(* A program is its function definitions.  Their bodies are not fixed: a   *)
(* frame may store to any name its code binds, make any function defined   *)
(* in it, call any function already made, yield or end, in any order.      *)
(* Class bodies and the names they bind are left out.                      *)
(*                                                                         *)
(* `scopes` is what Python would have: one scope for each call, inside the *)
(* scope its function was made in, with the variables the call binds.      *)
(***************************************************************************)
EXTENDS Common, Naturals, Sequences, FiniteSets, SequencesExt

CONSTANTS
    Identifiers, Codes,
    MainCode,         \* the code of the module
    Sources,     \* programs: [defs, hows, args, keywords, scopes, functions,
                 \* stores], definitions and bounds on what is done with them
    DepthLimit   \* 500 in the code

(* A function of a program: its signature, the names its code binds, those *)
(* it declares nonlocal and the function it is in.                         *)
Definition ==
    [parent : Codes \cup {Null}, params : Seq(Identifiers), defaults : Nat,
     vararg : Identifiers \cup {Null}, kwonly : Seq(Identifiers),
     kwarg : Identifiers \cup {Null}, assigned : SUBSET Identifiers,
     nonlocals : SUBSET Identifiers, generator : BOOLEAN]

(* What a variable may hold.                                               *)
Passable == {"argument", "keyword", "default", "self", "None", "stored"}
               \X (Nat \cup Identifiers)

ASSUME CallAssumption ==
    /\ MainCode \in Codes /\ DepthLimit \in Nat \ {0}
    /\ Null \notin Identifiers /\ Null \notin Codes /\ Null \notin Passable

(* What is Python: no parameter is there twice or nonlocal, a default has  *)
(* its parameter, the module is in no function, and no variable of it is   *)
(* nonlocal.                                                               *)
ASSUME SourcesAssumption ==
    \A p \in Sources :
        /\ p.defs \in [Codes -> Definition] /\ p.defs[MainCode].parent = Null
        /\ p.args \in Nat /\ p.keywords \subseteq Identifiers
        /\ \A c \in Codes :
              LET D == p.defs[c] IN
              /\ D.defaults <= Len(D.params)
              /\ D.parent \in {MainCode, Null} => D.nonlocals = {}
              /\ D.nonlocals \cap (ToSet(D.params) \cup ToSet(D.kwonly) \cup {D.vararg, D.kwarg}) = {}
              /\ \A i, j \in DOMAIN D.params : D.params[i] = D.params[j] => i = j
              /\ ToSet(D.params) \cap ToSet(D.kwonly) = {}
              /\ {D.vararg, D.kwarg} \cap (ToSet(D.params) \cup ToSet(D.kwonly)) = {}
              /\ D.vararg = D.kwarg => D.vararg = Null

VARIABLES
    source,      \* the program
    frames,      \* the frames that run, the module's first
    functions,   \* the RustFunctions made
    cellMaps,    \* the cell maps made, which frames and functions share
    generators,  \* the RustGenerators made: [frame, state]
    depths,      \* the call_depth of each VM that runs
    unbalanced,  \* of each VM, the calls whose end was not counted
    scopes, stores,
    bound        \* the last call: what its parameters got, what Python says

callVars == <<source, frames, functions, cellMaps, generators, depths, unbalanced,
              scopes, stores, bound>>

NoValues == [n \in Identifiers |-> Null]
Over(f, g) == [n \in Identifiers |-> IF f[n] # Null THEN f[n] ELSE g[n]]
Here     == Last(frames)
NoCall   == [judged |-> FALSE, got |-> Null, want |-> Null]

-----------------------------------------------------------------------------
(* What the compiler makes of a definition.                                *)
Def(c)        == source.defs[c]
Optional(n)   == IF n = Null THEN <<>> ELSE <<n>>
Parameters(c) == Def(c).params \o Optional(Def(c).vararg) \o Def(c).kwonly \o Optional(Def(c).kwarg)
Freevars(c)   == Def(c).nonlocals
Varnames(c)   == (ToSet(Parameters(c)) \cup Def(c).assigned) \ Freevars(c)
Cellvars(c)   == UNION {Def(k).nonlocals : k \in {d \in Codes : Def(d).parent = c}}

(* The defaults of the last parameters, as MakeFunction takes them.        *)
Defaults(c) ==
    LET P == Len(Def(c).params) IN
    [j \in 1 .. Def(c).defaults |-> <<"default", Def(c).params[P - Def(c).defaults + j]>>]

-----------------------------------------------------------------------------
(* Python's scopes.                                                        *)
NoVariable == [value |-> Null, first |-> 0, once |-> TRUE, foreign |-> FALSE]

Owner(s, n) ==
    LET up[k \in 1 .. Len(scopes)] ==
            IF k = 1 \/ n \in Varnames(scopes[k].code) THEN k ELSE up[scopes[k].inside]
    IN  up[s]

Variable(s, n) == scopes[Owner(s, n)].vars[n]

(* The scopes once a call that runs in s has given n the value v.          *)
Written(s, n, v) ==
    LET o   == Owner(s, n)
        old == scopes[o].vars[n]
    IN  [scopes EXCEPT ![o].vars[n] =
            [value |-> v, first |-> IF old.value = Null THEN Len(scopes) ELSE old.first,
             once |-> old.value = Null, foreign |-> old.foreign \/ o # s]]

-----------------------------------------------------------------------------
(* StoreDeref: only the cell, not the locals of the frame that owns it.    *)
StoreDeref(n, v) ==
    /\ cellMaps' = [cellMaps EXCEPT ![Here.cells][n] = v]
    /\ UNCHANGED frames

(* StoreName and StoreFast: the frame's locals, and the cell if there is one.*)
StoreFast(n, v) ==
    /\ frames' = [frames EXCEPT ![Len(frames)].locals[n] = v]
    /\ cellMaps' = IF n \in Cellvars(Here.code)
                   THEN [cellMaps EXCEPT ![Here.cells][n] = v] ELSE cellMaps

Store(n) ==
    LET v == <<"stored", stores + 1>> IN
    /\ n \in Def(Here.code).assigned /\ stores < source.stores
    /\ IF n \in Freevars(Here.code) THEN StoreDeref(n, v) ELSE StoreFast(n, v)
    /\ scopes' = Written(Here.scope, n, v)
    /\ stores' = stores + 1 /\ bound' = NoCall
    /\ UNCHANGED <<source, functions, generators, depths, unbalanced>>

LoadDeref(f, n) == cellMaps[f.cells][n]
LoadFast(f, n)  == f.locals[n]
LoadName(f, n)  == Over(f.locals, f.globals)[n]

(* What a use of n in the frame f finds.                                   *)
FoundIn(f, n) ==
    IF n \in Freevars(f.code) THEN LoadDeref(f, n)
    ELSE IF n \in Varnames(f.code) THEN LoadFast(f, n)
    ELSE LoadName(f, n)

(* Mutant: the names around the frame come first.                          *)
CapturedOuterFirst(f) == Over(f.globals, f.locals)

(* MakeFunction captures what the frame sees.                              *)
Captured(f) == Over(f.locals, f.globals)

MakeFunction(c) ==
    /\ Def(c).parent = Here.code /\ Len(functions) < source.functions
    /\ functions' = Append(functions,
           [code |-> c, globals |-> Captured(Here),
            cells |-> IF Freevars(c) = {} THEN 0 ELSE Here.cells, scope |-> Here.scope,
            known |-> Here.known \cup {<<Here.scope, n>> : n \in {n \in Identifiers :
                                            scopes[Here.scope].vars[n].value # Null}}])
    /\ cellMaps' = IF Freevars(c) = {} THEN cellMaps ELSE
           [cellMaps EXCEPT ![Here.cells] =
               [n \in Identifiers |-> IF n \in Freevars(c) /\ @[n] = Null THEN Here.locals[n] ELSE @[n]]]
    /\ bound' = NoCall
    /\ UNCHANGED <<source, frames, generators, depths, unbalanced, scopes, stores>>

-----------------------------------------------------------------------------
(* The arguments call_rust_function is given: `how` is what was called, a  *)
(* function, a method of an instance, a function of a class, a class, or   *)
(* a function that C calls.                                                *)
Passed(how, pos)  == IF how \in {"method", "class"} THEN <<<<"self", 0>>>> \o pos ELSE pos
Keywords(how, kw) == IF how \in {"class", "callback"} THEN {} ELSE kw
Keyword(n)        == <<"keyword", n>>

(* execute_vm_function: C has no frame to add names, and a VM is made.     *)
OwnVm(how) == how = "callback"

(* What the caller adds to the names a function captured.                  *)
FromCaller(how) ==
    CASE OwnVm(how)       -> NoValues
      [] how = "function" -> Over(Here.globals, Here.locals)
      [] OTHER            -> Over(Here.locals, Here.globals)

(* The value of the i-th positional parameter.                             *)
Positional(c, i, args, kw) ==
    LET n == Def(c).params[i]
        d == i - (Len(Def(c).params) - Def(c).defaults)
    IN  IF i <= Len(args) THEN args[i]
        ELSE IF n \in kw THEN Keyword(n)
        ELSE IF d >= 1 THEN Defaults(c)[d]
        ELSE Null

Arguments(c, args, kw) ==
    LET P == Len(Def(c).params) IN
    [n \in ToSet(Parameters(c)) |->
        IF n = Def(c).kwarg THEN {k \in kw : k \notin ToSet(Def(c).params)}
        ELSE IF n \in ToSet(Def(c).kwonly) THEN (IF n \in kw THEN Keyword(n) ELSE <<"None", 0>>)
        ELSE IF n = Def(c).vararg THEN SubSeq(args, P + 1, Len(args))
        ELSE Positional(c, CHOOSE i \in 1 .. P : Def(c).params[i] = n, args, kw)]

Unfilled(c, args, kw) == \E i \in DOMAIN Def(c).params : Positional(c, i, args, kw) = Null

(* What Python says of a call that it accepts: no parameter is given twice *)
(* or left out, and no argument has no parameter.                          *)
PyUnfilled(c, args, kw) ==
    \E i \in DOMAIN Def(c).params :
        i > Len(args) /\ i <= Len(Def(c).params) - Def(c).defaults /\ Def(c).params[i] \notin kw

PyAccepts(c, args, kw) ==
    LET D == Def(c) IN
    /\ D.vararg = Null => Len(args) <= Len(D.params)
    /\ \A i \in DOMAIN D.params : i <= Len(args) => D.params[i] \notin kw
    /\ D.kwarg = Null => kw \subseteq ToSet(D.params \o D.kwonly)
    /\ ~PyUnfilled(c, args, kw)

PyArguments(c, args, kw) ==
    LET D == Def(c)
        given(n) == {i \in DOMAIN D.params : D.params[i] = n /\ i <= Len(args)}
    IN  [n \in ToSet(Parameters(c)) |->
            IF n = D.vararg THEN [i \in 1 .. IF Len(args) > Len(D.params) THEN Len(args) - Len(D.params) ELSE 0
                                    |-> args[Len(D.params) + i]]
            ELSE IF n = D.kwarg THEN kw \ ToSet(D.params \o D.kwonly)
            ELSE IF given(n) # {} THEN args[CHOOSE i \in given(n) : TRUE]
            ELSE IF n \in kw THEN Keyword(n)
            ELSE <<"default", n>>]

-----------------------------------------------------------------------------
(* call_rust_function, up to the frame it makes.                           *)
NewFrame(f, how, values) ==
    [code |-> functions[f].code,
     locals |-> [n \in Identifiers |-> IF n \in DOMAIN values THEN values[n] ELSE Null],
     globals |-> Over(functions[f].globals, FromCaller(how)),
     cells |-> IF functions[f].cells # 0 THEN functions[f].cells
               ELSE IF Cellvars(functions[f].code) # {} THEN Len(cellMaps) + 1 ELSE 0,
     scope |-> Len(scopes) + 1, generator |-> 0, vm |-> Len(depths),
     known |-> functions[f].known,
     until |-> IF OwnVm(how) THEN 0 ELSE IF Len(frames) = 1 THEN Len(scopes) ELSE Here.until]

Refused(how) == ~OwnVm(how) /\ Last(depths) = DepthLimit

(* RuntimeError: the depth is taken back.                                  *)
TooDeep(how) ==
    /\ Refused(how)
    /\ bound' = NoCall
    /\ UNCHANGED <<source, frames, functions, cellMaps, generators, depths, unbalanced, scopes, stores>>

(* TypeError: the depth is not taken back.                                 *)
LacksArgument(f, how, args, kw) ==
    LET c == functions[f].code IN
    /\ ~Refused(how) /\ Unfilled(c, args, kw)
    /\ bound' = [judged |-> PyAccepts(c, args, kw) \/ PyUnfilled(c, args, kw), got |-> Null,
                 want |-> IF PyUnfilled(c, args, kw) THEN Null ELSE PyArguments(c, args, kw)]
    /\ IF OwnVm(how) THEN UNCHANGED <<depths, unbalanced>>
       ELSE /\ depths' = [depths EXCEPT ![Len(depths)] = @ + 1]
            /\ unbalanced' = [unbalanced EXCEPT ![Len(depths)] = @ + 1]
    /\ UNCHANGED <<source, frames, functions, cellMaps, generators, scopes, stores>>

(* The function runs, or a generator is made of its frame.                 *)
Enters(f, how, args, kw) ==
    LET c     == functions[f].code
        got   == Arguments(c, args, kw)
        frame == NewFrame(f, how, got)
    IN
    /\ ~Refused(how) /\ ~Unfilled(c, args, kw) /\ Len(scopes) < source.scopes
    /\ bound' = [judged |-> /\ PyAccepts(c, args, kw)
                            /\ ToSet(Def(c).kwonly) \subseteq kw
                            /\ Def(c).kwarg = Null \/ Def(c).kwonly = <<>>,
                 got |-> got, want |-> PyArguments(c, args, kw)]
    /\ scopes' = Append(scopes,
           [code |-> c, inside |-> functions[f].scope,
            vars |-> [n \in Identifiers |-> IF n \in DOMAIN got
                          THEN [NoVariable EXCEPT !.value = got[n], !.first = Len(scopes) + 1]
                          ELSE NoVariable]])
    /\ cellMaps' = IF frame.cells > Len(cellMaps) THEN Append(cellMaps, NoValues) ELSE cellMaps
    /\ IF Def(c).generator
       THEN /\ generators' = Append(generators, [frame |-> frame, state |-> "ready"])
            /\ UNCHANGED <<frames, depths, unbalanced>>
       ELSE IF OwnVm(how)
       THEN /\ frames' = Append(frames, [frame EXCEPT !.vm = Len(depths) + 1])
            /\ depths' = Append(depths, 1) /\ unbalanced' = Append(unbalanced, 0)
            /\ UNCHANGED generators
       ELSE /\ frames' = Append(frames, frame)
            /\ depths' = [depths EXCEPT ![Len(depths)] = @ + 1]
            /\ UNCHANGED <<generators, unbalanced>>
    /\ UNCHANGED <<source, functions, stores>>

Call ==
    \E f \in DOMAIN functions, how \in source.hows, l \in 0 .. source.args,
       kw \in SUBSET source.keywords :
        LET args == Passed(how, [i \in 1 .. l |-> <<"argument", i>>])
            keys == Keywords(how, kw)
        IN  \/ TooDeep(how)
            \/ LacksArgument(f, how, args, keys)
            \/ Enters(f, how, args, keys)

-----------------------------------------------------------------------------
(* The frame under the top one goes on; a VM ends with its first frame.    *)
Back ==
    /\ Len(frames) > 1
    /\ frames' = Front(frames)
    /\ IF frames[Len(frames) - 1].vm # Here.vm
       THEN depths' = Front(depths) /\ unbalanced' = Front(unbalanced)
       ELSE depths' = [depths EXCEPT ![Here.vm] = @ - 1] /\ UNCHANGED unbalanced
    /\ bound' = NoCall
    /\ UNCHANGED <<source, functions, cellMaps, scopes, stores>>

(* A frame returns, or an exception leaves it: that ends a generator too.  *)
Leave ==
    /\ Back
    /\ generators' = IF Here.generator = 0 THEN generators ELSE
           [generators EXCEPT ![Here.generator] = [frame |-> Here, state |-> "done"]]

(* resume_generator, by a VM of its own.  (That a generator resumes itself *)
(* is left out.)                                                           *)
Resume(g) ==
    /\ generators[g].state = "ready"
    /\ frames' = Append(frames, [generators[g].frame EXCEPT !.generator = g, !.vm = Len(depths) + 1])
    /\ generators' = [generators EXCEPT ![g].state = "running"]
    /\ depths' = Append(depths, 0) /\ unbalanced' = Append(unbalanced, 0)
    /\ bound' = NoCall
    /\ UNCHANGED <<source, functions, cellMaps, scopes, stores>>

YieldValue ==
    /\ Here.generator # 0
    /\ Back
    /\ generators' = [generators EXCEPT ![Here.generator] = [frame |-> Here, state |-> "ready"]]

-----------------------------------------------------------------------------
(* The module's frame: execute.                                            *)
CallInit ==
    /\ source \in Sources
    /\ frames = <<[code |-> MainCode, locals |-> NoValues, globals |-> NoValues, cells |-> 0, scope |-> 1,
                   generator |-> 0, vm |-> 1, known |-> {}, until |-> 0]>>
    /\ functions = <<>> /\ cellMaps = <<>> /\ generators = <<>>
    /\ depths = <<0>> /\ unbalanced = <<0>>
    /\ scopes = <<[code |-> MainCode, inside |-> 0, vars |-> [n \in Identifiers |-> NoVariable]]>>
    /\ stores = 0 /\ bound = NoCall

CallNext ==
    \/ \E n \in Identifiers : Store(n)
    \/ \E c \in Codes : MakeFunction(c)
    \/ Call
    \/ Leave
    \/ \E g \in DOMAIN generators : Resume(g)
    \/ YieldValue

CallSpec == CallInit /\ [][CallNext]_callVars

-----------------------------------------------------------------------------
CallsTypeOK ==
    /\ source \in Sources
    /\ Len(depths) = Len(unbalanced) /\ \A v \in DOMAIN depths : depths[v] \in 0 .. DepthLimit
    /\ \A i \in DOMAIN frames :
          /\ frames[i].cells \in 0 .. Len(cellMaps) /\ frames[i].vm \in DOMAIN depths
          /\ Cellvars(frames[i].code) \cup Freevars(frames[i].code) # {} => frames[i].cells # 0
    /\ {generators[g].state : g \in DOMAIN generators} \subseteq {"ready", "running", "done"}

(* call_rust_function: of a call Python accepts each parameter gets what   *)
(* Python gives it, and a call that lacks an argument fails.  (Left out:   *)
(* keyword-only parameters that are not given, or beside a ** parameter.)  *)
ArgumentsBound == bound.judged => bound.got = bound.want

(* Each function around one that declares n nonlocal declares it too, or   *)
(* binds it and has no such variable of its own.  (Functions in one        *)
(* another share a cell map by name, and a second n among them is another.)*)
Shares(n) ==
    \A c \in Codes :
        n \in Cellvars(c) => n \in Freevars(c) \/ (n \in Varnames(c) /\ Freevars(c) = {})

(* Whether a use of n in the frame that runs is one the code promises to   *)
(* get right: its own variable, if no inner function has written it; one   *)
(* that is `nonlocal` all the way from its owner; one written once, before *)
(* the functions around the use were made, or in the module, before it     *)
(* called, under a name of its own.                                        *)
Promised(n) ==
    LET o == Owner(Here.scope, n)
        v == Variable(Here.scope, n)
    IN  IF n \in Freevars(Here.code) THEN Shares(n)
        ELSE IF n \in Varnames(Here.code) THEN ~v.foreign
        ELSE /\ v.value # Null /\ v.once /\ ~v.foreign
             /\ \/ <<o, n>> \in Here.known
                \/ /\ o = 1 /\ v.first <= Here.until
                   /\ \A c \in Codes \ {MainCode} : n \notin Varnames(c)

(* LoadName, LoadFast and LoadDeref: the value is that of the variable     *)
(* Python's scopes give the name, though frames have copies of the names   *)
(* around them and of their callers'.                                      *)
NamesResolve ==
    \A n \in Identifiers : Promised(n) => FoundIn(Here, n) = Variable(Here.scope, n).value

(* call_depth counts the calls that run and those that lacked an argument, *)
(* of one VM, and nothing else.                                            *)
DepthExact ==
    \A v \in DOMAIN depths :
        depths[v] = unbalanced[v] +
            Cardinality({i \in 2 .. Len(frames) : frames[i].vm = v /\ frames[i].generator = 0})

(* call_rust_function binds the arguments as Python does, uses of names in *)
(* the frames it makes find the variables Python means, and call_depth is  *)
(* the number of calls, but for one path.                                  *)
CallsAsPython == ArgumentsBound /\ NamesResolve /\ DepthExact
=============================================================================
