------------------------------- MODULE Import -------------------------------
(***************************************************************************)
(* Importing modules: the C registry behind sys.modules                    *)
(* (module/registry.rs), the interpreter's own cache, the loading of C      *)
(* extensions (ffi/import.rs), of Python sources (import_py_source) and the *)
(* IMPORT_NAME, IMPORT_FROM and IMPORT_STAR instructions                    *)
(* (vm/interpreter.rs).                                                     *)
(*                                                                         *)
(* A program is a set of files and one list of statements per thread.  The *)
(* thread that holds the GIL runs the frame on top of its stack: a script  *)
(* or the body of a Python module (run by the interpreter), or C code (the *)
(* initialiser of an extension, or a thread of an extension).  A thread    *)
(* hands the GIL over only in a "yield" statement, a call into C code that  *)
(* releases it, and when its stack is empty.                               *)
(***************************************************************************)
EXTENDS Common, Integers, Sequences, SequencesExt, FiniteSetsExt

CONSTANTS
    Names,       \* the modules that statements name
    Parent,      \* [Names -> Names or Null]: the package before the last dot
    Leaf,        \* [Names -> Attrs]: the part after the last dot
    Attrs,       \* what modules and frames bind
    Private,     \* those that start with an underscore
    Mods,        \* module objects
    Programs,    \* the programs an initial state may hold
    MaxFrames    \* bound on the frames of a stack

VARIABLES
    program,     \* [files: [Names -> File], scripts: [Threads -> Frame code]]
    gil,         \* the thread that holds the GIL
    stack,       \* [Threads -> Seq(Frame)], the running frame last
    registry,    \* [Names -> Mods or Null], registry.modules and sys.modules
    cache,       \* [Names -> Mods or Null], PY_MODULE_CACHE
    dict,        \* [Mods -> [Attrs -> value]], the __dict__ of a module
    refs,        \* [Mods -> Nat], 0 for a module not created
    lost,        \* [Mods -> Nat], references no owner is left for
    finished     \* the modules whose Python body ran to its end

Statements == [op : {"import", "from", "star", "assign", "raise", "may_raise", "yield", "add"},
               name : Names, attr : Attrs, guarded : BOOLEAN]

SourceFiles ==
    [extension : BOOLEAN, init : Seq(Statements), source : {"none", "bad", "good"},
     body : Seq(Statements), builtin : BOOLEAN, defines : Attrs, all : SUBSET Attrs]

ASSUME ModulesAssumption ==
    /\ IsFiniteSet(Names) /\ IsFiniteSet(Attrs) /\ IsFiniteSet(Mods) /\ IsFiniteSet(Threads)
    /\ Null \notin Names /\ Null \notin Mods /\ Data \notin Mods /\ Data # Null
    /\ Parent \in [Names -> Names \cup {Null}] /\ Leaf \in [Names -> Attrs]
    /\ MaxFrames \in Nat \ {0}

ASSUME ProgramsAssumption ==
    \A p \in Programs :
        p.files \in [Names -> SourceFiles] /\ p.scripts \in [Threads -> Seq(Statements)]

importVars == <<program, gil, stack, registry, cache, dict, refs, lost, finished>>

Values == Mods \cup {Null, Data}
Empty  == [a \in Attrs |-> Null]

(* The packages around n, outermost first: "a" and "a.b" for "a.b.c".      *)
Ancestors[n \in Names] ==
    IF Parent[n] = Null THEN <<>> ELSE Append(Ancestors[Parent[n]], Parent[n])

(* A dotted name is its package and its leaf, and its package is shorter.  *)
ASSUME NamesAssumption ==
    /\ \A m, n \in Names : Parent[m] = Parent[n] /\ Leaf[m] = Leaf[n] => m = n
    /\ \E dots \in [Names -> 0 .. Cardinality(Names)] :
          \A n \in Names : Parent[n] # Null => dots[Parent[n]] < dots[n]

Frame(kind, name, mod, code) ==
    [kind |-> kind, name |-> name, mod |-> mod, code |-> code, pc |-> 1,
     locals |-> Empty, stage |-> "run", todo |-> <<>>, got |-> <<>>]

Top(t)        == Last(stack[t])
Statement(f)  == f.code[f.pc]
ByVm(f)       == f.kind # "c"
Ended(f)      == f.stage = "run" /\ f.pc > Len(f.code)
Fresh         == CHOOSE m \in Mods : refs[m] = 0
HasFresh      == \E m \in Mods : refs[m] = 0

(* How many references to m the values of a table or a sequence are, and   *)
(* the values of all the dicts.                                            *)
InTable(f, m) == Cardinality({x \in DOMAIN f : f[x] = m})
InDicts(d, m) == Cardinality({p \in Mods \X Attrs : d[p[1]][p[2]] = m})

(* A statement that failed: caught by the try around it, or the frame ends. *)
Failed(f) ==
    IF Statement(f).guarded
    THEN [f EXCEPT !.pc = @ + 1, !.stage = "run", !.todo = <<>>, !.got = <<>>]
    ELSE [f EXCEPT !.stage = "failed", !.todo = <<>>, !.got = <<>>]

(* The import of Head(todo) returned m, a new reference.                   *)
Received(f, m) ==
    [f EXCEPT !.stage = "find", !.todo = Tail(@), !.got = Append(@, m)]

(* PyImport_ImportModule returned NULL: the interpreter goes on to the     *)
(* Python sources, C code has nothing else to try.                         *)
NotFound(f) == IF ByVm(f) THEN [f EXCEPT !.stage = "source"] ELSE Failed(f)

SetTop(t, f) == stack' = [stack EXCEPT ![t] = Append(Front(@), f)]
Push(t, f)   == stack' = [stack EXCEPT ![t] = Append(@, f)]

(* The frame on top is gone, the one below it becomes After(frame).        *)
Pop(t, After(_)) ==
    stack' = [stack EXCEPT ![t] =
        IF Len(@) = 1 THEN <<>>
        ELSE Append(SubSeq(@, 1, Len(@) - 2), After(@[Len(@) - 1]))]

-----------------------------------------------------------------------------
(* Mutant: the dict takes no reference of its own.                         *)
RegisterOnce(n, m, created) ==
    /\ registry' = [registry EXCEPT ![n] = m]
    /\ LET old == registry[n] IN
       /\ refs' = [x \in Mods |-> refs[x] + (IF x = m THEN created + 1 ELSE 0)
                                          - (IF x = old THEN 1 ELSE 0)]
       /\ lost' = [x \in Mods |-> lost[x] + (IF x = old THEN 1 ELSE 0)]

(* register_module: one reference for the map and one for the dict.  The   *)
(* dict releases what it held, the map forgets it.                         *)
Register(n, m, created) ==
    /\ registry' = [registry EXCEPT ![n] = m]
    /\ LET old == registry[n] IN
       /\ refs' = [x \in Mods |-> refs[x] + (IF x = m THEN created + 2 ELSE 0)
                                          - (IF x = old THEN 1 ELSE 0)]
       /\ lost' = [x \in Mods |-> lost[x] + (IF x = old THEN 1 ELSE 0)]

(* The statement at the pc imports something: IMPORT_NAME starts with the  *)
(* module itself and comes to its packages afterwards; C code calls        *)
(* PyImport_ImportModule.                                                  *)
BeginImport(t) ==
    LET f == Top(t) IN
    /\ f.stage = "run" /\ ~Ended(f)
    /\ Statement(f).op \in {"import", "from", "star"}
    /\ SetTop(t, [f EXCEPT !.stage = "find",
                           !.todo = <<Statement(f).name>> \o
                               (IF ByVm(f) THEN Ancestors[Statement(f).name] ELSE <<>>)])
    /\ UNCHANGED <<program, gil, registry, cache, dict, refs, lost, finished>>

(* Mutant: it looks in the cache only, where no extension is.              *)
LoadedCached(f) == cache[Head(f.todo)]

(* What the look-up of the next module finds: the cache for a package of   *)
(* the imported module, else the registry.                                 *)
Loaded(f) ==
    LET n == Head(f.todo)
    IN  IF f.got # <<>> /\ cache[n] # Null THEN cache[n] ELSE registry[n]

Looking(f) == f.stage = "find" /\ f.todo # <<>>

FindLoaded(t) ==
    LET f == Top(t) IN
    /\ Looking(f) /\ Loaded(f) # Null
    /\ refs' = [refs EXCEPT ![Loaded(f)] = @ + 1]
    /\ SetTop(t, Received(f, Loaded(f)))
    /\ UNCHANGED <<program, gil, registry, cache, dict, lost, finished>>

(* load_extension: dlopen, then the initialiser, which PyModuleDef_Init    *)
(* starts by creating the module.  The name is not registered meanwhile.   *)
LoadExtension(t) ==
    LET f == Top(t)  n == Head(f.todo) IN
    /\ Looking(f) /\ Loaded(f) = Null
    /\ program.files[n].extension
    /\ Len(stack[t]) < MaxFrames /\ HasFresh
    /\ refs' = [refs EXCEPT ![Fresh] = 1]
    /\ dict' = [dict EXCEPT ![Fresh] = Empty]
    /\ Push(t, Frame("c", n, Fresh, program.files[n].init))
    /\ UNCHANGED <<program, gil, registry, cache, lost, finished>>

NoExtension(t) ==
    LET f == Top(t) IN
    /\ Looking(f) /\ Loaded(f) = Null
    /\ ~program.files[Head(f.todo)].extension
    /\ SetTop(t, NotFound(f))
    /\ UNCHANGED <<program, gil, registry, cache, dict, refs, lost, finished>>

(* The initialiser returned its module: only now is it registered.         *)
InitReturns(t) ==
    LET f == Top(t) IN
    /\ f.kind = "c" /\ f.mod # Null /\ Ended(f)
    /\ Register(f.name, f.mod, 0)
    /\ Pop(t, LAMBDA g : Received(g, f.mod))
    /\ UNCHANGED <<program, gil, cache, dict, finished>>

(* It returned NULL: the error it set is fetched and dropped, the module   *)
(* PyModuleDef_Init created keeps the reference it was created with.       *)
InitFails(t) ==
    LET f == Top(t) IN
    /\ f.kind = "c" /\ f.mod # Null /\ f.stage = "failed"
    /\ lost' = [lost EXCEPT ![f.mod] = @ + 1]
    /\ Pop(t, NotFound)
    /\ UNCHANGED <<program, gil, registry, cache, dict, refs, finished>>

-----------------------------------------------------------------------------
(* import_py_source, for the module at the head of todo.                    *)
AtSource(f) == f.stage = "source"

SourceCached(t) ==
    LET f == Top(t)  m == cache[Head(f.todo)] IN
    /\ AtSource(f) /\ m # Null
    /\ refs' = [refs EXCEPT ![m] = @ + 1]
    /\ SetTop(t, Received(f, m))
    /\ UNCHANGED <<program, gil, registry, cache, dict, lost, finished>>

(* A module of the standard library the interpreter makes up.              *)
MakeBuiltin(t) ==
    LET f == Top(t)  n == Head(f.todo) IN
    /\ AtSource(f) /\ cache[n] = Null
    /\ program.files[n].builtin /\ HasFresh
    /\ cache' = [cache EXCEPT ![n] = Fresh]
    /\ Register(n, Fresh, 2)
    /\ dict' = [dict EXCEPT ![Fresh] = [Empty EXCEPT ![program.files[n].defines] = Data]]
    /\ SetTop(t, Received(f, Fresh))
    /\ UNCHANGED <<program, gil, finished>>

(* Neither name.py nor name/__init__.py, or one that does not compile.     *)
NoSource(t) ==
    LET f == Top(t)  n == Head(f.todo) IN
    /\ AtSource(f) /\ cache[n] = Null
    /\ ~program.files[n].builtin /\ program.files[n].source # "good"
    /\ SetTop(t, Failed(f))
    /\ refs' = [m \in Mods |-> refs[m] - InTable(f.got, m)]
    /\ UNCHANGED <<program, gil, registry, cache, dict, lost, finished>>

(* Mutant: the module is in no table while its body runs.                  *)
RunSourceUnbound(t) ==
    LET f == Top(t)  n == Head(f.todo) IN
    /\ AtSource(f) /\ cache[n] = Null
    /\ ~program.files[n].builtin /\ program.files[n].source = "good"
    /\ Len(stack[t]) < MaxFrames /\ HasFresh
    /\ refs' = [refs EXCEPT ![Fresh] = 1]
    /\ dict' = [dict EXCEPT ![Fresh] = Empty]
    /\ Push(t, Frame("body", n, Fresh, program.files[n].body))
    /\ UNCHANGED <<program, gil, registry, cache, lost, finished>>

(* The module is cached and registered before its body runs.               *)
RunSource(t) ==
    LET f == Top(t)  n == Head(f.todo) IN
    /\ AtSource(f) /\ cache[n] = Null
    /\ ~program.files[n].builtin /\ program.files[n].source = "good"
    /\ Len(stack[t]) < MaxFrames /\ HasFresh
    /\ cache' = [cache EXCEPT ![n] = Fresh]
    /\ Register(n, Fresh, 2)
    /\ dict' = [dict EXCEPT ![Fresh] = Empty]
    /\ Push(t, Frame("body", n, Fresh, program.files[n].body))
    /\ UNCHANGED <<program, gil, finished>>

(* Mutant: the variables take the place of the dict.                       *)
WithLocalsOnly(d, locals) == locals

(* What the module's dict holds once the frame's variables are added.      *)
WithLocals(d, locals) == [a \in Attrs |-> IF locals[a] # Null THEN locals[a] ELSE d[a]]

(* The body ended: its variables go to the module's dict and the frame is  *)
(* dropped; the importer gets the handle import_py_source holds.           *)
BodyReturns(t) ==
    LET f == Top(t)  after == WithLocals(dict[f.mod], f.locals) IN
    /\ f.kind = "body" /\ Ended(f)
    /\ dict' = [dict EXCEPT ![f.mod] = after]
    /\ refs' = [m \in Mods |-> refs[m] + InTable(after, m)
                                       - InTable(dict[f.mod], m) - InTable(f.locals, m)]
    /\ finished' = finished \cup {f.mod}
    /\ Pop(t, LAMBDA g : Received(g, f.mod))
    /\ UNCHANGED <<program, gil, registry, cache, lost>>

(* The body raised: the error leaves import_py_source through its `?`, and *)
(* the module stays in both tables, its dict without a name of the body.   *)
BodyFails(t) ==
    LET f == Top(t)  below == stack[t][Len(stack[t]) - 1] IN
    /\ f.kind = "body" /\ f.stage = "failed"
    /\ Pop(t, Failed)
    /\ refs' = [m \in Mods |-> refs[m] - InTable(f.locals, m) - InTable(below.got, m)
                                       - (IF m = f.mod THEN 1 ELSE 0)]
    /\ UNCHANGED <<program, gil, registry, cache, dict, lost, finished>>

-----------------------------------------------------------------------------
(* The chain of packages of an import by the interpreter, outermost first, *)
(* and the dicts once each module is bound in the one before it.           *)
Chain(f) == Tail(f.got) \o <<Head(f.got)>>

Bound(f) ==
    LET chain == Chain(f)
        names == Ancestors[Statement(f).name] \o <<Statement(f).name>>
    IN  [m \in Mods |-> [a \in Attrs |->
          LET at == {i \in 1 .. Len(chain) - 1 : chain[i] = m /\ Leaf[names[i + 1]] = a}
          IN  IF at = {} THEN dict[m][a] ELSE chain[Max(at) + 1]]]

(* The names `*` stands for: those __all__ lists, else all that do not     *)
(* start with an underscore.                                               *)
Exported(n, d) ==
    {a \in IF d["__all__"] # Null THEN program.files[n].all ELSE Attrs \ Private :
        d[a] # Null}

(* What the statement makes of the module: `import` binds the outermost    *)
(* package, `from` one name of the module, `*` every public name.          *)
Bindings(f, d) ==
    LET s == Statement(f)  leaf == Head(f.got)
    IN  CASE s.op = "import" -> [f.locals EXCEPT ![s.attr] = Head(Chain(f))]
          [] s.op = "from"   -> [f.locals EXCEPT ![s.attr] = d[leaf][s.attr]]
          [] s.op = "star"   -> [a \in Attrs |-> IF a \in Exported(s.name, d[leaf])
                                                THEN d[leaf][a] ELSE f.locals[a]]

Missing(f, d) == Statement(f).op = "from" /\ d[Head(f.got)][Statement(f).attr] = Null

(* Every module of the statement is there: the interpreter binds the       *)
(* submodules in their packages, then the names in the frame.  C code only *)
(* releases the module.                                                    *)
FinishImport(t) ==
    LET f == Top(t)
        d == IF ByVm(f) THEN Bound(f) ELSE dict
        g == CASE ~ByVm(f) -> [f EXCEPT !.pc = @ + 1, !.stage = "run", !.got = <<>>]
               [] ByVm(f) /\ Missing(f, d) -> Failed(f)
               [] OTHER    -> [f EXCEPT !.pc = @ + 1, !.stage = "run", !.got = <<>>,
                                        !.locals = Bindings(f, d)]
    IN  /\ f.stage = "find" /\ f.todo = <<>>
        /\ dict' = d
        /\ SetTop(t, g)
        /\ refs' = [m \in Mods |->
              refs[m] + InTable(g.locals, m) - InTable(f.locals, m) - InTable(f.got, m)
                + InDicts(d, m) - InDicts(dict, m)]
        /\ UNCHANGED <<program, gil, registry, cache, lost, finished>>

-----------------------------------------------------------------------------
(* The other statements.  C code binds in the dict of its own module.      *)
Assign(t) ==
    LET f == Top(t)  a == Statement(f).attr
        old == IF ByVm(f) THEN f.locals[a] ELSE dict[f.mod][a]
        g == [f EXCEPT !.pc = @ + 1]
    IN  /\ f.stage = "run" /\ ~Ended(f) /\ Statement(f).op = "assign"
        /\ IF ByVm(f)
           THEN SetTop(t, [g EXCEPT !.locals[a] = Data]) /\ UNCHANGED dict
           ELSE SetTop(t, g) /\ dict' = [dict EXCEPT ![f.mod][a] = Data]
        /\ refs' = [m \in Mods |-> refs[m] - (IF m = old THEN 1 ELSE 0)]
        /\ UNCHANGED <<program, gil, registry, cache, lost, finished>>

(* A statement that raises, or C code whose outcome is not known.          *)
Raise(t) ==
    LET f == Top(t) IN
    /\ f.stage = "run" /\ ~Ended(f)
    /\ Statement(f).op \in {"raise", "may_raise"}
    /\ SetTop(t, Failed(f))
    /\ UNCHANGED <<program, gil, registry, cache, dict, refs, lost, finished>>

Succeed(t) ==
    LET f == Top(t) IN
    /\ f.stage = "run" /\ ~Ended(f) /\ Statement(f).op = "may_raise"
    /\ SetTop(t, [f EXCEPT !.pc = @ + 1])
    /\ UNCHANGED <<program, gil, registry, cache, dict, refs, lost, finished>>

(* A call that releases the GIL: any thread may run before this one does.  *)
Yield(t) ==
    LET f == Top(t) IN
    /\ f.stage = "run" /\ ~Ended(f) /\ Statement(f).op = "yield"
    /\ SetTop(t, [f EXCEPT !.pc = @ + 1])
    /\ \E u \in Threads : (u = t \/ stack[u] # <<>>) /\ gil' = u
    /\ UNCHANGED <<program, registry, cache, dict, refs, lost, finished>>

(* PyImport_AddModule: an empty module under a name not registered yet.    *)
(* It is returned borrowed: no one owns the reference it was created with. *)
AddModule(t) ==
    LET f == Top(t)  n == Statement(f).name IN
    /\ f.stage = "run" /\ ~Ended(f) /\ Statement(f).op = "add"
    /\ SetTop(t, [f EXCEPT !.pc = @ + 1])
    /\ IF registry[n] # Null THEN UNCHANGED <<registry, dict, refs, lost>>
       ELSE /\ HasFresh
            /\ registry' = [registry EXCEPT ![n] = Fresh]
            /\ dict' = [dict EXCEPT ![Fresh] = Empty]
            /\ refs' = [refs EXCEPT ![Fresh] = 3]
            /\ lost' = [lost EXCEPT ![Fresh] = 1]
    /\ UNCHANGED <<program, gil, cache, finished>>

(* The outermost frame of a thread ends; the GIL goes to another thread.   *)
EndThread(t) ==
    LET f == Top(t) IN
    /\ Len(stack[t]) = 1 /\ (Ended(f) \/ f.stage = "failed")
    /\ stack' = [stack EXCEPT ![t] = <<>>]
    /\ refs' = [m \in Mods |-> refs[m] - InTable(f.locals, m)]
    /\ \/ \E u \in Threads \ {t} : stack[u] # <<>> /\ gil' = u
       \/ (\A u \in Threads \ {t} : stack[u] = <<>>) /\ UNCHANGED gil
    /\ UNCHANGED <<program, registry, cache, dict, lost, finished>>

-----------------------------------------------------------------------------
ImportInit ==
    /\ program \in Programs
    /\ gil \in Threads
    /\ stack = [t \in Threads |-> <<Frame("script", Null, Null, program.scripts[t])>>]
    /\ registry = [n \in Names |-> Null]
    /\ cache = [n \in Names |-> Null]
    /\ dict = [m \in Mods |-> Empty]
    /\ refs = [m \in Mods |-> 0]
    /\ lost = [m \in Mods |-> 0]
    /\ finished = {}

Step(t) ==
    \/ BeginImport(t) \/ FindLoaded(t) \/ LoadExtension(t) \/ NoExtension(t)
    \/ InitReturns(t) \/ InitFails(t)
    \/ SourceCached(t) \/ MakeBuiltin(t) \/ NoSource(t) \/ RunSource(t)
    \/ BodyReturns(t) \/ BodyFails(t) \/ FinishImport(t)
    \/ Assign(t) \/ Raise(t) \/ Succeed(t) \/ Yield(t) \/ AddModule(t) \/ EndThread(t)

ImportNext == stack[gil] # <<>> /\ Step(gil)

ImportSpec == ImportInit /\ [][ImportNext]_importVars /\ WF_importVars(ImportNext)

-----------------------------------------------------------------------------
Frames == UNION {Range(stack[t]) : t \in Threads}

ImportTypeOK ==
    /\ program \in Programs
    /\ gil \in Threads
    /\ \A t \in Threads : Len(stack[t]) <= MaxFrames
    /\ \A f \in Frames :
          /\ f.kind \in {"script", "body", "c"}
          /\ f.mod \in Mods \cup {Null} /\ f.name \in Names \cup {Null}
          /\ f.stage \in {"run", "find", "source", "failed"}
          /\ f.locals \in [Attrs -> Values]
          /\ f.todo \in Seq(Names) /\ f.got \in Seq(Mods)
    /\ registry \in [Names -> Mods \cup {Null}]
    /\ cache \in [Names -> Mods \cup {Null}]
    /\ dict \in [Mods -> [Attrs -> Values]]
    /\ refs \in [Mods -> Nat] /\ lost \in [Mods -> Nat]
    /\ finished \subseteq Mods

(* Every reference to a module has an owner: the two tables, twice for the *)
(* registry, the dicts, the frames' variables and half-done imports, the   *)
(* frame that runs its body or initialiser; the rest are the ones that the *)
(* code is known to lose.                                                  *)
HeldBy(f, m) ==
    ({"locals"} \X {a \in Attrs : f.locals[a] = m})
      \cup ({"got"} \X {i \in DOMAIN f.got : f.got[i] = m})
      \cup (IF f.mod = m THEN {<<"module", 1>>} ELSE {})
HeldInStack(frames, m) == UNION {{i} \X HeldBy(frames[i], m) : i \in DOMAIN frames}
HeldInStacks(s, m)     == UNION {{t} \X HeldInStack(s[t], m) : t \in Threads}

Owners(m) ==
    2 * InTable(registry, m) + InTable(cache, m) + InDicts(dict, m)
      + Cardinality(HeldInStacks(stack, m))

ModuleRefsExact == \A m \in Mods : refs[m] = Owners(m) + lost[m]

(* A module whose body ran to its end has every name the body binds, under *)
(* whichever name it is imported.                                          *)
FinishedComplete ==
    \A n \in Names : registry[n] \in finished =>
        \A i \in DOMAIN program.files[n].body :
            LET s == program.files[n].body[i] IN
            s.op \in {"assign", "import", "from"} /\ ~s.guarded
                => dict[registry[n]][s.attr] # Null

(* Only import_py_source registers n: it is no extension's name, and none   *)
(* adds a module of that name.                                             *)
Instructions ==
    UNION ({Range(program.scripts[t]) : t \in Threads}
      \cup {Range(program.files[k].init) : k \in Names}
      \cup {Range(program.files[k].body) : k \in Names})
FromSource(n) ==
    /\ ~program.files[n].extension
    /\ \A s \in Instructions : s.op = "add" => s.name # n

(* The body of the package of n has no variable of its own named like n.   *)
Settled(n) ==
    /\ FromSource(n) /\ FromSource(Parent[n])
    /\ \A s \in Range(program.files[Parent[n]].body) :
          /\ s.op # "star"
          /\ s.op \in {"assign", "import", "from"} => s.attr # Leaf[n]

(* Once `import a.b` of Python modules has succeeded in a frame, the        *)
(* package a has b as its attribute, whatever runs or ends afterwards.     *)
SubmodulesBound ==
    \A f \in Frames : \A i \in 1 .. f.pc - 1 :
        LET s == f.code[i]  n == s.name IN
        ByVm(f) /\ s.op \in {"import", "from"} /\ ~s.guarded /\ Parent[n] # Null /\ Settled(n)
            => dict[registry[Parent[n]]][Leaf[n]] = registry[n]

ImportsBind == FinishedComplete /\ SubmodulesBound

(* Every import comes to an end, cycles of Python modules included.        *)
AllEnd == <>(\A t \in Threads : stack[t] = <<>>)

(* The imports of n that found it unbound and have not bound it yet: its    *)
(* initialiser runs, or its source is to be looked for.                    *)
Searches(frames, i, n) ==
    LET f == frames[i] IN
    \/ f.kind = "c" /\ f.name = n
    \/ i = Len(frames) /\ AtSource(f) /\ Head(f.todo) = n
Opened(n) == Cardinality({p \in Threads \X (1 .. MaxFrames) :
                 p[2] \in DOMAIN stack[p[1]] /\ Searches(stack[p[1]], p[2], n)})

ModuleTable == INSTANCE ImportContract WITH
    table  <- registry,
    opened <- [n \in Names |-> Opened(n)],
    Absent <- Null

(* A name is bound to a new module before the module's Python code runs,   *)
(* and bound again only by an import that began before it was bound.       *)
ImplementsModuleTable == ModuleTable!Spec
=============================================================================
