# A TLA+ model of Rustthon

Rustthon is a Python interpreter in Rust whose objects, locks and C API have
the layout and the names of CPython 3.11, so that C extensions built for
CPython load into it. This directory holds TLA+ modules of the parts whose
correctness depends on histories rather than on single calls, the TLC
configurations that check them, and proofs for TLAPS.

Paths such as `gc.rs` are in the repository's `src/`; `PROJECT.json` maps every
definition to its lines.

## 1. Inventory

| Part | State it keeps | Operations | What is hard | Correct means |
|---|---|---|---|---|
| **GIL** (`runtime/gil.rs`) | one mutex, a depth and a guard per thread, the queue of pending decrefs | `acquire_gil`, `release_gil`, `with_gil`, `PyGILState_Ensure/Release`, `PyEval_SaveThread/RestoreThread`, `queue_decref`, `flush_pending_decrefs` | threads of an extension nest the regions in any order; drops without the lock race with drains | two threads never use Python at once; no decrement lost or doubled; waiters get through |
| **Handles** (`object/pyobject.rs`) | `ob_refcnt` | alloc, clone, drop (decref now, or queue) | drop on a thread without the lock | the count is the number of references |
| **Collector** (`object/gc.rs`, `refcount.rs`) | set of tracked objects, scan counts and marks in the GC head, `collecting` | `_PyObject_GC_New`, Track, UnTrack, Del, `gc_collect_impl`, finalizers | finalizers resurrect, link and free in the middle; deallocation of some kinds cascades, of others does not | only garbage goes, all of it; no dangling reference |
| **Compiler** (`compiler/`) | instructions with jump targets, loop stack | one function per statement and expression | nested loops, handlers and finally suites; jumps patched later | the code means what the program means |
| **Eval loop** (`vm/interpreter.rs`, `vm/frame.rs`) | value stack, block stack, instruction pointer, saved exception, name spaces | one arm per opcode; unwinding | an exception at any instruction, in any nesting of blocks | the stack fits the code; the right handler runs; it ends |
| **Functions, generators** (`vm/interpreter.rs`, `compiler/`) | function and generator records behind tagged ints, copies of name spaces, cell maps shared by frames, `call_depth` | `MakeFunction`, `call_rust_function`, `execute_vm_function`, `resume_generator`, loads and stores of names | names are copied when a function is made and when it is called; every way out of a call must restore the depth | arguments and names mean what Python says; the depth is the number of calls |
| **Dict, set** (`types/dict.rs`, `set.rs`) | index table, entries, `ma_used` | insert, find, delete, iterate, merge | resize, tombstones, iteration under change, deallocators called between two writes | a finite map / set in insertion order; probing ends |
| **List, tuple** (`types/list.rs`, `tuple.rs`) | items, size, capacity | append, insert, slices, set | growth, who owns the reference | a sequence; one reference per slot |
| **Integers, strings, bytes, floats** (`types/`) | digits, text | conversions, arithmetic | widths, narrowing, surrogates | value preserved or error set |
| **Modules and import** (`types/moduleobject.rs`, `module/registry.rs`, `ffi/import.rs`, `import_py_source`) | the registry and `sys.modules`, the interpreter's cache, open libraries | look up, `dlopen`, `PyInit_*`, run a source, register, bind | circular imports; failure half-way; threads that run inside an initialiser | one module bound to a name; a finished import binds what it promised; references counted |
| **Thread and interpreter states** (`runtime/thread_state.rs`, `interp.rs`) | list of thread states, `CURRENT_TSTATE` | new, swap, clear, delete, initialise, finalise | creation and deletion from several threads | the current state is alive and on its own thread |
| **Error indicator** (`runtime/error.rs`, `pyerr.rs`) | `curexc_*` of the thread state | set, fetch, restore, clear | ownership of three references across C and Rust | an error is reported once, its references owned once |
| **Types** (`object/typeobj.rs`, `build_class`) | slots, bases, dicts, sizes of type objects | `PyType_Ready`, types from specs, exceptions, classes, attribute look-ups | readied in any order; four look-ups that walk differently; offsets computed from several bases | slots of the nearest base; look-ups agree; no field over another |
| **Object protocol, safe wrappers, buffers, arguments, panic guard** (`ffi/`, `object/safe_api.rs`, `csrc/varargs.c`) | none of their own | dispatch to slots, conversions | error paths | — |

How they interact: the eval loop runs with the GIL held by `execute_code`
(`lib.rs`) and calls into the object protocol; every value it moves is a
`PyObjectRef`, whose drop asks the GIL whether it may decrement; deallocators
untrack from the collector; the collector calls `tp_traverse`, `tp_clear` and
finalizers, which call back into everything; extensions call `PyGILState_Ensure`
on threads of their own.

## 2. Modules

| Module | Models |
|---|---|
| `Gil` | `gil.rs` and the handles of `pyobject.rs`, one action per lock operation |
| `GilContract` | what the lock promises: one thread inside, objects reclaimed at zero |
| `MCGil` | instances for TLC |
| `GilProofs` | the inductive invariants of the lock and of the handles, the refinement of `GilContract` |
| `Gc` | `gc.rs`: allocation, references, deallocation, `gc_collect_impl` in steps |
| `MCGc` | instances for TLC |
| `GcProofs` | the invariant of the heap and of the passes of a collection |
| `Compile` | `compile.rs`: statements to instructions |
| `Vm` | `run_frame`, one action per opcode, and the unwinding |
| `PySemantics` | the meaning of the same statements, big-step: the reference |
| `Exec` | `Compile`, `Vm` and `PySemantics` composed; the properties |
| `MCExec` | the programs for TLC |
| `Hashing`, `Entries` | hashes, equality and probing, of dicts and sets; the entries of dicts |
| `Dict`, `Set`, `List` | `dict.rs`; `set.rs`; `list.rs` and `tuple.rs` with the list methods of the eval loop |
| `DictContract`, `SetContract`, `ListContract` | a finite map in the order of insertion; a finite set; a sequence |
| `Containers`, `MCContainers` | one of the three, as `kind` says; an instance for TLC |
| `ContainersProofs` | the inductive invariants of dicts, sets and lists, the refinements of their contracts, and the same of `Containers` |
| `RecursionProofs` | least numbers, and that recursive functions over data exist: what the other proofs have instead of induction |
| `ThreadStates` | `thread_state.rs`, the current state in `gil.rs`, the indicator in `error.rs` and `pyerr.rs` |
| `Import` | `registry.rs`, `import.rs`, `import_py_source` and the import instructions |
| `ImportContract` | what `sys.modules` promises of a name |
| `Common` | the threads and the NULL pointer that the parts of `Runtime` share |
| `Types` | `PyType_Ready`, specs, `PyErr_NewException`, `build_class`, the look-ups |
| `Ints` | `longobject.rs`: digits and conversions; the arithmetic of the eval loop |
| `Calls` | functions: parameters, names, closures, generators, the depth |
| `ImportProofs` | the inductive invariants of `Import`: references, the refinement of `ImportContract`, what imports bind |
| `TypesProofs`, `CallsProofs` | slots, look-ups and layouts of types, and the exactness of integers; arguments, names and the depth of calls |
| `Runtime`, `MCRuntime` | one of `ThreadStates`, `Import`, `Types`, `Ints` and `Calls`, as `part` says; instances for TLC |
| `RuntimeProofs` | the inductive invariants of `ThreadStates`, and what is proved of the five parts, of `Runtime` |

`Containers` and `Runtime` put modules that share no state side by side: a
behaviour picks one in its initial state and the others stay as they are, so
their state spaces add and do not multiply.

### Gil

A thread's `pc` says where it is in `acquire_gil` or `queue_decref`; `scopes`
is the stack of regions it opened, which it closes in the opposite order. The
guard of a region is its caller's contract, not code: an extension that calls
`PyGILState_Release` without `Ensure` is outside the model. `Acquire` is the
test of `GIL_DEPTH`; `Lock` takes the mutex when it is free; `StartFlush`,
`DrainOne` and `EndFlush` are the loop of `flush_pending_decrefs`, one
iteration each; the depth is raised at the end (`Entered`). `DropNow` and
`DropLater` are the branches of `PyObjectRef::drop`, and `QueueDecref` the push
under its own lock. `Reenters` says what a deallocator calls back into.

### Gc

`refs` is what the members of each object refer to, `ext` the references of
the program. `Collect` is the first scan (subtract internal references, mark
from the roots); `Finalize*` actions are what a finalizer may do in the middle;
`EndFinalize` the rescan and the rescue; `ClearOne` and `DropOne` the two
passes over the `HashSet`, in any order. `GiveUp` has the two decrements the
runtime knows: `Py_DECREF`, which deallocates at zero, and
`RawPyObject::decref`, which does not. `Dispose` and `Free` are a deallocator's
beginning and end, with the finalizer called from it between them.

### Compile, Vm, PySemantics, Exec

`Compile!CompileSource` translates a suite (statements as records) to a
sequence of instructions with absolute targets, function by function as
`compile.rs` does; a jump whose target is not known is a placeholder until
`Patch`. `Vm` executes them: `stack`, `blocks`, `saved` and `ip` are the
`Frame` and `saved_exception`, `Fail` is the error branch of `run_frame`.
Values keep what control flow can see: kind, truth, exception type, items left
in an iterator. What a called function answers (true, false, or it raises
`ValueError`) and what a comparison yields is open; `log` records it, and
`PySemantics` replays the same log over the source program.

### Dict

`keys` is the `PyDictKeysObject`, one record of the index table, the entries
and `dk_usable`; `used` is `ma_used`. `find_slot` is `Find` and `FreeSlot`, the
end of its probing and the first dummy on the way. `dict_resize`,
`PyDict_Update` and `PyDict_Copy` are loops of one action per entry (`grown`,
`merge` are what they work on), and a set item that needs a resize ends in
`EndResize`. After `PyDict_Copy` the state is the copy's. `held` counts the
dict's references by the code's increfs and decrefs, not from its entries.
`pos` and `due` are an iteration of a caller, who may delete items and replace
values meanwhile; an insertion ends it.

`DictContract` knows a map as its items and as the pairs of keys of which the
first is older. `Rows`, the entries and, during a copy, what is still to be
copied, show it (`Pairs`, `Older`): a resize is invisible because the entries
stay until it ends, a copy because what it has done and what it has to do make
up the map.

### Set, List

A set's `table` is in the object (`inline`) or one of `heapTables`; `PySet_Add`
resizes first and looks afterwards; `set_resize` is an action per slot
(`old`, `scanned`), between which the members are those of the new table and
those left in the old one. `extend` and repetition are an action per item of
`todo`. A list is an array of `slots` of which the
first `size` count; the C API owns one reference per slot, and `listHeld`
counts them by the increfs and decrefs. The list methods that the eval loop
runs itself (`call_bound_method`) are in the model as they are: `append` and
`insert` take a reference too many, `pop` and `clear` leave one behind,
`l[-1] = x` is ignored and leaks `x`, `remove` does nothing. After one of them
(`methods`) the references are only enough, and no longer exact. `sort` is
stable; `PyList_Sort` does nothing.

### ThreadStates

`current` is `CURRENT_TSTATE`, `saved` what `PyEval_SaveThread` returned, `made`
what `PyThreadState_New` returned, for each thread; `head`, `prev` and `next`
the interpreter's list. An error is known by the thread that raised it and a
number. The guards are the C API's rules, not code: a state is created, cleared
and deleted under the GIL, by the thread that made it, and not while a thread
has it as its current one. (`PyThreadState_Delete` would free it all the same
and leave `CURRENT_TSTATE` dangling.) What a thread without a state sets is
dropped (`Indicator`).

### Import, ImportContract

A program is a set of files and a script per thread; `stack` is each thread's
frames: scripts, bodies of modules, initialisers of extensions. The GIL changes
hands only where C code releases it (`Yield`) or a thread ends. IMPORT_NAME
looks for the module itself first and for its packages afterwards (`todo`),
in the registry, as an extension, in the interpreter's cache and as a source
(`stage`); then the submodules are bound in their packages (`FinishImport`).
`lost` counts the references that the code takes and never gives up:
`register_module` on a name bound before, a failed initialiser's module, the
new module of `PyImport_AddModule`. `ImportContract` lets an import that found a
name unbound bind it later, also over another module: that is what happens
when two threads are in the initialiser of one extension, and nothing else may
rebind a name.

A body that raises leaves its module, empty, in both tables (`BodyFails`), so
that the next import of it succeeds; `ImportsBind` is about bodies that ended.
Of `import a.b` it says that `a` keeps `b` as its attribute, for Python modules
whose package has no variable of that name itself (`Settled`): an extension
registers its name again each time its initialiser returns, `PyImport_AddModule`
in another extension may put a module of its own there, and a variable `b` in
the body of `a` overwrites the submodule when the body ends.

### Types

A slot or an attribute is known by the type that defines it; `own` is what each
type itself defines, and the properties compute from it and the bases what
should be found. `Ready` is `PyType_Ready` with the bases it makes ready on the
way. `build_class` copies the names of its bases into the class (`Merged`) and
works out where the pointer to the dict of an instance goes (`Room`). Three
look-ups walk the types: `TypeLookup` (the interpreter, depth first through
`tp_bases`), `BaseLookup` (the C API, up `tp_base`) and `SuperStart`.

They agree with Python for single inheritance and for several bases without a
common class but `object` (`Plain`, `Single`). Outside of that they do not:
diamonds are walked depth first; a C base's attributes hide those of a second
base; an assignment to a class is not seen by classes made from it before
(`stale`); `super()` in a class that the order does not hold starts at the
instance's own base, which may lead back to the caller. `LayoutsNest` leaves
out a C base of exactly 24 bytes, whose last word the pointer overwrites, and
two C bases, of which one is overwritten.

### Ints

A number is a sign and digits of `Shift` bits; C values have `Width` bits, of
which TLC takes five. A text is a sign and characters, the last first, without
blanks and underscores. `FromString` is `PyLong_FromString`: what a C value holds
is parsed in the base given or said by a prefix (`ParsedWord`), and anything else
is parsed again by `BigInt`, always as a decimal number and with its prefix
(`longobject.rs:520`), or is no integer (`Rejected`). An operation reads its
operands as C values, computes with wrapping arithmetic and makes a new integer.

`IntegersExact` compares with what Python says. The code differs from it, and the
property leaves out:

- unsigned C values above the greatest signed one (`PyLong_FromUnsignedLong`) and
  doubles out of range, whose value changes;
- a number that no C value holds in a base other than 10: all-decimal digits
  become the decimal number, other texts and prefixed ones NULL with no error set;
- a prefix behind a sign (`-0x7`) or in front of digits whose base is given
  (`0x7` in base 16), which give NULL;
- texts that Python rejects: `007` in base 0 is 7 here, and a text that is wrong
  in its base but decimal is read as decimal;
- shift counts outside the width (taken modulo it), `i64::MIN % -1` (panics), and
  powers with an exponent of 64 or more, which are floats here, `1 ** 64` too.

Not modelled are texts with a sign between prefix and digits, and bases outside
2 to 36, at which `from_str_radix` panics.

### Calls

The bodies of functions are not fixed: a frame stores to any name its code
binds, makes any function defined in it, calls any function made, yields or
ends, in any order. `Parameters`, `Freevars`, `Varnames` and `Cellvars` are
what the compiler says of a definition; `frames`, `functions` and `cellMaps`
are the interpreter's, `depths` the `call_depth` of each VM (a generator and a
function called from C have one of their own). `scopes` is the reference: what
Python would have. `Promised` says for which uses of a name the two must
agree: a frame's own variable, a `nonlocal` one whose name the functions share
as `Shares` says, one bound once before the functions around the use were made,
and a name of the module bound before it called. `Shares` is about the whole
program, because functions in one another use one cell map, by name: if a
function between the owner and the use does not declare the name, or one with
`nonlocal` variables of its own binds it for those inside, two variables are in
one cell. The rest differs: a rebinding after a function captured a name, a
write through `nonlocal` in the owner's own view (`frame.rs:17` says it is
visible there), `global`, which is ignored. Of
arguments, the calls Python rejects are not judged, nor keyword-only parameters
that are not given (the code binds None).

A call that lacks an argument does not take `call_depth` back
(`interpreter.rs:2315`): `unbalanced` counts these calls, and `DepthExact` says
that nothing else disturbs the depth.

## 3. Runs

| Run | Checks | Shows |
|---|---|---|
| `gil` | `TypeOK`, `MutualExclusion`, `InsideHoldsGil`, `GilInv`, `RefcountsConserved`, `ReclaimsUnderGil`, `ImplementsContract` | three threads, one object, nesting up to 3, 3 references: the lock excludes and no decrement is lost, and all of it implements `GilContract` |
| `gil_live` | `AcquireCompletes`, `DeferredDecrefsApplied` | two threads, fair: waiters get through, deferred decrements are applied |
| `gil_allow` | `AllowRegionReleases` violated | finding 1 |
| `gil_reenter` | `ReentrantAcquire` violated | finding 2 |
| `gc` | `TypeOK`, `RefcountExact`, `NoDangling`, `ShieldHolds`, `CollectionInvisible`, `FindsAllGarbage`, `CollectsGarbage` | four objects of four kinds, three references between them: the collector takes garbage only and all of it that can be cleared, in any order |
| `gc_snapshot` | `SnapshotAlive` violated | finding 3 |
| `gc_cascade` | `DropsCascade` violated | finding 4 |
| `exec` | `TypeOK`, `BehavesAsPython`, `UnwindRestores`, `EndsClean`, `Halts` | 1507 programs, every answer of their first four calls: the plain ones do what Python says; all end |
| `exec_underflow` | `NeverUnderflows` violated | finding 5 |
| `exec_iter` | `TosIsIterator` violated | finding 6 |
| `containers` | `TypeOK`, `EntriesFound`, `CountsExact`, `HoldsItsMembers`, `IterationComplete`, `ImplementsContracts` | colliding and equal keys, lists and tuples, every order of operations: a map in insertion order, a set, a sequence; probing ends, counts and references are right |
| `runtime` | `TypeOK`; threads: `ListExact`, `StatesPrivate`, `ErrorsStayHome`; imports: `ModuleRefsExact`, `ImportsBind`, `ImplementsModuleTable`, `ImportsEnd`; types: `SlotsInherited`, `LookupsAgree`, `LayoutsNest`; ints: `IntegersExact`; calls: `CallsAsPython` | states and errors stay with their threads; modules are bound once, counted, and every import ends; types hold what their bases define; integers are exact; arguments and names are Python's |

### Bounds

- `gil`: `MaxScopes = 3` reaches every ordered pair of region kinds inside a
  third, the least at which a depth above 1 meets `SaveThread` and comes back;
  three threads are the owner, one in the drain's way and one that drops;
  `MaxRefs = 3` lets one object have an owned, a queued and a moving reference
  at once. The two workers are symmetric. `GilInv` is inductive and proved, so the bound
  does not matter for what follows from it.
- `gc`: four objects are one per kind (cleared with raw decrefs; cleared and
  freed in full; not cleared, with a finalizer; hidden by `tp_is_gc`); three
  references make a cycle of three or a cycle of two with a tail. The two that are
  cleared and have no finalizer make garbage of one object and of two, referring
  to themselves and to each other, once or twice; the passes come to them in
  either order, so that a member's last reference goes by a raw or by a full
  decrement (`CollectsGarbage`). A tuple (raw and not cleared) is in `gc_cascade`.
  `MaxExt = 1`: a second external reference changes no decision, which compare
  with 0. `GarbageGoes` proves `CollectsGarbage` for any number of objects.
- `exec`: programs are one simple statement inside up to three compound ones,
  chosen so that each kind of statement occurs in each part (body, handler,
  else, finally) of each other; `Size = 2` lets a loop repeat once and end;
  after `MaxAsked = 4` open answers, calls answer false, which ends every
  `while`.
- `containers`: dicts are given three distinct keys and one equal to another
  (`DictKeys`) and, in merges, what `Sources` holds, in tables of 4 and 8 slots
  (room for 2 and 5 entries; the code starts at 8): the smaller fills up, with
  and without dummies, and is resized to the same size, to a larger and (after
  deletions) to a smaller one. Sets have tables of 4 (in the object) and 8 slots and six
  distinct keys, enough to fill the first with keys and dummies and to move to
  the heap and back. Lists are up to `MaxLen = 3` long, longer than the first
  growth step, with `MaxRefs = 4` references to an object and `MaxGiven = 2` in a
  sequence that extends them.
- `runtime`, threads: two threads, three states (one each and one in between,
  so that a state is unlinked from the front, the middle and the end), depth 2
  (Ensure inside a region), one error per thread. The theorems of
  `RuntimeProofs` hold for any number of each.
- `runtime`, imports: three programs: packages that import their submodules
  and one another; a cycle that asks for a name, with failing modules;
  extensions that import, add, fail and release the GIL. Two threads, nine
  modules and five frames: an import that ran out of either would stop, and
  `ImportsEnd` would show it. The theorems of `ImportProofs` hold for any
  programs, modules and threads and any bound on the frames.
- `runtime`, types: two programs of six types, which cover each kind as the
  base of each other; up to two bases of one class (`BaseLists`), as with a third
  the same two rules decide again; one attribute, three slots (`tp_init`, which classes
  define and exceptions copy, and two others), one assignment.
- `runtime`, ints: `Width = 5` and `Shift = 2` leave digits that do not divide
  the width, as 64 and 30 do; every C value, and doubles on both sides of each
  limit; 26 texts, with and without signs and prefixes and on both sides of the
  limits, each parsed in the bases 0, 2, 8, 10, 16 and 36; one operation, which
  is all that an integer remembers.
- `runtime`, calls: one program for the binding of arguments (three
  signatures, up to three positional arguments, four keywords), four for
  names: functions three deep that share a variable by `nonlocal`, ones that
  skip a level, ones that read what is around them, generators and callbacks.
  Three to five scopes, two stores, and a depth limit of 3 for 500, which two
  calls that lack an argument and one more reach.

### Fairness

- `Gil!FairSpec`: weak fairness of each thread inside `acquire_gil` and
  `queue_decref` (the scheduler runs threads) and of ending regions; strong
  fairness of `Lock` per thread, as `parking_lot`'s mutex hands over after a
  bounded time to a thread that waits long. Nothing obliges a thread to open a
  region.
- `Exec!FairSpec`: the eval loop runs its next instruction.
- `Runtime!Spec`: weak fairness of `ImportStep`, the step of the thread that
  holds the GIL. A thread that waits needs no fairness of its own: the holder's
  script ends and the GIL goes on.

`CHECK_DEADLOCK FALSE` is set where the model stops by design: a program of
`Exec` or `Import` that has ended, the last read of an integer, types all made,
and `gil_reenter`, whose counterexample is a deadlock.

## 4. Findings

1. `PyEval_SaveThread` at depth 2 or more keeps the mutex (`gil.rs:204`), so a
   `Py_BEGIN_ALLOW_THREADS` region in an extension called by the VM lets no
   thread in.
2. `flush_pending_decrefs` runs deallocators while the depth is still 0; one
   that takes the lock again waits for its own thread.
3. The second scan of a collection reads objects that a finalizer may have
   freed since the first (`gc.rs:468`).
4. `tuple_dealloc` (like the other built-in deallocators) decrements raw: in
   some orders the drop pass leaves a container unreferenced and unfreed.
5. `break` and `continue` out of a `try` leave the handler's block behind; a
   later exception enters it and the value stack underflows.
6. `break` out of a `for` leaves its iterator on the stack; a `for` around it
   takes that one and does not end.

`BehavesAsPython` is about programs `Exec!Plain` admits. It leaves out exactly
the statements of findings 5 and 6 and these, each of which violates the
property when admitted: `break` in a loop with an else suite (the else runs),
`return`/`break`/`continue` through a `finally` (it does not run), a chained
comparison in a `for` (leaves an operand), a bare `raise` (`PopExcept` has
forgotten the exception), `raise T` under a handler list that may not match
(re-raised as a `str`), and handlers inside a finally suite (the original
exception is lost). They are in the programs all the same, for `TypeOK` and
`Halts`, but for a `for` around one that always breaks: it never ends, and only
`exec_iter` (finding 6) runs it.

## 5. Proofs

`GilProofs` proves, for any set of threads and objects, any nesting and any
behaviour of deallocators that `Reenters` can say:

- `GilInvariant`: `Spec => []GilInv`. `MutualExclusion` is not inductive: that a
  thread inside a region owns the mutex depends on its depth, and the depth
  after a `Release` on the regions it was built from. `GilInv` adds `LockInv`
  (a positive depth only in the owner; a thread inside `acquire_gil` is at
  depth 0) and `ScopeInv` (each region records the depth it was opened at, and
  these chain up to the present depth). Lemmas `PushChain` and `PopChain` carry
  the chain through a region's opening and closing; `NextGilInv` has a step per
  action, the long ones with lemmas of their own (`AcquireInv`, `EnteredInv`,
  `ReleaseInv`).
- `TypeCorrect`, `InsideHolds`, `LockExcludes`: consequences of it.
- `ReclaimUnderLock`: objects are reclaimed only by the mutex's owner.

- `RefcountsAddUp`: `ob_refcnt` is the number of handles, of places in the
  queue and of threads about to queue the object. `HandleInv` adds to
  `RefcountsConserved` that these sets are finite: a count of an infinite set
  says nothing. One lemma for each way a reference moves (a handle more or
  less, a place at the end or the head of the queue).
- `LockImplementsContract`: the mutex, the depths and the queue implement
  `GilContract`. `LockStepContract` maps the steps that leave objects alone to Enter,
  Exit or nothing; a drained decrement and `drop` reclaim the object in the
  step in which its last handle is gone, by `RefcountsAddUp`.

Assumptions: `ThreadsAssumption`, `BoundsAssumption`, `ReentersAssumption` and
`CallsAssumption`, all in `Gil` and evaluated by TLC.

`RuntimeProofs` proves of `ThreadStates`, for any set of threads and states and
any number of nested acquisitions and errors:

- `ThreadsKeepTheirStates`: no thread runs with, will take back or has made a
  state that is freed or another's. Inductive with the types: a thread comes by
  a state only when nobody has it (`StepPrivate`).
- `ListStaysExact`: the list is the live states. `ListExact` says it without
  recursion: neighbours point at each other, and every set of live states
  without the head has a member whose `prev` is outside of it, so that no part
  of the list is cut off. `CreateList` and `DeleteList` carry that through the
  two surgeries; a deletion needs it to see that a state is not its own
  neighbour, and that what is left of a list without its head has a new one.
- `ErrorsShowAtHome`: an error shows up in the thread that raised it and
  nowhere else. Not inductive: it says nothing of errors in states that are
  not current, nor why a new error differs from old ones. `ErrorInv` adds that
  the errors in all of a thread's states are its own (`ErrorsOwned`), that none
  has a number its thread has not come to (`ErrorsNumbered`) and that none is
  in two places, freed states included (`ErrorsOnce`). `SetOwnError` is what
  the four operations on the indicator have in common, `NewErrors` what
  creation and deletion have.

Assumptions: `MainAssumption`, `NullAssumption`, `BoundAssumption` in
`ThreadStates`.

`ImportProofs` proves of `Import`, for any modules, packages, programs and
threads:

- `ImportsTyped`: tables, dicts, counts and frames keep their types and no stack
  outgrows its bound.
- `ModuleRefsAddUp`: `ob_refcnt` of a module is the number of its owners and of
  the references that the code loses. `ModuleRefsExact` is not inductive. A new
  module is one whose `refs` is 0, and only the count says that no table, dict
  or frame has it; a reference is given up by a frame, which is on its stack only
  as long as the frames below wait for it (`StacksFit`: a script at the bottom,
  above it the bodies and initialisers that the frames below are looking for,
  each at a statement of its code). `UsedKept` says that a module that a frame
  works with, that the cache has or that has attributes is registered, or run
  by an initialiser, or was lost, and so is never new again; `InitsPrivate` that
  the module of an initialiser is in nobody else's hands. `ImportInv` is their
  conjunction. The owners are the elements of finite sets (`HeldInStacks`), and
  one lemma says what each change of a table, a dict, a frame or a stack does to
  them (`TableSet`, `DictsHold`, `FrameInv`, `StackSet`); each action then adds
  up what it changes (`Balance`).
- `ImportImplementsModuleTable`: every step of `Import` is an Enter, Open or
  Close of `ImportContract` or none of them. `opened` is the number of
  initialisers on the stacks and of running frames that look for a source, which
  a call, a return and the change from one stage to the next keep up to date;
  that the module a `Close` binds has no name yet is `InitsPrivate`, that the
  module of an `Enter` has none is `ModuleRefsAddUp`.
- `ImportsKeepBinding`: `ImportsBind`. That a body has bound its names is, while
  it runs, a fact about its frame's variables (`HasBound`), which are in the
  module's dict only when it ends, together with nothing but what its statements
  bind (`OnlyBound`): so the end of a package's body does not overwrite the
  submodules bound before. What an import has got of each package on the way is
  the module that the cache has for it, however often the GIL changed hands since
  (`Asks`, with `Cached` and `TablesAgree`), so that it binds the submodule in
  the package that later imports find. `BindInv` is their conjunction, over every
  frame of every stack; `CacheGrows`, `KeepsJoined` and `KeepsBound` say what a
  step may not do to the frames that it leaves alone.

Assumptions: `ModulesAssumption`, `ProgramsAssumption` (files and scripts are
statements of the kinds that the compiler emits) and `NamesAssumption` (a dotted
name is its package and its leaf, and a package has fewer dots) in `Import`.

`GcProofs` proves, for any objects of any kinds, any finalizers and any order
in which the passes of a collection visit:

- `CountsStayExact`, `NothingDangles`, `ShieldKeeps`, `GcTyped`: all follow from
  `HeapInv`, that is from `Heap` of the present state. `Heap` says it at once
  of counts, references and deallocations, because none of the three is
  inductive without the others: a count is exact only if the members of freed
  objects are gone, and a free is safe only if the count was exact. One lemma
  for each thing that can be done to a heap (`TakeExternal`, give up, link, create,
  finalize, free, shield) at the level of constants, and each action is one or
  two of them.
- `CollectorInvisible` and `ScansMissNothing`: what a scan does not reach is cut
  off (`CutOff`) from the rest of the heap, which finalizers cannot mend
  without a resurrection that the second scan sees; `ClearCutOff` carries that
  through the clear pass.
- `GarbageGoes`: `DropsAll`, that garbage whose members are all cleared has only
  the collector's own references left, makes the drop pass free all of it.

Assumption: `KindsAssumption` in `Gc`.

`ContainersProofs` proves, for any keys, hashes, sizes of tables, objects, sort
keys and bounds, and restates for `Containers` (`Parts`: each part takes its own
steps or none):

- of dicts, that searches end and find what is there, `ma_used` and the
  references are exact, and iterations are complete. That a search finds its
  key depends on the slots probed before: `Sound` says that no more slots were
  filled than entries made (so one is empty), that indices lead to live entries
  and no two to the same, that keys differ and that each entry is reached past
  slots that are not empty. `Moving` says what a resize has moved so far, and
  `Growing` that there is room left for the rest and the key is still new.
- `DictImplements`: the table is a map in the order of insertion. `MapInv` adds
  to that invariant that what a copy has done and still has to do are rows whose
  keys differ, so that no step of it replaces anything, and that a resize shows
  the rows it has moved. The lemmas about `Pairs` and `Older` (of a
  concatenation, of rows of which one is replaced or deleted) are separate from
  those about tables.
- of sets, the same invariants (`SetSound`, `SetSettled`, `SetGrowing`) with the
  table on the heap counted once, and `SetImplements`: while a resize goes on
  the members are those of both tables, of which none is equal to another.
- of lists, that items lie within the array, that the references are enough
  (`Owed`) and exact before the first method of the eval loop, and
  `ListImplements`: shifts, slices, reversal and the stable sort do to the items
  what `ListContract` says. Counting goes by places (`Count`), and a step that
  moves items is a one-to-one map between places (`Permuted`), which spares an
  induction.

`LeastNumber` of `RecursionProofs` takes the place of induction over probe
sequences: a search ends at the least element of a set that is not empty.

Assumptions: `KeyAssumption`, `NullAssumption`, `SizeAssumption` in `Hashing`,
`SourcesAssumption` in `Entries`, `DictKeysAssumption` in `Dict`,
`SetSizeAssumption` in `Set`, `ListAssumption` in `List`. `SetSizeAssumption`
(no table of two slots) is needed: such a table would fill up.

`TypesProofs` proves of `Types`, for any types, declarations and specs, in
whatever order types are made ready:

- `TypesTyped` and `SlotsComeFromBases`. `PyType_Ready` copies the slots of a
  base, so `SlotsInherited` follows from its local form (`SlotsLocal`: a slot is
  the type's own or its base's), which needs that bases are ready before what
  derives from them (`ReadyAbove`), that nobody has touched a type before it is
  made ready (`Prepared`), and that the chain of bases ends (`Grounded`, a
  height that bases lower; a new type is put above all others).
- `LayoutsStayNested`. `create_vm_type` decides from the bases alone, while
  `LayoutsNest` is about the C types anywhere above. `LayoutInv` says what it
  decided, `ClassLaid`: the pointer is behind every base, or where one of them
  has it, or right behind the header in an instance of 24 bytes. It also keeps
  what was declared of the static types (`Structs`). `Nests` goes up from a
  class to its C base: the pointer can collide with it only in the last case,
  and then the C type is one of 24 bytes, which `LayoutsNest` leaves out.

- `LookupsFindTheSame`. `LookupsAgree` compares two walks over all the dicts
  above a type with what the types define. `LookupInv` is its local form: a dict
  has what its type defines or, of a class, what the dicts of its bases have
  (`Named`), unless one above was assigned to since (`Touched`). `ClassesAgree`
  then goes up from a class: each dict has everything that is above, so that
  both walks end at the first. `OneBaseAgrees` is the same step for a type with
  one base, whose dict may have only its own. `SingleChain` shows that
  `collect_mro` comes to each type of such a line once and from each to its
  base, which is where `super()` goes on.

Assumptions: `TypeAssumption`, `SpecsAssumption`, `DeclarationsAssumption` in
`Types`. The last is what C programs are: static types have static bases, only
they have attributes before they are made ready, no type is above itself, and the struct of a static type begins with its base's and
has room for the pointer it declares. Of a spec, `FromSpec` requires that its
instances are no smaller than the base's, which the C API asks for and the code
does not check; without it `LayoutsNest` is false.

`TypesProofs` proves of `Ints`, for C values of any width, digits of any size
up to that and any texts and bases: `IntsTyped` and `IntegersStayExact`. The
properties are inductive with the types; the work is in the operators: digits
stand for their number and only they do (`DigitsStandFor`), reading them back
gives the number or nothing when it is too large, because each shift is checked
before it could wrap, and wrapped arithmetic is exact where the result fits
(`FloorDiv` and `Mod` round as Python does). Of a text, `FromStringIs` says which
number is made of it, the C value or else the decimal number, and `TextSo` that
this is Python's number where `TextsExact` says so. Assumption: `IntAssumption`.

`CallsProofs` proves of `Calls`, for any programs and any depth limit:
`CallsTyped`, `ArgumentsBindAsPython` (the parameters of a call get what Python
gives them, `Arguments` against `PyArguments`), `NamesFound` and `DepthCounts`,
and with these three `CallsKeepToPython`, the whole of `CallsAsPython`.
`DepthExact` is not inductive: a return lowers the depth of the VM of the frame
on top, and that this is the last VM, and that its first frame is a callback's
or a generator's, is `Stacked`. `CallInv` adds that frames and functions hold
what they may (`Shapes`) and have a cell map if their code shares variables
(`CellsMade`).

`NamesResolve` is about the frame on top, and needs `NameInv`, which is about
every frame, suspended generator and function there is. Each scope has the cell
map that its call uses (`m` in `NamesGood`): calls of functions that share
variables have one map for each call of the outermost of them and no other call
has it (`MapsGood`, `TakenGood`), and a cell holds its variable's value from the
time a function that takes it was made (`CellGood`). A frame's locals are the
variables of its scope until an inner function writes them (`LocalGood`). A copy
of a name made for a function or taken from a caller is right while its variable
has been written once: `CopyGood` for the names known when the function was
made, `AroundGood` for the module's, which the first frame bound before it
called; a copy of a caller's local of the same name is kept out because no
function binds that name. No two frames that can still run have one scope
(`Apart`), so a store changes the locals of one frame only. TLC checked
`NameInv` with the bounds of the run `runtime` before it was proved.

Assumptions: `CallAssumption`, and `SourcesAssumption` in `Calls`, which says
what Python programs are (no parameter twice or `nonlocal`, no `nonlocal` of the
module).

`RuntimeProofs` also proves `PartsRun`, that a behaviour of `Runtime` is one of
each of its five parts, and from it `RuntimeTyped` and `RuntimeSafe`: what is
proved of the parts holds of `Runtime`.

The recursive definitions of these modules are functions over finite data.
`RecursionProofs!Solution` shows, by least numbers, that such a function exists
when its value depends only on lower arguments; then its equation is known, and
a property of all arguments follows from the lowest that would lack it
(`Lowest`). That takes the place of induction over data.

Only model-checked:

- everything about `Exec`: `Compile`, `PySemantics` and `Exec` use recursive
  operators, which the provers cannot reach.
- liveness (`AcquireCompletes`, `DeferredDecrefsApplied`, `Halts`, `ImportsEnd`),
  which TLAPS does not reach.

## 6. Not modelled

- Strings, bytes, floats, formatting, `varargs.c`, argument parsing, buffers,
  capsules: immutable data and conversions, one call each, without a history.
  Floating point is out of TLC's reach.
- The panic guard: nothing in the code defines the state after an unwound
  call.
- Attributes of instances, descriptors, metaclasses, comprehensions, `with`,
  class bodies, the builtin functions and string methods of the eval loop.
- The references that the error indicator owns to its type, value and traceback:
  an error is one thing in `ThreadStates`. That an error in a generator's body is
  reported as its end is in `Calls`, but no property judges it.
- Memory exhaustion, which aborts the process nearly everywhere.

The other hazards that no property covers are in `PROJECT.json` with the
reason.

## 7. Plan

1. Attributes of instances (their dict, the slots and the class, with the
   functions that are tagged integers) beside `Types`.
