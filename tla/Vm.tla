--------------------------------- MODULE Vm ---------------------------------
(***************************************************************************)
(* The eval loop on one frame (src/vm/interpreter.rs run_frame,            *)
(* execute_opcode, find_exception_handler; src/vm/frame.rs): the value     *)
(* stack, the block stack, the saved exception, one action per opcode, and *)
(* the unwinding when an opcode returns Err.                               *)
(*                                                                         *)
(* What a called function answers and what a comparison yields is left     *)
(* open; `log` records it.  Every frame runs under the GIL and shares      *)
(* nothing with others that this module looks at.                          *)
(***************************************************************************)
EXTENDS Integers, Sequences, SequencesExt, FiniteSets, FiniteSetsExt

CONSTANTS
  Answers,      (* what a call may answer: "true", "false", "error"        *)
  MaxAsked,     (* bound: calls and comparisons left open; then "false"    *)
  Size          (* length of the list xs that for loops go over            *)

ASSUME VmAssumption == Answers \subseteq {"true", "false", "error"} /\ MaxAsked \in Nat /\ Size \in Nat

VARIABLES
  code,         (* frame.code.instructions                                 *)
  ip,           (* frame.ip                                                *)
  stack,        (* frame.stack, top last                                   *)
  blocks,       (* frame.block_stack                                       *)
  saved,        (* saved_exception: <<>> or <<exception>>                  *)
  locals,       (* the names bound in frame.locals                         *)
  log,          (* <<site, answer>> of every open call and comparison      *)
  result        (* how run_frame ended                                     *)

vmVars == <<code, ip, stack, blocks, saved, locals, log, result>>

(* Values.  A message is a str; calling an exception type makes an         *)
(* instance of it.                                                         *)
None     == [kind |-> "none"]
Str      == [kind |-> "str"]
Func     == [kind |-> "func"]
Const(v) == [kind |-> "const", v |-> v]
Bool(b)  == [kind |-> "bool", is |-> b]
Type(t)  == [kind |-> "type", of |-> t]
Inst(t)  == [kind |-> "instance", of |-> t]
List(n)  == [kind |-> "list", len |-> n]
(* A list iterator: the items left, and the GetIter that made it.          *)
Iter(n, at) == [kind |-> "iter", left |-> n, at |-> at]

(* tp_base chains, up to Exception (error.rs init_exceptions).             *)
Bases ==
  [ Exception    |-> {"Exception"},
    ValueError   |-> {"ValueError", "Exception"},
    TypeError    |-> {"TypeError", "Exception"},
    RuntimeError |-> {"RuntimeError", "Exception"},
    LookupError  |-> {"LookupError", "Exception"},
    KeyError     |-> {"KeyError", "LookupError", "Exception"},
    str          |-> {"str"} ]

ExcTypes == DOMAIN Bases \ {"str"}

(* PyErr: its value is an instance for `raise T(...)`; PyErr_SetString     *)
(* makes it a str, for errors of the runtime and for `raise T`.            *)
Native(t) == [type |-> t, value |-> Str]
Thrown(t) == [type |-> t, value |-> Inst(t)]

Builtins == [n \in ExcTypes \cup {"f", "xs"} |->
               IF n = "f" THEN Func ELSE IF n = "xs" THEN List(Size) ELSE Type(n)]

Running == result.how = "running"
Op      == code[ip + 1].op
Arg     == code[ip + 1].arg
At(op)  == Running /\ Op = op

(* Operands an opcode pops or peeks at.                                    *)
Needs ==
  CASE Op \in {"PopTop", "DupTop", "StoreName", "PrintExpr", "JumpIfFalse", "PopJumpIfFalse",
               "GetIter", "ForIter", "ReturnValue"} -> 1
    [] Op = "CompareOp"    -> 2
    [] Op = "RotThree"     -> 3
    [] Op = "CallFunction" -> Arg + 1
    [] Op = "RaiseVarargs" -> Arg
    [] OTHER -> 0

Ready(op) == At(op) /\ Len(stack) >= Needs

Nth(i)  == stack[Len(stack) - i]           (* Nth(0) is the top            *)
Less(n) == SubSeq(stack, 1, Len(stack) - n)

(* py_is_true.                                                             *)
Truth(v) == IF v.kind = "bool" THEN v.is ELSE v.kind # "none"

(* Ok(None): on to the instruction at `to` with the stack stk.             *)
GoTo(to, stk) ==
  /\ ip' = to
  /\ stack' = stk
  /\ UNCHANGED <<code, blocks, saved, result>>

Goes(to, stk) == GoTo(to, stk) /\ UNCHANGED <<locals, log>>
Steps(stk)    == Goes(ip + 1, stk)

(* The innermost block that handles, or 0.                                 *)
Handler == Max({0} \cup {i \in DOMAIN blocks : blocks[i].kind \in {"except", "finally"}})

(* Mutant: unwinding leaves the operands of the failed instruction.        *)
FailKeepStack(x, stk) ==
  IF Handler = 0
  THEN /\ result' = [how |-> "raise", type |-> x.type]
       /\ blocks' = <<>>
       /\ UNCHANGED <<code, ip, stack, saved>>
  ELSE LET b == blocks[Handler]
       IN  /\ saved' = <<x>>
           /\ ip' = b.handler
           /\ IF b.kind = "except"
              THEN /\ stack' = Append(stk, x.value)
                   /\ blocks' = Append(SubSeq(blocks, 1, Handler - 1),
                                       [kind |-> "active", handler |-> 0, depth |-> Len(stk)])
              ELSE /\ stack' = stk
                   /\ blocks' = SubSeq(blocks, 1, Handler - 1)
           /\ UNCHANGED <<code, result>>

(* Err(x), with the stack stk that the opcode had left: run_frame unwinds  *)
(* to the innermost handler or returns the error.  unwind_stack_to only    *)
(* shrinks.                                                                *)
Fail(x, stk) ==
  IF Handler = 0
  THEN /\ result' = [how |-> "raise", type |-> x.type]
       /\ blocks' = <<>>
       /\ UNCHANGED <<code, ip, stack, saved>>
  ELSE LET b    == blocks[Handler]
           kept == SubSeq(stk, 1, IF b.depth < Len(stk) THEN b.depth ELSE Len(stk))
       IN  /\ saved' = <<x>>
           /\ ip' = b.handler
           /\ IF b.kind = "except"
              THEN /\ stack' = Append(kept, x.value)
                   /\ blocks' = Append(SubSeq(blocks, 1, Handler - 1),
                                       [kind |-> "active", handler |-> 0, depth |-> Len(kept)])
              ELSE /\ stack' = kept
                   /\ blocks' = SubSeq(blocks, 1, Handler - 1)
           /\ UNCHANGED <<code, result>>

Fails(x, stk) == Fail(x, stk) /\ UNCHANGED <<locals, log>>

(* Frame::pop and Frame::top on an empty stack.                            *)
Underflowing == Running /\ Len(stack) < Needs
Underflow    == Underflowing /\ Fails(Native("TypeError"), <<>>)

-----------------------------------------------------------------------------
(* Loading, storing, moving.                                               *)

LoadConst == At("LoadConst") /\ Steps(Append(stack, IF Arg = 0 THEN None ELSE Const(Arg)))

(* lookup_name; name_error makes a RuntimeError.                           *)
LoadName ==
  /\ At("LoadName")
  /\ IF Arg \in DOMAIN locals THEN Steps(Append(stack, locals[Arg]))
     ELSE IF Arg \in DOMAIN Builtins THEN Steps(Append(stack, Builtins[Arg]))
     ELSE Fails(Native("RuntimeError"), stack)

StoreName ==
  /\ Ready("StoreName")
  /\ locals' = [n \in DOMAIN locals \cup {Arg} |-> IF n = Arg THEN Nth(0) ELSE locals[n]]
  /\ GoTo(ip + 1, Less(1))
  /\ UNCHANGED log

PopTop    == Ready("PopTop")    /\ Steps(Less(1))
PrintExpr == Ready("PrintExpr") /\ Steps(stack)
DupTop    == Ready("DupTop")    /\ Steps(Append(stack, Nth(0)))
RotThree  == Ready("RotThree")  /\ Steps(Less(3) \o <<Nth(0), Nth(2), Nth(1)>>)

-----------------------------------------------------------------------------
(* Jumps, calls, comparisons, iteration.                                   *)

JumpAbsolute   == At("JumpAbsolute")      /\ Goes(Arg, stack)
PopJumpIfFalse == Ready("PopJumpIfFalse") /\ Goes(IF Truth(Nth(0)) THEN ip + 1 ELSE Arg, Less(1))
JumpIfFalse    == Ready("JumpIfFalse")    /\ Goes(IF Truth(Nth(0)) THEN ip + 1 ELSE Arg, stack)

Asks(site, a) ==
  /\ a \in IF Len(log) < MaxAsked THEN Answers ELSE {"false"}
  /\ log' = Append(log, <<site, a>>)

(* CallFunction 1: the open call of f.                                     *)
Call ==
  /\ Ready("CallFunction")
  /\ Nth(Arg).kind = "func"
  /\ \E a \in Answers \cup {"false"} :
       /\ Asks(Nth(0).v, a)
       /\ IF a = "error" THEN Fail(Thrown("ValueError"), Less(2))
          ELSE GoTo(ip + 1, Append(Less(2), Bool(a = "true")))
  /\ UNCHANGED locals

(* CallFunction 0: type_call makes an instance.                            *)
Instantiate ==
  /\ Ready("CallFunction")
  /\ Nth(Arg).kind = "type"
  /\ Steps(Append(Less(Arg + 1), Inst(Nth(Arg).of)))

Compare ==
  /\ Ready("CompareOp")
  /\ Arg # 10
  /\ \E a \in {"true", "false"} :
       /\ Asks(Nth(0).v, a)
       /\ GoTo(ip + 1, Append(Less(2), Bool(a = "true")))
  /\ UNCHANGED locals

(* compare_op_exception_match looks at the saved exception's type, not at  *)
(* the value on the stack.                                                 *)
ExceptionMatch ==
  /\ Ready("CompareOp")
  /\ Arg = 10
  /\ Steps(Append(Less(2), Bool(saved # <<>> /\ Nth(0).kind = "type" /\ Nth(0).of \in Bases[saved[1].type])))

GetIter == Ready("GetIter") /\ Nth(0).kind = "list" /\ Steps(Append(Less(1), Iter(Nth(0).len, ip)))

(* Mutant: the iterator's index is not updated.                            *)
ForIterStuck ==
  /\ Ready("ForIter")
  /\ IF Nth(0).kind = "iter" /\ Nth(0).left > 0
     THEN Steps(stack \o <<Const(1)>>)
     ELSE Goes(Arg, Less(1))

(* iter_next: what is no iterator is exhausted.                            *)
ForIter ==
  /\ Ready("ForIter")
  /\ IF Nth(0).kind = "iter" /\ Nth(0).left > 0
     THEN Steps(Less(1) \o <<[Nth(0) EXCEPT !.left = @ - 1], Const(1)>>)
     ELSE Goes(Arg, Less(1))

-----------------------------------------------------------------------------
(* Blocks and exceptions.                                                  *)

PushBlock(kind) ==
  /\ blocks' = Append(blocks, [kind |-> kind, handler |-> Arg, depth |-> Len(stack)])
  /\ ip' = ip + 1
  /\ UNCHANGED <<code, stack, saved, locals, log, result>>

SetupExcept  == At("SetupExcept")  /\ PushBlock("except")
SetupFinally == At("SetupFinally") /\ PushBlock("finally")

DropBlock == IF blocks = <<>> THEN <<>> ELSE Front(blocks)

PopBlock ==
  /\ At("PopBlock")
  /\ blocks' = DropBlock
  /\ ip' = ip + 1
  /\ UNCHANGED <<code, stack, saved, locals, log, result>>

(* Mutant: the block stays.                                                *)
PopExceptKeeps ==
  /\ At("PopExcept")
  /\ saved' = <<>>
  /\ ip' = ip + 1
  /\ UNCHANGED <<code, stack, blocks, locals, log, result>>

PopExcept ==
  /\ At("PopExcept")
  /\ blocks' = DropBlock
  /\ saved' = <<>>
  /\ ip' = ip + 1
  /\ UNCHANGED <<code, stack, locals, log, result>>

EndFinally ==
  /\ At("EndFinally")
  /\ IF saved # <<>> THEN Fails(saved[1], stack) ELSE Steps(stack)

(* A class is raised with an empty message; anything else is raised as the *)
(* value, with its type.                                                   *)
Raised(v) ==
  CASE v.kind = "type"     -> Native(v.of)
    [] v.kind = "instance" -> Thrown(v.of)
    [] OTHER               -> [type |-> "str", value |-> v]

RaiseVarargs ==
  /\ Ready("RaiseVarargs")
  /\ IF Arg = 1 THEN Fails(Raised(Nth(0)), Less(1))
     ELSE Fails(IF saved # <<>> THEN saved[1] ELSE Native("RuntimeError"), stack)

ReturnValue ==
  /\ Ready("ReturnValue")
  /\ result' = [how |-> "return", v |-> IF Nth(0).kind = "const" THEN Nth(0).v ELSE 0]
  /\ stack' = Less(1)
  /\ UNCHANGED <<code, ip, blocks, saved, locals, log>>

-----------------------------------------------------------------------------

VmInit(c) ==
  /\ code = c
  /\ ip = 0
  /\ stack = <<>>
  /\ blocks = <<>>
  /\ saved = <<>>
  /\ locals = [n \in {} |-> None]
  /\ log = <<>>
  /\ result = [how |-> "running"]

VmNext ==
  \/ LoadConst \/ LoadName \/ StoreName \/ PopTop \/ PrintExpr \/ DupTop \/ RotThree
  \/ JumpAbsolute \/ PopJumpIfFalse \/ JumpIfFalse
  \/ Call \/ Instantiate \/ Compare \/ ExceptionMatch \/ GetIter \/ ForIter
  \/ SetupExcept \/ SetupFinally \/ PopBlock \/ PopExcept \/ EndFinally
  \/ RaiseVarargs \/ ReturnValue
  \/ Underflow

=============================================================================
