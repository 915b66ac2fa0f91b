------------------------------- MODULE Compile -------------------------------
(***************************************************************************)
(* The compiler's control flow (src/compiler/compile.rs): a suite of       *)
(* statements to a sequence of instructions with absolute jump targets     *)
(* (0 is the first instruction, code[ip + 1] in TLA+).                     *)
(*                                                                         *)
(* A statement is a record with its kind in op.  Optional parts are        *)
(* sequences of length 0 or 1.  Expressions stand for what they leave to   *)
(* the outside: a call of a function of one argument v, a chained          *)
(* comparison of three operands, `and`, a name, a call of a type, and a    *)
(* constant v.                                                             *)
(*                                                                         *)
(* RECURSIVE operators: only model-checked modules extend this one.        *)
(***************************************************************************)
EXTENDS Integers, Sequences

Instr(op, arg) == [op |-> op, arg |-> arg]

(* Jumps whose target is not known yet.  The code emits them with target 0 *)
(* and lists their offsets: LoopContext.break_patches, handler_end_jumps.  *)
ToLoopEnd == Instr("JumpAbsolute", -1)
ToTryEnd  == Instr("JumpAbsolute", -2)

Patch(code, jump, target) ==
  [i \in DOMAIN code |->
     IF code[i].op = "JumpAbsolute" /\ code[i].arg = jump.arg
     THEN Instr("JumpAbsolute", target) ELSE code[i]]

NoLoop == -1

RECURSIVE Expr(_, _)
Expr(e, at) ==
  CASE e.op = "const" -> <<Instr("LoadConst", e.v)>>
    [] e.op = "name"  -> <<Instr("LoadName", e.n)>>
    [] e.op = "new"   -> <<Instr("LoadName", e.n), Instr("CallFunction", 0)>>
    [] e.op = "call"  -> <<Instr("LoadName", "f"), Instr("LoadConst", e.v), Instr("CallFunction", 1)>>
    [] e.op = "chain" ->
         << Instr("LoadConst", e.v), Instr("LoadConst", e.v), Instr("DupTop", 0),
            Instr("RotThree", 0), Instr("CompareOp", 0), Instr("JumpIfFalse", at + 9),
            Instr("PopTop", 0), Instr("LoadConst", e.v), Instr("CompareOp", 0) >>
    [] e.op = "and" ->
         LET l == Expr(e.l, at)
             r == Expr(e.r, at + Len(l) + 2)
         IN  l \o <<Instr("JumpIfFalse", at + Len(l) + 2 + Len(r)), Instr("PopTop", 0)>> \o r

RECURSIVE Stmt(_, _, _), Body(_, _, _), Handlers(_, _, _)

(* compile_body: the suite ss at offset `at`, in a loop starting at `loop`. *)
Body(ss, at, loop) ==
  IF ss = <<>> THEN <<>>
  ELSE LET c == Stmt(Head(ss), at, loop) IN c \o Body(Tail(ss), at + Len(c), loop)

If(s, at, loop) ==
  LET test   == Expr(s.test, at)
      body   == Body(s.body, at + Len(test) + 1, loop)
      past   == at + Len(test) + 1 + Len(body)
      orelse == Body(s.orelse, past + 1, loop)
  IN  IF s.orelse = <<>>
      THEN test \o <<Instr("PopJumpIfFalse", past)>> \o body
      ELSE test \o <<Instr("PopJumpIfFalse", past + 1)>> \o body
             \o <<Instr("JumpAbsolute", past + 1 + Len(orelse))>> \o orelse

While(s, at, loop) ==
  LET test == Expr(s.test, at)
      body == Body(s.body, at + Len(test) + 1, at)
      end  == at + Len(test) + Len(body) + 2
  IN  Patch(test \o <<Instr("PopJumpIfFalse", end)>> \o body \o <<Instr("JumpAbsolute", at)>>,
            ToLoopEnd, end)
        \o Body(s.orelse, end, loop)

(* for x in xs                                                             *)
For(s, at, loop) ==
  LET start == at + 2
      body  == Body(s.body, start + 2, start)
      end   == start + 3 + Len(body)
  IN  Patch(<<Instr("LoadName", "xs"), Instr("GetIter", 0), Instr("ForIter", end),
              Instr("StoreName", "x")>> \o body \o <<Instr("JumpAbsolute", start)>>,
            ToLoopEnd, end)
        \o Body(s.orelse, end, loop)

(* Mutant: the handler block is not popped after the body.                 *)
TryExceptLeaky(s, at, loop) ==
  LET body  == Body(s.body, at + 1, loop)
      else  == Body(s.orelse, at + 1 + Len(body), loop)
      first == at + 2 + Len(body) + Len(else)
      hs    == Handlers(s.handlers, first, loop)
  IN  Patch(<<Instr("SetupExcept", first)>> \o body \o else
              \o <<ToTryEnd>> \o hs \o <<Instr("RaiseVarargs", 1)>>,
            ToTryEnd, first + Len(hs) + 1)

(* compile_try_except_body.                                                *)
TryExcept(s, at, loop) ==
  LET body  == Body(s.body, at + 1, loop)
      else  == Body(s.orelse, at + 2 + Len(body), loop)
      first == at + 3 + Len(body) + Len(else)
      hs    == Handlers(s.handlers, first, loop)
  IN  Patch(<<Instr("SetupExcept", first)>> \o body \o <<Instr("PopBlock", 0)>> \o else
              \o <<ToTryEnd>> \o hs \o <<Instr("RaiseVarargs", 1)>>,
            ToTryEnd, first + Len(hs) + 1)

Handlers(hs, at, loop) ==
  IF hs = <<>> THEN <<>>
  ELSE LET h     == Head(hs)
           match == IF h.type = <<>> THEN 0 ELSE 4
           bind  == IF h.name = <<>> THEN Instr("PopTop", 0) ELSE Instr("StoreName", h.name[1])
           body  == Body(h.body, at + match + 2, loop)
           next  == at + match + 3 + Len(body)
           test  == IF h.type = <<>> THEN <<>>
                    ELSE <<Instr("DupTop", 0), Instr("LoadName", h.type[1]),
                           Instr("CompareOp", 10), Instr("PopJumpIfFalse", next)>>
       IN  test \o <<bind, Instr("PopExcept", 0)>> \o body \o <<ToTryEnd>>
             \o Handlers(Tail(hs), next, loop)

(* compile_try: the finally suite is compiled twice.                       *)
Try(s, at, loop) ==
  IF s.finalbody = <<>> THEN TryExcept(s, at, loop)
  ELSE LET guarded == IF s.handlers = <<>> THEN Body(s.body, at + 1, loop)
                      ELSE TryExcept(s, at + 1, loop)
           normal  == Body(s.finalbody, at + 2 + Len(guarded), loop)
           start   == at + 3 + Len(guarded) + Len(normal)
           unwound == Body(s.finalbody, start, loop)
       IN  <<Instr("SetupFinally", start)>> \o guarded \o <<Instr("PopBlock", 0)>> \o normal
             \o <<Instr("JumpAbsolute", start + Len(unwound) + 1)>>
             \o unwound \o <<Instr("EndFinally", 0)>>

Stmt(s, at, loop) ==
  CASE s.op = "expr"     -> Expr(s.e, at) \o <<Instr("PrintExpr", 0), Instr("PopTop", 0)>>
    [] s.op = "return"   -> Expr(s.e, at) \o <<Instr("ReturnValue", 0)>>
    [] s.op = "raise"    -> IF s.exc = <<>> THEN <<Instr("RaiseVarargs", 0)>>
                            ELSE Expr(s.exc[1], at) \o <<Instr("RaiseVarargs", 1)>>
    [] s.op = "break"    -> <<ToLoopEnd>>
    [] s.op = "continue" -> IF loop = NoLoop THEN <<>> ELSE <<Instr("JumpAbsolute", loop)>>
    [] s.op = "if"       -> If(s, at, loop)
    [] s.op = "while"    -> While(s, at, loop)
    [] s.op = "for"      -> For(s, at, loop)
    [] s.op = "try"      -> Try(s, at, loop)

(* Mutant: no implicit return.                                             *)
CompileSourceOpen(ss) == Patch(Body(ss, 0, NoLoop), ToLoopEnd, 0)

(* compile_source: the suite and an implicit `return None`; a break outside *)
(* a loop keeps the target 0.                                              *)
CompileSource(ss) ==
  Patch(Body(ss, 0, NoLoop), ToLoopEnd, 0) \o <<Instr("LoadConst", 0), Instr("ReturnValue", 0)>>

=============================================================================
