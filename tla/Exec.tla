-------------------------------- MODULE Exec --------------------------------
(***************************************************************************)
(* Programs compiled by Compile and run by Vm, compared with what they     *)
(* mean in Python (PySemantics).                                           *)
(***************************************************************************)
EXTENDS Compile, Vm

CONSTANT Programs

VARIABLE prog           (* the suite that was compiled                     *)

vars == <<prog, vmVars>>

Init == \E p \in Programs : prog = p /\ VmInit(CompileSource(p))
Next == VmNext /\ UNCHANGED prog
Spec == Init /\ [][Next]_vars

(* The loop runs until the frame returns.                                  *)
FairSpec == Spec /\ WF_vars(Next)

Py == INSTANCE PySemantics WITH PyBases <- Bases, PySize <- Size

-----------------------------------------------------------------------------
(* The programs whose compiled code is expected to mean what they mean in  *)
(* Python.  Left out are the statements the code is known to treat         *)
(* otherwise (see the README):                                             *)
(*   - return, break and continue out of a finally's scope, break and      *)
(*     continue out of the body of a try in their loop;                    *)
(*   - break from a loop with an else, break from a for inside a for;      *)
(*   - a chained comparison inside a for;                                  *)
(*   - raise without an exception; raise of a class where a handler may    *)
(*     have to raise it again;                                             *)
(*   - handlers inside a finally suite.                                    *)

Context == [finally |-> FALSE, try |-> FALSE, typed |-> FALSE, final |-> FALSE,
            for |-> FALSE, break |-> TRUE]

RECURSIVE PlainExpr(_, _), PlainSuite(_, _), PlainStmt(_, _)
PlainExpr(e, c) ==
  CASE e.op = "chain" -> ~c.for
    [] e.op = "and"   -> PlainExpr(e.l, c) /\ PlainExpr(e.r, c)
    [] OTHER          -> TRUE

PlainSuite(ss, c) == \A i \in DOMAIN ss : PlainStmt(ss[i], c)

PlainLoop(s, c) ==
  /\ PlainSuite(s.orelse, c)
  /\ PlainSuite(s.body, [c EXCEPT !.try = FALSE, !.for = @ \/ s.op = "for",
                                  !.break = s.orelse = <<>> /\ ~(s.op = "for" /\ c.for)])

PlainTry(s, c) ==
  LET f == IF s.finalbody = <<>> THEN c ELSE [c EXCEPT !.finally = TRUE, !.try = TRUE]
      t == \E i \in DOMAIN s.handlers : s.handlers[i].type # <<>>
  IN  /\ c.final => s.handlers = <<>>
      /\ PlainSuite(s.body, [f EXCEPT !.try = TRUE, !.typed = @ \/ t])
      /\ PlainSuite(s.orelse, f)
      /\ \A i \in DOMAIN s.handlers : PlainSuite(s.handlers[i].body, f)
      /\ PlainSuite(s.finalbody, [c EXCEPT !.final = TRUE, !.try = TRUE])

PlainStmt(s, c) ==
  CASE s.op = "expr"     -> PlainExpr(s.e, c)
    [] s.op = "return"   -> ~c.finally
    [] s.op = "break"    -> ~c.try /\ c.break
    [] s.op = "continue" -> ~c.try
    [] s.op = "raise"    -> s.exc # <<>> /\ (s.exc[1].op = "name" => ~c.typed)
    [] s.op = "if"       -> PlainExpr(s.test, c) /\ PlainSuite(s.body, c) /\ PlainSuite(s.orelse, c)
    [] s.op = "while"    -> PlainExpr(s.test, c) /\ PlainLoop(s, c)
    [] s.op = "for"      -> PlainLoop(s, c)
    [] s.op = "try"      -> PlainTry(s, c)

Plain == PlainSuite(prog, Context)

-----------------------------------------------------------------------------
(* Properties.                                                             *)

TypeOK ==
  /\ ip \in 0..Len(code) - 1
  /\ \A i \in DOMAIN blocks : /\ blocks[i].kind \in {"except", "finally", "active"}
                              /\ blocks[i].handler \in 0..Len(code) - 1
                              /\ blocks[i].depth \in Nat
  /\ Len(saved) <= 1
  /\ Len(stack) <= 3 * Len(code)
  /\ DOMAIN locals \subseteq {"x", "e"}
  /\ result.how \in {"running", "return", "raise"}

(* A program does what Python says: the same calls with the same answers,  *)
(* and the same value returned or exception raised, through every nesting  *)
(* of loops, handlers and finally suites.                                  *)
BehavesAsPython ==
  Plain /\ ~Running =>
    LET m == Py!Meaning(prog, log)
    IN  /\ m.ok /\ m.n = Len(log)
        /\ result = CASE m.how = "raise"  -> [how |-> "raise", type |-> m.type]
                      [] m.how = "return" -> [how |-> "return", v |-> m.v]
                      [] OTHER            -> [how |-> "return", v |-> 0]

(* The blocks that can still handle an exception were set up at depths the *)
(* stack has not gone below, innermost highest: unwinding, which only      *)
(* shrinks the stack, restores exactly what was there.                     *)
UnwindRestores ==
  Plain => \A i \in DOMAIN blocks :
             blocks[i].depth <= IF i = Len(blocks) THEN Len(stack) ELSE blocks[i + 1].depth

(* A program that runs off its end has closed every block, handles no      *)
(* exception any more and has left only iterators of loops it broke from   *)
(* and operands of chained comparisons on the stack.                       *)
EndsClean ==
  Plain /\ Running /\ ip = Len(code) - 2 =>
    /\ blocks = <<>>
    /\ saved = <<>>
    /\ \A i \in DOMAIN stack : stack[i].kind \in {"iter", "const"}

(* Every program ends.                                                     *)
Halts == <>(~Running)

(* interpreter.rs:1280 on ForIter: "TOS is the iterator.  Try to get next  *)
(* item.": the one the GetIter before it made.                             *)
TosIsIterator == Ready("ForIter") => Nth(0).kind = "iter" /\ Nth(0).at = ip - 1

(* frame.rs:83 on Frame::pop: "Returns Err on stack underflow (should      *)
(* never happen in correct bytecode)".                                     *)
NeverUnderflows == ~Underflowing
=============================================================================
