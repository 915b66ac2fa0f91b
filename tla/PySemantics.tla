----------------------------- MODULE PySemantics -----------------------------
(***************************************************************************)
(* What Python's statements mean, as a big-step evaluation: the reference  *)
(* that the compiled code is compared with.  A program is replayed against *)
(* the log of what its open calls answered.  s describes a run so far:     *)
(*   n      open calls made;  ok  they were the ones of the log;           *)
(*   is     the truth of the last expression;                              *)
(*   how    next, break, continue, return or raise;                        *)
(*   x      the value returned or the type of the exception raised;        *)
(*   cur    the exceptions being handled, innermost last.                  *)
(***************************************************************************)
EXTENDS Integers, Sequences, SequencesExt, FiniteSets

CONSTANTS PyBases, PySize

Start == [n |-> 0, ok |-> TRUE, is |-> FALSE, how |-> "next", v |-> 0, type |-> "", cur |-> <<>>]

Raise(s, t) == [s EXCEPT !.how = "raise", !.type = t]

(* An open call: the next entry of the log.                                *)
Ask(site, s, log) ==
  LET made == s.n < Len(log) /\ log[s.n + 1][1] = site
      a    == IF made THEN log[s.n + 1][2] ELSE "false"
      t    == [s EXCEPT !.n = @ + 1, !.ok = @ /\ made, !.is = (a = "true")]
  IN  IF a = "error" THEN Raise(t, "ValueError") ELSE t

RECURSIVE Eval(_, _, _)
Eval(e, s, log) ==
  CASE e.op = "call"  -> Ask(e.v, s, log)
    [] e.op = "chain" -> LET t == Ask(e.v, s, log) IN IF t.is THEN Ask(e.v, t, log) ELSE t
    [] e.op = "and"   -> LET t == Eval(e.l, s, log)
                         IN  IF t.how = "next" /\ t.is THEN Eval(e.r, t, log) ELSE t
    [] OTHER          -> s

RECURSIVE Suite(_, _, _), Statement(_, _, _), Rounds(_, _, _, _)

Suite(ss, s, log) ==
  IF ss = <<>> \/ s.how # "next" THEN s
  ELSE Suite(Tail(ss), Statement(Head(ss), s, log), log)

(* A while loop; a for loop with k items left.  break skips the else suite *)
Rounds(st, k, s, log) ==
  LET t    == IF st.op = "while" THEN Eval(st.test, s, log) ELSE [s EXCEPT !.is = k > 0]
      b    == Suite(st.body, t, log)
  IN  IF t.how # "next" THEN t
      ELSE IF ~t.is THEN Suite(st.orelse, t, log)
      ELSE CASE b.how \in {"next", "continue"} -> Rounds(st, k - 1, [b EXCEPT !.how = "next"], log)
             [] b.how = "break"                -> [b EXCEPT !.how = "next"]
             [] OTHER                          -> b

(* The handler that takes an exception of type t, or 0.                    *)
Taker(handlers, t) ==
  SelectInSeq(handlers, LAMBDA h : h.type = <<>> \/ h.type[1] \in PyBases[t])

Guarded(st, s, log) ==
  LET b == Suite(st.body, s, log)
      i == IF b.how = "raise" THEN Taker(st.handlers, b.type) ELSE 0
  IN  IF b.how = "next" THEN Suite(st.orelse, b, log)
      ELSE IF i = 0 THEN b
      ELSE [Suite(st.handlers[i].body, [b EXCEPT !.how = "next", !.cur = Append(@, b.type)], log)
              EXCEPT !.cur = s.cur]

(* The finally suite runs whatever happened, then what happened goes on.   *)
Finally(st, s, log) ==
  LET f == Suite(st.finalbody,
                 [s EXCEPT !.how = "next", !.cur = IF s.how = "raise" THEN Append(@, s.type) ELSE @], log)
  IN  IF f.how = "next"
      THEN [f EXCEPT !.how = s.how, !.v = s.v, !.type = s.type, !.cur = s.cur]
      ELSE [f EXCEPT !.cur = s.cur]

Statement(st, s, log) ==
  CASE st.op = "expr"     -> Eval(st.e, s, log)
    [] st.op = "return"   -> [s EXCEPT !.how = "return", !.v = st.e.v]
    [] st.op = "break"    -> [s EXCEPT !.how = "break"]
    [] st.op = "continue" -> [s EXCEPT !.how = "continue"]
    [] st.op = "raise"    ->
         Raise(s, IF st.exc # <<>> THEN st.exc[1].n
                  ELSE IF s.cur = <<>> THEN "RuntimeError" ELSE Last(s.cur))
    [] st.op = "if"       ->
         LET t == Eval(st.test, s, log)
         IN  IF t.how # "next" THEN t
             ELSE Suite(IF t.is THEN st.body ELSE st.orelse, t, log)
    [] st.op = "while"    -> Rounds(st, 0, s, log)
    [] st.op = "for"      -> Rounds(st, PySize, s, log)
    [] st.op = "try"      -> Finally(st, Guarded(st, s, log), log)

Meaning(prog, log) == Suite(prog, Start, log)
=============================================================================
