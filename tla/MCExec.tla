------------------------------- MODULE MCExec -------------------------------
(* Exec on programs of up to three nested compound statements around one    *)
(* simple statement.  The sites 1.. tell the open calls apart.              *)
EXTENDS Exec, TLC

Ask(v)  == [op |-> "call", v |-> v]
Do(v)    == [op |-> "expr", e |-> Ask(v)]
New(t)   == [op |-> "raise", exc |-> <<[op |-> "new", n |-> t]>>]
Class(t) == [op |-> "raise", exc |-> <<[op |-> "name", n |-> t]>>]
Again    == [op |-> "raise", exc |-> <<>>]
Ret(v)   == [op |-> "return", e |-> [op |-> "const", v |-> v]]
Brk      == [op |-> "break"]
Cont     == [op |-> "continue"]

When(t, b, o)      == [op |-> "if", test |-> t, body |-> b, orelse |-> o]
Loop(t, b, o)      == [op |-> "while", test |-> t, body |-> b, orelse |-> o]
Each(b, o)         == [op |-> "for", body |-> b, orelse |-> o]
Guard(b, h, o, f)  == [op |-> "try", body |-> b, handlers |-> h, orelse |-> o, finalbody |-> f]
On(t, b)           == [type |-> <<t>>, name |-> <<>>, body |-> b]
OnAs(t, b)         == [type |-> <<t>>, name |-> <<"e">>, body |-> b]
OnAny(b)           == [type |-> <<>>, name |-> <<>>, body |-> b]

Leaves  == {Do(1), Ret(9), Brk, Cont, Again, New("KeyError"), Class("ValueError")}
Holes   == {<<s>> : s \in Leaves} \cup {<<Do(1), s>> : s \in Leaves \ {Do(1)}}
Excepts ==
  { <<OnAny(<<Do(2)>>)>>, <<On("LookupError", <<Do(2)>>)>>,
    <<OnAs("ValueError", <<Do(2)>>), OnAny(<<Again>>)>>,
    <<On("KeyError", <<Cont>>), OnAs("Exception", <<New("TypeError")>>)>> }

(* try, alone.                                                             *)
Tries ==
  {Guard(b, h, o, f) : b \in Holes, h \in Excepts, o \in {<<>>, <<Do(3)>>}, f \in {<<>>, <<Do(4)>>}}
    \cup {Guard(b, <<>>, <<>>, f) : b \in Holes, f \in {<<Do(4)>>, <<Cont>>, <<Ret(8)>>, <<New("TypeError")>>}}

(* try in the body, a handler, the else and the finally suite of another.  *)
Short == {Guard(<<s>>, h, <<>>, f) : s \in Leaves, f \in {<<>>, <<Do(4)>>},
                        h \in {<<OnAny(<<Do(2)>>)>>, <<On("LookupError", <<Do(2)>>)>>}}
NestedTries ==
  {Guard(<<t>>, h, <<>>, f) : t \in Short, h \in {<<OnAs("Exception", <<Do(5)>>)>>}, f \in {<<>>, <<Do(6)>>}}
    \cup {Guard(<<New("KeyError")>>, <<OnAny(<<t, Do(5)>>)>>, <<>>, <<>>) : t \in Short}
    \cup {Guard(b, <<>>, <<>>, <<t>>) : t \in Short, b \in {<<Do(5)>>, <<New("KeyError")>>}}

(* Loops around all this, inside it, and in each other.                    *)
Loops(B) == {Loop(Ask(5), b, o) : b \in B, o \in {<<>>, <<Do(6)>>}} \cup {Each(b, o) : b \in B, o \in {<<>>, <<Do(6)>>}}
Chain    == [op |-> "chain", v |-> 7]
Both     == [op |-> "and", l |-> Ask(7), r |-> Ask(8)]
Ifs  == {<<When(t, <<s>>, o)>> : t \in {Ask(7), Chain, Both}, s \in Leaves, o \in {<<>>, <<Do(3)>>}}
InLoops  == Loops({<<t>> : t \in {u \in Tries : u.orelse = <<>> /\ Len(u.body) = 1} \cup NestedTries} \cup Ifs)
TwoLoops == Loops({<<l, Do(4)>> : l \in Loops({<<When(Ask(7), <<s>>, <<>>)>> : s \in {Brk, Cont, Ret(9)}})})
LoopInTry == {Guard(<<l>>, <<OnAny(<<Do(2)>>)>>, <<>>, f) :
                l \in Loops({<<Do(1), s>> : s \in Leaves}), f \in {<<>>, <<Do(4)>>}}

(* A for that is left by break keeps its iterator: another for around it    *)
(* would not end.                                                          *)
Ends(l) == l.orelse = <<>> /\ (l.op = "for" => Brk \notin Range(l.body))
Deep    == Loops({<<g>> : g \in {t \in LoopInTry : Ends(t.body[1])}})

RECURSIVE Legal(_, _)
Legal(ss, loop) ==
  \A i \in DOMAIN ss :
    LET s == ss[i]
    IN  CASE s.op \in {"break", "continue"} -> loop
          [] s.op = "if"             -> Legal(s.body, loop) /\ Legal(s.orelse, loop)
          [] s.op \in {"while", "for"} -> Legal(s.body, TRUE) /\ Legal(s.orelse, loop)
          [] s.op = "try"            -> /\ Legal(s.body, loop) /\ Legal(s.orelse, loop) /\ Legal(s.finalbody, loop)
                                        /\ \A j \in DOMAIN s.handlers : Legal(s.handlers[j].body, loop)
          [] OTHER                   -> TRUE

MCPrograms ==
  {p \in {<<s, Do(10)>> : s \in Tries \cup NestedTries \cup InLoops \cup TwoLoops \cup LoopInTry \cup Deep} : Legal(p, FALSE)}

(* for x in xs: for x in xs: break                                         *)
BreakInner == {<<Each(<<Each(<<s>>, <<>>)>>, <<>>)>> : s \in {Brk, Cont}}
=============================================================================
