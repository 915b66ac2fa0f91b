--------------------------------- MODULE Ints ---------------------------------
(***************************************************************************)
(* Python integers (types/longobject.rs) and the arithmetic of the         *)
(* interpreter on them (vm/interpreter.rs).  An integer is a sign and      *)
(* digits of Shift bits, the lowest first; C values have Width bits, and   *)
(* the interpreter computes with C values only.                            *)
(*                                                                         *)
(* The program makes an integer of a C value, a double or a text, computes *)
(* with it at most once, and reads the result back.  Null is no value: it  *)
(* does not fit, it is not a number, or nothing was read.                  *)
(***************************************************************************)
EXTENDS Common, Integers, Sequences

CONSTANTS
    Width, Shift,
    SmallMin, SmallMax,  \* the integers that are made once
    Larges,              \* what doubles hold, any size
    Texts, Bases,        \* what the program parses, in which bases
    MaxValue             \* bound on what digits are taken of

VARIABLES
    int,    \* the integer: [negative, digits]
    done,   \* the last operation, what it was given (a text and a base for
            \* PyLong_FromString): [op, left, right]
    word    \* the C value it returned, or Null

intVars == <<int, done, word>>

(* b to the n-th.                                                          *)
Power(b, n) == LET p[k \in Nat] == IF k = 0 THEN 1 ELSE b * p[k - 1] IN p[n]

WordMin == -Power(2, Width - 1)
WordMax == Power(2, Width - 1) - 1
Words   == WordMin .. WordMax
Unsigned == 0 .. Power(2, Width) - 1
Base    == Power(2, Shift)
Wrap(n) == ((n - WordMin) % Power(2, Width)) + WordMin
Abs(n)  == IF n < 0 THEN -n ELSE n

(* What digits stand for in base b, the lowest first.                      *)
Numeral(s, b) ==
    LET up[k \in 1 .. Len(s) + 1] ==
            IF k > Len(s) THEN 0 ELSE s[k] + b * up[k + 1]
    IN  up[1]

(* 0 to 9 and a to z.  A text has its last character first, as an integer  *)
(* has its digits, and no separators.                                      *)
Characters == 0 .. 35

(* What i64::from_str_radix and BigInt's parse read in base b, any size.   *)
Parsed(t, b) ==
    IF t.digits = <<>> \/ \E k \in 1 .. Len(t.digits) : t.digits[k] >= b THEN Null
    ELSE IF t.sign = "-" THEN -Numeral(t.digits, b) ELSE Numeral(t.digits, b)

ASSUME IntAssumption ==
    /\ Width \in Nat \ {0, 1} /\ Shift \in 1 .. Width
    /\ SmallMin \in Words /\ SmallMax \in Words /\ SmallMin <= 0 /\ 0 <= SmallMax
    /\ MaxValue \in Nat /\ MaxValue >= Power(2, Width) /\ Larges \subseteq -MaxValue .. MaxValue
    /\ Texts \subseteq [sign : {"none", "+", "-"}, digits : Seq(Characters)]
    /\ \A t \in Texts : Parsed(t, 10) # Null => Abs(Parsed(t, 10)) <= MaxValue
    /\ Bases \subseteq {0} \cup 2 .. 36
    /\ Null \notin Int

(* The digits of a number that is not negative; 0 has none.                *)
DigitsOf[n \in 0 .. MaxValue] ==
    IF n = 0 THEN <<>> ELSE <<n % Base>> \o DigitsOf[n \div Base]

Value(i) == IF i.negative THEN -Numeral(i.digits, Base) ELSE Numeral(i.digits, Base)

-----------------------------------------------------------------------------
(* create_long_from_i64, and create_long with its cache of small integers. *)
FromWord(v) == [negative |-> v < 0, digits |-> DigitsOf[Abs(v)]]

SmallInts == [i \in 0 .. SmallMax - SmallMin |-> FromWord(SmallMin + i)]

CreateLong(v) ==
    IF v >= SmallMin /\ v <= SmallMax THEN SmallInts[v - SmallMin] ELSE FromWord(v)

(* PyLong_FromUnsignedLong keeps the bits and not the value.               *)
FromUnsigned(v) == IF v > WordMax THEN FromWord(Wrap(v)) ELSE CreateLong(v)

(* Mutant: what is no signed C value is kept in one digit.                 *)
FromUnsignedInOne(v) ==
    IF v > WordMax THEN [negative |-> FALSE, digits |-> <<v>>] ELSE CreateLong(v)

(* PyLong_FromUnsignedLongLong and PyLong_FromSize_t.                      *)
FromUnsignedLongLong(v) ==
    IF v > WordMax THEN [negative |-> FALSE, digits |-> DigitsOf[v]] ELSE CreateLong(v)

(* PyLong_FromDouble: the cast truncates and stops at the ends.            *)
FromDouble(n) == CreateLong(IF n > WordMax THEN WordMax ELSE IF n < WordMin THEN WordMin ELSE n)

(* 0x, 0o or 0b in front of the digits says the base.                      *)
Letter(b)      == CASE b = 16 -> 33 [] b = 8 -> 24 [] b = 2 -> 11
Prefixed(t, b) == LET s == t.digits
                  IN  Len(s) >= 2 /\ s[Len(s)] = 0 /\ s[Len(s) - 1] = Letter(b)
Stripped(t)    == [sign |-> t.sign, digits |-> SubSeq(t.digits, 1, Len(t.digits) - 2)]

(* A prefix is looked for with no base given, at the start of the text.    *)
ParsedWord(t, base) ==
    LET found == {b \in {2, 8, 16} : base = 0 /\ t.sign = "none" /\ Prefixed(t, b)}
        n == IF found # {} THEN Parsed(Stripped(t), CHOOSE b \in found : TRUE)
             ELSE Parsed(t, IF base = 0 THEN 10 ELSE base)
    IN  IF n \in Words THEN n ELSE Null

(* create_long_from_bigint.                                                *)
FromBigInt(n) ==
    IF n \in Words THEN CreateLong(n) ELSE [negative |-> n < 0, digits |-> DigitsOf[Abs(n)]]

(* PyLong_FromString: the C value that was parsed, else a BigInt, whose    *)
(* parse takes the whole text as decimal whatever the base, else NULL.     *)
Rejected(t, base) == ParsedWord(t, base) = Null /\ Parsed(t, 10) = Null

FromString(t, base) ==
    IF ParsedWord(t, base) # Null THEN CreateLong(ParsedWord(t, base)) ELSE FromBigInt(Parsed(t, 10))

(* pylong_to_i64: from the highest digit, each shift checked before.       *)
Shifted(acc, digit) ==
    IF acc = Null THEN Null
    ELSE IF acc > (Power(2, Width) - 1) \div Base THEN Null
    ELSE ((acc * Base) % Power(2, Width)) + digit

ToWord(i) ==
    LET acc[k \in 1 .. Len(i.digits) + 1] ==
            IF k > Len(i.digits) THEN 0 ELSE Shifted(acc[k + 1], i.digits[k])
        n == acc[1]
    IN  IF n = Null THEN Null
        ELSE IF i.negative THEN (IF n > WordMax + 1 THEN Null ELSE -n)
        ELSE IF n > WordMax THEN Null ELSE n

(* PyLong_AsLong, AsLongLong and AsSsize_t: -1 for what does not fit.      *)
AsSigned(i) == IF ToWord(i) = Null THEN -1 ELSE ToWord(i)

(* PyLong_AsUnsignedLong, AsUnsignedLongLong and AsSize_t.                 *)
AsUnsigned(i) == IF ToWord(i) = Null THEN 0 ELSE IF ToWord(i) < 0 THEN 0 ELSE ToWord(i)

(* get_int_value: what the interpreter computes with.                      *)
AsOperand(i) == IF ToWord(i) = Null THEN 0 ELSE ToWord(i)

-----------------------------------------------------------------------------
(* The binary operations on two C values.                                  *)
SignsDiffer(m, n) == (m < 0) # (n < 0)
Quotient(l, r)    == (IF SignsDiffer(l, r) THEN -1 ELSE 1) * (Abs(l) \div Abs(r))
Remainder(l, r)   == l - Quotient(l, r) * r

(* Mutant: it truncates.                                                   *)
FloorDivTruncated(l, r) == Wrap(Quotient(l, r))

FloorDiv(l, r) ==
    LET d == Wrap(Quotient(l, r))
    IN  IF SignsDiffer(l, r) /\ d * r # l THEN d - 1 ELSE d

Mod(l, r) ==
    LET m == Remainder(l, r)
    IN  IF m # 0 /\ SignsDiffer(m, r) THEN m + r ELSE m

(* Shift counts are taken modulo the width of a C value.                   *)
LShift(l, r) == Wrap(l * Power(2, r % Width))
RShift(l, r) == l \div Power(2, r % Width)

Pow(l, r) == LET p[n \in Nat] == IF n = 0 THEN 1 ELSE Wrap(p[n - 1] * l) IN p[r]

Ops == {"add", "sub", "mul", "floordiv", "mod", "pow", "lshift", "rshift"}

(* No integer comes of a division by 0 (an exception), the remainder of    *)
(* the least value by -1 (a panic) or a power that becomes a float.        *)
Defined(op, l, r) ==
    /\ op \in {"floordiv", "mod"} => r # 0
    /\ op = "mod" => ~(l = WordMin /\ r = -1)
    /\ op = "pow" => r \in 0 .. Width - 1

Result(op, l, r) ==
    CASE op = "add"      -> Wrap(l + r)
      [] op = "sub"      -> Wrap(l - r)
      [] op = "mul"      -> Wrap(l * r)
      [] op = "floordiv" -> FloorDiv(l, r)
      [] op = "mod"      -> Mod(l, r)
      [] op = "pow"      -> Pow(l, r)
      [] op = "lshift"   -> LShift(l, r)
      [] op = "rshift"   -> RShift(l, r)

-----------------------------------------------------------------------------
Conversions == {"from_long", "from_unsigned", "from_size", "from_double", "from_string"}
OfTexts     == {"from_string", "no_integer"}
Reads       == {"as_long", "as_size"}

Did(op, l, r, w) == done' = [op |-> op, left |-> l, right |-> r] /\ word' = w

Convert ==
    /\ done.op = "start"
    /\ \/ \E v \in Words    : int' = CreateLong(v) /\ Did("from_long", v, 0, Null)
       \/ \E v \in Unsigned : int' = FromUnsigned(v) /\ Did("from_unsigned", v, 0, Null)
       \/ \E v \in Unsigned : int' = FromUnsignedLongLong(v) /\ Did("from_size", v, 0, Null)
       \/ \E n \in Larges   : int' = FromDouble(n) /\ Did("from_double", n, 0, Null)
       \/ \E t \in Texts, b \in Bases :
            \/ ~Rejected(t, b) /\ int' = FromString(t, b) /\ Did("from_string", t, b, Null)
            \/ Rejected(t, b) /\ UNCHANGED int /\ Did("no_integer", t, b, Null)

Compute ==
    /\ done.op \in Conversions
    /\ \E op \in Ops, r \in Words :
         LET l == AsOperand(int) IN
         /\ Defined(op, l, r)
         /\ int' = CreateLong(Result(op, l, r))
         /\ Did(op, Value(int), r, Null)

Read ==
    /\ done.op \in Conversions \cup Ops
    /\ UNCHANGED int
    /\ \/ Did("as_long", Value(int), 0, AsSigned(int))
       \/ Did("as_size", Value(int), 0, AsUnsigned(int))

IntInit == int = CreateLong(0) /\ done = [op |-> "start", left |-> 0, right |-> 0] /\ word = Null

IntNext == Convert \/ Read \/ Compute

IntSpec == IntInit /\ [][IntNext]_intVars

-----------------------------------------------------------------------------
IntsTypeOK ==
    /\ int.negative \in BOOLEAN
    /\ int.digits \in Seq(0 .. Base - 1)
    /\ done.op \in {"start"} \cup Conversions \cup OfTexts \cup Ops \cup Reads
    /\ IF done.op \in OfTexts THEN done.left \in Texts /\ done.right \in Bases
       ELSE done.left \in Int /\ done.right \in Words
    /\ word \in Words \cup {Null}

(* An integer has the value it was made from, in the only digits that have *)
(* it, and is read back exactly; a read that cannot be exact gives -1 or 0 *)
(* and no other value.  (PyLong_FromUnsignedLong and PyLong_FromDouble of  *)
(* what no C value holds are left out; texts follow.)                      *)
ConversionsExact ==
    /\ int.digits # <<>> => int.digits[Len(int.digits)] # 0
    /\ \/ done.op \in {"from_long", "from_size"}
       \/ done.op \in {"from_unsigned", "from_double"} /\ done.left \in Words
       => Value(int) = done.left
    /\ done.op = "as_long" => word = IF done.left \in Words THEN done.left ELSE -1
    /\ done.op = "as_size" => word = IF done.left \in Words /\ done.left >= 0
                                     THEN done.left ELSE 0

(* What Python makes of a text: a prefix may follow a sign and repeat the  *)
(* base that is given; a decimal literal does not start with a needless 0. *)
Marks(t, base) == {b \in {2, 8, 16} : base \in {0, b} /\ Prefixed(t, b)}

InPython(t, base) ==
    IF Marks(t, base) # {} THEN Parsed(Stripped(t), CHOOSE b \in Marks(t, base) : TRUE)
    ELSE IF base # 0 THEN Parsed(t, base)
    ELSE IF t.digits # <<>> /\ t.digits[Len(t.digits)] = 0 /\ \E k \in 1 .. Len(t.digits) : t.digits[k] # 0
    THEN Null
    ELSE Parsed(t, 10)

(* A number Python reads in a text is the integer made of it, if a C value *)
(* holds it, or at any size in decimal.  The code differs from Python, and *)
(* that is left out, on a prefix behind a sign or with its base given (no  *)
(* integer is made), on a number in another base that no C value holds (it *)
(* is read as decimal, or no integer is made), and on texts that Python    *)
(* rejects (some are read as decimal).                                     *)
TextsExact ==
    done.op \in OfTexts =>
        LET t == done.left
            base == done.right
            n == InPython(t, base)
        IN  /\ n # Null
            /\ Marks(t, base) # {} => base = 0 /\ t.sign = "none"
            /\ n \in Words \/ base = 10 \/ (base = 0 /\ Marks(t, base) = {})
            => done.op = "from_string" /\ Value(int) = n

(* What Python says of an operation, for a right operand it accepts.       *)
Exact(op, l, r) ==
    CASE op = "add"      -> {l + r}
      [] op = "sub"      -> {l - r}
      [] op = "mul"      -> {l * r}
      [] op = "floordiv" -> {q \in -Power(2, Width) .. Power(2, Width) :
                                /\ r > 0 => q * r <= l /\ l < (q + 1) * r
                                /\ r < 0 => q * r >= l /\ l > (q + 1) * r}
      [] op = "mod"      -> {m \in Words : /\ r > 0 => 0 <= m /\ m < r
                                           /\ r < 0 => r < m /\ m <= 0
                                           /\ \E q \in -Power(2, Width) .. Power(2, Width) : q * r + m = l}
      [] op = "pow"      -> {Power(l, r)}
      [] op = "lshift"   -> IF r \in 0 .. Width - 1 THEN {l * Power(2, r)} ELSE {}
      [] op = "rshift"   -> IF r \in 0 .. Width - 1 THEN {l \div Power(2, r)} ELSE {}

(* Arithmetic on integers that fit a C value is Python's wherever its      *)
(* result fits too: a quotient rounds down, a remainder has the sign of    *)
(* the divisor, no intermediate overflow shows.  (Powers with an exponent  *)
(* of Width or more are left out: they are floats here, 1 ** 64 too.)      *)
ArithmeticExact ==
    done.op \in Ops /\ done.left \in Words =>
        \A n \in Exact(done.op, done.left, done.right) : n \in Words => Value(int) = n

(* longobject.rs: an integer is what it was made from and reads back so,   *)
(* but for the texts and C values named above; the binary operations of    *)
(* interpreter.rs are Python's while they fit.                             *)
IntegersExact == ConversionsExact /\ TextsExact /\ ArithmeticExact
=============================================================================
