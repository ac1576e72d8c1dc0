------------------------------ MODULE Verinum ------------------------------
(***************************************************************************)
(* The arithmetic of constants in the compiler: numbers of any length with *)
(* bits 0, 1 and x (verinum.cc), and the expressions that are replaced by   *)
(* their value (eval_tree.cc).  Operands without a length are computed      *)
(* without loss and cut to the width of the expression afterwards; what    *)
(* fits into a long of the compiler is divided by it.                      *)
(***************************************************************************)
EXTENDS Integers, Sequences, SequencesExt

CONSTANTS
    LongBits,      \* 8 * sizeof(long) of the compiler
    IntegerWidth,  \* integer_width
    Widths         \* the widths of expressions

ConstantsOK ==
    LongBits \in Nat \ {0} /\ IntegerWidth \in Nat \ {0} /\ Widths \subseteq Nat \ {0}

VARIABLES
    l, r,     \* the values of the operands
    op,       \* the operator, "none" before it is evaluated
    result    \* the value of the expression, or None

vars == <<l, r, op, result>>

-----------------------------------------------------------------------------
X == 2   \* Vx; Vz behaves like it

(* A number: its bits from the lowest, whether its length is fixed, and     *)
(* whether it is signed.                                                    *)
Num(bits, hasLen, sign) == [bits |-> bits, hasLen |-> hasLen, sign |-> sign]
All(bit, n, hasLen, sign) == Num([i \in 1..n |-> bit], hasLen, sign)

Size(v)       == Len(v.bits)
IsDefined(v)  == \A i \in DOMAIN v.bits : v.bits[i] # X
IsZero(v)     == \A i \in DOMAIN v.bits : v.bits[i] = 0
IsNegative(v) == v.sign /\ Last(v.bits) = 1
SignBit(v)    == IF v.sign THEN Last(v.bits) ELSE 0

Longer(a, b) == IF Size(a) > Size(b) THEN Size(a) ELSE Size(b)

(* The bits of v, continued with its sign to n bits. *)
Extended(v, n) == [i \in 1..n |-> IF i <= Size(v) THEN v.bits[i] ELSE SignBit(v)]

Inverted(bits) == [i \in DOMAIN bits |-> 1 - bits[i]]

RECURSIVE WithCarry(_, _, _)
WithCarry(a, b, carry) ==
    IF a = <<>> THEN <<>>
    ELSE LET sum == Head(a) + Head(b) + carry
         IN  <<sum % 2>> \o WithCarry(Tail(a), Tail(b), sum \div 2)

-----------------------------------------------------------------------------
(***************************************************************************)
(* Lengths.                                                                *)
(***************************************************************************)
(* Mutant: the sign bit is cut off as well.                                *)
TrimmedNoSign(v) ==
    IF v.hasLen \/ Size(v) < 2 THEN v
    ELSE LET sign == IF v.sign THEN Last(v.bits) ELSE 0
             other == {i \in DOMAIN v.bits : v.bits[i] # sign}
             top  == IF other = {} THEN 1 ELSE CHOOSE i \in other : \A j \in other : j <= i
         IN  [v EXCEPT !.bits = SubSeq(@, 1, top)]

(* trim_vnum: what has no length keeps one bit that is not needed: the sign, *)
(* or a leading 0.                                                          *)
Trimmed(v) ==
    IF v.hasLen \/ Size(v) < 2 THEN v
    ELSE LET sign == IF v.sign THEN Last(v.bits) ELSE 0
             other == {i \in DOMAIN v.bits : v.bits[i] # sign}
             top  == IF other = {} THEN 0 ELSE CHOOSE i \in other : \A j \in other : j <= i
         IN  IF top = Size(v) THEN v ELSE [v EXCEPT !.bits = SubSeq(@, 1, top + 1)]

(* cast_to_width: the top bit is repeated if it is a sign, or an x of a     *)
(* number without a length.                                                 *)
CastToWidth(v, width) ==
    LET top == Last(v.bits)
        pad == IF v.sign \/ (top = X /\ ~ v.hasLen) THEN top ELSE 0
    IN  Num([i \in 1..width |-> IF i <= Size(v) THEN v.bits[i] ELSE pad], TRUE, v.sign)

-----------------------------------------------------------------------------
(***************************************************************************)
(* Addition, subtraction, negation.                                        *)
(***************************************************************************)
BothLen(a, b)  == a.hasLen /\ b.hasLen
BothSign(a, b) == a.sign /\ b.sign

Undefined(n, hasLen, sign) == All(X, IF hasLen THEN n ELSE 1, hasLen, sign)

(* The sum has one bit more than it may need.  It is kept if the number has *)
(* no length and the bit says something.                                    *)
Shortest(sum, grows) ==
    LET n == Len(sum) - 1 IN IF grows THEN sum ELSE SubSeq(sum, 1, n)

Plus(a, b) ==
    LET n    == Longer(a, b)
        len  == BothLen(a, b)
        sign == BothSign(a, b)
        sum  == WithCarry(Extended(a, n + 1), Extended(b, n + 1), 0)
    IN  IF ~ IsDefined(a) \/ ~ IsDefined(b) THEN Undefined(n, len, sign)
        ELSE Num(Shortest(sum, ~ len /\ sum[n + 1] # (IF sign THEN sum[n] ELSE 0)), len, sign)

Minus(a, b) ==
    LET n    == Longer(a, b)
        len  == BothLen(a, b)
        sign == BothSign(a, b)
        dif  == WithCarry(Extended(a, n + 1), Inverted(Extended(b, n + 1)), 1)
    IN  IF ~ IsDefined(a) \/ ~ IsDefined(b) THEN Undefined(n, len, sign)
        ELSE Num(Shortest(dif, ~ len /\ sign /\ dif[n + 1] # dif[n]), len, sign)

Negated(v) ==
    LET n   == Size(v)
        neg == WithCarry([i \in 1..(n + 1) |-> 0], Inverted(Extended(v, n + 1)), 1)
    IN  IF ~ IsDefined(v) THEN Undefined(n, v.hasLen, v.sign)
        ELSE Num(Shortest(neg, ~ v.hasLen /\ v.sign /\ neg[n + 1] # neg[n]), v.hasLen, v.sign)

-----------------------------------------------------------------------------
(***************************************************************************)
(* Multiplication, power and shifts.                                       *)
(***************************************************************************)
(* The left number is added once for every bit of the right one. *)
RECURSIVE ShiftAdd(_, _, _)
ShiftAdd(a, factor, sum) ==
    IF factor = <<>> THEN <<>>
    ELSE LET n    == Len(factor)
             next == IF Head(factor) = 0 THEN sum ELSE WithCarry(Extended(a, n), sum, 0)
         IN  <<Head(next)>> \o ShiftAdd(a, Tail(factor), Tail(next))

Times(a, b) ==
    LET len  == BothLen(a, b)
        sign == BothSign(a, b)
        n    == IF len THEN Longer(a, b) ELSE Size(a) + Size(b)
    IN  IF ~ IsDefined(a) \/ ~ IsDefined(b) THEN Undefined(n, len, sign)
        ELSE Trimmed(Num(ShiftAdd(a, Extended(b, n), [i \in 1..n |-> 0]), len, sign))

ShiftedLeft(v, n) ==
    LET size == IF v.hasLen THEN Size(v) ELSE Size(v) + n
    IN  Trimmed([v EXCEPT !.bits = [i \in 1..size |-> IF i > n THEN v.bits[i - n] ELSE 0]])

ShiftedRight(v, n) ==
    IF n >= Size(v) THEN [v EXCEPT !.bits = [i \in 1..(IF v.hasLen THEN Size(v) ELSE 1) |-> SignBit(v)]]
    ELSE LET size == IF v.hasLen THEN Size(v) ELSE Size(v) - n
         IN  Trimmed([v EXCEPT !.bits =
                 [i \in 1..size |-> IF i + n <= Size(v) THEN v.bits[i + n] ELSE SignBit(v)]])

(* 1 and -1 as the left operand of a power has them. *)
POne(v) == LET n == IF v.hasLen THEN Size(v) ELSE 2
           IN  [v EXCEPT !.bits = [i \in 1..n |-> IF i = 1 THEN 1 ELSE 0]]
MOne(v) == All(1, IF v.hasLen THEN Size(v) ELSE 1, v.hasLen, v.sign)

-----------------------------------------------------------------------------
(***************************************************************************)
(* Comparison.  Numbers are compared with their signs if both have one.     *)
(***************************************************************************)
Pad(v, other) == IF BothSign(v, other) THEN Last(v.bits) ELSE 0

Common(v, other) ==
    [i \in 1..Longer(v, other) |-> IF i <= Size(v) THEN v.bits[i] ELSE Pad(v, other)]

Equal(a, b) == Common(a, b) = Common(b, a)

(* operator < and operator <=, from the highest bit down, of numbers that   *)
(* are defined.  A bit that differs from the sign of the other decides.     *)
Below(a, b, ifEqual) ==
    LET differ == {i \in 1..Longer(a, b) : Common(a, b)[i] # Common(b, a)[i]}
        top    == CHOOSE i \in differ : \A j \in differ : j <= i
    IN  IF Pad(a, b) # Pad(b, a) THEN Pad(a, b) = 1
        ELSE IF differ = {} THEN ifEqual
        ELSE Common(a, b)[top] = 0

Less(a, b)     == Below(a, b, FALSE)
LessOrEq(a, b) == Below(a, b, TRUE)

-----------------------------------------------------------------------------
(* pow and recursive_pow: an odd exponent loses its lowest bit, an even one *)
(* is halved.                                                              *)
RECURSIVE Pow(_, _)
Pow(a, b) ==
    LET minus == a.sign /\ Equal(a, MOne(a))
        power ==
            CASE ~ IsDefined(a) \/ ~ IsDefined(b) -> [a EXCEPT !.bits = [i \in DOMAIN @ |-> X]]
              [] OTHER ->
                 IF IsZero(b) THEN POne(a)
                 ELSE IF IsNegative(b) THEN
                    IF IsZero(a) THEN [a EXCEPT !.bits = [i \in DOMAIN @ |-> X]]
                    ELSE IF minus THEN IF b.bits[1] = 0 THEN POne(a) ELSE MOne(a)
                    ELSE IF Equal(a, POne(a)) THEN POne(a)
                    ELSE [a EXCEPT !.bits = [i \in DOMAIN @ |-> 0]]
                 ELSE IF b.bits[1] = 1 THEN Times(a, Pow(a, [b EXCEPT !.bits[1] = 0]))
                 ELSE LET root == Pow(a, ShiftedRight(b, 1)) IN Times(root, root)
    IN  Trimmed(power)

-----------------------------------------------------------------------------
(***************************************************************************)
(* Division.                                                               *)
(***************************************************************************)
RECURSIVE Sum(_)
Sum(bits) == IF bits = <<>> THEN 0 ELSE Head(bits) + 2 * Sum(Tail(bits))

(* as_long, which has no room for more than LongBits bits, and as_ulong.    *)
AsLong(v) ==
    LET n == IF Size(v) < LongBits THEN Size(v) ELSE LongBits - 1
    IN  Sum(SubSeq(v.bits, 1, n)) - (IF IsNegative(v) THEN 2^n ELSE 0)
AsULong(v) == Sum(v.bits)

BitsOf(n, size) == [i \in 1..size |-> (n \div 2^(i - 1)) % 2]

(* Division of the machine rounds toward 0. *)
Magnitude(n) == IF n < 0 THEN - n ELSE n
Truncated(a, b) ==
    LET q == Magnitude(a) \div Magnitude(b) IN IF (a < 0) = (b < 0) THEN q ELSE - q
Remainder(a, b) == a - b * Truncated(a, b)

(* How many bits are left without leading zeros. *)
Significant(v) ==
    LET ones == {i \in DOMAIN v.bits : v.bits[i] = 1}
    IN  IF ones = {} THEN 0 ELSE CHOOSE i \in ones : \A j \in ones : j <= i

(* The loop of unsigned_divide and unsigned_modulus: den is taken from num   *)
(* if it can be, and halved.                                               *)
RECURSIVE LongDivision(_, _, _)
LongDivision(num, den, n) ==
    IF n = 0 THEN [rest |-> num, quotient |-> <<>>]
    ELSE LET fits == LessOrEq(den, num)
             more == LongDivision(IF fits THEN Minus(num, den) ELSE num,
                                  ShiftedRight(den, 1), n - 1)
         IN  [more EXCEPT !.quotient = Append(@, IF fits THEN 1 ELSE 0)]

Lossless(v) == [v EXCEPT !.hasLen = FALSE]

LongDivided(a, b) ==
    LET gap == Significant(a) - Significant(b)
    IN  LongDivision(Lossless(a), ShiftedLeft(Lossless(b), gap), gap + 1)

UnsignedDivide(a, b, sign) ==
    IF Significant(b) > Significant(a) THEN Num(<<0>>, TRUE, FALSE)
    ELSE LET q == LongDivided(a, b).quotient
         IN  IF sign THEN Num(Append(q, 0), TRUE, TRUE) ELSE Num(q, TRUE, FALSE)

UnsignedModulus(a, b) ==
    IF Significant(b) > Significant(a) THEN Lossless(a) ELSE LongDivided(a, b).rest

Absolute(v) == [(IF IsNegative(v) THEN Negated(v) ELSE v) EXCEPT !.sign = FALSE]
NegatedIf(c, v) == IF c THEN Negated(v) ELSE v

(* operator / and operator % from here on do the same with their results.   *)
Finished(value, a, b) ==
    LET v == IF BothLen(a, b) THEN CastToWidth(value, Size(a)) ELSE value
    IN  Trimmed([v EXCEPT !.sign = BothSign(a, b)])

NoQuotient(a, b) == ~ IsDefined(a) \/ ~ IsDefined(b) \/ IsZero(b)
Native(n, a, b)  == Num(BitsOf(n, Size(a)), BothLen(a, b), FALSE)

Divide(a, b) ==
    IF NoQuotient(a, b) THEN All(X, Size(a), BothLen(a, b), BothSign(a, b))
    ELSE Finished(
        IF BothSign(a, b) THEN
            IF Size(a) <= LongBits - 1 THEN Native(Truncated(AsLong(a), AsLong(b)), a, b)
            ELSE NegatedIf(IsNegative(a) # IsNegative(b),
                           UnsignedDivide(Absolute(a), Absolute(b), TRUE))
        ELSE IF Size(a) <= LongBits THEN Native(AsULong(a) \div AsULong(b), a, b)
        ELSE UnsignedDivide(a, b, FALSE), a, b)

(* The smallest long modulo -1 is undefined, and stops the compiler on most  *)
(* machines.                                                               *)
Overflows(a, b) ==
    /\ BothSign(a, b) /\ ~ NoQuotient(a, b) /\ Size(a) = LongBits
    /\ AsLong(a) = - 2^(LongBits - 1) /\ AsLong(b) = -1

Modulus(a, b) ==
    IF NoQuotient(a, b) THEN All(X, Size(a), BothLen(a, b), BothSign(a, b))
    ELSE Finished(
        IF BothSign(a, b) THEN
            IF Size(a) <= LongBits THEN Native(Remainder(AsLong(a), AsLong(b)), a, b)
            ELSE NegatedIf(IsNegative(a), UnsignedModulus(Absolute(a), Absolute(b)))
        ELSE IF Size(a) <= LongBits THEN Native(AsULong(a) % AsULong(b), a, b)
        ELSE UnsignedModulus(a, b), a, b)

-----------------------------------------------------------------------------
(***************************************************************************)
(* Expressions (eval_tree.cc).  Both operands have the width of the         *)
(* expression, except that the right one of a shift or a power may be of    *)
(* any width.                                                              *)
(***************************************************************************)
None == [bits |-> <<>>, hasLen |-> TRUE, sign |-> FALSE]
Bit(b) == Num(<<b>>, TRUE, FALSE)
Truth(p) == Bit(IF p THEN 1 ELSE 0)

Shift(v, n, kind) ==
    CASE kind = "<<"  -> ShiftedLeft(v, n)
      [] kind = ">>"  -> ShiftedRight([v EXCEPT !.sign = FALSE], n)
      [] kind = ">>>" -> ShiftedRight(v, n)

Computed(o, a, b) ==
    CASE o = "+"  -> Plus(a, b)
      [] o = "-"  -> Minus(a, b)
      [] o = "*"  -> Times(a, b)
      [] o = "/"  -> Divide(a, b)
      [] o = "%"  -> Modulus(a, b)
      [] o = "**" -> Pow(a, b)
      [] o \in {"<<", ">>", ">>>"} ->
            IF IsDefined(b) THEN Shift(a, AsULong(b), o) ELSE All(X, Size(a), TRUE, a.sign)

(* Both operands are constant. *)
Arithmetic(o, a, b) == CastToWidth(Computed(o, a, b), Size(a))

(* (a inner c) outer d is rewritten with one constant on the right.         *)
Refolded(inner, outer, c, d) ==
    CastToWidth(IF inner = outer THEN Plus(d, c) ELSE Minus(d, c), Size(c))

(* must_be_leeq_: a is not known, but has two values for each bit.          *)
MustBeBelow(a, b, orEqual) ==
    LET most == [All(1, Size(a), TRUE, BothSign(a, b)) EXCEPT
                    !.bits[Size(a)] = IF BothSign(a, b) THEN 0 ELSE 1]
    IN  Less(most, b) \/ (orEqual /\ Equal(most, b))

(* eval_less_, eval_leeq_, and for > and >= the same with the operands the   *)
(* other way round: known says which operands are constants, and logic that *)
(* a may have bits that are x.                                             *)
Ordered(a, b, orEqual, known, logic) ==
    IF "b" \notin known THEN None
    ELSE IF ~ IsDefined(b) THEN Bit(X)
    ELSE IF ~ logic /\ MustBeBelow(a, b, orEqual) THEN Bit(1)
    ELSE IF "a" \notin known THEN None
    ELSE IF ~ IsDefined(a) THEN Bit(X)
    ELSE Truth(Below(a, b, orEqual))

(* eval_eqeq_: the first defined bits that differ decide. *)
Same(a, b) ==
    IF \E i \in DOMAIN a.bits : a.bits[i] # b.bits[i] /\ X \notin {a.bits[i], b.bits[i]}
    THEN Bit(0)
    ELSE IF IsDefined(a) /\ IsDefined(b) THEN Bit(1) ELSE Bit(X)

(* evaluate_clog2_: halved until nothing is left. *)
RECURSIVE Halvings(_)
Halvings(v) == IF IsZero(v) THEN 0 ELSE 1 + Halvings(ShiftedRight(v, 1))

Clog2(v) ==
    LET arg == [(IF IsNegative(v) /\ ~ v.hasLen THEN Trimmed(v) ELSE v) EXCEPT !.sign = FALSE]
        res == IF IsZero(arg) THEN 0 ELSE Halvings(Minus(arg, Bit(1)))
    IN  IF IsNegative(v) /\ res < IntegerWidth THEN IntegerWidth ELSE res

-----------------------------------------------------------------------------
(***************************************************************************)
(* The numbers that expressions have: those without a length come from the  *)
(* compiler itself and have no x.                                          *)
(***************************************************************************)
Numbers(width, sign) ==
    {Num(bits, len, sign) : bits \in [1..width -> {0, 1}], len \in BOOLEAN}
        \cup {Num([i \in 1..width |-> IF i = x THEN X ELSE b], TRUE, sign) :
                 x \in {1, width}, b \in {0, 1}}

Arithmetics == {"+", "-", "*", "/", "%", "**", "<<", ">>", ">>>"}
Orders      == {"<", "<=", ">", ">="}

Init ==
    /\ \E width \in Widths, sign \in BOOLEAN :
        l \in Numbers(width, sign) /\ r \in Numbers(width, sign)
    /\ op = [do |-> "none"] /\ result = None

EvalArithmetic ==
    \E o \in Arithmetics :
        /\ ~ (o = "%" /\ Overflows(l, r))
        /\ op' = [do |-> o]
        /\ result' = Arithmetic(o, l, r)

EvalUnary ==
    \/ op' = [do |-> "minus"] /\ result' = Negated(l)
    \/ /\ op' = [do |-> "abs"]
       /\ result' = IF IsDefined(l) THEN NegatedIf(IsNegative(l), l)
                    ELSE [l EXCEPT !.bits = [i \in DOMAIN @ |-> X]]

(* l is not known; what is left is computed when the program runs.          *)
EvalNested ==
    \E inner, outer \in {"+", "-"}, c \in {r, POne(r), MOne(r)} :
        /\ Size(c) = Size(r)
        /\ op' = [do |-> "nested", inner |-> inner, outer |-> outer, c |-> c]
        /\ result' = Refolded(inner, outer, c, r)

EvalOrder ==
    \E o \in Orders, known \in SUBSET {"a", "b"}, logic \in BOOLEAN :
        LET back == o \in {">", ">="}
            a == IF back THEN r ELSE l
            b == IF back THEN l ELSE r
        IN  /\ IsDefined(a) \/ logic
            /\ op' = [do |-> o]
            /\ result' = Ordered(a, b, o \in {"<=", ">="}, known, logic)

EvalEqual ==
    /\ op' = [do |-> "=="]
    /\ result' = Same(l, r)

EvalClog2 ==
    /\ IsDefined(l)
    /\ op' = [do |-> "clog2"]
    /\ result' = Num(BitsOf(Clog2(l), 8), TRUE, TRUE)

Next ==
    /\ op.do = "none"
    /\ EvalArithmetic \/ EvalUnary \/ EvalNested \/ EvalOrder \/ EvalEqual \/ EvalClog2
    /\ UNCHANGED <<l, r>>

-----------------------------------------------------------------------------
(***************************************************************************)
(* The reference: integers modulo 2^width.                                 *)
(***************************************************************************)
Value(v) == Sum(v.bits) - (IF IsNegative(v) THEN 2^Size(v) ELSE 0)

Defined2 == IsDefined(l) /\ IsDefined(r)

RECURSIVE Power(_, _, _)
Power(a, n, modulus) == IF n = 0 THEN 1 ELSE (a * Power(a, n - 1, modulus)) % modulus

(* The value of l o r, for defined operands for which there is one. *)
Integer(o) ==
    LET a == Value(l)
        b == Value(r)
    IN  CASE o = "+"   -> a + b
          [] o = "-"   -> a - b
          [] o = "*"   -> a * b
          [] o = "/"   -> Truncated(a, b)
          [] o = "%"   -> Remainder(a, b)
          [] o = "**"  -> IF b >= 0 THEN Power(a, b, 2^Size(l))
                          ELSE IF a = 1 \/ (a = -1 /\ b % 2 = 0) THEN 1
                          ELSE IF a = -1 THEN -1 ELSE 0
          [] o = "<<"  -> a * 2^Sum(r.bits)
          [] o = ">>"  -> Sum(l.bits) \div 2^Sum(r.bits)
          [] o = ">>>" -> a \div 2^Sum(r.bits)

HasValue(o) ==
    /\ Defined2
    /\ o \in {"/", "%"} => Value(r) # 0
    /\ o = "**" => Value(l) # 0 \/ Value(r) >= 0

ArithmeticRight(o) ==
    IF HasValue(o) THEN result.bits = BitsOf(Integer(o), Size(l))
    ELSE \/ o \in {"<<", ">>", ">>>"} /\ IsDefined(r)
         \/ result.bits = [i \in 1..Size(l) |-> X]

(* What the program computes with the constant that is left. *)
NestedRight ==
    LET added(o, v) == IF o = "+" THEN Value(v) ELSE - Value(v)
    IN  IF IsDefined(op.c) /\ IsDefined(r)
        THEN (added(op.outer, result) - added(op.inner, op.c) - added(op.outer, r))
                % 2^Size(r) = 0
        ELSE ~ IsDefined(result)

OrderRight(o) ==
    LET a == Value(l)
        b == Value(r)
        p == CASE o = "<" -> a < b [] o = "<=" -> a <= b [] o = ">" -> a > b [] o = ">=" -> a >= b
    IN  result = None \/ result = (IF Defined2 THEN Truth(p) ELSE Bit(X))

(* A negative number is taken without its sign, in the bits it has or needs. *)
Clog2Right ==
    LET need == CHOOSE k \in 1..Size(l) :
                    /\ - 2^(k - 1) <= Value(l)
                    /\ \A j \in 1..(k - 1) : Value(l) < - 2^(j - 1)
        n == Value(l) + (IF Value(l) >= 0 THEN 0 ELSE 2^(IF l.hasLen THEN Size(l) ELSE need))
        log == CHOOSE k \in 0..Size(l) : 2^k >= n /\ \A j \in 0..(k - 1) : 2^j < n
        got == Sum(result.bits)
    IN  IF Value(l) >= 0 THEN got = log
        ELSE got = IF log > IntegerWidth THEN log ELSE IntegerWidth

(* A constant expression has the value that arithmetic modulo 2^width gives *)
(* it, however its operands are written and whether or not they fit into a  *)
(* machine word; an expression whose value is not known is left alone, or   *)
(* what is left has the value of the whole (verinum.cc:646-742, 826-1565,    *)
(* eval_tree.cc:134-238, 318-671, 804-837, 1019-1119, 1440-1496, 1644-1700). *)
ConstantsRight ==
    LET o == op.do
    IN  CASE o \in Arithmetics -> ArithmeticRight(o)
          [] o \in {"minus", "abs"} ->
                IF IsDefined(l)
                THEN SubSeq(result.bits, 1, Size(l)) =
                        BitsOf(IF o = "minus" THEN - Value(l) ELSE Magnitude(Value(l)), Size(l))
                ELSE ~ IsDefined(result)
          [] o = "nested" -> NestedRight
          [] o \in Orders -> OrderRight(o)
          [] o = "=="     -> Defined2 => result = Truth(Value(l) = Value(r))
          [] o = "clog2"  -> Clog2Right
          [] o = "none"   -> TRUE
=============================================================================
