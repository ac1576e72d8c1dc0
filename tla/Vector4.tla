------------------------------ MODULE Vector4 ------------------------------
(***************************************************************************)
(* The values of the run time (vvp_vector4_t, vvp_net.cc) and what          *)
(* instructions (vthread.cc) and arithmetic functors (arith.cc) compute     *)
(* with them.  A vector keeps its bits in two planes of machine words.      *)
(* The words are here as short as a bound says; the bits of the last word   *)
(* that are beyond the size of a vector may have any value, and nothing     *)
(* may depend on them.                                                     *)
(***************************************************************************)
EXTENDS Integers, Sequences, FiniteSets, SequencesExt, FiniteSetsExt, Bitwise

CONSTANTS
    WordBits,   \* BITS_PER_WORD, CPU_WORD_BITS
    IntBits,    \* 8 * sizeof(int)
    Sizes,      \* the sizes of operands
    WordValues, \* the words that operands are made of
    Unguarded   \* the operations that get all operands, also where they are wrong

WordsOK ==
    /\ WordBits \in Nat /\ WordBits > 0 /\ WordBits % 2 = 0 /\ IntBits \in 1..WordBits
    /\ Sizes \subseteq Nat \ {0} /\ WordValues \subseteq 0..(2^WordBits - 1)

VARIABLES
    l, r,     \* the operands
    op,       \* the operation, "none" before it is done
    result    \* the bits of the result, or the flags that a comparison sets

vars == <<l, r, op, result>>

-----------------------------------------------------------------------------
(***************************************************************************)
(* Words: w & mask, ~w, w << n, w >> n, and n bits of w replaced.           *)
(***************************************************************************)
Base == 2^WordBits
Ones == Base - 1

Low(w, n)     == w % 2^n
Complement(w) == Ones - w
Shl(w, n)     == (w * 2^n) % Base
Shr(w, n)     == w \div 2^n
Put(w, at, n, x) == Low(w, at) + Low(x, n) * 2^at + Shr(w, at + n) * 2^(at + n)

Complements(p) == [i \in DOMAIN p |-> Complement(p[i])]

(* Two arrays of words are added; the carry follows the words of the sum.   *)
RECURSIVE Carried(_, _, _)
Carried(p, q, carry) ==
    IF p = <<>> THEN <<carry>>
    ELSE LET sum == Head(p) + Head(q) + carry
         IN  <<sum % Base>> \o Carried(Tail(p), Tail(q), sum \div Base)

Zeros(n)   == [i \in 1..n |-> 0]
Negated(p) == Front(Carried(Complements(p), Zeros(Len(p)), 1))

(* Mutant: the carry out of the middle is lost.                            *)
TimesNoCarry(a, b) ==
    LET H == 2^(WordBits \div 2)
        r1 == (a % H) * (b \div H) + (a \div H) * (b % H)
    IN  <<(a * b) % Base, ((a \div H) * (b \div H)) % Base>>

(* multiply_with_carry: the low and the high word of a product, from those  *)
(* of half words.                                                          *)
MultiplyWithCarry(a, b) ==
    LET H   == 2^(WordBits \div 2)
        p00 == (a % H) * (b % H)
        p01 == (a % H) * (b \div H)
        p10 == (a \div H) * (b % H)
        p11 == (a \div H) * (b \div H)
        r1  == p00 \div H + (p01 % H) + (p10 % H)
        r2  == r1 \div H + p01 \div H + p10 \div H + (p11 % H)
        r3  == (r2 \div H + p11 \div H) % H
    IN  <<(r1 % H) * H + (p00 % H), r3 * H + (r2 % H)>>

(* multiply_long, of vvp_vector2_t, adds the products of half words up in   *)
(* another order.                                                          *)
MultiplyLong(a, b) ==
    LET H  == 2^(WordBits \div 2)
        s1 == (a % H) * (b % H)
        s2 == s1 \div H + (a \div H) * (b % H)
        s3 == (s2 % H) + (a % H) * (b \div H)
        s4 == s2 \div H + s3 \div H
        s5 == (s4 % H) + (a \div H) * (b \div H)
    IN  <<(s3 % H) * H + (s1 % H), ((s4 \div H + s5 \div H) % H) * H + (s5 % H)>>

(* The words x are added to p from the word at on. *)
Added(p, at, x) ==
    SubSeq(p, 1, at - 1) \o
        Front(Carried(SubSeq(p, at, Len(p)),
                      [i \in 1..(Len(p) - at + 1) |-> IF i <= Len(x) THEN x[i] ELSE 0], 0))

(* The product of two arrays, as long as the first. *)
Product(Times(_, _), p, q) ==
    FoldSet(LAMBDA ij, sum : Added(sum, ij[1] + ij[2] - 1, Times(p[ij[1]], q[ij[2]])),
            Zeros(Len(p)),
            {ij \in (1..Len(p)) \X (1..Len(q)) : ij[1] + ij[2] - 1 <= Len(p)})

WordProduct(p, q) == Product(MultiplyWithCarry, p, q)
LongProduct(p, q) == Product(MultiplyLong, p, q)

-----------------------------------------------------------------------------
(***************************************************************************)
(* Vectors.  A bit is 0, 1, z or x as vvp_bit4_t has it: its bit of plane   *)
(* b, then that of plane a.                                                *)
(***************************************************************************)
Z == 2
X == 3

Vec(size, a, b) == [size |-> size, a |-> a, b |-> b]
Cnt(size) == IF size <= WordBits THEN 1 ELSE (size + WordBits - 1) \div WordBits

Filled(size, bit) ==
    Vec(size, [i \in 1..Cnt(size) |-> (bit % 2) * Ones],
              [i \in 1..Cnt(size) |-> (bit \div 2) * Ones])

(* The plane p of a vector without what is beyond its size. *)
Masked(size, p) ==
    IF size % WordBits = 0 THEN p ELSE [p EXCEPT ![Len(p)] = Low(@, size % WordBits)]

BitIn(p, i)  == Low(Shr(p[i \div WordBits + 1], i % WordBits), 1)
BitAt(v, i)  == 2 * BitIn(v.b, i) + BitIn(v.a, i)
Bits(v)      == [i \in 1..v.size |-> BitAt(v, i - 1)]
HasXZ(v)     == \E i \in DOMAIN v.b : Masked(v.size, v.b)[i] # 0

(* Mutant: what belongs into a second word is dropped.                      *)
InsertFirst(p, adr, n, x) ==
    IF n = 0 THEN p
    ELSE LET at  == adr % WordBits
             one == IF n < WordBits - at THEN n ELSE WordBits - at
         IN  [p EXCEPT ![adr \div WordBits + 1] = Put(@, at, one, x)]

(* The n lowest bits of x are written from bit adr on, which may be into    *)
(* two words.                                                              *)
Insert(p, adr, n, x) ==
    IF n = 0 THEN p
    ELSE LET k   == adr \div WordBits + 1
             at  == adr % WordBits
             one == IF n < WordBits - at THEN n ELSE WordBits - at
             q   == [p EXCEPT ![k] = Put(@, at, one, x)]
         IN  IF n = one THEN q ELSE [q EXCEPT ![k + 1] = Put(@, 0, n - one, Shr(x, one))]

(* set_vec, and setarray, which makes the bits known. *)
Inserted(p, adr, size, q) ==
    FoldLeftDomain(LAMBDA acc, k :
        LET left == size - (k - 1) * WordBits
        IN  Insert(acc, adr + (k - 1) * WordBits, IF left < WordBits THEN left ELSE WordBits, q[k]),
        p, q)

SetVec(v, adr, that) ==
    Vec(v.size, Inserted(v.a, adr, that.size, that.a), Inserted(v.b, adr, that.size, that.b))
Setarray(v, p) == SetVec(v, 0, Vec(v.size, p, Zeros(Len(p))))

(* The constructor of a part.  What is not in the source is x. *)
Selected(p, adr, wid) ==
    [k \in 1..Cnt(wid) |->
        LET from == adr + (k - 1) * WordBits
            off  == from % WordBits
            i    == from \div WordBits + 1
            more == wid - (k - 1) * WordBits > WordBits - off
            word == Shr(p[i], off) + IF off > 0 /\ more THEN Shl(p[i + 1], WordBits - off) ELSE 0
        IN  IF wid <= WordBits THEN Low(word, wid) ELSE word]

Subvalue(v, adr, wid) ==
    LET part(n) == Vec(n, Selected(v.a, adr, n), Selected(v.b, adr, n))
    IN  IF adr >= v.size THEN Filled(wid, X)
        ELSE IF adr + wid > v.size THEN SetVec(Filled(wid, X), 0, part(v.size - adr))
        ELSE part(wid)

Resize(v, size, pad) ==
    LET fill == v.size % WordBits
        plane(p, word) ==
            [k \in 1..Cnt(size) |->
                IF k > Len(p) THEN word
                ELSE IF k = Len(p) /\ fill > 0 /\ size > v.size
                     THEN Low(p[k], fill) + Shl(word, fill)
                ELSE p[k]]
    IN  Vec(size, plane(v.a, (pad % 2) * Ones), plane(v.b, (pad \div 2) * Ones))

-----------------------------------------------------------------------------
(***************************************************************************)
(* Addition, subtraction and multiplication.                               *)
(***************************************************************************)
XOut(v) ==
    LET x(p) == IF v.size < WordBits THEN <<Put(p[1], 0, v.size, Ones)>>
                ELSE Masked(v.size, [i \in DOMAIN p |-> Ones])
    IN  Vec(v.size, x(v.a), x(v.b))

Unknown(v, w) == HasXZ(v) \/ HasXZ(w)

InPlace(v, w, p) == IF Unknown(v, w) THEN XOut(v) ELSE [v EXCEPT !.a = Masked(v.size, p)]

Add(v, w) == InPlace(v, w, Front(Carried(v.a, w.a, 0)))
Sub(v, w) == InPlace(v, w, Front(Carried(v.a, Complements(w.a), 1)))
Mul(v, w) ==
    InPlace(v, w, IF Len(v.a) = 1 THEN <<(v.a[1] * w.a[1]) % Base>>
                  ELSE WordProduct(Masked(v.size, v.a), Masked(w.size, w.a)))

-----------------------------------------------------------------------------
(***************************************************************************)
(* Division of arrays of words.                                            *)
(***************************************************************************)
(* divide2words: {high, a} / b, if high < b.                                *)
RECURSIVE Divide2Words(_, _, _)
Divide2Words(a, b, high) ==
    IF high = 0 THEN a \div b
    ELSE LET whole  == (Ones \div b) + (IF (Ones % b) + 1 = b THEN 1 ELSE 0)
             remain == ((Ones % b) + 1) % b
             more   == MultiplyWithCarry(high, remain)
             sum    == a + more[1]
         IN  (whole * high + Divide2Words(sum % Base, b, more[2] + sum \div Base)) % Base

(* b is added until the remainder is not negative any more.                 *)
RECURSIVE AddBack(_, _, _)
AddBack(rest, b, q) ==
    LET sum == Carried(rest, b, 0)
        less == (q + Ones) % Base
    IN  IF Last(sum) = 1 THEN [rest |-> Front(sum), q |-> less]
        ELSE AddBack(Front(sum), b, less)

(* One word of the quotient is estimated from the top word of the divisor,  *)
(* and b times the estimate is taken from a.                                *)
Reduced(a, b, estimate) ==
    LET dif == Carried(a, Complements(WordProduct(b, <<estimate>>)), 1)
    IN  IF Last(dif) = 1 THEN [rest |-> Front(dif), q |-> estimate]
        ELSE AddBack(Front(dif), b, estimate)

(* Does b times the estimate fit into the words that a has? *)
Fits(b, estimate) == Last(WordProduct(Append(b, 0), <<estimate>>)) = 0

RECURSIVE DivideFrom(_, _, _, _)
DivideFrom(cur, a, b, top) ==
    IF cur = 0 THEN [quotient |-> <<>>, fits |-> TRUE]
    ELSE LET n     == Len(a)
             high  == IF cur + top <= n THEN a[cur + top] ELSE 0
             part  == SubSeq(b, 1, n - cur + 1)
             guess == Divide2Words(a[cur + top - 1], b[top], high)
             step  == Reduced(SubSeq(a, cur, n), part, guess)
             more  == DivideFrom(cur - 1, SubSeq(a, 1, cur - 1) \o step.rest, b, top)
         IN  [quotient |-> Append(more.quotient, step.q),
              fits     |-> more.fits /\ high < b[top] /\ Fits(part, guess)]

(* divide_bits, with whether high < b held and no product was too long for  *)
(* the words whenever it was assumed.                                      *)
DivideBits(a, b) ==
    LET top  == CHOOSE i \in DOMAIN b : b[i] # 0 /\ \A j \in (i + 1)..Len(b) : b[j] = 0
        done == DivideFrom(Len(a) - top + 1, a, b, top)
    IN  [done EXCEPT !.quotient = @ \o Zeros(top - 1)]

IsZero(p)  == \A i \in DOMAIN p : p[i] = 0
IsMinus(p) == Last(p) >= Base \div 2

(* The subarrays of the operands, with the sign in the rest of the last word *)
(* for a signed division, and made positive.                                *)
SignExtended(v) ==
    LET p == Masked(v.size, v.a)
        n == v.size % WordBits
    IN  IF n > 0 /\ BitIn(p, v.size - 1) = 1
        THEN [p EXCEPT ![Len(p)] = Put(@, n, WordBits - n, Ones)] ELSE p

Positive(p) == IF IsMinus(p) THEN Negated(p) ELSE p

(* Division of the machine rounds toward 0. *)
SignedWord(w)   == IF w >= Base \div 2 THEN w - Base ELSE w
Magnitude(n)    == IF n < 0 THEN - n ELSE n
Truncated(m, n) ==
    LET q == Magnitude(m) \div Magnitude(n) IN IF (m < 0) = (n < 0) THEN q ELSE - q
Remainder(m, n) == m - n * Truncated(m, n)

NoQuotient(v, w) == Unknown(v, w) \/ IsZero(Masked(w.size, w.a))

Div(v, w) ==
    LET a == Masked(v.size, v.a)
        b == Masked(w.size, w.a)
    IN  IF NoQuotient(v, w) THEN Filled(v.size, X)
        ELSE Setarray(v, IF Len(a) = 1 THEN <<a[1] \div b[1]>> ELSE DivideBits(a, b).quotient)

DivS(v, w) ==
    LET a == SignExtended(v)
        b == SignExtended(w)
        q == DivideBits(Positive(a), Positive(b)).quotient
    IN  IF NoQuotient(v, w) THEN Filled(v.size, X)
        ELSE Setarray(v, IF Len(a) = 1 THEN <<Truncated(SignedWord(a[1]), SignedWord(b[1])) % Base>>
                         ELSE IF IsMinus(a) # IsMinus(b) THEN Negated(q) ELSE q)

-----------------------------------------------------------------------------
(***************************************************************************)
(* The number that a vector has, and vectors of numbers.                    *)
(***************************************************************************)
RECURSIVE Number(_)
Number(bits) == IF bits = <<>> THEN 0 ELSE Head(bits) + 2 * Number(Tail(bits))

Unsigned(v) == Number(Bits(v))
Signed(v)   == Unsigned(v) - (IF Last(Bits(v)) = 1 THEN 2^v.size ELSE 0)

BitsOf(n, size)  == [i \in 1..size |-> (n \div 2^(i - 1)) % 2]
OfNumber(n, size) ==
    Vec(size, [k \in 1..Cnt(size) |-> ((n % 2^size) \div 2^((k - 1) * WordBits)) % Base],
              Zeros(Cnt(size)))

(* do_verylong_mod: den is taken from num where it fits, from the top down. *)
RECURSIVE LongRest(_, _, _)
LongRest(num, den, at) ==
    IF at < 0 THEN num
    ELSE LongRest(IF (num \div 2^at) >= den THEN num - den * 2^at ELSE num, den, at - 1)

TopBit(n, size) == CHOOSE i \in 0..(size - 1) : n \div 2^i = 1

VeryLongMod(v, leftNeg, m, n) ==
    LET gap  == TopBit(m, v.size) - TopBit(n, v.size)
        rest == IF m = 0 THEN 0 ELSE LongRest(m, n, gap)
    IN  OfNumber(IF leftNeg THEN - rest ELSE rest, v.size)

Mod(v, w) ==
    IF NoQuotient(v, w) THEN Filled(v.size, X)
    ELSE IF v.size <= WordBits THEN OfNumber(Unsigned(v) % Unsigned(w), v.size)
    ELSE VeryLongMod(v, FALSE, Unsigned(v), Unsigned(w))

ModS(v, w) ==
    IF NoQuotient(v, w) THEN Filled(v.size, X)
    ELSE IF v.size <= WordBits THEN OfNumber(Remainder(Signed(v), Signed(w)), v.size)
    ELSE VeryLongMod(v, Signed(v) < 0, Magnitude(Signed(v)), Magnitude(Signed(w)))

-----------------------------------------------------------------------------
(***************************************************************************)
(* vvp_vector2_t: the arithmetic of functors that are wider than a word.    *)
(***************************************************************************)
(* div_mod: divtmp has one bit more than the operands, mask has not.        *)
RECURSIVE Scaled(_, _, _, _)
Scaled(num, den, mask, size) ==
    IF den >= num THEN [den |-> den, mask |-> mask]
    ELSE Scaled(num, 2 * den, (2 * mask) % 2^size, size)

RECURSIVE Subtracted(_, _, _, _, _)
Subtracted(num, den, tmp, mask, q) ==
    IF num < den THEN [quotient |-> q, remainder |-> num]
    ELSE IF tmp <= num THEN Subtracted(num - tmp, den, tmp \div 2, mask \div 2, q + mask)
    ELSE Subtracted(num, den, tmp \div 2, mask \div 2, q)

DivMod(m, n, size) ==
    LET start == Scaled(m, n, 1, size)
    IN  IF m < n THEN [quotient |-> 0, remainder |-> m]
        ELSE Subtracted(m, n, start.den, start.mask, 0)

(* wide4_ and wide_ of vvp_arith_div and vvp_arith_mod, and what they do    *)
(* with operands that fit into a word: the sign is taken off and put back.  *)
Functor(v, w, sign, Result(_, _), negate) ==
    LET m == IF sign THEN Magnitude(Signed(v)) ELSE Unsigned(v)
        n == IF sign THEN Magnitude(Signed(w)) ELSE Unsigned(w)
    IN  IF NoQuotient(v, w) THEN Filled(v.size, X)
        ELSE OfNumber(IF negate THEN - Result(m, n) ELSE Result(m, n), v.size)

IsNegative(v) == Last(Bits(v)) = 1

ArithDiv(v, w, sign) ==
    LET quotient(m, n) ==
            IF v.size > WordBits THEN DivMod(m, n, v.size).quotient ELSE m \div n
    IN  Functor(v, w, sign, quotient, sign /\ IsNegative(v) # IsNegative(w))

ArithMod(v, w, sign) ==
    LET rest(m, n) == IF v.size > WordBits THEN DivMod(m, n, v.size).remainder ELSE m % n
    IN  Functor(v, w, sign, rest, sign /\ IsNegative(v))

(* pow: what is beyond the size stays in the last word.                     *)
RECURSIVE Raised(_, _)
Raised(p, n) ==
    IF n = 0 THEN <<1>> \o Zeros(Len(p) - 1)
    ELSE IF n % 2 = 1 THEN LongProduct(p, Raised(p, n - 1))
    ELSE LET root == Raised(p, n \div 2) IN LongProduct(root, root)

(* of_POW_base: a negative exponent needs the left operand as an int.       *)
NegativePower(v, w) ==
    CASE v.size > IntBits -> Filled(v.size, 0)
      [] v.size <= IntBits /\ Signed(v) = 0 -> Filled(v.size, X)
      [] v.size <= IntBits /\ (Signed(v) = 1 \/ (Signed(v) = -1 /\ Unsigned(w) % 2 = 0)) ->
            OfNumber(1, v.size)
      [] v.size <= IntBits /\ Signed(v) = -1 /\ Unsigned(w) % 2 = 1 -> Filled(v.size, 1)
      [] OTHER -> Filled(v.size, 0)

Pow(v, w, sign) ==
    IF Unknown(v, w) THEN Filled(v.size, X)
    ELSE IF sign /\ IsNegative(w) THEN NegativePower(v, w)
    ELSE SetVec(v, 0, Vec(v.size, Raised(Masked(v.size, v.a), Unsigned(w)), Zeros(Len(v.a))))

ArithMult(v, w) ==
    IF Unknown(v, w) THEN Filled(v.size, X)
    ELSE IF v.size > WordBits
    THEN Vec(v.size, LongProduct(Masked(v.size, v.a), Masked(w.size, w.a)), Zeros(Len(v.a)))
    ELSE OfNumber(Unsigned(v) * Unsigned(w), v.size)

(* vvp_arith_sum and vvp_arith_sub: bit by bit, with the carry.             *)
RECURSIVE Ripple(_, _, _)
Ripple(b, c, carry) ==
    IF b = <<>> THEN <<>>
    ELSE LET sum == Head(b) + Head(c) + carry
         IN  <<sum % 2>> \o Ripple(Tail(b), Tail(c), sum \div 2)

ArithSum(v, w) == IF Unknown(v, w) THEN Bits(Filled(v.size, X)) ELSE Ripple(Bits(v), Bits(w), 0)
ArithSub(v, w) ==
    IF Unknown(v, w) THEN Bits(Filled(v.size, X))
    ELSE Ripple(Bits(v), [i \in 1..w.size |-> 1 - Bits(w)[i]], 1)

-----------------------------------------------------------------------------
(***************************************************************************)
(* Bitwise operations and shifts.                                          *)
(***************************************************************************)
WordWise(F(_, _, _, _), v, w) == [i \in DOMAIN v.a |-> F(v.a[i], v.b[i], w.a[i], w.b[i])]

AndA(a, b, c, d) == (a | b) & (c | d)
AndB(a, b, c, d) == ((a | b) & d) | ((c | d) & b)
OrA(a, b, c, d)  == (a | b) | (c | d)
OrB(a, b, c, d)  == ((Complement(a) | b) & d) | ((Complement(c) | d) & b)

And4(v, w) == Vec(v.size, WordWise(AndA, v, w), WordWise(AndB, v, w))
Or4(v, w)  == Vec(v.size, WordWise(OrA, v, w), WordWise(OrB, v, w))

Invert(v) ==
    LET p == Masked(v.size, Complements(v.a))
    IN  [v EXCEPT !.a = [i \in DOMAIN p |-> p[i] | v.b[i]]]

(* The value is moved up, or down, and what it leaves is filled.            *)
Up(v, n, fill)   == SetVec(SetVec(v, 0, Filled(n, fill)), n, Subvalue(v, 0, v.size - n))
Down(v, n, fill) == SetVec(SetVec(v, 0, Subvalue(v, n, v.size - n)), v.size - n, Filled(n, fill))

(* A shift by a negative amount goes the other way, and fills with x.       *)
ShiftL(v, n) ==
    CASE n >= v.size             -> Filled(v.size, 0)
      [] n > 0 /\ n < v.size     -> Up(v, n, 0)
      [] n = 0                   -> v
      [] n < 0 /\ n >= - v.size  -> Down(v, - n, X)
      [] n < - v.size            -> Filled(v.size, X)

ShiftRight(v, n, fill) ==
    CASE n > v.size              -> Filled(v.size, fill)
      [] n > 0 /\ n <= v.size    -> Down(v, n, fill)
      [] n = 0                   -> v
      [] n < 0 /\ n >= - v.size  -> Up(v, - n, X)
      [] n < - v.size            -> Filled(v.size, X)

ShiftR(v, n)  == ShiftRight(v, n, 0)
ShiftRS(v, n) == ShiftRight(v, n, BitAt(v, v.size - 1))

(* vvp_shiftl and vvp_shiftr: an amount beyond the size counts as the size, *)
(* and one beyond a word as its largest.                                   *)
Amount(w) == IF Unsigned(w) >= Base THEN Ones ELSE Unsigned(w)

NetShift(v, w, Shifted(_, _)) ==
    IF HasXZ(w) THEN Filled(v.size, X)
    ELSE LET n == Amount(w) IN Shifted(v, IF n > v.size THEN v.size ELSE n)

NetShiftL(v, w)  == NetShift(v, w, ShiftL)
NetShiftR(v, w)  == NetShift(v, w, ShiftR)
NetShiftRS(v, w) == NetShift(v, w, ShiftRS)

PadU(v, size) == Resize(v, size, 0)
PadS(v, size) == Resize(v, size, IF v.size < size THEN BitAt(v, v.size - 1) ELSE X)

(* of_PART_base, with a base that is known.                                 *)
Part(v, base, wid) ==
    LET low == IF base < 0 THEN - base ELSE 0
        at  == base + low
        n   == IF at + (wid - low) > v.size THEN v.size - at ELSE wid - low
    IN  IF base >= v.size \/ base + wid <= 0 THEN Filled(wid, X)
        ELSE SetVec(Filled(wid, X), low, Subvalue(v, at, n))

Concat(v, w) ==
    SetVec(SetVec(Filled(v.size + w.size, X), 0, w), w.size, v)

Replicate(v, n) ==
    FoldLeft(LAMBDA res, k : SetVec(res, (k - 1) * v.size, v), Filled(v.size * n, X),
             [k \in 1..n |-> k])

-----------------------------------------------------------------------------
(***************************************************************************)
(* Comparison: the flags 4 (==), 5 (<) and 6 (===).                         *)
(***************************************************************************)
Truth(p) == IF p THEN 1 ELSE 0

Eeq(v, w) == Masked(v.size, v.a) = Masked(w.size, w.a) /\ Masked(v.size, v.b) = Masked(w.size, w.b)

Differ(v, w, wild) ==
    \E i \in 0..(v.size - 1) :
        BitAt(v, i) # BitAt(w, i) /\ {BitAt(v, i), BitAt(w, i)} \cap wild = {}

(* of_CMPU_the_hard_way, and do_CMPE with x or z.                           *)
EqXZ(v, w) == IF Differ(v, w, {X, Z}) THEN 0 ELSE X

(* vvp_cmp_eq. *)
EqualXZ(v, w) == IF ~ Unknown(v, w) /\ ~ Differ(v, w, {}) THEN 1 ELSE EqXZ(v, w)

CmpE(v, w) == IF Unknown(v, w) THEN <<EqXZ(v, w), Truth(Eeq(v, w))>>
              ELSE <<Truth(Eeq(v, w)), Truth(Eeq(v, w))>>

(* The highest word in which they differ decides. *)
CmpU(v, w) ==
    LET a == Masked(v.size, v.a)
        b == Masked(w.size, w.a)
        differ == {i \in DOMAIN a : a[i] # b[i]}
        eq == Truth(differ = {})
    IN  IF Unknown(v, w) THEN <<EqXZ(v, w), X, Truth(Eeq(v, w))>>
        ELSE <<eq, Truth(differ # {} /\ a[Max(differ)] < b[Max(differ)]), eq>>

CmpS(v, w) ==
    LET differ == {i \in 0..(v.size - 1) : BitAt(v, i) # BitAt(w, i)}
        eq == Truth(differ = {})
        sign == v.size - 1
    IN  IF Unknown(v, w) THEN <<X, X, Truth(Eeq(v, w))>>
        ELSE <<eq, IF sign \in differ THEN BitAt(v, sign)
                   ELSE Truth(differ # {} /\ BitAt(v, Max(differ)) = 0), eq>>

CmpX(v, w) == <<Truth(~ Differ(v, w, {X, Z}))>>
CmpZ(v, w) == <<Truth(~ Differ(v, w, {Z}))>>

(* compare_gtge, and with signs compare_gtge_signed: the highest bit in     *)
(* which the vectors differ decides.                                       *)
GtGe(v, w, ifEqual) ==
    LET differ == {i \in 0..(v.size - 1) : BitAt(v, i) # BitAt(w, i)}
    IN  IF Unknown(v, w) THEN X
        ELSE IF differ = {} THEN ifEqual ELSE BitAt(v, Max(differ))

GtGeSigned(v, w, ifEqual) ==
    LET sign(u) == BitAt(u, u.size - 1)
    IN  IF {sign(v), sign(w)} \cap {X, Z} # {} THEN X
        ELSE IF sign(v) = sign(w) THEN GtGe(v, w, ifEqual)
        ELSE IF Unknown(v, w) THEN X ELSE 1 - sign(v)

(* vvp_arith_abs. *)
Abs(v) ==
    CASE GtGeSigned(v, Filled(v.size, 0), 1) = 1 -> v
      [] GtGeSigned(v, Filled(v.size, 0), 1) = 0 -> Add(Invert(v), OfNumber(1, v.size))
      [] GtGeSigned(v, Filled(v.size, 0), 1) = X -> Filled(v.size, X)

(* The reductions take one bit after the other.                             *)
Bit4And(b, c) == IF b = 0 \/ c = 0 THEN 0 ELSE IF b = 1 /\ c = 1 THEN 1 ELSE X
Bit4Or(b, c)  == IF b = 1 \/ c = 1 THEN 1 ELSE IF b = 0 /\ c = 0 THEN 0 ELSE X
Bit4Xor(b, c) == IF b > 1 \/ c > 1 THEN X ELSE (b + c) % 2

Reduced4(F(_, _), start, v, inverted) ==
    LET bit == FoldLeft(F, start, Bits(v))
    IN  <<IF inverted /\ bit # X THEN 1 - bit ELSE bit>>

AndR(v, inverted) == Reduced4(Bit4And, 1, v, inverted)
OrR(v, inverted)  == Reduced4(Bit4Or, 0, v, inverted)
XorR(v, inverted) == Reduced4(Bit4Xor, 0, v, inverted)

-----------------------------------------------------------------------------
(***************************************************************************)
(* One operation is done with one or two operands.                         *)
(***************************************************************************)
Nil == Vec(0, <<>>, <<>>)

(* Vectors with known bits, and with an x or z at an end. *)
Known(size)   == {Vec(size, Masked(size, p), Zeros(Cnt(size))) : p \in [1..Cnt(size) -> WordValues]}
Partial(size) == {SetVec(OfNumber(1, size), at, Filled(1, bit)) : at \in {0, size - 1}, bit \in {X, Z}}
Clean(size)   == Known(size) \cup Partial(size)

(* What a larger vector, or an x, leaves in the last word. *)
Dirty(v) ==
    LET n == v.size % WordBits
        dirt(p) == IF n = 0 THEN p ELSE [p EXCEPT ![Len(p)] = Put(@, n, WordBits - n, Ones)]
    IN  Vec(v.size, dirt(v.a), dirt(v.b))
Operands(size) == Clean(size) \cup {Dirty(v) : v \in Clean(size)}

Init ==
    /\ \E size \in Sizes :
          \/ l \in Operands(size) /\ r = Nil
          \/ l \in Clean(size) /\ r \in Operands(size)
    /\ op = [do |-> "none"] /\ result = <<>>

Two == r # Nil
Do(o, value) == op' = o /\ result' = value /\ UNCHANGED <<l, r>>

(* The smallest word divided by -1 is undefined.                            *)
Overflows(v, w) ==
    v.size = WordBits /\ Signed(v) = - 2^(WordBits - 1) /\ Signed(w) = -1

(* The operands for which an operation is right: division of more than a    *)
(* word if no estimate overflows, that of a functor if mask is not shifted   *)
(* out, and a negative exponent if the left operand is an int or does not    *)
(* matter.                                                                 *)
WordsFit(a, b) == IF Len(a) = 1 \/ IsZero(b) THEN TRUE ELSE DivideBits(a, b).fits

Right(o, v, w) ==
    CASE o = "div"   -> WordsFit(Masked(v.size, v.a), Masked(w.size, w.a))
      [] o = "div/s" -> WordsFit(Positive(SignExtended(v)), Positive(SignExtended(w)))
      [] o = "arith/div" -> v.size <= WordBits \/ Unsigned(w) # 1 \/ Unsigned(v) <= 2^(v.size - 1)
      [] o = "pow/s" -> v.size <= IntBits \/ ~ IsNegative(w) \/ Signed(v) \notin {-1, 0, 1}
      [] OTHER -> TRUE

Computed(o) ==
    CASE o = "add" -> Bits(Add(l, r))
      [] o = "sub" -> Bits(Sub(l, r))
      [] o = "arith/sum" -> ArithSum(l, r)
      [] o = "arith/sub" -> ArithSub(l, r)
      [] o = "mul" -> Bits(Mul(l, r))
      [] o = "div" -> Bits(Div(l, r))
      [] o = "div/s" -> Bits(DivS(l, r))
      [] o = "mod" -> Bits(Mod(l, r))
      [] o = "mod/s" -> Bits(ModS(l, r))
      [] o = "pow" -> Bits(Pow(l, r, FALSE))
      [] o = "pow/s" -> Bits(Pow(l, r, TRUE))
      [] o = "arith/mult" -> Bits(ArithMult(l, r))
      [] o = "arith/div" -> Bits(ArithDiv(l, r, FALSE))
      [] o = "arith/div/s" -> Bits(ArithDiv(l, r, TRUE))
      [] o = "arith/mod" -> Bits(ArithMod(l, r, FALSE))
      [] o = "arith/mod/s" -> Bits(ArithMod(l, r, TRUE))

Arithmetics ==
    {"add", "sub", "mul", "div", "div/s", "mod", "mod/s", "pow", "pow/s",
     "arith/sum", "arith/sub", "arith/mult", "arith/div", "arith/div/s", "arith/mod", "arith/mod/s"}

Calculate ==
    /\ Two
    /\ \E o \in {o \in Arithmetics :
                    /\ o \in {"div/s", "mod/s"} => Unknown(l, r) \/ ~ Overflows(l, r)
                    /\ o \in Unguarded \/ Unknown(l, r) \/ Right(o, l, r)} :
          Do([do |-> o], Computed(o))

Combine ==
    \/ Two /\ Do([do |-> "and"], Bits(And4(l, r)))
    \/ Two /\ Do([do |-> "or"], Bits(Or4(l, r)))
    \/ Two /\ Do([do |-> "concat"], Bits(Concat(l, r)))
    \/ ~ Two /\ Do([do |-> "inv"], Bits(Invert(l)))
    \/ ~ Two /\ Do([do |-> "replicate"], Bits(Replicate(l, 3)))
    \/ ~ Two /\ Do([do |-> "abs"], Bits(Abs(l)))
    \/ ~ Two /\ \E inverted \in BOOLEAN :
          \/ Do([do |-> "and/r", not |-> inverted], AndR(l, inverted))
          \/ Do([do |-> "or/r", not |-> inverted], OrR(l, inverted))
          \/ Do([do |-> "xor/r", not |-> inverted], XorR(l, inverted))

Compare ==
    /\ Two
    /\ \/ Do([do |-> "cmp/u"], CmpU(l, r))
       \/ Do([do |-> "cmp/s"], CmpS(l, r))
       \/ Do([do |-> "cmp/e"], CmpE(l, r))
       \/ Do([do |-> "cmp/x"], CmpX(l, r))
       \/ Do([do |-> "cmp/z"], CmpZ(l, r))
       \/ Do([do |-> "net/eq"], <<EqualXZ(l, r)>>)
       \/ \E ifEqual \in {0, 1} :
             \/ Do([do |-> "net/gtge", n |-> ifEqual], <<GtGe(l, r, ifEqual)>>)
             \/ Do([do |-> "net/gtge/s", n |-> ifEqual], <<GtGeSigned(l, r, ifEqual)>>)

Shift ==
    \/ Two /\ Do([do |-> "net/shiftl"], Bits(NetShiftL(l, r)))
    \/ Two /\ Do([do |-> "net/shiftr"], Bits(NetShiftR(l, r)))
    \/ Two /\ Do([do |-> "net/shiftr/s"], Bits(NetShiftRS(l, r)))
    \/ ~ Two /\ \E n \in (- l.size - 1)..(l.size + 1) :
          \/ Do([do |-> "shiftl", n |-> n], Bits(ShiftL(l, n)))
          \/ Do([do |-> "shiftr", n |-> n], Bits(ShiftR(l, n)))
          \/ Do([do |-> "shiftr/s", n |-> n], Bits(ShiftRS(l, n)))

Select ==
    /\ ~ Two
    /\ \E wid \in 1..(l.size + 1) \cup Sizes :
          \/ Do([do |-> "pad/u", n |-> wid], Bits(PadU(l, wid)))
          \/ Do([do |-> "pad/s", n |-> wid], Bits(PadS(l, wid)))
          \/ \E base \in (- wid)..l.size :
                Do([do |-> "part", base |-> base, n |-> wid], Bits(Part(l, base, wid)))

Next == op.do = "none" /\ (Calculate \/ Combine \/ Compare \/ Shift \/ Select)

Spec == Init /\ [][Next]_vars

-----------------------------------------------------------------------------
(***************************************************************************)
(* The reference: bits one by one, and integers modulo 2^size.              *)
(***************************************************************************)
RECURSIVE Power(_, _, _)
Power(m, n, modulus) ==
    IF n = 0 THEN 1
    ELSE LET half == Power(m, n \div 2, modulus)
         IN  (((half * half) % modulus) * (IF n % 2 = 1 THEN m ELSE 1)) % modulus

SignedPower(m, n, modulus) ==
    IF n >= 0 THEN Power(m % modulus, n, modulus)
    ELSE IF m = 1 \/ (m = -1 /\ n % 2 = 0) THEN 1 ELSE IF m = -1 THEN -1 ELSE 0

Wanted(o) ==
    LET m == Unsigned(l)
        n == Unsigned(r)
        i == Signed(l)
        j == Signed(r)
    IN  CASE o \in {"add", "arith/sum"} -> m + n
          [] o \in {"sub", "arith/sub"} -> m - n
          [] o \in {"mul", "arith/mult"} -> m * n
          [] o \in {"div", "arith/div"} -> m \div n
          [] o \in {"mod", "arith/mod"} -> m % n
          [] o \in {"div/s", "arith/div/s"} -> Truncated(i, j)
          [] o \in {"mod/s", "arith/mod/s"} -> Remainder(i, j)
          [] o = "pow" -> Power(m, n, 2^l.size)
          [] o = "pow/s" -> SignedPower(i, j, 2^l.size)

HasValue(o) ==
    /\ ~ Unknown(l, r)
    /\ o \in {"div", "div/s", "mod", "mod/s", "arith/div", "arith/div/s", "arith/mod", "arith/mod/s"}
          => Unsigned(r) # 0
    /\ o = "pow/s" => Unsigned(l) # 0 \/ Signed(r) >= 0

(* The bit of l at i - 1, or what is beyond its ends. *)
From(i, below, above) ==
    IF i < 1 THEN below ELSE IF i > l.size THEN above ELSE BitAt(l, i - 1)

BitAnd(b, c) == IF 0 \in {b, c} THEN 0 ELSE IF b = 1 /\ c = 1 THEN 1 ELSE X
BitOr(b, c)  == IF 1 \in {b, c} THEN 1 ELSE IF b = 0 /\ c = 0 THEN 0 ELSE X

Comparisons ==
    {"cmp/u", "cmp/s", "cmp/e", "cmp/x", "cmp/z", "net/eq", "net/gtge", "net/gtge/s"}

Flags ==
    LET b == Bits(l)
        c == Bits(r)
        equal(wild) == \A i \in 1..l.size : b[i] = c[i] \/ {b[i], c[i]} \cap wild # {}
        eq == IF ~ equal({X, Z}) THEN 0 ELSE IF Unknown(l, r) THEN X ELSE 1
        less(m, n) == IF Unknown(l, r) THEN X ELSE Truth(m < n)
    IN  CASE op.do = "cmp/u" -> <<eq, less(Unsigned(l), Unsigned(r)), Truth(b = c)>>
          [] op.do = "cmp/s" -> <<IF Unknown(l, r) THEN X ELSE eq, less(Signed(l), Signed(r)), Truth(b = c)>>
          [] op.do = "cmp/e" -> <<eq, Truth(b = c)>>
          [] op.do = "cmp/x" -> <<Truth(equal({X, Z}))>>
          [] op.do = "cmp/z" -> <<Truth(equal({Z}))>>
          [] op.do = "net/eq" -> <<eq>>
          [] op.do = "net/gtge" -> <<less(Unsigned(r), Unsigned(l) + op.n)>>
          [] op.do = "net/gtge/s" -> <<less(Signed(r), Signed(l) + op.n)>>

(* A bit that is 0 or 1 if zero or one holds, turned round if op says so.   *)
OneBit(zero, one) ==
    IF zero THEN Truth(op.not) ELSE IF one THEN Truth(~ op.not) ELSE X

Bit4s ==
    LET b == Bits(l)
        c == Bits(r)
        sign == Last(b)
        n == Unsigned(r)
        odd == Cardinality({i \in DOMAIN b : b[i] = 1}) % 2
    IN  CASE op.do = "and" -> [i \in DOMAIN b |-> BitAnd(b[i], c[i])]
          [] op.do = "or"  -> [i \in DOMAIN b |-> BitOr(b[i], c[i])]
          [] op.do = "inv" -> [i \in DOMAIN b |-> IF b[i] \in {0, 1} THEN 1 - b[i] ELSE X]
          [] op.do = "concat" -> c \o b
          [] op.do = "replicate" -> b \o b \o b
          [] op.do = "shiftl" -> [i \in DOMAIN b |-> From(i - op.n, 0, X)]
          [] op.do = "shiftr" -> [i \in DOMAIN b |-> From(i + op.n, X, 0)]
          [] op.do = "shiftr/s" -> [i \in DOMAIN b |-> From(i + op.n, X, sign)]
          [] op.do = "pad/u" -> [i \in 1..op.n |-> From(i, X, 0)]
          [] op.do = "pad/s" -> [i \in 1..op.n |-> From(i, X, sign)]
          [] op.do = "part"  -> [i \in 1..op.n |-> From(i + op.base, X, X)]
          [] op.do = "abs" ->
                IF HasXZ(l) THEN [i \in DOMAIN b |-> X] ELSE BitsOf(Magnitude(Signed(l)), l.size)
          [] op.do = "and/r" -> <<OneBit(\E i \in DOMAIN b : b[i] = 0, ToSet(b) = {1})>>
          [] op.do = "or/r"  -> <<OneBit(ToSet(b) = {0}, 1 \in ToSet(b))>>
          [] op.do = "xor/r" -> <<OneBit(~ HasXZ(l) /\ odd = 0, ~ HasXZ(l) /\ odd = 1)>>
          [] op.do \in {"net/shiftl", "net/shiftr", "net/shiftr/s"} ->
                [i \in DOMAIN b |->
                    IF HasXZ(r) THEN X
                    ELSE CASE op.do = "net/shiftl" -> From(i - n, 0, X)
                           [] op.do = "net/shiftr" -> From(i + n, X, 0)
                           [] op.do = "net/shiftr/s" -> From(i + n, X, sign)]

(* Whatever its size, and whatever is left in its words beyond it, the      *)
(* result of an operation has the bits of the same operation on single      *)
(* bits or on integers modulo 2^size.                                      *)
VectorsRight ==
    CASE op.do = "none" -> TRUE
      [] op.do \in Arithmetics ->
            result = IF HasValue(op.do) THEN BitsOf(Wanted(op.do), l.size)
                     ELSE [i \in 1..l.size |-> X]
      [] op.do \in Comparisons -> result = Flags
      [] OTHER -> result = Bit4s

(* divide_bits, and of_DIV after it, should find that input-a = bp * result *)
(* + ap with a remainder ap (vthread.cc:2521-2523, 2579-2581).              *)
QuotientRight == op.do = "div" => VectorsRight
=============================================================================
