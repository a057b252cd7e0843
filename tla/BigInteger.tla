------------------------------ MODULE BigInteger -------------------------------
(***************************************************************************)
(* Integers of any size (big_integer.h): a signed count of digits in base  *)
(* 2^SHIFT, least significant first, in two digits inside the structure or *)
(* in allocated ones.  Arithmetic is by columns with a carry; products by  *)
(* rows or by Karatsuba's three halves, quotients by Knuth's algorithm D.  *)
(***************************************************************************)
EXTENDS Integers, SequencesExt, FiniteSetsExt, Bitwise

CONSTANTS SHIFT,                \* bits of a digit, 30 in the code
          KARATSUBA_CUTOFF      \* digits from which a product is split, 70

BigIntegerAssumption == SHIFT \in Nat \ {0} /\ KARATSUBA_CUTOFF \in Nat \ {0, 1}

BASE == 2 ^ SHIFT
MASK == BASE - 1
Smalls == 2                     \* digits inside the structure
KARATSUBA_SQUARE_CUTOFF == 2 * KARATSUBA_CUTOFF

Magnitude(n) == IF n < 0 THEN -n ELSE n
Zeros(n) == IF n <= 0 THEN <<>> ELSE [i \in 1..n |-> 0]
Padded(s, n) == s \o Zeros(n - Len(s))
Size(b) == Magnitude(b.Size)
Used(b) == SubSeq(b.Digits, 1, Size(b))
get_digit(b, i) == b.Digits[i + 1]
Negated(b) == [b EXCEPT !.Size = -@]
Lesser(m, n) == IF m < n THEN m ELSE n

(* Space of n digits, at least the two of the structure.                   *)
ensure_digits(digits, n) == IF n <= Len(digits) THEN digits ELSE Padded(digits, n)
grow(b, n) == [b EXCEPT !.Digits = ensure_digits(@, Max({8} \cup {Min({p \in {2 ^ i : i \in 0..n} : p >= n + 1})}))]

(* The highest digits that are zero do not count; few digits move into the *)
(* structure.                                                              *)
normalize(b) ==
    LET i == Max({0} \cup {k \in 1..Size(b) : b.Digits[k] # 0})
    IN  [Size |-> IF b.Size < 0 THEN -i ELSE i,
         Digits |-> IF i <= Smalls THEN SubSeq(b.Digits, 1, Smalls) ELSE b.Digits]

Result(digits, sign) ==
    normalize([Size |-> sign * Len(digits), Digits |-> Padded(digits, Smalls)])

(* assign: the digits of |v|, one after the other.  Space is made for one  *)
(* digit only (BASE is divided by where SHIFT is meant), so that v must fit*)
(* the two of the structure.                                               *)
RECURSIVE DigitsOf(_)
DigitsOf(n) == <<n % BASE>> \o IF n \div BASE = 0 THEN <<>> ELSE DigitsOf(n \div BASE)
make_big(v) == Result(DigitsOf(Magnitude(v)), IF v < 0 THEN -1 ELSE 1)

(* By sizes first; of the same size, equal only if both are zero: the      *)
(* difference of the digits is computed and not used.                      *)
compare(a, b) == IF a.Size # b.Size THEN a.Size - b.Size
                 ELSE IF a.Size = 0 THEN 0 ELSE IF a.Size < 0 THEN -1 ELSE 1

-----------------------------------------------------------------------------
(* Columns of sums or differences: each keeps its rest, the next gets the  *)
(* carry or borrow.                                                        *)
RECURSIVE Propagate(_, _)
Propagate(columns, carry) ==
    IF columns = <<>> THEN [d |-> <<>>, carry |-> carry]
    ELSE LET sum == Head(columns) + carry
             rest == Propagate(Tail(columns), sum \div BASE)
         IN  [d |-> <<sum % BASE>> \o rest.d, carry |-> rest.carry]

At(y, i) == IF i \in DOMAIN y THEN y[i] ELSE 0

v_iadd(x, y) == Propagate([i \in DOMAIN x |-> x[i] + At(y, i)], 0).d
v_isub(x, y) == Propagate([i \in DOMAIN x |-> x[i] - At(y, i)], 0).d
v_complement(a) == Propagate([i \in DOMAIN a |-> MASK - a[i]], 1).d

(* Sums and differences of absolute values.                                *)
x_add(a, b) ==
    IF Size(a) < Size(b) THEN LET p == Propagate([i \in 1..Size(b) |-> At(Used(a), i) + b.Digits[i]], 0)
                              IN  Result(Append(p.d, p.carry), 1)
    ELSE LET p == Propagate([i \in 1..Size(a) |-> a.Digits[i] + At(Used(b), i)], 0)
         IN  Result(Append(p.d, p.carry), 1)

Larger(a, b) ==
    \/ Size(a) > Size(b)
    \/ Size(a) = Size(b) /\ \E i \in 1..Size(a) : /\ a.Digits[i] > b.Digits[i]
                                                  /\ \A k \in (i + 1)..Size(a) : a.Digits[k] = b.Digits[k]
Difference(a, b) == Result(v_isub(Used(a), Used(b)), 1)
x_sub(a, b) == IF Larger(a, b) THEN Difference(a, b)
               ELSE IF Larger(b, a) THEN Negated(Difference(b, a)) ELSE make_big(0)

Add(a, b) == IF a.Size < 0 THEN IF b.Size < 0 THEN Negated(x_add(a, b)) ELSE x_sub(b, a)
             ELSE IF b.Size < 0 THEN x_sub(a, b) ELSE x_add(a, b)
Subtract(a, b) == IF a.Size < 0 THEN IF b.Size < 0 THEN x_sub(b, a) ELSE Negated(x_add(a, b))
                  ELSE IF b.Size < 0 THEN x_add(a, b) ELSE x_sub(a, b)

-----------------------------------------------------------------------------
(* A row of products added from the k-th digit on; its carry is added to   *)
(* the next digit, which has room for it.                                  *)
AddRow(z, k, row) ==
    LET n == Len(row)
        p == Propagate([i \in 1..n |-> z[k + i] + row[i]], 0)
    IN  [i \in DOMAIN z |-> IF i <= k \/ i > k + n + 1 THEN z[i]
                            ELSE IF i = k + n + 1 THEN z[i] + p.carry ELSE p.d[i - k]]

Rows(x, y) == FoldLeft(LAMBDA z, i : AddRow(z, i - 1, [j \in DOMAIN y |-> x[i] * y[j]]),
                       Zeros(Len(x) + Len(y)), [i \in DOMAIN x |-> i])

(* Squares: the square of a digit, then twice its products with the digits *)
(* above it, with up to two more digits of carry.                          *)
SquareRow(z, x, i) ==
    LET row == [j \in 1..(2 * Len(x) - 2 * (i - 1)) |->
                   IF j = 1 THEN x[i] * x[i] ELSE IF i + j - 1 <= Len(x) THEN 2 * x[i] * x[i + j - 1] ELSE 0]
    IN  SubSeq(z, 1, 2 * (i - 1)) \o v_iadd(row, SubSeq(z, 2 * i - 1, Len(z)))
Square(x) == FoldLeft(LAMBDA z, i : SquareRow(z, x, i), Zeros(2 * Len(x)), [i \in DOMAIN x |-> i])

x_mul(a, b) == Result(IF compare(a, b) = 0 THEN Square(Used(a)) ELSE Rows(Used(a), Used(b)), 1)

(* |n| cut at `size` digits.                                               *)
kmul_split(n, size) ==
    LET k == Lesser(Size(n), size)
    IN  [low |-> Result(SubSeq(Used(n), 1, k), 1), high |-> Result(SubSeq(Used(n), k + 1, Size(n)), 1)]

RECURSIVE k_mul(_, _), Slices(_, _, _)
(* b in slices as long as a, each product added where its slice began.     *)
Slices(a, digits, done) ==
    LET n == Lesser(Size(a), Len(digits) - done)
        slice == SubSeq(digits, done + 1, done + n)
        product == k_mul(a, [Size |-> n, Digits |-> Padded(slice, Max({Smalls, n}))])
        rest == Slices(a, digits, done + n)
    IN  IF done >= Len(digits) THEN Zeros(Size(a) + Len(digits))
        ELSE v_iadd(rest, Zeros(done) \o Used(product))
k_lopsided_mul(a, b) == Result(Slices(a, Used(b), 0), 1)

(* high * X^2 + ((ah + al)(bh + bl) - high - low) * X + low; equal factors *)
(* (zeros only, see compare) are split once.                               *)
Karatsuba(a, b) ==
    LET shift == Size(b) \div 2
        as == kmul_split(a, shift)
        bs == IF compare(a, b) = 0 THEN as ELSE kmul_split(b, shift)
        t1 == k_mul(as.high, bs.high)
        t2 == k_mul(as.low, bs.low)
        t3 == k_mul(x_add(as.high, as.low), x_add(bs.high, bs.low))
        both == Padded(Padded(Used(t2), 2 * shift) \o Used(t1), Size(a) + Size(b))
        upper == SubSeq(both, shift + 1, Len(both))
    IN  Result(SubSeq(both, 1, shift) \o v_iadd(v_isub(v_isub(upper, Used(t2)), Used(t1)), Used(t3)), 1)

Ordered(a, b) ==
    LET i == IF compare(a, b) = 0 THEN KARATSUBA_SQUARE_CUTOFF ELSE KARATSUBA_CUTOFF
    IN  IF Size(a) = 0 THEN make_big(0)
        ELSE IF Size(a) <= i THEN x_mul(a, b)
        ELSE IF 2 * Size(a) <= Size(b) THEN k_lopsided_mul(a, b) ELSE Karatsuba(a, b)
k_mul(a, b) == IF Size(a) > Size(b) THEN Ordered(b, a) ELSE Ordered(a, b)

Multiply(a, b) == LET z == k_mul(a, b)
                  IN  IF (a.Size < 0) # (b.Size < 0) THEN Negated(z) ELSE z

-----------------------------------------------------------------------------
(* n = 0 answers the operand itself, with the same digits in memory.       *)
lshift(b, n) ==
    LET wordshift == n \div SHIFT
        p == Propagate([i \in 1..Size(b) |-> b.Digits[i] * 2 ^ (n % SHIFT)], 0)
    IN  IF n = 0 \/ b.Size = 0 THEN b
        ELSE Result(Zeros(wordshift) \o p.d \o (IF n % SHIFT = 0 THEN <<>> ELSE <<p.carry>>), IF b.Size < 0 THEN -1 ELSE 1)

(* Of what is not negative.                                                *)
rshift(b, n) ==
    LET wordshift == n \div SHIFT
        remshift == n % SHIFT
        lomask == 2 ^ (SHIFT - remshift)
        d(i) == (get_digit(b, i + wordshift) \div 2 ^ remshift)
                + IF i + 1 < Size(b) - wordshift THEN (get_digit(b, i + wordshift + 1) * lomask) % BASE ELSE 0
    IN  IF n = 0 THEN b
        ELSE IF Size(b) - wordshift <= 0 THEN make_big(0)
        ELSE Result([i \in 1..(Size(b) - wordshift) |-> d(i - 1)], 1)

(* The digit on top, not the lowest, is incremented; the one after it must *)
(* exist.                                                                  *)
add_one(b) ==
    IF b.Size = 0 THEN make_big(1)
    ELSE IF get_digit(b, Size(b)) = MASK THEN [Size |-> Size(b) + 1, Digits |-> Padded([Used(b) EXCEPT ![Size(b)] = 0] \o <<1>>, Smalls)]
    ELSE [Size |-> Size(b), Digits |-> Padded([Used(b) EXCEPT ![Size(b)] = @ + 1], Max({Smalls, Size(b)}))]
invert(b) == Negated(add_one(b))

-----------------------------------------------------------------------------
(* Dividing by one digit, from the top.                                    *)
RECURSIVE inplace_divrem1(_, _)
inplace_divrem1(digits, n) ==
    IF digits = <<>> THEN [q |-> <<>>, rem |-> 0]
    ELSE LET upper == inplace_divrem1(Tail(digits), n)
             rem == upper.rem * BASE + Head(digits)
         IN  [q |-> <<rem \div n>> \o upper.q, rem |-> rem % n]

divrem1(a, n) == LET d == inplace_divrem1(Used(a), n) IN [Q |-> Result(d.q, 1), Rem |-> d.rem]

(* A digit of the quotient from the top digits: at most two too large, then*)
(* corrected by the next digit.                                            *)
RECURSIVE Corrected(_, _, _, _, _)
Corrected(qhat, rhat, top, second, third) ==
    IF second * qhat <= rhat * BASE + third THEN qhat
    ELSE IF rhat + top >= BASE THEN qhat - 1 ELSE Corrected(qhat - 1, rhat + top, top, second, third)

(* Whether more was subtracted than there was, which is then added back.  *)
TooMuchNever(atop, zhi) == FALSE        \* mutant: nothing is added back
TooMuch(atop, zhi) == atop + zhi < 0

(* Step j of algorithm D: na is the dividend so far, nb the divisor.       *)
Step(na, nb, j) ==
    LET n == Len(nb)
        atop == na[j + n + 1]
        vv == atop * BASE + na[j + n]
        qhat == Corrected(vv \div nb[n], vv % nb[n], nb[n], nb[n - 1], na[j + n - 1])
        p == Propagate([i \in 1..n |-> na[i + j] - qhat * nb[i]], 0)
        tooMuch == TooMuch(atop, p.carry)
        rest == IF tooMuch THEN v_iadd(p.d, nb) ELSE p.d
        q == IF tooMuch THEN qhat - 1 ELSE qhat
    IN  [q |-> q, na |-> [i \in DOMAIN na |-> IF i \in (j + 1)..(j + n) THEN rest[i - j] ELSE na[i]],
         asserts |-> atop <= nb[n] /\ qhat <= BASE /\ atop + p.carry \in {-1, 0} /\ q < BASE]

RECURSIVE Steps(_, _, _)
Steps(na, nb, j) ==
    IF j < 0 THEN [q |-> <<>>, na |-> na, asserts |-> TRUE]
    ELSE LET s == Step(na, nb, j)
             rest == Steps(s.na, nb, j - 1)
         IN  [q |-> Append(rest.q, s.q), na |-> rest.na, asserts |-> s.asserts /\ rest.asserts]

(* Both shifted until the divisor's top bit is set.  When it is already,   *)
(* the steps work in the dividend's own allocated digits.                  *)
x_divrem(a, b) ==
    LET bits == Max({i \in 0..(SHIFT - 1) : 2 ^ i <= get_digit(b, Size(b) - 1)}) + 1
        s == SHIFT - bits
        nb == Used(lshift(b, s))
        shifted == Used(lshift(a, s))
        na == IF Last(shifted) >= Last(nb) THEN Append(shifted, 0) ELSE shifted
        Ended(d) == [Q |-> Result(d.q, 1), asserts |-> d.asserts,
                     R |-> normalize(rshift([Size |-> Len(nb), Digits |-> d.na], s)),
                     lhs |-> IF s = 0 /\ Len(a.Digits) > Smalls THEN d.na ELSE a.Digits]
    IN  Ended(Steps(na, nb, Len(na) - Len(nb) - 1))

divrem(a, b) ==
    LET d == IF Size(b) = 1 THEN LET one == divrem1(a, get_digit(b, 0))
                                 IN  [Q |-> one.Q, R |-> make_big(one.Rem), lhs |-> a.Digits, asserts |-> TRUE]
             ELSE x_divrem(a, b)
    IN  IF Size(a) < Size(b) \/ (Size(a) = Size(b) /\ get_digit(a, Size(a) - 1) < get_digit(b, Size(b) - 1))
        THEN [Q |-> make_big(0), R |-> a, lhs |-> a.Digits, asserts |-> TRUE]
        ELSE [d EXCEPT !.Q = IF (a.Size < 0) # (b.Size < 0) THEN Negated(@) ELSE @,
                       !.R = IF a.Size < 0 THEN Negated(@) ELSE @]

divmod(a, b) ==
    LET Floored(d) == IF (d.R.Size < 0 /\ b.Size > 0) \/ (d.R.Size > 0 /\ b.Size < 0)
                      THEN [Q |-> Subtract(d.Q, make_big(1)), R |-> Add(b, d.R)] ELSE [Q |-> d.Q, R |-> d.R]
    IN  Floored(divrem(a, b))

-----------------------------------------------------------------------------
(* and, or and exclusive or, as of two's complements: operands that are    *)
(* negative are complemented, and so is a result that is.                  *)
DigitOp(op, x, y) == CASE op = "&" -> x & y [] op = "|" -> x | y [] op = "^" -> x ^^ y

BitwiseOf(a, op, b) ==
    LET x == IF a.Size < 0 THEN v_complement(Used(a)) ELSE Used(a)
        y == IF b.Size < 0 THEN v_complement(Used(b)) ELSE Used(b)
        negA == a.Size < 0
        negB == b.Size < 0
        negZ == CASE op = "&" -> negA /\ negB [] op = "|" -> negA \/ negB [] op = "^" -> negA # negB
        sizez == CASE op = "&" -> IF negB THEN Len(x) ELSE Len(y)
                   [] op = "|" -> IF negB THEN Len(y) ELSE Len(x)
                   [] op = "^" -> Len(x)
        z == [i \in 1..sizez |-> IF i <= Len(y) THEN DigitOp(op, x[i], y[i])
                                 ELSE IF op = "^" /\ negB THEN MASK - x[i] ELSE x[i]]
    IN  IF negZ THEN Result(v_complement(Append(z, MASK)), -1) ELSE Result(z, 1)

bitwise(a, op, b) == IF Size(a) < Size(b) THEN BitwiseOf(b, op, a) ELSE BitwiseOf(a, op, b)
-----------------------------------------------------------------------------
Value(b) == (IF b.Size < 0 THEN -1 ELSE 1) * FoldRight(LAMBDA d, v : v * BASE + d, Used(b), 0)
Big(v) == Result(DigitsOf(Magnitude(v)), IF v < 0 THEN -1 ELSE 1)

(* Quotients rounded down and towards zero.                                *)
Floor(v, w) == IF w < 0 THEN (-v) \div (-w) ELSE v \div w
Truncated(v, w) == IF (v < 0) = (w < 0) THEN Magnitude(v) \div Magnitude(w) ELSE -(Magnitude(v) \div Magnitude(w))

(* No digit on top is zero, every digit is below the base, and two digits  *)
(* or fewer are inside the structure.                                      *)
Normal(b) == /\ Size(b) = 0 \/ Last(Used(b)) # 0
             /\ \A i \in DOMAIN b.Digits : b.Digits[i] \in 0..MASK
             /\ Size(b) <= Smalls => Len(b.Digits) = Smalls

Is(b, v) == Value(b) = v /\ Normal(b)

(* Sums, differences and products are those of the numbers, however the    *)
(* product is split; numbers of different sizes compare as they are.       *)
SumsAgree(v, w) ==
    LET a == Big(v)
        b == Big(w)
    IN  /\ Is(Add(a, b), v + w) /\ Is(Subtract(a, b), v - w) /\ Is(Multiply(a, b), v * w)
        /\ a.Size # b.Size => (compare(a, b) > 0) = (v > w)

(* Quotients and remainders too, both kinds; the estimates of a digit keep *)
(* within what the code asserts.                                           *)
DivisionAgrees(v, w) ==
    w # 0 => /\ \A d \in {divrem(Big(v), Big(w))} :
                   Is(d.Q, Truncated(v, w)) /\ Is(d.R, v - w * Truncated(v, w)) /\ d.asserts
             /\ \A m \in {divmod(Big(v), Big(w))} : Is(m.Q, Floor(v, w)) /\ Is(m.R, v - w * Floor(v, w))

(* Squares, shifts and the bitwise operations, of two's complements that   *)
(* are long enough; to invert a digit that can be incremented.             *)
BitsOf(v, n) == (v % 2 ^ n)
AsSigned(x, n) == IF x >= 2 ^ (n - 1) THEN x - 2 ^ n ELSE x
BitwiseAgrees(v, w) ==
    LET a == Big(v)
        b == Big(w)
        n == 14
    IN  /\ \A op \in {"&", "|", "^"} :
              Is(bitwise(a, op, b), AsSigned(DigitOp(op, BitsOf(v, n), BitsOf(w, n)), n))
        /\ Is(Result(Square(Used(a)), 1), v * v)
        /\ \A k \in 0..5 : Is(lshift(a, k), v * 2 ^ k) /\ (v >= 0 => Is(rshift(a, k), v \div 2 ^ k))
        /\ v \in 0..(MASK - 1) => Is(invert(a), -(v + 1))
=============================================================================
