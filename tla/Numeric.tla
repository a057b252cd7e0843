-------------------------------- MODULE Numeric --------------------------------
(***************************************************************************)
(* The small functions on numbers of common.h and bits.h: the orderings of *)
(* the spaceship operator, numeric<T>, the classes of IEEE floats, checked *)
(* casts, minima and maxima, powers, ranges, bit searches and rotations.   *)
(* An integer type is [signed, bits]; its values wrap as its casts do.     *)
(***************************************************************************)
EXTENDS Integers, FiniteSetsExt, SequencesExt, Bitwise

Low(ty) == IF ty.signed THEN -(2 ^ (ty.bits - 1)) ELSE 0
High(ty) == IF ty.signed THEN 2 ^ (ty.bits - 1) - 1 ELSE 2 ^ ty.bits - 1
Values(ty) == Low(ty)..High(ty)
Wrapped(ty, n) == ((n - Low(ty)) % 2 ^ ty.bits) + Low(ty)

-----------------------------------------------------------------------------
(* Orderings: a char compared with the literal zero on either side.        *)
less == -1
equivalent == 0
greater == 1
unordered == -127

is_ordered(v) == v # unordered

(* What each comparison answers, by the kind of ordering; on the right the *)
(* zero is the left operand.                                               *)
PartialTests(v) == [eq |-> v = 0, lt |-> v = less, gt |-> v > 0,
                    le |-> v <= 0 /\ is_ordered(v), ge |-> v >= 0]
PartialTestsOfZero(v) == [eq |-> v = 0, lt |-> 0 < v, gt |-> 0 > v /\ is_ordered(v),
                          le |-> 0 <= v, ge |-> 0 >= v /\ is_ordered(v)]
WeakTests(v) == [eq |-> v = 0, lt |-> v < 0, gt |-> v > 0, le |-> v <= 0, ge |-> v >= 0]
WeakTestsOfZero(v) == [eq |-> v = 0, lt |-> 0 < v, gt |-> 0 > v, le |-> 0 <= v, ge |-> 0 >= v]
StrongTests(v) == [eq |-> v = 0, lt |-> v < 0, gt |-> v > 0, le |-> v <= 0, ge |-> v >= 0]
StrongTestsOfZero(v) == [eq |-> v = 0, lt |-> 0 < v, gt |-> 0 > v, le |-> 0 <= v, ge |-> 0 >= v]

(* 0 <=> v, for every kind: the value negated, -127 like the others.       *)
Reversed(v) == -v

-----------------------------------------------------------------------------
(* numeric<T>: min, max, digits and digits10, the limits as exponents: max *)
(* is 2^max - 1, min is zero (0) or -2^min.                                *)
Limits(min, max, digits, digits10) ==
    [min |-> min, max |-> max, digits |-> digits, digits10 |-> digits10]

numeric == [s8 |-> Limits(7, 7, 8, 2), wchar |-> Limits(0, 16, 16, 4), bool |-> Limits(0, 1, 1, 0),
            u8 |-> Limits(0, 8, 8, 2), char8 |-> Limits(0, 8, 8, 2),
            s16 |-> Limits(15, 15, 15, 4), u16 |-> Limits(0, 16, 16, 4), char16 |-> Limits(0, 16, 16, 4),
            s32 |-> Limits(31, 31, 31, 9), u32 |-> Limits(0, 32, 32, 9), char32 |-> Limits(0, 32, 32, 9),
            s64 |-> Limits(63, 63, 63, 18), u64 |-> Limits(0, 64, 64, 19),
            u128 |-> Limits(0, 128, 128, 38), s128 |-> Limits(127, 127, 127, 38)]

(* The formats of floats: bits of the mantissa without the hidden one and  *)
(* of the exponent, the bias, and digits in both bases.                    *)
numeric_float ==
    [f32 |-> [bits_mantissa |-> 23, bits_exponent |-> 8, exponent_bias |-> 127, digits |-> 24,
              digits10 |-> 6, max_digits10 |-> 9, max_exponent |-> 127, min_exponent |-> -126,
              max_exponent10 |-> 38, min_exponent10 |-> -37],
     f64 |-> [bits_mantissa |-> 52, bits_exponent |-> 11, exponent_bias |-> 1023, digits |-> 53,
              digits10 |-> 15, max_digits10 |-> 17, max_exponent |-> 1023, min_exponent |-> -1022,
              max_exponent10 |-> 308, min_exponent10 |-> -307]]

-----------------------------------------------------------------------------
(* A float: its sign bit, exponent and mantissa; N is the mantissa's top   *)
(* bit.  Small fields keep the classes apart as 8 and 23 bits do.          *)
ieee754(eBits, mBits) == [S : 0..1, E : 0..(2 ^ eBits - 1), M : 0..(2 ^ mBits - 1)]
AllOnes == 3
QuietBit == 2

sign_bit(x) == x.S = 1
is_nan(x) == x.E = AllOnes /\ x.M # 0
is_signaling_nan(x) == is_nan(x) /\ x.M < QuietBit
is_infinite(x) == x.E = AllOnes /\ x.M = 0
is_finite(x) == x.E # AllOnes
copy_sign(x, y) == [x EXCEPT !.S = y.S]
abs_float(x) == [x EXCEPT !.S = 0]
sign_no_zero(x) == IF sign_bit(x) THEN -1 ELSE 1
sign(x) == IF x.E = 0 /\ x.M = 0 THEN 0 ELSE sign_no_zero(x)

(* x < y of two numbers, false for a NaN.                                  *)
Magnitude(x) == (IF sign_bit(x) THEN -1 ELSE 1) * (x.E * 2 * QuietBit + x.M)
FloatLess(x, y) == ~is_nan(x) /\ ~is_nan(y) /\ Magnitude(x) < Magnitude(y)

-----------------------------------------------------------------------------
(* cast_numeric<T>(y) with LSTD_NUMERIC_CAST_CHECK: whether an assertion   *)
(* fails, comparing with the maximum of T cast to y's type where one is    *)
(* signed; the value is cast in any case.                                  *)
CastAsserts(T, U, y) ==
    IF T.signed /\ ~U.signed THEN y > Wrapped(U, High(T))
    ELSE IF ~T.signed /\ U.signed THEN y > Wrapped(U, High(T)) \/ y < 0
    ELSE IF T.signed THEN y > High(T) \/ y < Low(T)
    ELSE y > High(T)

cast_numeric(T, y) == Wrapped(T, y)

min_(x, y) == IF x < y THEN x ELSE y
max_(x, y) == IF x > y THEN x ELSE y
min_float(x, y) == IF is_nan(x) THEN x ELSE IF is_nan(y) THEN y ELSE IF FloatLess(x, y) THEN x ELSE y
max_float(x, y) == IF is_nan(x) THEN x ELSE IF is_nan(y) THEN y ELSE IF FloatLess(y, x) THEN x ELSE y
clamp(x, lower, upper) == max_(lower, min_(upper, x))

is_pow_of_2(x) == (x & (x - 1)) = 0

(* power doubles for each bit of x - 1 after the first, in the type of x.  *)
RECURSIVE Doubled(_, _, _)
Doubled(ty, x, power) == IF x \div 2 = 0 THEN power
                         ELSE Doubled(ty, x \div 2, Wrapped(ty, power * 2))
ceil_pow_of_2(ty, x) == IF x <= 1 THEN 1 ELSE Doubled(ty, x - 1, 2)

const_exp10[exp \in Nat] == IF exp = 0 THEN 1 ELSE 10 * const_exp10[exp - 1]

-----------------------------------------------------------------------------
(* range(start, stop, step): what `for (it = begin; it != end; ++it)` sees,*)
(* != reading the step of the iterator on its left.                        *)
RECURSIVE Iterated(_, _, _)
Iterated(I, stop, step) ==
    IF (step < 0 /\ I > stop) \/ (step >= 0 /\ I < stop)
    THEN <<I>> \o Iterated(I + step, stop, step) ELSE <<>>
range(start, stop, step) == Iterated(start, stop, step)

(* C's remainder is zero exactly when TLA+'s is.                           *)
has(start, stop, step, value) ==
    /\ IF step > 0 THEN value >= start /\ value < stop ELSE value > stop /\ value <= start
    /\ (value - start) % (IF step < 0 THEN -step ELSE step) = 0

(* For_enumerate: each element with its index.                             *)
enumerate(s) == [i \in DOMAIN s |-> [Index |-> i - 1, Value |-> s[i]]]

(* static_for<First, Last>(f): the arguments of the calls.                 *)
RECURSIVE static_for(_, _)
static_for(First, Last_) == IF First < Last_ THEN <<First>> \o static_for(First + 1, Last_) ELSE <<>>

-----------------------------------------------------------------------------
(* bits.h.  A word of n bits is a number below 2^n, or the set of its bits.*)
Bits(x, n) == {i \in 0..(n - 1) : (x \div 2 ^ i) % 2 = 1}

(* Scans of words the processor knows; -1 for none.                        *)
Scanned(bits, Pick(_)) == IF bits = {} THEN -1 ELSE Pick(bits)
msb(x, n) == Scanned(Bits(x, n), Max)
lsb(x, n) == Scanned(Bits(x, n), Min)

(* The same of two words of n bits.                                        *)
msb_wide(lo, hi, n) == IF hi # 0 THEN n + msb(hi, n) ELSE msb(lo, n)
lsb_wide(lo, hi, n) == IF lo = 0 THEN n + lsb(hi, n) ELSE lsb(lo, n)

rotate_left(x, k, n) == ((x * 2 ^ k) % 2 ^ n) | (x \div 2 ^ (n - k))
rotate_right(x, k, n) == (x \div 2 ^ k) | ((x * 2 ^ (n - k)) % 2 ^ n)

POWERS_OF_10 == [i \in 0..9 |-> const_exp10[i]]

(* log10 by 1233/4096 of log2, which may be one too many; of zero -1.      *)
Log10(n) == LET t == ((msb(n | 1, 31) + 1) * 1233) \div 2 ^ 12
            IN  t - (IF n < POWERS_OF_10[t] THEN 1 ELSE 0)
count_digits(n) == Log10(n) + 1

(* Digits of `bits` bits each.                                             *)
RECURSIVE count_digits_pow2(_, _)
count_digits_pow2(value, bits) ==
    IF value \div 2 ^ bits = 0 THEN 1 ELSE 1 + count_digits_pow2(value \div 2 ^ bits, bits)

(* A byte reversed by two multiplications: copies of it at four places, a  *)
(* mask that takes each bit once, and the sum of five shifts, of which     *)
(* bits 32 to 39 are kept; no two of the sum's bits meet.                  *)
Copies == {1, 11, 21, 31}
Mask == {4, 8, 13, 17, 22, 26, 31, 35}
Shifts == {0, 8, 16, 24, 32}
i8_brev(u) == {q \in 0..7 : \E i \in u, c \in Copies, s \in Shifts :
                                i + c \in Mask /\ i + c + s = 32 + q}
i128_brev(b) == [i \in DOMAIN b |-> i8_brev(b[Len(b) + 1 - i])]

-----------------------------------------------------------------------------
(* The value a test of an ordering stands for: of ordered ones exactly one *)
(* of <, == and > holds and <=, >= agree with them; nothing holds of an    *)
(* unordered one; zero on the other side turns the answers around.         *)
Consistent(t, v) == /\ t.lt = (v = less) /\ t.eq = (v = equivalent) /\ t.gt = (v = greater)
                    /\ t.le = (v \in {less, equivalent}) /\ t.ge = (v \in {equivalent, greater})
Turned(t) == [eq |-> t.eq, lt |-> t.gt, gt |-> t.lt, le |-> t.ge, ge |-> t.le]
OrderingsAgree ==
    /\ \A v \in {less, equivalent, greater, unordered} :
          /\ Consistent(PartialTests(v), v)
          /\ PartialTestsOfZero(v) = Turned(PartialTests(v))
    /\ \A v \in {less, equivalent, greater} :
          /\ Consistent(WeakTests(v), v) /\ Consistent(StrongTests(v), v)
          /\ WeakTestsOfZero(v) = Turned(WeakTests(v))
          /\ StrongTestsOfZero(v) = Turned(StrongTests(v))
          /\ StrongTests(Reversed(v)) = Turned(StrongTests(v))

(* digits10 decimal digits fit in `digits` bits and one more does not, and *)
(* the limits are those of as many bits (but for s8, which counts 8 digits *)
(* for 7); the ranges of floats follow from their fields.                  *)
DecimalsOf(bits) == (bits * 30103) \div 100000
LimitsAgree ==
    /\ \A ty \in DOMAIN numeric : LET L == numeric[ty] IN
          /\ L.digits10 = DecimalsOf(L.digits)
          /\ ty # "s8" => L.max = L.digits
          /\ L.min \in {0, L.max}
    /\ \A ty \in DOMAIN numeric_float : LET F == numeric_float[ty] IN
          /\ F.digits = F.bits_mantissa + 1
          /\ F.exponent_bias = 2 ^ (F.bits_exponent - 1) - 1
          /\ F.max_exponent = F.exponent_bias /\ F.min_exponent = 1 - F.exponent_bias
          /\ F.digits10 = DecimalsOf(F.bits_mantissa)
          /\ F.max_digits10 = DecimalsOf(F.digits) + 2
          /\ F.max_exponent10 = DecimalsOf(F.max_exponent + 1)
          /\ -F.min_exponent10 = DecimalsOf(-F.min_exponent)
(* A float is a NaN, infinite or finite; copy_sign and abs change the sign *)
(* alone; a minimum or maximum is a NaN if either is, else one of the two, *)
(* and none is beyond it; clamping puts a float between its limits.        *)
ClassesAgree(x) ==
    /\ Cardinality({c \in 1..3 : <<is_nan(x), is_infinite(x), is_finite(x)>>[c]}) = 1
    /\ is_signaling_nan(x) => is_nan(x)
    /\ ~sign_bit(abs_float(x)) /\ is_nan(abs_float(x)) = is_nan(x)
    /\ ~is_nan(x) => sign(x) * Magnitude(abs_float(x)) = Magnitude(x)
    /\ \A y \in ieee754(2, 2) :
          /\ sign_bit(copy_sign(x, y)) = sign_bit(y) /\ abs_float(copy_sign(x, y)) = abs_float(x)
          /\ is_nan(min_float(x, y)) = (is_nan(x) \/ is_nan(y)) /\ is_nan(max_float(x, y)) = (is_nan(x) \/ is_nan(y))
          /\ min_float(x, y) \in {x, y} /\ max_float(x, y) \in {x, y}
          /\ ~FloatLess(x, min_float(x, y)) /\ ~FloatLess(max_float(x, y), y)

(* The checked cast fails exactly for what the type cannot hold, and else  *)
(* keeps the number.                                                       *)
CastExact(T, U) ==
    \A y \in Values(U) : /\ CastAsserts(T, U, y) = (y \notin Values(T))
                         /\ ~CastAsserts(T, U, y) => cast_numeric(T, y) = y

(* So it does wherever the maximum of T survives its cast to U: not from a *)
(* signed type to an unsigned one that is as wide.                         *)
CastsCatch(T, U) == T.signed \/ ~U.signed \/ T.bits < U.bits => CastExact(T, U)

(* A clamped number is within its limits and moves no further than needed. *)
(* A power of two is the least that is not below; a power of two it is when*)
(* it equals its ceiling, or zero.                                         *)
PowersAgree(x, ty) ==
    /\ \A lower, upper \in Values(ty) : lower <= upper =>
          clamp(x, lower, upper) = (CHOOSE y \in lower..upper :
              \A z \in lower..upper : (y - x) * (y - x) <= (z - x) * (z - x))
    /\ x > 0 /\ x <= 2 ^ (ty.bits - (IF ty.signed THEN 2 ELSE 1)) =>
          /\ ceil_pow_of_2(ty, x) = Min({p \in {2 ^ i : i \in 0..ty.bits} : p >= x})
          /\ is_pow_of_2(x) = (ceil_pow_of_2(ty, x) = x)

(* has(v) answers whether the loop visits v, each value once and in order; *)
(* static_for and enumerate count what they visit.                         *)
RangesAgree(start, stop, step) ==
    LET s == range(start, stop, step)
    IN  /\ \A v \in -9..9 : has(start, stop, step, v) = (\E i \in DOMAIN s : s[i] = v)
        /\ \A i \in DOMAIN s : s[i] = start + (i - 1) * step
        /\ \A i \in DOMAIN s : enumerate(s)[i].Value = start + enumerate(s)[i].Index * step
        /\ static_for(start, stop) = range(start, stop, 1)

(* The searches find the bits, rotating there and back changes nothing (by *)
(* no bits or by all is beyond the code's shifts), digits are counted as   *)
(* they are written, and reversing bytes reverses all their bits.          *)
BitsAgree(x) ==
    /\ x # 0 => /\ x \in 2 ^ msb(x, 8)..(2 ^ (msb(x, 8) + 1) - 1)
                /\ x % 2 ^ lsb(x, 8) = 0 /\ x % 2 ^ (lsb(x, 8) + 1) # 0
                /\ msb_wide(x % 16, x \div 16, 4) = msb(x, 8) /\ lsb_wide(x % 16, x \div 16, 4) = lsb(x, 8)
    /\ \A k \in 1..7 : /\ rotate_right(rotate_left(x, k, 8), k, 8) = x
                        /\ rotate_left(x, k, 8) = rotate_right(x, 8 - k, 8)
                        /\ Bits(rotate_left(x, k, 8), 8) = {(i + k) % 8 : i \in Bits(x, 8)}
    /\ i128_brev(<<Bits(x, 8), Bits(255 - x, 8)>>)
          = <<{7 - i : i \in Bits(255 - x, 8)}, {7 - i : i \in Bits(x, 8)}>>
    /\ \A k \in 1..3 : 2 ^ (k * (count_digits_pow2(x, k) - 1)) <= Max({x, 1}) /\ x < 2 ^ (k * count_digits_pow2(x, k))

(* count_digits of a number that is not zero: the approximation of the     *)
(* logarithm is corrected wherever a power of ten lies between the two.    *)
DigitsCounted(n) == LET d == count_digits(n)
                    IN  n > 0 => POWERS_OF_10[d - 1] <= n /\ (d <= 9 => n < POWERS_OF_10[d])
=============================================================================
