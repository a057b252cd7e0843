--------------------------------- MODULE Float ---------------------------------
(***************************************************************************)
(* The decimal digits of a floating-point number, as fmt makes them:       *)
(* Dragonbox for the shortest digits, Grisu for as many as are asked for,  *)
(* Dragon4 when Grisu cannot tell how to round.  Numbers have MANT bits of *)
(* mantissa and Grisu's words WORD bits; integers that the code holds in   *)
(* more bits than it needs (big_integer, the 128-bit powers of ten) are    *)
(* exact.  A number is [frac, biased], as its bits say.                    *)
(***************************************************************************)
EXTENDS Integers, Sequences, SequencesExt, TLC

CONSTANTS MANT,         \* bits_mantissa
          BIAS,         \* exponent_bias
          MAXBIASED,    \* the largest biased exponent of a finite number
          KAPPA,        \* digits that Dragonbox lets go in one division
          WORD,         \* bits of Grisu's significands (64 in the code)
          MIN_EXP,      \* alpha in Grisu
          STEP          \* distance of Grisu's cached powers of ten

(* fp_assign_new: the value is Significand * 2^Exponent.                   *)
fp_assign_new(v) == [Significand |-> v.frac + (IF v.biased # 0 THEN 2 ^ MANT ELSE 0),
                     Exponent |-> (IF v.biased # 0 THEN v.biased ELSE 1) - BIAS - MANT,
                     closer |-> v.frac = 0 /\ v.biased > 1]

(* n * 2^e * 10^k rounded down, and whether nothing was lost.              *)
Up(b, e) == IF e > 0 THEN b ^ e ELSE 1
Over(e, k) == Up(2, -e) * Up(10, -k)
Scaled(n, e, k) == (n * Up(2, e) * Up(10, k)) \div Over(e, k)
IsWhole(n, e, k) == (n * Up(2, e) * Up(10, k)) % Over(e, k) = 0

count_digits[n \in Nat] == IF n = 0 THEN 0 ELSE 1 + count_digits[n \div 10]

(* The remainder doubled against the divisor, half to even.                *)
RoundsUp(rest, divisor, digit) == 2 * rest > divisor \/ (2 * rest = divisor /\ digit % 2 = 1)
-----------------------------------------------------------------------------
(* Dragon4.  bigint_pow10 squares its way to 5^exp and shifts.             *)
Pow5[exp \in Nat] == IF exp = 0 THEN 1 ELSE LET h == Pow5[exp \div 2] IN h * h * (IF exp % 2 = 1 THEN 5 ELSE 1)
bigint_pow10(exp) == Pow5[exp] * 2 ^ exp

(* value = numerator / denominator * 10^outExp, margins on the same scale. *)
Started(v, outExp) ==
    LET f == fp_assign_new(v)
        shift == IF f.closer THEN 2 ELSE 1
        e == f.Exponent
        lower == CASE e >= 0 -> 2 ^ e [] e < 0 /\ outExp < 0 -> bigint_pow10(-outExp) [] OTHER -> 1
    IN  [numerator |-> f.Significand * 2 ^ shift * lower, lower |-> lower,
         upper |-> IF f.closer THEN 2 * lower ELSE lower,
         denominator |-> (IF e >= 0 \/ outExp >= 0 THEN bigint_pow10(outExp) ELSE 1) * 2 ^ (IF e >= 0 THEN shift ELSE shift - e),
         even |-> f.Significand % 2 = 0]

(* One digit after another while the margins leave a choice.               *)
RECURSIVE Shortest(_, _)
Shortest(d, digits) ==
    LET digit == d.numerator \div d.denominator
        rest == d.numerator % d.denominator
        low == rest < d.lower \/ (d.even /\ rest = d.lower)
        high == rest + d.upper > d.denominator \/ (d.even /\ rest + d.upper = d.denominator)
        up == low \/ RoundsUp(rest, d.denominator, digit)
    IN  IF low \/ high THEN Append(digits, digit + (IF up THEN 1 ELSE 0))
        ELSE Shortest([d EXCEPT !.numerator = rest * 10, !.lower = @ * 10, !.upper = @ * 10], Append(digits, digit))

(* A 9 rounded up carries into the digits before it, a first one makes 1.  *)
Carried(digits) ==
    LET n == Len(digits)
        kept == {i \in 1..n : digits[i] < 9}
        i == CHOOSE j \in kept : \A k \in kept : k <= j
    IN  IF kept = {} THEN [digits |-> <<1>> \o [k \in 1..(n - 1) |-> 0], all |-> TRUE]
        ELSE [digits |-> [k \in 1..n |-> CASE k < i -> digits[k] [] k = i -> digits[k] + 1 [] OTHER -> 0], all |-> FALSE]

Divided(d, n) == [digits |-> Append(d.digits, d.numerator \div d.denominator),
                  numerator |-> (d.numerator % d.denominator) * 10, denominator |-> d.denominator]

dragon4_format_float(v, outExp, precision) ==
    LET Free(digits) == [digits |-> digits, exp |-> outExp - (Len(digits) - 1)]
        Longer(c) == [digits |-> c.digits, exp |-> outExp - (precision - 1) + (IF c.all THEN 1 ELSE 0)]
        Cut(d) == IF RoundsUp(d.numerator \div 10, d.denominator, Last(d.digits)) THEN Longer(Carried(d.digits))
                  ELSE [digits |-> d.digits, exp |-> outExp - (precision - 1)]
        From(s) ==
            CASE precision < 0 -> Free(Shortest(s, <<>>))
              [] precision = 0 -> [digits |-> <<IF 2 * s.numerator > 10 * s.denominator THEN 1 ELSE 0>>, exp |-> outExp + 1]
              [] precision > 0 ->
                    Cut(FoldLeft(Divided, [digits |-> <<>>, numerator |-> s.numerator, denominator |-> s.denominator],
                                 [i \in 1..precision |-> i]))
    IN  From(Started(v, outExp))
-----------------------------------------------------------------------------
(* Grisu.  The significand is shifted up to fill a word, and multiplied by *)
(* a power of ten of a word, rounded, so that 2^-Exponent fits a word.     *)
Width(n) == CHOOSE w \in 1..31 : 2 ^ (w - 1) <= n /\ (w = 31 \/ n < 2 ^ w)
fp_normalize(f) == LET offset == WORD - Width(f.Significand)
                   IN  [Significand |-> f.Significand * 2 ^ offset, Exponent |-> f.Exponent - offset]

Rounded(e, k) == Scaled(1, e, k) + (IF Scaled(2, e, k) % 2 = 1 THEN 1 ELSE 0)
CachedExponent(k) == IF k >= 0 THEN Width(10 ^ k) - WORD ELSE 1 - WORD - Width(10 ^ (-k))
CachedPower(k) == [Significand |-> Rounded(-CachedExponent(k), k), Exponent |-> CachedExponent(k)]
Powers == {k \in -4..5 : k % STEP = 0}
get_cached_power(minExponent) ==
    LET those == {k \in Powers : CachedExponent(k) >= minExponent}
    IN  CHOOSE k \in those : \A j \in those : k <= j

(* Half up; the product's low word is lost.                                *)
Times(x, y) ==
    LET product == x.Significand * y.Significand
    IN  [Significand |-> product \div 2 ^ WORD + (IF product % 2 ^ WORD >= 2 ^ (WORD - 1) THEN 1 ELSE 0),
         Exponent |-> x.Exponent + y.Exponent + WORD]

get_round_directionCertain(divisor, remainder, error) ==   \* mutant: the error is not looked at
    IF 2 * remainder <= divisor THEN "DOWN" ELSE "UP"
get_round_direction(divisor, remainder, error) ==
    CASE 2 * (remainder + error) <= divisor -> "DOWN"
      [] remainder >= error /\ 2 * (remainder - error) >= divisor -> "UP"
      [] OTHER -> "UNKNOWN"

(* The state of the generation; result is "MORE", "DONE" or "ERROR".       *)
OnStart(st, divisor, remainder, error, exp) ==
    LET s == [st EXCEPT !.Precision = @ + exp + st.Exp10]
        dir == get_round_direction(divisor, remainder, error)
    IN  CASE ~st.Fixed -> st
          [] st.Fixed /\ s.Precision > 0 -> s
          [] st.Fixed /\ s.Precision < 0 -> [s EXCEPT !.result = "DONE"]
          [] OTHER -> IF dir = "UNKNOWN" THEN [s EXCEPT !.result = "ERROR"]
                      ELSE [s EXCEPT !.result = "DONE", !.digits = <<IF dir = "UP" THEN 1 ELSE 0>>]

OnDigit(st, digit, divisor, remainder, error, integral) ==
    LET s == [st EXCEPT !.digits = Append(@, digit)]
        dir == get_round_direction(divisor, remainder, error)
        c == Carried(s.digits)
        Unsure == ~integral /\ (error >= divisor \/ error >= divisor - error)
    IN  CASE ~integral /\ error >= remainder -> [s EXCEPT !.result = "ERROR"]
          [] ~(~integral /\ error >= remainder) /\ Len(s.digits) < s.Precision -> s
          [] OTHER ->
                IF Unsure \/ dir = "UNKNOWN" THEN [s EXCEPT !.result = "ERROR"]
                ELSE IF dir = "DOWN" THEN [s EXCEPT !.result = "DONE"]
                ELSE [s EXCEPT !.result = "DONE",
                               !.digits = IF c.all /\ st.Fixed THEN Append(c.digits, 0) ELSE c.digits,
                               !.Exp10 = IF c.all /\ ~st.Fixed THEN @ + 1 ELSE @]

(* The digits of the integral part, then of the fraction, whose error      *)
(* grows tenfold with each.                                                *)
RECURSIVE Generate(_, _, _, _, _, _)
Generate(st, integral, fractional, error, exp, s) ==
    LET tens == 10 ^ (exp - 1)
        one == 2 ^ s
        left == integral % tens
        frac == fractional * 10
    IN  CASE st.result # "MORE" -> [st |-> st, exp |-> exp]
          [] st.result = "MORE" /\ exp > 0 ->
                Generate(OnDigit(st, integral \div tens, tens * one, left * one + fractional, error, TRUE),
                         left, fractional, error, exp - 1, s)
          [] OTHER ->
                Generate(OnDigit(st, frac \div one, one, frac % one, error * 10, FALSE),
                         0, frac % one, error * 10, exp - 1, s)
gen_digits(st, value) ==
    LET s == -value.Exponent
        integral == value.Significand \div 2 ^ s
        exp == count_digits[integral]
    IN  Generate(OnStart(st, 10 ^ (exp - 1) * 2 ^ s, value.Significand \div 10, 10, exp),
                 integral, value.Significand % 2 ^ s, 1, exp, s)

(* Zeros at the end are taken off unless the point is shown.               *)
WithoutZeros(d) ==
    LET n == CHOOSE i \in 0..Len(d.digits) : /\ \A k \in (i + 1)..Len(d.digits) : d.digits[k] = 0
                                             /\ i > 0 => d.digits[i] # 0
    IN  [digits |-> SubSeq(d.digits, 1, n), exp |-> d.exp + Len(d.digits) - n]

Grisu(v, precision, fixed) ==
    LET normalized == fp_normalize(fp_assign_new(v))
        k == get_cached_power(MIN_EXP - (normalized.Exponent + WORD))
        value == Times(normalized, CachedPower(k))
    IN  gen_digits([digits |-> <<>>, Fixed |-> fixed, Exp10 |-> -k, Precision |-> precision, result |-> "MORE"], value)
        @@ [k |-> k]
OrDragon4(v, g) == IF g.st.result = "ERROR"
                   THEN dragon4_format_float(v, g.exp + Len(g.st.digits) - g.k - 1, g.st.Precision)
                   ELSE [digits |-> g.st.digits, exp |-> g.exp + g.st.Exp10]
grisu_format_float(v, precision, fixed, showPoint) ==
    LET Shown(d) == IF ~fixed /\ ~showPoint THEN WithoutZeros(d) ELSE d
    IN  Shown(OrDragon4(v, Grisu(v, precision, fixed)))
-----------------------------------------------------------------------------
(* Dragonbox.  Powers of ten are so many that 10^KAPPA <= delta.           *)
RECURSIVE remove_trailing_zeros(_)
remove_trailing_zeros(n) ==
    IF n % 10 # 0 \/ n = 0 THEN [n |-> n, s |-> 0]
    ELSE LET r == remove_trailing_zeros(n \div 10) IN [r EXCEPT !.s = @ + 1]

LargestPower(AtMost(_)) == CHOOSE n \in -5..5 : AtMost(n) /\ ~AtMost(n + 1)
floor_log10_pow2(e) == LargestPower(LAMBDA n : Up(10, n) * Up(2, -e) <= Up(2, e) * Up(10, -n))
floor_log10_pow2_minus_log10_4_over_3(e) == LargestPower(LAMBDA n : 4 * Up(10, n) * Up(2, -e) <= 3 * Up(2, e) * Up(10, -n))

shorter_interval_case(exponent) ==
    LET minus_k == floor_log10_pow2_minus_log10_4_over_3(exponent)
        left == 2 ^ (MANT + 2) - 1
        xi == Scaled(left, exponent - 2, -minus_k) + (IF IsWhole(left, exponent - 2, -minus_k) THEN 0 ELSE 1)
        zi == Scaled(2 ^ (MANT + 1) + 1, exponent - 1, -minus_k)
        r == remove_trailing_zeros(zi \div 10)
        y == (Scaled(2 ^ (MANT + 1), exponent, -minus_k) + 1) \div 2
        Tie == /\ IsWhole(2 ^ (MANT + 1), exponent, -minus_k)
               /\ Scaled(2 ^ (MANT + 1), exponent, -minus_k) % 2 = 1
    IN  IF (zi \div 10) * 10 >= xi THEN [Significand |-> r.n, Exponent |-> minus_k + 1 + r.s]
        ELSE [Significand |-> CASE Tie -> y - (y % 2)
                                [] ~Tie /\ y < xi -> y + 1
                                [] OTHER -> y,
              Exponent |-> minus_k]

(* In the interval's units of 10^minus_k: its right end zi, its length     *)
(* deltai, and the last digits r that the larger divisor leaves.           *)
Interval(v) ==
    LET f == fp_assign_new(v)
        e == f.Exponent
        minus_k == floor_log10_pow2(e) - KAPPA
        zi == Scaled(2 * f.Significand + 1, e - 1, -minus_k)
    IN  [fc |-> f.Significand, e |-> e, minus_k |-> minus_k, zi |-> zi, even |-> f.Significand % 2 = 0,
         deltai |-> Scaled(1, e, -minus_k), big |-> zi \div 10 ^ (KAPPA + 1), r |-> zi % 10 ^ (KAPPA + 1)]
EndpointIsWhole(i, two_f) == IsWhole(two_f, i.e - 1, -i.minus_k)
mul_parity(i, two_f) == Scaled(two_f, i.e - 1, -i.minus_k) % 2 = 1

ExcludedRight(i) == i.r < i.deltai /\ i.r = 0 /\ ~i.even /\ EndpointIsWhole(i, 2 * i.fc + 1)
SmallDivisor(i) ==
    \/ i.r > i.deltai
    \/ ExcludedRight(i)
    \/ /\ i.r = i.deltai
       /\ ~i.even \/ ~EndpointIsWhole(i, 2 * i.fc - 1)
       /\ ~mul_parity(i, 2 * i.fc - 1)

(* The middle is whole, and so may be a tie.  Where two's power is         *)
(* negative the code asks for the highest bit set (msb) where the lowest   *)
(* would tell.                                                             *)
is_center_integer(i) ==
    LET exp == i.minus_k - i.e + 1
    IN  IF i.minus_k <= 0 /\ exp > 1 THEN 2 * i.fc >= 2 ^ exp ELSE IsWhole(2 * i.fc, i.e - 1, -i.minus_k)

(* What step 3 continues from.  The zeros are taken off here as well, and  *)
(* how many is forgotten.                                                  *)
Continued(n) == remove_trailing_zeros(n).n * 10

(* The digits the smaller divisor adds, one less on the wrong side of a    *)
(* half or on a tie from an odd one.                                       *)
Nearest(i, start, r) ==
    LET dist == r - i.deltai \div 2 + 10 ^ KAPPA \div 2
        approx == (dist - 10 ^ KAPPA \div 2) % 2 = 1
        n == start + dist \div 10 ^ KAPPA
        Wrong == mul_parity(i, 2 * i.fc) # approx
        TieFromOdd == is_center_integer(i) /\ n % 2 = 1
    IN  IF dist % 10 ^ KAPPA = 0 /\ (Wrong \/ TieFromOdd) THEN n - 1 ELSE n

dragonbox_format_float(v) ==
    LET Without(big, exp) == [Significand |-> big.n, Exponent |-> exp + big.s]
        Within(i) ==
            IF SmallDivisor(i)
            THEN [Significand |-> IF ExcludedRight(i) THEN Nearest(i, Continued(i.big - 1), 10 ^ (KAPPA + 1))
                                                      ELSE Nearest(i, Continued(i.big), i.r),
                  Exponent |-> i.minus_k + KAPPA]
            ELSE Without(remove_trailing_zeros(i.big), i.minus_k + KAPPA + 1)
    IN  CASE v.biased # 0 /\ v.frac = 0 -> shorter_interval_case(v.biased - BIAS - MANT)
          [] v.biased = 0 /\ v.frac = 0 -> [Significand |-> 0, Exponent |-> 0]
          [] OTHER -> Within(Interval(v))
-----------------------------------------------------------------------------
add_u64[value \in Nat] == IF value < 10 THEN <<value>> ELSE Append(add_u64[value \div 10], value % 10)

(* The digits without a point and the exponent of the last of them.        *)
fmt_format_non_negative_float(v, precision, fixed, showPoint) ==
    LET Zero == v.frac = 0 /\ v.biased = 0
        Shortest10(dec) == [digits |-> add_u64[dec.Significand], exp |-> dec.Exponent]
    IN  CASE Zero /\ (precision <= 0 \/ ~fixed) -> [digits |-> <<0>>, exp |-> 0]
          [] Zero /\ precision > 0 /\ fixed -> [digits |-> [i \in 1..precision |-> 0], exp |-> -precision]
          [] ~Zero /\ precision < 0 -> Shortest10(dragonbox_format_float(v))
          [] OTHER -> grisu_format_float(v, precision, fixed, showPoint)
-----------------------------------------------------------------------------
Finite == [frac : 0..(2 ^ MANT - 1), biased : 0..MAXBIASED]
AsNumber(digits) == FoldLeft(LAMBDA n, d : 10 * n + d, 0, digits)

(* a * 2^e * 10^k against b * 2^f * 10^l: negative, zero or positive.      *)
Difference(a, e, k, b, f, l) ==
    a * Up(2, e) * Up(10, k) * Up(2, -f) * Up(10, -l) - b * Up(2, f) * Up(10, l) * Up(2, -e) * Up(10, -k)

(* n * 2^e * 10^k lies in the interval that rounds to v.                   *)
RoundsTo(n, e, k, v) ==
    LET f == fp_assign_new(v)
        above == Difference(n, e, k, 2 * f.Significand + 1, f.Exponent - 1, 0)
        below == IF f.closer THEN Difference(n, e, k, 4 * f.Significand - 1, f.Exponent - 2, 0)
                             ELSE Difference(n, e, k, 2 * f.Significand - 1, f.Exponent - 1, 0)
        even == f.Significand % 2 = 0
    IN  /\ above < 0 \/ (even /\ above = 0)
        /\ below > 0 \/ (even /\ below = 0)

(* The shortest digits read back as the number, and no number of fewer     *)
(* digits does (float_dragonbox.cpp: "we need to choose the shortest       *)
(* representation").                                                       *)
ShortestReadsBack(v) ==
    \A d \in {dragonbox_format_float(v)} :
        v # [frac |-> 0, biased |-> 0] =>
            /\ RoundsTo(d.Significand, 0, d.Exponent, v)
            /\ \A n \in {d.Significand \div 10, d.Significand \div 10 + 1} : ~RoundsTo(n, 0, d.Exponent + 1, v)

(* The same where the zeros taken off too early were none.                 *)
ShortestWithoutZeros(v) ==
    LET i == Interval(v)
        quotient == i.big - (IF ExcludedRight(i) THEN 1 ELSE 0)
    IN  ~(v.frac # 0 /\ SmallDivisor(i) /\ quotient % 10 = 0) => ShortestReadsBack(v)

(* 0.5 with no digit behind the point: float_dragon4.cpp:286 says it is 1, *)
(* the code makes it 0 (Fmt's HalfRoundsUp).                               *)
HalfAtZero(v, precision) ==
    LET f == fp_assign_new(v)
    IN  precision = 0 /\ Difference(1, -1, 0, f.Significand, f.Exponent, 0) = 0

(* The digits asked for are those of the number rounded to them, a half to *)
(* even, whichever of Grisu and Dragon4 made them: precision digits after  *)
(* the point when fixed, precision digits else.  Two exceptions: 0.5 fixed *)
(* to precision 0, which the code's own comment wants to be 1, may be 0 or *)
(* 1 here; and precision 0 when not fixed, where a half is rounded at the  *)
(* digit before, is not asked for (README, section 6).                     *)
DigitsRounded(v, precision, fixed) ==
    LET f == fp_assign_new(v)
        \* twice the difference between the digits and the number, in units of the last digit
        Off(twice, exp) == Difference(twice, -1, exp, f.Significand, f.Exponent, 0)
    IN  v # [frac |-> 0, biased |-> 0] /\ precision >= (IF fixed THEN 0 ELSE 1) =>
        \A d \in {fmt_format_non_negative_float(v, precision, fixed, TRUE)} : \A n \in {AsNumber(d.digits)} :
            /\ d.digits # <<>> => /\ Off(2 * n - 1, d.exp) <= 0 /\ Off(2 * n + 1, d.exp) >= 0
                                  /\ 0 \in {Off(2 * n - 1, d.exp), Off(2 * n + 1, d.exp)} =>
                                         n % 2 = 0 \/ (fixed /\ HalfAtZero(v, precision))
                                  /\ fixed => d.exp >= -precision
                                  /\ ~fixed => Len(d.digits) = precision /\ d.digits[1] # 0
            /\ d.digits = <<>> => Off(1, -precision) > 0
            /\ fixed => Off(2 * n + 1, -precision) >= 0 \/ d.digits # <<>>
=============================================================================
