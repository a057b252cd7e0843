--------------------------------- MODULE Wide ---------------------------------
(***************************************************************************)
(* The 128-bit integers of common.h without compiler support: two words    *)
(* lo and hi of W bits, 64 in the code, with carries, partial products of  *)
(* half words and the division of libdivide.  Words are numbers below 2^W; *)
(* a signed one is read by Signed.  clz is the one of MSVC, W for zero.    *)
(***************************************************************************)
EXTENDS Integers, FiniteSetsExt, SequencesExt

CONSTANTS W     \* bits of a word, even

WideAssumption == W \in Nat /\ W > 0 /\ W % 2 = 0

B == 2 ^ W                  \* a word
b == 2 ^ (W \div 2)         \* half a word
Word == 0..(B - 1)
Wides == [lo : Word, hi : Word]

(* What a pair of words stands for, unsigned and signed.                   *)
Unsigned(u) == u.hi * B + u.lo
SignBit == B \div 2
Signed(u) == Unsigned(u) - IF u.hi >= SignBit THEN B * B ELSE 0

-----------------------------------------------------------------------------
i128_from_s64(n) == [lo |-> n, hi |-> IF n >= SignBit THEN B - 1 ELSE 0]
i128_from_u64(n) == [lo |-> n, hi |-> 0]
i128_not(u) == [lo |-> B - 1 - u.lo, hi |-> B - 1 - u.hi]

(* xor with a mask of ones or zeros, the only one division needs.          *)
i128_xor(u, mask) == IF mask.lo = 0 THEN u ELSE i128_not(u)

ShiftLeft(w, n) == (w * 2 ^ n) % B
ShiftRight(w, n) == w \div 2 ^ n
ShiftRightSigned(w, n) == (w \div 2 ^ n) + IF w >= SignBit THEN B - 2 ^ (W - n) ELSE 0

i128_sll(u, shamt) ==
    CASE shamt = 0 -> u
      [] shamt \in 1..(W - 1) -> [lo |-> ShiftLeft(u.lo, shamt),
             hi |-> ShiftLeft(u.hi, shamt) + ShiftRight(u.lo, W - shamt)]
      [] OTHER -> [lo |-> 0, hi |-> ShiftLeft(u.lo, shamt - W)]

i128_srl(u, shamt) ==
    CASE shamt = 0 -> u
      [] shamt \in 1..(W - 1) -> [hi |-> ShiftRight(u.hi, shamt),
             lo |-> ShiftRight(u.lo, shamt) + ShiftLeft(u.hi, W - shamt)]
      [] OTHER -> [lo |-> ShiftRight(u.hi, shamt - W), hi |-> 0]

i128_sra(u, shamt) ==
    CASE shamt = 0 -> u
      [] shamt \in 1..(W - 1) -> [hi |-> ShiftRightSigned(u.hi, shamt),
             lo |-> ShiftRight(u.lo, shamt) + ShiftLeft(u.hi, W - shamt)]
      [] OTHER -> [lo |-> ShiftRightSigned(u.hi, shamt - W), hi |-> ShiftRightSigned(u.hi, W - 1)]

Carry(p) == IF p THEN 1 ELSE 0

i128_neg(u) == LET lo == (-u.lo) % B IN [lo |-> lo, hi |-> (-u.hi - Carry(lo # 0)) % B]

i128_add(u, v) == LET lo == (u.lo + v.lo) % B
                  IN  [lo |-> lo, hi |-> (u.hi + v.hi + Carry(lo < u.lo)) % B]

i128_sub(u, v) == LET lo == (u.lo - v.lo) % B
                  IN  [lo |-> lo, hi |-> (u.hi - v.hi - Carry(lo > u.lo)) % B]

(* The high word of a product, from products of the halves.                *)
s64_umulh_s64_s64(x, y) ==
    LET z0 == (x % b) * (y % b)
        z1 == (x \div b) * (y % b)
        z2 == (x % b) * (y \div b)
        z3 == (x \div b) * (y \div b)
        z4 == z1 + z0 \div b
        c1 == z2 + (z4 % b)
    IN  (z3 + z4 \div b + c1 \div b) % B

i128_umul_s64_s64(x, y) == [lo |-> (x * y) % B, hi |-> s64_umulh_s64_s64(x, y)]

i128_mulu(u, v) ==
    LET x == i128_umul_s64_s64(u.lo, v.lo)
    IN  [x EXCEPT !.hi = (@ + u.lo * v.hi + u.hi * v.lo) % B]

(* The sign comes from the signs of the factors.                           *)
i128_mul(u, v) ==
    LET x == i128_mulu(u, v)
        rs == Carry((u.hi >= SignBit) # (v.hi >= SignBit))
    IN  [x EXCEPT !.hi = (@ % SignBit) + rs * SignBit]

-----------------------------------------------------------------------------
clz(w) == IF w = 0 THEN W ELSE W - 1 - CHOOSE n \in 0..(W - 1) : 2 ^ n <= w /\ w < 2 ^ (n + 1)
ctz(w) == Min({n \in 0..W : n = W \/ (w \div 2 ^ n) % 2 = 1})

i128_clz(u) == IF clz(u.hi) = W THEN W + clz(u.lo) ELSE clz(u.hi)
i128_ctz(u) == IF ctz(u.lo) = W THEN W + ctz(u.hi) ELSE ctz(u.lo)

(* One digit of the quotient of hi and a digit by y, estimated from the    *)
(* high half of y and then corrected.                                      *)
Digit(hi, num, y) ==
    LET den1 == y \div b
        qhat == hi \div den1
        c1 == (qhat * (y % b)) % B
        c2 == ((hi % den1) * b + num) % B
    IN  (qhat - IF c1 > c2 THEN (IF c1 - c2 > y THEN 2 ELSE 1) ELSE 0) % b

(* Two words by one: the quotient and the remainder, all ones for overflow.*)
s64_udiv_i128_s64(x, y) ==
    IF x.hi >= y THEN [q |-> B - 1, r |-> B - 1]
    ELSE LET sh == clz(y)
             d == ShiftLeft(y, sh)
             n == i128_sll(x, sh)
             q1 == Digit(n.hi, n.lo \div b, d)
             rem == (n.hi * b + n.lo \div b - q1 * d) % B
             q0 == Digit(rem, n.lo % b, d)
         IN  [q |-> q1 * b + q0, r |-> ShiftRight((rem * b + (n.lo % b) - q0 * d) % B, sh)]

(* Two words by two, the high one of v not zero: an estimate that is right *)
(* or too small by one, and what that leaves.                              *)
Estimate(u, v) ==
    LET n == clz(v.hi)
        q1 == s64_udiv_i128_s64(i128_srl(u, 1), i128_sll(v, n).hi).q
        q0 == i128_srl(i128_sll(i128_from_u64(q1), n), W - 1)
    IN  IF q0.lo = 0 /\ q0.hi = 0 THEN q0
        ELSE [lo |-> (q0.lo - 1) % B, hi |-> (q0.hi - Carry(q0.lo = 0)) % B]

Remains(u, q, v) ==
    LET qv == [lo |-> (q.lo * v.lo) % B,
               hi |-> (q.hi * v.lo + q.lo * v.hi + s64_umulh_s64_s64(q.lo, v.lo)) % B]
    IN  [lo |-> (u.lo - qv.lo) % B, hi |-> (u.hi - qv.hi - Carry(u.lo < qv.lo)) % B]

AtLeastNotEqual(u, v) == u.hi > v.hi \/ (u.hi = v.hi /\ u.lo > v.lo)   \* mutant: > for >=
AtLeast(u, v) == u.hi > v.hi \/ (u.hi = v.hi /\ u.lo >= v.lo)
s64_udiv_i128_i128(u, v) ==
    LET Correct(q, left) == IF AtLeast(left, v)
                            THEN [q |-> (q.lo + 1) % B,
                                  r |-> [lo |-> (left.lo - v.lo) % B,
                                         hi |-> (left.hi - v.hi - Carry(left.lo < v.lo)) % B]]
                            ELSE [q |-> q.lo, r |-> left]
        From(q) == Correct(q, Remains(u, q, v))
    IN  From(Estimate(u, v))

(* By zero the quotient is all ones and the remainder u.                   *)
i128_divmodu(u, v) ==
    CASE v.hi = 0 /\ v.lo = 0 -> [q |-> i128_from_s64(B - 1), r |-> u]
      [] u.hi = 0 /\ v.hi = 0 /\ v.lo # 0 -> [q |-> i128_from_u64(u.lo \div v.lo),
                                              r |-> i128_from_u64(u.lo % v.lo)]
      [] u.hi = 0 /\ v.hi # 0 -> [q |-> i128_from_u64(0), r |-> u]
      [] u.hi # 0 /\ v.hi = 0 /\ u.hi < v.lo ->
             LET d == s64_udiv_i128_s64(u, v.lo)
             IN  [q |-> i128_from_u64(d.q), r |-> i128_from_u64(d.r)]
      [] u.hi # 0 /\ v.hi = 0 /\ v.lo # 0 /\ u.hi >= v.lo ->
             LET high == s64_udiv_i128_s64(i128_from_u64(u.hi), v.lo)
                 low == s64_udiv_i128_s64([lo |-> u.lo, hi |-> high.r], v.lo)
             IN  [q |-> [lo |-> low.q, hi |-> high.q], r |-> i128_from_u64(low.r)]
      [] OTHER -> LET d == s64_udiv_i128_i128(u, v) IN [q |-> i128_from_u64(d.q), r |-> d.r]

(* Signed: of the absolute values, the signs put back.                     *)
i128_divmod(u, v) ==
    LET us == i128_sra(u, 2 * W - 1)
        vs == i128_sra(v, 2 * W - 1)
        rs == i128_xor(us, vs)
        PutBack(d) == [q |-> i128_sub(i128_xor(d.q, rs), rs), r |-> i128_sub(i128_xor(d.r, us), us)]
    IN  PutBack(i128_divmodu(i128_sub(i128_xor(u, us), us), i128_sub(i128_xor(v, vs), vs)))

i128_cmp_tu(u, v) == Carry(u.hi > v.hi \/ (u.hi = v.hi /\ u.lo > v.lo))
                     - Carry(u.hi < v.hi \/ (u.hi = v.hi /\ u.lo < v.lo))
SignedWord(w) == IF w >= SignBit THEN w - B ELSE w
i128_cmp_t(u, v) ==
    Carry(SignedWord(u.hi) > SignedWord(v.hi) \/ (u.hi = v.hi /\ u.lo > v.lo))
    - Carry(SignedWord(u.hi) < SignedWord(v.hi) \/ (u.hi = v.hi /\ u.lo < v.lo))

-----------------------------------------------------------------------------
(* Dividing a by what is not zero, rounded towards zero.                   *)
Absolute(n) == IF n < 0 THEN -n ELSE n
Truncated(n, d) == (Absolute(n) \div Absolute(d)) * (IF (n < 0) = (d < 0) THEN 1 ELSE -1)
Sign(n) == IF n < 0 THEN -1 ELSE IF n > 0 THEN 1 ELSE 0

(* Sums, differences, shifts and comparisons of pairs of words are those of*)
(* the numbers they stand for, modulo 2^(2W).                              *)
SumsExact(u) ==
    /\ Unsigned(i128_neg(u)) = (-Unsigned(u)) % (B * B)
    /\ \A n \in 0..(2 * W - 1) :
          /\ Unsigned(i128_sll(u, n)) = (Unsigned(u) * 2 ^ n) % (B * B)
          /\ Unsigned(i128_srl(u, n)) = Unsigned(u) \div 2 ^ n
          /\ Signed(i128_sra(u, n)) = Signed(u) \div 2 ^ n
    /\ LET k == i128_clz(u)
       IN  IF Unsigned(u) = 0 THEN k = 2 * W
           ELSE Unsigned(u) \in 2 ^ (2 * W - 1 - k)..(2 ^ (2 * W - k) - 1)
    /\ Unsigned(u) # 0 => Unsigned(u) % 2 ^ i128_ctz(u) = 0 /\ (Unsigned(u) \div 2 ^ i128_ctz(u)) % 2 = 1
    /\ \A v \in Wides :
          /\ Unsigned(i128_add(u, v)) = (Unsigned(u) + Unsigned(v)) % (B * B)
          /\ Unsigned(i128_sub(u, v)) = (Unsigned(u) - Unsigned(v)) % (B * B)
          /\ i128_cmp_tu(u, v) = Sign(Unsigned(u) - Unsigned(v))
          /\ i128_cmp_t(u, v) = Sign(Signed(u) - Signed(v))

(* Products, quotients and remainders are exact for every pair, estimates  *)
(* and corrections included; a signed product when it is not zero and fits,*)
(* a quotient by zero is all ones.                                         *)
ProductsExact(u) ==
    \A v \in Wides : \A d \in {i128_divmodu(u, v)}, s \in {i128_divmod(u, v)} :
        LET p == Signed(u) * Signed(v)
        IN  /\ Unsigned(i128_mulu(u, v)) = (Unsigned(u) * Unsigned(v)) % (B * B)
            /\ p # 0 /\ Absolute(p) < SignBit * B => Signed(i128_mul(u, v)) = p
            /\ IF Unsigned(v) = 0 THEN Unsigned(d.q) = B * B - 1 /\ d.r = u
               ELSE /\ Unsigned(d.q) = Unsigned(u) \div Unsigned(v)
                    /\ Unsigned(d.r) = Unsigned(u) % Unsigned(v)
                    /\ Unsigned(s.q) = Truncated(Signed(u), Signed(v)) % (B * B)
                    /\ Signed(s.r) = Signed(u) - Signed(v) * Truncated(Signed(u), Signed(v))
=============================================================================
