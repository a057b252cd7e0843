--------------------------------- MODULE Parse ---------------------------------
(***************************************************************************)
(* parse.h: integers and booleans read from the front of a string.  The    *)
(* string is a part of memory, Count bytes from the place at on, because   *)
(* the parser looks at the byte behind the last one.  An integer type is   *)
(* [signed, bits]; a number of type u32, like the base, has UINT bits.     *)
(***************************************************************************)
EXTENDS Strings

CONSTANT UINT

Printable == " !\"#$%&'()*+,-./0123456789:;<=>?@ABCDEFGHIJKLMNOPQRSTUVWXYZ[\\]^_"
Lowercase == "abcdefghijklmnopqrstuvwxyz{|}~"
Code(c) == IF \E k \in 1..Len(Printable) : SubSeq(Printable, k, k) = c
           THEN 31 + CHOOSE k \in 1..Len(Printable) : SubSeq(Printable, k, k) = c
           ELSE 96 + CHOOSE k \in 1..Len(Lowercase) : SubSeq(Lowercase, k, k) = c
Bytes(text) == [i \in 1..Len(text) |-> Code(SubSeq(text, i, i))]
Byte(c) == Bytes(c)[1]

Lowest(ty) == IF ty.signed THEN -(2 ^ (ty.bits - 1)) ELSE 0
Highest(ty) == IF ty.signed THEN 2 ^ (ty.bits - 1) - 1 ELSE 2 ^ ty.bits - 1
As(ty, v) == LET r == v % 2 ^ ty.bits IN IF r > Highest(ty) THEN r - 2 ^ ty.bits ELSE r

(* The other operand of an operation with a u32: itself when it is wider.  *)
WithBase(ty, v) == IF ty.bits > UINT THEN v ELSE v % 2 ^ UINT
Remainder(a, b) == IF a < 0 THEN -((-a) % b) ELSE a % b
Quotient(a, b) == IF a < 0 THEN -((-a) \div b) ELSE a \div b

CP_INVALID == 65533
CP_IGNORE_THIS == -2

ascii_is_upper(x) == x \in 65..90
ascii_is_lower(x) == x \in 97..122
ascii_is_digit(x) == x \in 48..57
ascii_to_lower(x) == IF ascii_is_upper(x) THEN x + 32 ELSE x

cp_to_digit_default(cp, first) ==
    CASE ascii_is_digit(cp) -> cp - 48
      [] ascii_is_lower(cp) -> cp - 97 + 10
      [] ascii_is_upper(cp) -> cp - 65 + 10
      [] OTHER -> CP_INVALID
cp_to_digit_dec_and_ignore_underscores(cp, first) ==
    CASE ascii_is_digit(cp) -> cp - 48
      [] cp = Byte("_") -> IF first THEN CP_INVALID ELSE CP_IGNORE_THIS
      [] OTHER -> CP_INVALID
CodePointToDigit(o, cp, first) ==
    IF o.Underscores THEN cp_to_digit_dec_and_ignore_underscores(cp, first) ELSE cp_to_digit_default(cp, first)

parse_int_options ==
    [ParseSign |-> TRUE, AllowPlusSign |-> TRUE, Underscores |-> FALSE, LookForBasePrefix |-> FALSE,
     MaxDigits |-> -1, BailOnTooManyDigits |-> TRUE, ReturnLimitOnTooManyDigits |-> TRUE]
-----------------------------------------------------------------------------
advance_bytes(p, n) == [at |-> p.at + n, Count |-> p.Count - n]
advance_cp(mem, p) == advance_bytes(p, size_at(mem, p.at))
First(mem, p) == decode(mem, p.at)
handle_negative(ty, value, negative) == As(ty, IF negative THEN -value ELSE value)

Answer(value, status, p) == [Value |-> value, Status |-> status, Rest |-> p]
Fail(p) == Answer(0, "INVALID", p)

(* The limit has the type; dividing it by the base, it is a u32 first if   *)
(* the type is no wider, and the remainder has the sign of the limit.      *)
maxValue(ty, negative) == IF ty.signed /\ negative THEN As(ty, -Lowest(ty)) ELSE Highest(ty)
cutOff(ty, base, negative) ==
    LET q == As(ty, Quotient(WithBase(ty, maxValue(ty, negative)), base)) IN IF q < 0 THEN As(ty, -q) ELSE q
cutLim(ty, base, negative) == Remainder(maxValue(ty, negative), base)
TooManyIgnoresLastDigit(ty, base, negative, value, digit) ==     \* mutant: cutLim is not looked at
    value > cutOff(ty, base, negative)
TooMany(ty, base, negative, value, digit) ==
    \/ value > cutOff(ty, base, negative)
    \/ value = cutOff(ty, base, negative) /\ digit > cutLim(ty, base, negative)

RECURSIVE Digits(_, _, _, _, _, _, _, _)
Digits(mem, p, ty, base, negative, o, value, taken) ==
    LET digit == IF p.Count > 0 THEN CodePointToDigit(o, First(mem, p), taken = <<>>) ELSE CP_INVALID
        next == advance_cp(mem, p)
        back == advance_bytes(next, -1)
        done == Answer(handle_negative(ty, value, negative), "SUCCESS", p)
    IN  IF Len(taken) = o.MaxDigits THEN done
        ELSE IF digit = CP_IGNORE_THIS THEN Digits(mem, next, ty, base, negative, o, value, Append(taken, 0))
        ELSE IF digit < 0 \/ digit >= base THEN
            IF \E i \in DOMAIN taken : taken[i] = 1 THEN [done EXCEPT !.Rest = back]
            ELSE IF ~o.LookForBasePrefix THEN Fail(next)
            ELSE IF base = 8 THEN Answer(0, "SUCCESS", back) ELSE Fail(back)
        ELSE IF o.BailOnTooManyDigits /\ TooMany(ty, base, negative, value, digit) THEN
            LET limit == IF o.ReturnLimitOnTooManyDigits THEN maxValue(ty, negative) ELSE value
            IN  Answer(handle_negative(ty, limit, negative), "TOO_MANY_DIGITS", next)
        ELSE Digits(mem, next, ty, base, negative, o,
                    As(ty, WithBase(ty, WithBase(ty, value) * base + digit)), Append(taken, 1))
parse_int_small_integer(mem, p, ty, base, negative, o) == Digits(mem, p, ty, base, negative, o, 0, <<>>)

parse_int(mem, buffer, ty, base, o) ==
    LET Is(p, c) == p.Count > 0 /\ First(mem, p) = Byte(c)
        sign == IF ~o.ParseSign THEN "" ELSE IF Is(buffer, "+") THEN "+" ELSE IF Is(buffer, "-") THEN "-" ELSE ""
        prefix(p) == CASE ~(o.LookForBasePrefix /\ Is(p, "0")) -> 0
                       [] p.Count > 1 /\ decode(mem, p.at + 1) \in {Byte("x"), Byte("X")} -> 2
                       [] OTHER -> 1
        Read(q, n) == IF q.Count = 0 THEN Fail(q)
                      ELSE parse_int_small_integer(mem, q, ty, CASE n = 2 -> 16 [] n = 1 -> 8 [] n = 0 -> base, sign = "-", o)
        Behind(p, n) == Read(advance_bytes(p, n), n)
        From(p) == IF (sign = "+" /\ ~o.AllowPlusSign) \/ p.Count = 0 THEN Fail(p) ELSE Behind(p, prefix(p))
    IN  From(advance_bytes(buffer, Len(sign)))

-----------------------------------------------------------------------------
expect_cp(mem, p, value, ignoreCase) ==
    p.Count > 0 /\ (IF ignoreCase THEN Lowered(First(mem, p)) ELSE First(mem, p)) = value
RECURSIVE expect_sequence(_, _, _, _)
expect_sequence(mem, p, sequence, ignoreCase) ==
    IF sequence = <<>> THEN [ok |-> TRUE, p |-> p]
    ELSE IF ~expect_cp(mem, p, sequence[1], ignoreCase) THEN [ok |-> FALSE, p |-> p]
    ELSE expect_sequence(mem, advance_cp(mem, p), Tail(sequence), ignoreCase)

parse_bool_options == [ParseNumbers |-> TRUE, ParseWords |-> TRUE, ParseWordsIgnoreCase |-> TRUE]
parse_bool(mem, p, o) ==
    LET Is(c) == p.Count > 0 /\ First(mem, p) = Byte(c)
        Word(word) == LET r == expect_sequence(mem, p, Bytes(word), o.ParseWordsIgnoreCase)
                      IN  IF r.ok THEN Answer(word = "true", "SUCCESS", r.p) ELSE Answer(FALSE, "INVALID", r.p)
    IN  CASE o.ParseNumbers /\ Is("0") -> Answer(FALSE, "SUCCESS", advance_cp(mem, p))
          [] o.ParseNumbers /\ Is("1") -> Answer(TRUE, "SUCCESS", advance_cp(mem, p))
          [] o.ParseWords /\ Is("t") -> Word("true")
          [] o.ParseWords /\ Is("f") -> Word("false")
          [] OTHER -> Answer(FALSE, "INVALID", p)
-----------------------------------------------------------------------------
(* A string with the byte 0 behind it, and what is left of it.             *)
Buffer(text) == [at |-> 1, Count |-> Len(text)]
Left(text, p) == SubSeq(text, Len(text) - p.Count + 1, Len(text))

(* The longest front of digits below the base, as a number.                *)
Valued(digits, base) == FoldLeft(LAMBDA v, d : v * base + cp_to_digit_default(d, FALSE), 0, digits)
DigitsOf(text, base) ==
    LET n == Max({k \in 0..Len(text) : \A i \in 1..k : cp_to_digit_default(text[i], FALSE) < base})
    IN  SubSeq(text, 1, n)

(* A number that fits is read in full and exactly, and nothing of what     *)
(* comes after it; one that does not fit is said not to, with the digit    *)
(* that was too much eaten.  Of negative numbers only those count whose    *)
(* type is wide enough; the last few above the lowest count as too many,   *)
(* and those below it only in a base that does not divide it.              *)
IntegersAgree(sign, digits, after, ty, base) ==
    LET text == sign \o digits \o after
        r == parse_int(text \o <<0>>, Buffer(text), ty, base, parse_int_options)
        v == Valued(digits, base)
        negative == sign = Bytes("-")
        low == -Lowest(ty)
        limit == IF ~(negative /\ ty.signed) THEN Highest(ty) ELSE IF low % base = 0 THEN low ELSE low - (low % base) - 1
        fits == {k \in 0..Len(digits) : Valued(SubSeq(digits, 1, k), base) <= limit}
    IN  (digits # <<>> /\ (negative /\ ty.signed => ty.bits >= UINT /\ (low % base = 0 => v <= low)))
        => IF v <= limit
           THEN r = Answer(As(ty, IF negative THEN -v ELSE v), "SUCCESS", [at |-> 1 + Len(sign \o digits), Count |-> Len(after)])
           ELSE /\ r.Status = "TOO_MANY_DIGITS"
                /\ r.Value = As(ty, IF negative THEN -maxValue(ty, negative) ELSE Highest(ty))
                /\ Left(text, r.Rest) = SubSeq(text, Len(sign) + Max(fits) + 2, Len(text))

(* With a prefix the number that follows it is read in its base, and a     *)
(* zero that nothing of the kind follows is zero.                          *)
PrefixesAgree(text, ty) ==
    LET o == [parse_int_options EXCEPT !.LookForBasePrefix = TRUE]
        r == parse_int(text \o <<0>>, Buffer(text), ty, 10, o)
        base == IF text[1] # Byte("0") THEN 10 ELSE IF Len(text) > 1 /\ text[2] = Byte("x") THEN 16 ELSE 8
        body == SubSeq(text, IF base = 10 THEN 1 ELSE IF base = 8 THEN 2 ELSE 3, Len(text))
        digits == DigitsOf(body, base)
        rest == SubSeq(body, Len(digits) + 1, Len(body))
    IN  (text # <<>> /\ body # <<>> /\ Valued(digits, base) <= Highest(ty) /\ text[1] \notin {Byte("+"), Byte("-")})
        => IF digits # <<>> \/ base = 8
           THEN r.Status = "SUCCESS" /\ r.Value = Valued(digits, base) /\ Left(text, r.Rest) = rest
           ELSE r.Status = "INVALID" /\ Left(text, r.Rest) = rest

(* A boolean is one of four texts, the words in any case after the first   *)
(* letter, and leaves what follows.                                        *)
BooleansAgree(text) ==
    LET r == parse_bool(text \o <<0>>, Buffer(text), parse_bool_options)
        Starts(word) == Len(text) >= Len(word) /\ text[1] = word[1]
                         /\ \A i \in DOMAIN word : ascii_to_lower(text[i]) = word[i]
        said == {word \in {"0", "1", "true", "false"} : Starts(Bytes(word))}
    IN  IF said = {} THEN r.Status = "INVALID"
        ELSE \A word \in said : /\ r.Value = (word \in {"1", "true"}) /\ r.Status = "SUCCESS"
                                /\ r.Rest.Count = Len(text) - Len(word)
=============================================================================
