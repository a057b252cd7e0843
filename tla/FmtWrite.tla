-------------------------------- MODULE FmtWrite --------------------------------
(***************************************************************************)
(* Values as text (fmt/write.cpp).  Text is a sequence of characters, each *)
(* a string of one.  A context c holds what is left of the format string   *)
(* (It), the next automatic index, the arguments, the specs in force       *)
(* (Specs, empty for null), and what came of it: Out and the Errors that   *)
(* the handler was called with (which returns).                            *)
(***************************************************************************)
EXTENDS Float

CONSTANTS CharOf(_),        \* the character of a code point
          DataAt,           \* the address of the text of a string
          MaxS32,           \* the largest s32
          Uninitialized     \* the format of a float whose type is none of them

NoText == [Fill |-> " ", Align |-> "NONE", Sign |-> "NONE", Hash |-> FALSE, Width |-> 0, Precision |-> -1,
           Type |-> "", UserData |-> 0, WidthIndex |-> -1, PrecisionIndex |-> -1]

write_no_specs(c, text) == [c EXCEPT !.Out = @ \o text]
on_error(c, message) == [c EXCEPT !.Errors = Append(@, message)]
SpecsOf(c) == IF c.Specs = <<>> THEN NoText ELSE c.Specs[1]

Letters(s) == [i \in 1..Len(s) |-> SubSeq(s, i, i)]
Times0(n, ch) == [i \in 1..(IF n > 0 THEN n ELSE 0) |-> ch]

Uppers == "ABCDEFGHIJKLMNOPQRSTUVWXYZ"
Lowers == "abcdefghijklmnopqrstuvwxyz"
ascii_is_upper(ch) == \E i \in 1..26 : ch = SubSeq(Uppers, i, i)
ascii_to_lower(ch) ==
    IF ascii_is_upper(ch) THEN LET i == CHOOSE j \in 1..26 : ch = SubSeq(Uppers, j, j) IN SubSeq(Lowers, i, i)
    ELSE ch
-----------------------------------------------------------------------------
(* size is what the caller says the text measures.                         *)
write_padded_helper(c, specs, text, size) ==
    LET padding == IF specs.Width > size THEN specs.Width - size ELSE 0
        left == CASE specs.Align = "RIGHT" -> padding [] specs.Align = "CENTER" -> padding \div 2 [] OTHER -> 0
    IN  write_no_specs(c, Times0(left, specs.Fill) \o text \o Times0(padding - left, specs.Fill))

DigitIn(upper, d) == LET all == IF upper THEN "0123456789ABCDEF" ELSE "0123456789abcdef" IN SubSeq(all, d + 1, d + 1)
format_uint_base[base \in Nat, upper \in BOOLEAN, value \in Nat] ==
    (IF value < base THEN <<>> ELSE format_uint_base[base, upper, value \div base])
    \o <<DigitIn(upper, value % base)>>
format_uint_decimal(value) == format_uint_base[10, FALSE, value]

(* A separator before every third digit from the end, if one is before it. *)
Separated(digits) ==
    FlattenSeq([i \in DOMAIN digits |->
                  IF i > 1 /\ (Len(digits) - i + 1) % 3 = 0 THEN <<",", digits[i]>> ELSE <<digits[i]>>])

BaseOf(type) == CASE type \in {"d", "n"} -> 10 [] type \in {"b", "B"} -> 2 [] type = "o" -> 8 [] OTHER -> 16
SignOf(negative, specs) ==
    CASE negative -> <<"-">>
      [] ~negative /\ specs.Sign = "PLUS" -> <<"+">>
      [] ~negative /\ specs.Sign = "SPACE" -> <<" ">>
      [] OTHER -> <<>>
RightIfNone(specs) == [specs EXCEPT !.Align = IF @ = "NONE" THEN "RIGHT" ELSE @]

(* Padding inside, between the prefix and the digits: to the width when    *)
(* the alignment is numeric, else of zeros to the precision.               *)
Inside(specs, prefix, numDigits) ==
    CASE specs.Align = "NUMERIC" -> specs.Width - Len(prefix) - numDigits
      [] specs.Align # "NUMERIC" /\ specs.Precision > numDigits -> specs.Precision - numDigits
      [] OTHER -> 0
write_u64(c, value, negative, specs) ==
    LET type == IF specs.Type = "" THEN "d" ELSE specs.Type
        digits == format_uint_base[BaseOf(type), type = "X", value]
        based == IF specs.Hash /\ type \in {"x", "X", "b", "B"} THEN <<"0", type>>
                 ELSE IF specs.Hash /\ type = "o" /\ (specs.Precision = -1 \/ specs.Precision > Len(digits)) THEN <<"0">>
                 ELSE <<>>
        prefix == SignOf(negative, specs) \o based
        padding == Inside(specs, prefix, Len(digits))
        fill == IF specs.Align = "NUMERIC" THEN specs.Fill ELSE "0"
        text == prefix \o Times0(padding, fill) \o (IF type = "n" THEN Separated(digits) ELSE digits)
        outside == [specs EXCEPT !.Fill = IF padding > 0 THEN fill ELSE @]
    IN  CASE type = "c" /\ (specs.Align = "NUMERIC" \/ specs.Sign # "NONE" \/ specs.Hash) ->
                on_error(c, "Invalid format specifier(s) for code point")
          [] type = "c" /\ ~(specs.Align = "NUMERIC" \/ specs.Sign # "NONE" \/ specs.Hash) ->
                write_padded_helper(c, specs, <<CharOf(value)>>, 1)
          [] type \in {"d", "n", "b", "B", "o", "x", "X"} ->
                write_padded_helper(c, RightIfNone(outside), text, Len(text))
          [] OTHER -> on_error(c, "Invalid type specifier for an integer")
-----------------------------------------------------------------------------
(* The precision of text: so many characters, the last three of four or    *)
(* more being dots.                                                        *)
Truncated(text, precision) ==
    CASE precision = -1 \/ precision >= Len(text) -> [text |-> text, dots |-> <<>>]
      [] precision # -1 /\ precision < Len(text) /\ precision >= 4 ->
            [text |-> SubSeq(text, 1, precision - 3), dots |-> Letters("...")]
      [] OTHER -> [text |-> SubSeq(text, 1, precision), dots |-> <<>>]

Escapes == {"\"", "\\", "\n", "\r", "\t"}
Escaped(ch) == IF ch \notin Escapes THEN <<ch>>
               ELSE <<"\\", CASE ch = "\n" -> "n" [] ch = "\r" -> "r" [] ch = "\t" -> "t" [] OTHER -> ch>>

(* Zero has no digits by count, yet one is printed (a byte before the      *)
(* buffer).                                                                *)
write_pointer(c, address) ==
    LET digits == format_uint_base[16, FALSE, address]
        text == <<"0", "x">> \o digits
        numDigits == IF address = 0 THEN 0 ELSE Len(digits)
    IN  CASE c.Specs # <<>> /\ SpecsOf(c).Type \notin {"", "p"} -> on_error(c, "Invalid type specifier for a pointer")
          [] c.Specs = <<>> -> write_no_specs(c, text)
          [] OTHER -> write_padded_helper(c, RightIfNone(SpecsOf(c)), text, numDigits + 2)

write_helper(c, text) ==
    LET specs == SpecsOf(c)
        t == Truncated(text, specs.Precision)
    IN  CASE c.Specs = <<>> -> write_no_specs(c, text)
          [] c.Specs # <<>> /\ specs.Type = "p" -> write_pointer(c, DataAt)
          [] c.Specs # <<>> /\ specs.Type = "q" ->
                write_padded_helper(c, specs,
                    <<"\"">> \o FlattenSeq([i \in DOMAIN t.text |-> Escaped(t.text[i])]) \o t.dots \o <<"\"">>,
                    2 + Len(t.text) + Len(t.dots))
          [] c.Specs # <<>> /\ specs.Type \in {"", "s"} ->
                write_padded_helper(c, specs, t.text \o t.dots, Len(t.text) + Len(t.dots))
          [] OTHER -> on_error(c, "Invalid type specifier for a string")

write_integral(c, value) == write_u64(c, IF value < 0 THEN -value ELSE value, value < 0, SpecsOf(c))
write_bool(c, value) ==
    IF SpecsOf(c).Type # "" THEN write_integral(c, IF value THEN 1 ELSE 0)
    ELSE write_helper(c, Letters(IF value THEN "true" ELSE "false"))
-----------------------------------------------------------------------------
(* Floats: a sign, digits, and where the point goes.  exp is the exponent  *)
(* of the last digit.                                                      *)
fmt_parse_float_specs(specs) ==
    LET point == specs.Hash \/ specs.Precision # 0
        lower == ascii_to_lower(specs.Type)
    IN  [Format |-> CASE specs.Type \in {"", "g", "G"} -> "GENERAL" [] lower = "e" -> "EXP"
                      [] specs.Type \in {"f", "F", "%"} -> "FIXED" [] lower = "a" -> "HEX" [] OTHER -> Uninitialized,
         ShowPoint |-> IF specs.Type \in {"e", "E", "f", "F", "%"} THEN point ELSE specs.Hash,
         Upper |-> specs.Type \in {"G", "E", "F", "A"}]
UnknownType(specs) == specs.Type \notin {"", "g", "G", "e", "E", "f", "F", "%", "a", "A"}

write_exponent(exp) ==
    LET n == IF exp < 0 THEN -exp ELSE exp
    IN  <<IF exp < 0 THEN "-" ELSE "+">> \o (IF n < 10 THEN <<"0">> ELSE <<>>) \o format_uint_decimal(n)

write_significand(s, integralSize, point) ==
    IF s = <<>> THEN <<>>
    ELSE SubSeq(s, 1, integralSize) \o (IF point THEN <<".">> \o SubSeq(s, integralSize + 1, Len(s)) ELSE <<>>)

AtLeast0(n) == IF n > 0 THEN n ELSE 0
write_float_exp(c, s, exp, sign, specs, fs) ==
    LET point == fs.ShowPoint \/ Len(s) # 1
        zeros == IF fs.ShowPoint THEN AtLeast0(specs.Precision - Len(s)) ELSE 0
        e == write_exponent(exp + Len(s) - 1)
    IN  write_padded_helper(c, specs,
            sign \o write_significand(s, 1, point) \o Times0(zeros, "0") \o <<IF fs.Upper THEN "E" ELSE "e">> \o e,
            Len(sign) + Len(s) + zeros + (IF point THEN 1 ELSE 0) + 1 + Len(e))

(* 1234e5, 1234e-2 or 1234e-6.  In the first a point without zeros is not  *)
(* counted.                                                                *)
Fixed(s, exp, specs, fs) ==
    LET wanted == IF exp >= 0 /\ specs.Precision - exp <= 0 /\ fs.Format # "FIXED" THEN 1 ELSE specs.Precision - exp
        zeros == IF fs.ShowPoint THEN AtLeast0(IF exp >= 0 THEN wanted ELSE specs.Precision + exp) ELSE 0
        room == -exp - Len(s)
        before == IF s = <<>> /\ specs.Precision >= 0 /\ specs.Precision < room THEN specs.Precision ELSE room
        pointy == before # 0 \/ s # <<>> \/ fs.ShowPoint
    IN  CASE exp >= 0 ->
                [text |-> s \o Times0(exp, "0") \o (IF fs.ShowPoint THEN <<".">> \o Times0(zeros, "0") ELSE <<>>),
                 size |-> Len(s) + exp + (IF zeros > 0 THEN zeros + 1 ELSE 0)]
          [] exp < 0 /\ -exp < Len(s) ->
                [text |-> write_significand(s, Len(s) + exp, TRUE) \o Times0(zeros, "0"), size |-> Len(s) + 1 + zeros]
          [] OTHER ->
                [text |-> <<"0">> \o (IF pointy THEN <<".">> \o Times0(before, "0") \o s ELSE <<>>),
                 size |-> Len(s) + 1 + (IF pointy THEN 1 ELSE 0) + before]
write_float_fixed(c, s, exp, sign, specs, fs, percentage) ==
    LET f == Fixed(s, exp, specs, fs)
        percent == IF percentage THEN <<"%">> ELSE <<>>
    IN  write_padded_helper(c, specs, sign \o f.text \o percent, Len(sign) + f.size + Len(percent))

(* value *= 100, rounded to a number; past the largest it is infinite.     *)
TimesHundred(value) ==
    LET f == fp_assign_new(value.number)
        those == {w \in Finite : RoundsTo(100 * f.Significand, f.Exponent, 0, w)}
    IN  IF value.kind # "finite" THEN value
        ELSE IF those = {} THEN [value EXCEPT !.kind = "inf"]
        ELSE [value EXCEPT !.number = CHOOSE w \in those : TRUE]

EXP_LOWER == -4
EXP_UPPER == 16
(* The default precision; in exponent notation also the digit before the   *)
(* point is one of them.                                                   *)
Precise(specs, fs) ==
    LET p == IF specs.Precision < 0 /\ specs.Type # "" THEN 6 ELSE specs.Precision
    IN  [specs EXCEPT !.Precision = IF fs.Format = "EXP" /\ p # 0 THEN p + 1 ELSE p]

(* Digits, of which the last stands for 10^exp, in one of the notations.   *)
UsesExponent(outputExp, specs, fs) ==
    \/ fs.Format = "EXP"
    \/ fs.Format = "GENERAL" /\ (\/ outputExp < EXP_LOWER
                                 \/ outputExp >= IF specs.Precision > 0 THEN specs.Precision ELSE EXP_UPPER)
WriteDigits(c, digits, exp, sign, specs, fs) ==
    LET s == [i \in DOMAIN digits |-> DigitIn(FALSE, digits[i])]
    IN  IF UsesExponent(exp + Len(digits) - 1, specs, fs) THEN write_float_exp(c, s, exp, sign, specs, fs)
        ELSE write_float_fixed(c, s, exp, sign, specs, fs, specs.Type = "%")

(* A numeric alignment has the sign before the padding.                    *)
WriteFinite(c, number, sign, specs, fs) ==
    LET SignFirst == specs.Align = "NUMERIC" /\ sign # <<>>
        around == [specs EXCEPT !.Align = IF @ \in {"NONE", "NUMERIC"} THEN "RIGHT" ELSE @,
                                !.Width = IF SignFirst THEN AtLeast0(@ - 1) ELSE @]
        Write(d) == WriteDigits(IF SignFirst THEN write_no_specs(c, sign) ELSE c, d.digits, d.exp,
                                IF SignFirst THEN <<>> ELSE sign, around, fs)
    IN  Write(fmt_format_non_negative_float(number, specs.Precision, fs.Format = "FIXED", fs.ShowPoint))

Special(kind, sign, type) ==
    LET upper == ascii_is_upper(type)
        name == IF kind = "nan" THEN IF upper THEN "NAN" ELSE "nan" ELSE IF upper THEN "INF" ELSE "inf"
    IN  sign \o Letters(name) \o (IF type = "%" THEN <<"%">> ELSE <<>>)

WriteValue(c, value, specs, fs) ==
    LET sign == SignOf(value.negative, specs)
        special == Special(value.kind, sign, specs.Type)
    IN  CASE value.kind # "finite" -> write_padded_helper(c, specs, special, Len(special))
          [] value.kind = "finite" /\ fs.Format = "HEX" -> c
          [] value.kind = "finite" /\ fs.Format = "EXP" /\ specs.Precision = MaxS32 -> on_error(c, "Number too big")
          [] OTHER -> WriteFinite(c, value.number, sign, Precise(specs, fs), fs)
write_float(c, value, specs) ==
    WriteValue(IF UnknownType(specs) THEN on_error(c, "Invalid type specifier for a f32") ELSE c,
               IF specs.Type = "%" THEN TimesHundred(value) ELSE value, specs, fmt_parse_float_specs(specs))
=============================================================================
