--------------------------------- MODULE Fmt ---------------------------------
(***************************************************************************)
(* The format language (fmt/fmt.cpp): fields, specs and text styles of a   *)
(* format string, and the writers of composed values.  An argument is      *)
(* [type, value]; a CUSTOM one is what its formatter walks (fmt.h).        *)
(***************************************************************************)
EXTENDS FmtWrite, FiniteSetsExt

CONSTANTS Colors,           \* name of a color -> its channels
          TerminalColors    \* name of a terminal color -> its code

MaxU32 == 2 * MaxS32 + 1
Signed(v) == IF v > MaxS32 THEN v - MaxU32 - 1 ELSE v
End == "end"                \* what is read past the end: no character

FirstOf(c) == IF c.It = <<>> THEN End ELSE c.It[1]
Advance(c, n) == [c EXCEPT !.It = SubSeq(@, n + 1, Len(@))]
Stop(c, message) == [on_error(c, message) EXCEPT !.Ok = FALSE]
Silently(c) == [c EXCEPT !.Ok = FALSE]
Context(text, args) == [It |-> text, Next |-> 0, Args |-> args, Specs |-> <<>>, Out |-> <<>>, Errors |-> <<>>, Ok |-> TRUE]

DigitValue(ch) ==
    LET all == "0123456789abcdefABCDEF"
        at == {i \in 1..22 : SubSeq(all, i, i) = ch}
    IN  IF at = {} THEN 99 ELSE LET i == CHOOSE i \in at : TRUE IN IF i > 16 THEN i - 7 ELSE i - 1
IsDigit(ch) == DigitValue(ch) < 10
IsAlpha(ch) == ascii_to_lower(ch) \in {SubSeq(Lowers, i, i) : i \in 1..26}

(* An integer without a sign, up to a limit: the digit that is too much is *)
(* eaten.                                                                  *)
parse_int(text, base, limit) ==
    LET n == Max({k \in 0..Len(text) : \A i \in 1..k : DigitValue(text[i]) < base})
        Value[k \in 0..n] == IF k = 0 THEN 0 ELSE Value[k - 1] * base + DigitValue(text[k])
        over == {k \in 1..n : Value[k] > limit}
    IN  IF over = {} THEN [value |-> Value[n], digits |-> n, tooMany |-> FALSE]
        ELSE [value |-> limit, digits |-> Min(over), tooMany |-> TRUE]
-----------------------------------------------------------------------------
(* Arguments.  The answer of check_arg_id is ignored.                      *)
check_arg_idAfterOne(c) ==                   \* mutant: one automatic field is let pass
    IF c.Next > 1 THEN on_error(c, "Cannot switch from automatic to manual argument indexing")
    ELSE [c EXCEPT !.Next = -1]
check_arg_id(c) ==
    IF c.Next > 0 THEN on_error(c, "Cannot switch from automatic to manual argument indexing")
    ELSE [c EXCEPT !.Next = -1]
next_arg_id(c) ==
    IF c.Next >= 0 THEN [c |-> [c EXCEPT !.Next = @ + 1], id |-> c.Next]
    ELSE [c |-> on_error(c, "Cannot switch from manual to automatic argument indexing"), id |-> 0]

NoId(c, message) == [c |-> Stop(c, message), id |-> -1]
Id(c, n) ==
    LET d == Advance(c, n.digits)
    IN  CASE n.tooMany -> NoId(d, "Argument index is an integer which is too large")
          [] ~n.tooMany /\ d.It = <<>> -> NoId(d, "Format string ended abruptly")
          [] ~n.tooMany /\ FirstOf(d) \in {"}", ":"} -> [c |-> check_arg_id(d), id |-> n.value]
          [] OTHER -> NoId(d, "Expected \":\" or \"}\"")
fmt_parse_arg_id(c) ==
    CASE FirstOf(c) \in {"}", ":"} -> next_arg_id(c)
      [] IsDigit(FirstOf(c)) -> Id(c, parse_int(c.It, 10, MaxU32))
      [] OTHER -> NoId(c, "Expected a number - an index to an argument")

InRange(c, id) == id < Len(c.Args)
OutOfRange(c) == on_error(c, "Argument index out of range")
-----------------------------------------------------------------------------
(* Specs.  The checks of an argument's type only report.                   *)
IsIntegral(type) == type \in {"S64", "U64", "BOOL"}
require_arithmetic_arg(c, type) ==
    IF IsIntegral(type) \/ type \in {"F32", "F64", "CUSTOM"} THEN c
    ELSE on_error(c, "Format specifier requires an arithmetic argument")
require_signed_arithmetic_arg(c, type) ==
    IF IsIntegral(type) /\ type # "S64" THEN on_error(c, "Format specifier requires a signed integer argument")
    ELSE require_arithmetic_arg(c, type)
check_precision_for_arg(c, type) ==
    IF IsIntegral(type) \/ type = "POINTER" THEN on_error(c, "Precision is not allowed") ELSE c

get_alignment_from_char(ch) ==
    CASE ch = "<" -> "LEFT" [] ch = ">" -> "RIGHT" [] ch = "=" -> "NUMERIC" [] ch = "^" -> "CENTER" [] OTHER -> "NONE"

Specify(c, field, value) == [c EXCEPT !.Specs = <<[@[1] EXCEPT ![field] = value]>>]

(* An alignment, or a fill and an alignment behind it.                     *)
parse_fill_and_align(c, type) ==
    LET short == get_alignment_from_char(FirstOf(c))
        n == IF short # "NONE" THEN 1 ELSE 2
        align == IF short # "NONE" THEN short
                 ELSE IF Len(c.It) < 2 THEN "NONE" ELSE get_alignment_from_char(c.It[2])
        fill == IF n = 1 THEN " " ELSE FirstOf(c)
        d == Specify(Specify(Advance(c, n), "Fill", fill), "Align", align)
    IN  CASE align = "NONE" -> c
          [] align # "NONE" /\ fill \in {"{", "}"} -> Stop(c, "Invalid fill character")
          [] OTHER -> IF align = "NUMERIC" THEN require_arithmetic_arg(d, type) ELSE d

parse_sign(c, type) ==
    CASE FirstOf(c) = "+" -> Advance(Specify(require_signed_arithmetic_arg(c, type), "Sign", "PLUS"), 1)
      [] FirstOf(c) = "-" -> Advance(Specify(require_signed_arithmetic_arg(c, type), "Sign", "MINUS"), 1)
      [] FirstOf(c) = " " -> Advance(Specify(require_signed_arithmetic_arg(c, type), "Sign", "SPACE"), 1)
      [] OTHER -> c
parse_hash(c, type) ==
    IF FirstOf(c) = "#" THEN Advance(Specify(require_arithmetic_arg(c, type), "Hash", TRUE), 1) ELSE c
parse_zero(c, type) ==
    IF FirstOf(c) = "0"
    THEN Advance(Specify(Specify(require_arithmetic_arg(c, type), "Align", "NUMERIC"), "Fill", "0"), 1)
    ELSE c

(* A number, or the index of an argument in braces.  The largest number is *)
(* the same as the error the caller is told of, and nothing is reported.   *)
Number(c, field, n) ==
    LET d == Specify(Advance(c, n.digits), field, IF field = "Precision" THEN Signed(n.value) ELSE n.value)
    IN  CASE n.tooMany -> Stop(d, "We parsed an integer which was too large")
          [] ~n.tooMany /\ n.value = MaxU32 -> Silently(d)
          [] OTHER -> d
Closed(c) ==
    IF FirstOf(c) # "}" THEN Stop(c, "Expected a closing \"}\" after parsing an argument ID") ELSE Advance(c, 1)
Dynamic(c, field) ==
    LET inside == Advance(c, 1)
        Read(r) == IF ~r.c.Ok THEN r.c ELSE Closed(Specify(r.c, field, r.id))
    IN  Read(IF inside.It = <<>> THEN [c |-> inside, id |-> -1] ELSE fmt_parse_arg_id(inside))
parse_width(c, type) ==
    CASE IsDigit(FirstOf(c)) -> Number(c, "Width", parse_int(c.It, 10, MaxU32))
      [] FirstOf(c) = "{" -> Dynamic(c, "WidthIndex")
      [] OTHER -> c
BehindDot(c) ==
    CASE IsDigit(FirstOf(c)) -> Number(c, "Precision", parse_int(c.It, 10, MaxU32))
      [] FirstOf(c) = "{" -> Dynamic(c, "PrecisionIndex")
      [] OTHER -> Stop(c, "Missing precision specifier")
parse_precision(c, type) ==
    LET Allowed(d) == IF d.Ok THEN check_precision_for_arg(d, type) ELSE d
    IN  IF FirstOf(c) = "." THEN Allowed(BehindDot(Advance(c, 1))) ELSE c

parse_type(c, type) == IF FirstOf(c) \notin {End, "}"} THEN Advance(Specify(c, "Type", FirstOf(c)), 1) ELSE c

(* Each part is only looked for when something is left.                    *)
fmt_parse_specs(c0, type) ==
    LET Then(c, parse_part(_, _)) == IF c.Ok /\ c.It # <<>> THEN parse_part(c, type) ELSE c
        start == [c0 EXCEPT !.Specs = <<NoText>>]
        signed == Then(parse_fill_and_align(start, type), parse_sign)
    IN  IF FirstOf(c0) = "}" THEN start
        ELSE Then(Then(Then(Then(Then(signed, parse_hash), parse_zero), parse_width), parse_precision), parse_type)

(* An argument out of range is reported and the spec stays as it is.  A    *)
(* width that is none ends the formatting, a precision that is none does   *)
(* not.                                                                    *)
Checked(c, field, of, arg) ==
    LET value == IF arg.type = "BOOL" THEN IF arg.value THEN 1 ELSE 0 ELSE arg.value
    IN  CASE ~IsIntegral(arg.type) -> Stop(c, of \o " was not an integer")
          [] IsIntegral(arg.type) /\ value < 0 -> Stop(c, "Negative " \o of)
          [] IsIntegral(arg.type) /\ value > MaxS32 -> Stop(c, of \o " value is too big")
          [] OTHER -> Specify(c, field, value)
fmt_width_checker(c, arg) == Checked(c, "Width", "width", arg)
fmt_precision_checker(c, arg) ==
    LET Passed(d) == IF d.Ok THEN d ELSE [Specify(d, "Precision", -1) EXCEPT !.Ok = TRUE]
    IN  Passed(Checked(c, "Precision", "precision", arg))

fmt_handle_dynamic_specs(c) ==
    LET Looked(d, i, checker(_, _)) ==
            CASE ~d.Ok \/ i = -1 -> d
              [] d.Ok /\ i # -1 /\ InRange(d, i) -> checker(d, d.Args[i + 1])
              [] OTHER -> OutOfRange(d)
    IN  Looked(Looked(c, SpecsOf(c).WidthIndex, fmt_width_checker), SpecsOf(c).PrecisionIndex, fmt_precision_checker)
-----------------------------------------------------------------------------
(* Text styles: a color by name, of a terminal, or by its channels; then   *)
(* the background or an emphasis.                                          *)
NoStyle == [kind |-> "NONE", color |-> <<>>, background |-> FALSE, emphasis |-> {}]
Emphases == {"B", "I", "U", "S"}

(* What is no emphasis ends it with an error.                              *)
handle_emphasis(c, style) ==
    LET n == Max({k \in 0..Len(c.It) : \A i \in 1..k : c.It[i] \in Emphases})
        d == Advance(c, n)
        s == [style EXCEPT !.emphasis = @ \cup {c.It[i] : i \in 1..n}]
    IN  [c |-> IF IsAlpha(FirstOf(d)) THEN Stop(d, "Invalid emphasis character") ELSE d, style |-> s]

(* In base 8 behind a 0, in base 16 behind 0x.  The end of the format      *)
(* string behind a number fails without a report.                          *)
Channel(it) ==
    LET hex == Len(it) > 1 /\ it[1] = "0" /\ it[2] \in {"x", "X"}
        octal == ~hex /\ it[1] = "0"
        skipped == IF hex THEN 2 ELSE IF octal THEN 1 ELSE 0
        n == parse_int(SubSeq(it, skipped + 1, Len(it)), IF hex THEN 16 ELSE IF octal THEN 8 ELSE 10, 255)
    IN  [n EXCEPT !.digits = @ + skipped] @@ [valid |-> skipped < Len(it) /\ (octal \/ n.digits > 0)]
BehindChannel(c, last) ==
    CASE c.It = <<>> -> Silently(c)
      [] c.It # <<>> /\ ~last /\ FirstOf(c) # ";" -> Stop(c, "\";\" expected followed by the next channel value")
      [] ~last /\ FirstOf(c) = ";" /\ ~(Len(c.It) > 1 /\ IsDigit(c.It[2])) ->
            Stop(c, "Expected an integer specifying a channel value")
      [] c.It # <<>> /\ last /\ FirstOf(c) \notin {"}", ";"} -> Stop(c, "\"}\" expected")
      [] OTHER -> c
parse_rgb_channel(c, n, last) ==
    CASE ~n.valid -> Stop(c, "Invalid integer channel value")
      [] n.valid /\ n.tooMany -> Stop(c, "Channel value too big - it must be in the range [0-255]")
      [] OTHER -> BehindChannel(Advance(c, n.digits), last)
NextChannel(r, n, last) ==
    IF ~r.c.Ok THEN r ELSE [c |-> parse_rgb_channel(r.c, n, last), color |-> Append(r.color, n.value)]
Channels(c) ==
    LET From(r, last) == NextChannel(r, Channel(r.c.It), last)
        Next_(r) == [r EXCEPT !.c = IF @.Ok THEN Advance(@, 1) ELSE @]
        Styled(r) == [c |-> r.c, style |-> IF r.c.Ok THEN [NoStyle EXCEPT !.kind = "RGB", !.color = r.color] ELSE NoStyle]
    IN  Styled(From(Next_(From(Next_(From([c |-> c, color |-> <<>>], FALSE)), FALSE)), TRUE))

(* A name is its first character and what follows of letters and _.  One   *)
(* that reaches the end of the format string is left where it is.          *)
IsNamePart(ch) == IsAlpha(ch) \/ ch = "_"
Named(c0) ==
    LET terminal == FirstOf(c0) = "t"
        c == IF terminal THEN Advance(c0, 1) ELSE c0
        n == Max({k \in 1..Len(c.It) : \A i \in 2..k : IsNamePart(c.It[i])})
        name == SubSeq(c.It, 1, n)
        d == Advance(c, n)
        Is(names) == \E x \in DOMAIN names : Letters(x) = name
        Value(names) == names[CHOOSE x \in DOMAIN names : Letters(x) = name]
        kind == IF terminal THEN "TERMINAL" ELSE "RGB"
        known == IF terminal THEN Is(TerminalColors) ELSE Is(Colors)
        color == IF terminal THEN Value(TerminalColors) ELSE Value(Colors)
    IN  CASE c.It = <<>> -> [c |-> c, style |-> NoStyle]
          [] c.It # <<>> /\ d.It = <<>> -> [c |-> c, style |-> NoStyle]
          [] d.It # <<>> /\ FirstOf(d) \notin {";", "}"} -> [c |-> Stop(d, "Invalid color name"), style |-> NoStyle]
          [] d.It # <<>> /\ FirstOf(d) \in {";", "}"} /\ ~known -> handle_emphasis(c, NoStyle) @@ [done |-> TRUE]
          [] OTHER -> [c |-> d, style |-> [NoStyle EXCEPT !.kind = kind, !.color = color]]

BehindColor(c, style) ==
    LET BG == Len(c.It) > 2 /\ SubSeq(c.It, 1, 2) = <<"B", "G">>
    IN  CASE BG /\ style.kind = "NONE" ->
                [c |-> Stop(c, "Color specified as background but there was no color parsed"), style |-> NoStyle]
          [] BG /\ style.kind # "NONE" -> [c |-> Advance(c, 2), style |-> [style EXCEPT !.background = TRUE]]
          [] OTHER -> handle_emphasis(c, style)
fmt_parse_text_style(c) ==
    LET More(r) == IF ~r.c.Ok \/ "done" \in DOMAIN r \/ FirstOf(r.c) # ";" THEN r ELSE BehindColor(Advance(r.c, 1), r.style)
    IN  More(CASE IsAlpha(FirstOf(c)) -> Named(c) [] IsDigit(FirstOf(c)) -> Channels(c) [] OTHER -> [c |-> c, style |-> NoStyle])

ESC == "ESC"
u8_to_esc(delimiter, n) == [i \in 1..3 |-> DigitIn(FALSE, (n \div 10 ^ (3 - i)) % 10)] \o <<delimiter>>
color_to_ansi(style) ==
    CASE style.kind = "TERMINAL" ->
            <<ESC, "[">> \o format_uint_decimal(style.color + (IF style.background THEN 10 ELSE 0)) \o <<"m">>
      [] style.kind = "RGB" ->
            <<ESC, "[">> \o Letters(IF style.background THEN "48;2;" ELSE "38;2;")
            \o FlattenSeq([i \in 1..3 |-> u8_to_esc(IF i = 3 THEN "m" ELSE ";", style.color[i])])
      [] style.kind = "NONE" /\ style.emphasis = {} -> <<ESC, "[", "0", "m">>
      [] OTHER -> <<>>
emphasis_to_ansi(emphasis) ==
    FlattenSeq([i \in 1..4 |-> LET of == <<"B", "I", "U", "S">>
                                   code == <<"1", "3", "4", "9">>
                               IN  IF of[i] \in emphasis THEN <<ESC, "[", code[i], "m">> ELSE <<>>])

Style(c) ==
    LET Parsed(r) ==
            CASE ~r.c.Ok -> r.c
              [] r.c.Ok /\ FirstOf(r.c) # "}" -> Stop(r.c, "\"}\" expected")
              [] OTHER -> write_no_specs(r.c, color_to_ansi(r.style) \o emphasis_to_ansi(r.style.emphasis))
    IN  Parsed(fmt_parse_text_style(c))
-----------------------------------------------------------------------------
(* Composed values hand their specs on, without the fill and the width; an *)
(* element the type does not suit gets no type and precision either.       *)
create_forwarded_specs(specs) == [specs EXCEPT !.Fill = " ", !.Width = 0, !.UserData = 0]
create_safe_specs(specs) == [create_forwarded_specs(specs) EXCEPT !.Type = "", !.Precision = -1]
type_selector_compatible(letter, type) ==
    \/ letter = ""
    \/ type \in {"F32", "F64"} /\ letter \in {"f", "F", "g", "G", "e", "E", "%"}
    \/ IsIntegral(type) /\ letter \in {"d", "x", "X", "o", "b", "B", "c", "n"}
    \/ type = "STRING" /\ letter \in {"s", "q", "p"}
    \/ type = "POINTER" /\ letter = "p"
    \/ type = "CUSTOM"
fmt_forwarded_specs_for_arg(specs, arg) ==
    IF type_selector_compatible(specs.Type, arg.type) THEN create_forwarded_specs(specs) ELSE create_safe_specs(specs)

RECURSIVE fmt_arg_visit(_, _, _), format(_, _)
fmt_arg_visit(c, arg, noSpecs) ==
    LET Unspecified(d) == [d EXCEPT !.Specs = c.Specs]
        plain == IF noSpecs THEN [c EXCEPT !.Specs = <<>>] ELSE c
    IN  CASE arg.type = "CUSTOM" -> format(c, arg.value)
          [] arg.type = "BOOL" ->
                Unspecified(IF noSpecs THEN write_integral(plain, IF arg.value THEN 1 ELSE 0) ELSE write_bool(c, arg.value))
          [] arg.type \in {"S64", "U64"} -> Unspecified(write_integral(plain, arg.value))
          [] arg.type \in {"F32", "F64"} -> Unspecified(write_float(plain, arg.value, SpecsOf(plain)))
          [] arg.type = "STRING" -> Unspecified(write_helper(plain, arg.value))
          [] arg.type = "POINTER" -> Unspecified(write_pointer(plain, arg.value))

Forwarding(c, specs, arg, noSpecs) == [fmt_arg_visit([c EXCEPT !.Specs = specs], arg, noSpecs) EXCEPT !.Specs = c.Specs]
write_arg_with_forwarding(c, arg, noSpecs) ==
    Forwarding(c, IF c.Specs = <<>> THEN <<>> ELSE <<fmt_forwarded_specs_for_arg(SpecsOf(c), arg)>>, arg, noSpecs)
write_arg_with_forwarding_pretty(c, arg, noSpecs, indentSize, nextLevel) ==
    Forwarding(c, IF c.Specs = <<>> THEN <<>>
                  ELSE <<[fmt_forwarded_specs_for_arg(SpecsOf(c), arg) EXCEPT !.UserData = nextLevel, !.Width = indentSize]>>,
               arg, noSpecs)

Text(c, s) == write_no_specs(c, Letters(s))
EachOf(c, n, between, Write(_, _)) ==
    FoldLeft(LAMBDA d, i : Write(IF i > 1 THEN Text(d, between) ELSE d, i), c, [i \in 1..n |-> i])

write_struct(c, name, fields, noSpecs) ==
    LET Field(d, i) == write_arg_with_forwarding(Text(write_no_specs(d, fields[i].Name), ": "), fields[i].Arg, noSpecs)
        open == Text(write_no_specs(c, name), " {")
    IN  IF fields = <<>> THEN Text(open, "}") ELSE Text(EachOf(Text(open, " "), Len(fields), ", ", Field), " }")
write_tuple(c, name, fields, noSpecs) ==
    LET Field(d, i) == write_arg_with_forwarding(d, fields[i], noSpecs)
    IN  Text(EachOf(Text(write_no_specs(c, name), "("), Len(fields), ", ", Field), ")")
write_list(c, items, noSpecs) ==
    LET Item(d, i) == write_arg_with_forwarding(d, items[i], noSpecs)
    IN  Text(EachOf(Text(c, "["), Len(items), ", ", Item), "]")

write_table(c, entries, noSpecs, pretty, indentSize, currentLevel) ==
    LET Key(d, i) == Text(write_arg_with_forwarding(d, entries[i].Key, noSpecs), ": ")
        Flat(d, i) == write_arg_with_forwarding(Key(d, i), entries[i].Value, noSpecs)
        Spaces(d, level) == write_no_specs(d, Times0(level * indentSize, " "))
        Line(d, i) == write_arg_with_forwarding_pretty(Key(Spaces(d, currentLevel + 1), i), entries[i].Value, noSpecs,
                                                       indentSize, currentLevel + 1)
    IN  CASE entries = <<>> -> Text(c, "{}")
          [] entries # <<>> /\ ~pretty -> Text(EachOf(Text(c, "{ "), Len(entries), ", ", Flat), " }")
          [] OTHER -> Text(Spaces(Text(EachOf(Text(c, "{\n"), Len(entries), ",\n", Line), "\n"), currentLevel), "}")

(* The formatters.  With # the count is told, without specs.               *)
Hashed(c) == SpecsOf(c).Hash
Metadata(c, before, n) == [fmt_arg_visit([Text(c, before) EXCEPT !.Specs = <<>>], [type |-> "S64", value |-> n], FALSE)
                              EXCEPT !.Specs = c.Specs]
(* In a linked list a precision alone is one of fixed point.               *)
Coerced(c) ==
    IF c.Specs # <<>> /\ SpecsOf(c).Type = "" /\ SpecsOf(c).Precision >= 0 THEN Specify(c, "Type", "f") ELSE c

format(c, v) ==
    LET count == Len(v.items)
        List(d) == write_list(d, v.items, FALSE)
        Linked(name) ==
            LET open == Text(Metadata(c, "<" \o name \o "> { count: ", count), ", data: ")
                d == List(Coerced(IF Hashed(c) THEN open ELSE c))
            IN  [IF Hashed(c) THEN Text(d, " }") ELSE d EXCEPT !.Specs = c.Specs]
        pretty == c.Specs # <<>> /\ SpecsOf(c).Fill = " " /\ SpecsOf(c).Width > 0
        Table(d) == write_table(d, v.items, FALSE, pretty, IF pretty THEN SpecsOf(c).Width ELSE 0, SpecsOf(c).UserData)
    IN  CASE v.kind = "string_builder" -> write_no_specs(c, FlattenSeq(v.items))
          [] v.kind = "array_like" /\ Hashed(c) ->
                Text(List(Text(Metadata(c, "<array_like> { count: ", count), ", data: ")), " }")
          [] v.kind = "dynamic_array_like" /\ Hashed(c) ->
                Text(List(Text(Metadata(Metadata(c, "<dynamic_array_like> { count: ", count), ", allocated: ", v.Allocated),
                               ", data: ")), " }")
          [] v.kind \in {"array_like", "dynamic_array_like"} /\ ~Hashed(c) -> List(c)
          [] v.kind = "variant" -> IF count = 0 THEN Text(c, "nullvar") ELSE write_arg_with_forwarding(c, v.items[1], FALSE)
          [] v.kind = "optional" -> IF count = 0 THEN Text(c, "nullopt") ELSE fmt_arg_visit(c, v.items[1], FALSE)
          [] v.kind = "hash_table" /\ Hashed(c) ->
                Text(Table(Text(Metadata(c, "hash_table { count: ", count), ", entries: ")), " }")
          [] v.kind = "hash_table" /\ ~Hashed(c) -> Table(c)
          [] v.kind = "singly_linked" -> Linked("singly_linked_list_like")
          [] v.kind = "doubly_linked" -> Linked("doubly_linked_list_like")
          [] v.kind = "struct" -> write_struct(c, v.name, v.items, FALSE)
          [] v.kind = "tuple" -> write_tuple(c, v.name, v.items, FALSE)
-----------------------------------------------------------------------------
(* The text between two fields.  From the last "}}" on nothing of it is    *)
(* written if a bracket stands alone, and the formatting goes on.          *)
RECURSIVE write_until(_, _, _)
write_until(c, text, after) ==
    LET bracket == SelectInSeq(text, LAMBDA ch : ch = "}")
        next == IF bracket < Len(text) THEN text[bracket + 1] ELSE after
    IN  IF bracket = 0 THEN write_no_specs(c, text)
        ELSE IF next # "}" THEN on_error(c, "Unmatched \"}\" in format string")
        ELSE write_until(write_no_specs(c, SubSeq(text, 1, bracket)), SubSeq(text, bracket + 2, Len(text)), after)

(* A field, from behind its bracket to its closing one.                    *)
VisitedUnder(c, arg) == IF c.Ok THEN [fmt_arg_visit(c, arg, FALSE) EXCEPT !.Specs = <<>>] ELSE c
Handled(c, arg) ==
    CASE ~c.Ok -> c
      [] c.Ok /\ FirstOf(c) # "}" -> Stop(c, "\"}\" expected")
      [] OTHER -> VisitedUnder(fmt_handle_dynamic_specs(c), arg)
Specified(c, arg) == Handled(fmt_parse_specs(Advance(c, 1), arg.type), arg)
Referred(r) ==
    LET arg == r.c.Args[r.id + 1]
    IN  CASE ~r.c.Ok -> r.c
          [] r.c.Ok /\ ~InRange(r.c, r.id) -> Silently(OutOfRange(r.c))
          [] r.c.Ok /\ InRange(r.c, r.id) /\ FirstOf(r.c) = "}" -> fmt_arg_visit(r.c, arg, FALSE)
          [] r.c.Ok /\ InRange(r.c, r.id) /\ FirstOf(r.c) = ":" -> Specified(r.c, arg)
          [] OTHER -> Stop(r.c, "\"}\" expected")
Field(c) ==
    CASE FirstOf(c) = End -> Stop(c, "Invalid format string")
      [] FirstOf(c) = "{" -> Text(c, "{")
      [] FirstOf(c) = "!" -> Style(Advance(c, 1))
      [] OTHER -> Referred(IF FirstOf(c) = "}" THEN next_arg_id(c) ELSE fmt_parse_arg_id(c))

RECURSIVE fmt_parse_and_format(_)
fmt_parse_and_format(c) ==
    LET bracket == SelectInSeq(c.It, LAMBDA ch : ch = "{")
        before == write_until(c, SubSeq(c.It, 1, bracket - 1), "{")
        Behind(d) == IF d.Ok THEN fmt_parse_and_format(Advance(d, 1)) ELSE d
    IN  IF c.It = <<>> THEN c
        ELSE IF bracket = 0 THEN [write_until(c, c.It, End) EXCEPT !.It = <<>>]
        ELSE Behind(Field(Advance(before, bracket)))

fmt_to_writer(text, args) == fmt_parse_and_format(Context(text, args))
-----------------------------------------------------------------------------
(* What the text means, read without the formatter's state: characters,    *)
(* doubled brackets, and fields that all count up or all name their        *)
(* argument.                                                               *)
Piece(text, field, id) == [text |-> text, field |-> field, id |-> id]
Literal(ch) == Piece(<<ch>>, FALSE, 0)
RECURSIVE Readings(_)
Readings(s) ==
    LET Behind(n, piece) == {<<piece>> \o rest : rest \in Readings(SubSeq(s, n + 1, Len(s)))}
        Closes(n) == s[1] = "{" /\ s[n] = "}" /\ \A i \in 2..n - 1 : IsDigit(s[i])
        ids == {n \in 2..Len(s) : Closes(n)}
    IN  IF s = <<>> THEN {<<>>}
        ELSE IF s[1] \notin {"{", "}"} THEN Behind(1, Literal(s[1]))
        ELSE IF Len(s) > 1 /\ s[2] = s[1] THEN Behind(2, Literal(s[1]))
        ELSE UNION {Behind(n, Piece(<<>>, TRUE, IF n = 2 THEN -1 ELSE parse_int(SubSeq(s, 2, n - 1), 10, MaxU32).value)) : n \in ids}
Resolved(pieces) ==
    [i \in DOMAIN pieces |-> [pieces[i] EXCEPT !.id = IF @ # -1 THEN @
                                 ELSE Cardinality({j \in 1..i - 1 : pieces[j].field})]]
IsConsistent(pieces, args) ==
    LET fields == {i \in DOMAIN pieces : pieces[i].field}
    IN  /\ \A i, j \in fields : (pieces[i].id = -1) = (pieces[j].id = -1)
        /\ \A i \in fields : Resolved(pieces)[i].id < Len(args)

(* A format string of plain fields is formatted to the end exactly when it *)
(* is well formed, and then every character and argument is in its place;  *)
(* anything else is reported.                                              *)
FieldsAgree(s, args) ==
    LET good == {pieces \in Readings(s) : IsConsistent(pieces, args)}
        Meaning(pieces) == FlattenSeq([i \in DOMAIN pieces |->
                              IF pieces[i].field THEN args[Resolved(pieces)[i].id + 1].value ELSE pieces[i].text])
    IN  \A r \in {fmt_to_writer(s, args)} :
        /\ (r.Errors = <<>>) = (good # {})
        /\ \A pieces \in good : r.Out = Meaning(pieces)

(* Specs as they are spelled: every part a string, "" when it is left out; *)
(* a width in braces is that of the next argument.                         *)
Spelled(p) == Letters("{:" \o p.fill \o p.align \o p.sign \o p.hash \o p.zero \o p.width \o p.precision \o p.type \o "}")
Padded(text, fill, align, width) ==
    LET n == width - Len(text)
        left == CASE align = "<" -> 0 [] align = "^" -> n \div 2 [] OTHER -> n
    IN  IF n <= 0 THEN text ELSE Times0(left, fill) \o text \o Times0(n - left, fill)

(* An integer under any specs: sign, prefix and digits, filled to the      *)
(* width between prefix and digits if the alignment is numeric or zeros    *)
(* are asked for, else around, to the left of it by default.               *)
IntegerAgrees(value, p, width) ==
    LET base == CASE p.type = "x" -> 16 [] p.type = "o" -> 8 [] p.type = "b" -> 2 [] OTHER -> 10
        digits == format_uint_base[base, FALSE, IF value < 0 THEN -value ELSE value]
        sign == IF value < 0 THEN <<"-">> ELSE IF p.sign \in {"+", " "} THEN <<p.sign>> ELSE <<>>
        prefix == sign \o (CASE p.hash = "" \/ base = 10 -> <<>> [] p.hash # "" /\ base = 8 -> <<"0">>
                             [] OTHER -> <<"0", p.type>>)
        fill == IF p.zero # "" THEN "0" ELSE IF p.fill # "" THEN p.fill ELSE " "
        inside == p.zero # "" \/ p.align = "="
        wide == IF p.width = "" THEN 0 ELSE width
    IN  \A r \in {fmt_to_writer(Spelled(p), <<[type |-> "S64", value |-> value], [type |-> "S64", value |-> width]>>)} :
        /\ r.Errors = <<>>
        /\ r.Out = IF inside THEN prefix \o Padded(digits, fill, "=", wide - Len(prefix))
                   ELSE Padded(prefix \o digits, fill, p.align, wide)

(* Text under a precision is at most so long and starts as the whole does, *)
(* and is filled around, to the right of it by default.                    *)
TextAgrees(text, p, width, precision) ==
    LET Given(part, n) == IF part = "" THEN <<>> ELSE <<[type |-> "S64", value |-> n]>>
        n == IF p.precision = "" THEN Len(text) ELSE Min({precision, Len(text)})
        kept == IF n < Len(text) /\ n > 3 THEN SubSeq(text, 1, n - 3) \o Letters("...") ELSE SubSeq(text, 1, n)
        args == <<[type |-> "STRING", value |-> text]>> \o Given(p.width, width) \o Given(p.precision, precision)
    IN  \A r \in {fmt_to_writer(Spelled(p), args)} :
        /\ r.Errors = <<>>
        /\ r.Out = Padded(kept, IF p.fill = "" THEN " " ELSE p.fill, IF p.align = "" THEN "<" ELSE p.align,
                          IF p.width = "" THEN 0 ELSE width)

(* A number in fixed notation is the nearest with so many digits behind    *)
(* the point, of two the even one, whatever the digit generator left out;  *)
(* but 0.5 without digits behind the point may be 0 or 1 (HalfRoundsUp).   *)
(* In exponent notation it has one digit before the point.                 *)
Count10(text) == FoldLeft(LAMBDA v, ch : IF IsDigit(ch) THEN v * 10 + DigitValue(ch) ELSE v, 0, text)
NearestTo(n, num, den) ==
    /\ 2 * (n * den - num) \in -den..den
    /\ 2 * (n * den - num) \in {-den, den} => n % 2 = 0
FixedAgrees(v, precision) ==
    LET number == [negative |-> FALSE, kind |-> "finite", number |-> v]
        f == fp_assign_new(v)
        args == <<[type |-> "F64", value |-> number], [type |-> "S64", value |-> precision]>>
    IN  \A out \in {fmt_to_writer(Letters("{:.{}f}"), args).Out} : \A point \in {SelectInSeq(out, LAMBDA ch : ch = ".")} :
            /\ \/ NearestTo(Count10(out), f.Significand * 2 ^ AtLeast0(f.Exponent) * 10 ^ precision, 2 ^ AtLeast0(-f.Exponent))
               \/ HalfAtZero(v, precision) /\ Count10(out) = 1
            /\ IF precision = 0 THEN point = 0 ELSE point > 1 /\ Len(out) - point = precision
            /\ point > 2 \/ (precision = 0 /\ Len(out) > 1) => out[1] # "0"
ExponentAgrees(v, precision) ==
    LET number == [negative |-> FALSE, kind |-> "finite", number |-> v]
        f == fp_assign_new(v)
        args == <<[type |-> "F64", value |-> number], [type |-> "S64", value |-> precision]>>
        ExpIn(out, e) == (IF out[e + 1] = "-" THEN -1 ELSE 1) * Count10(SubSeq(out, e + 1, Len(out)))
    IN  \A out \in {fmt_to_writer(Letters("{:.{}e}"), args).Out} : \A e \in {SelectInSeq(out, LAMBDA ch : ch = "e")} :
        \A shift \in {precision - ExpIn(out, e)} :
            /\ NearestTo(Count10(SubSeq(out, 1, e - 1)), f.Significand * 2 ^ AtLeast0(f.Exponent) * 10 ^ AtLeast0(shift),
                         2 ^ AtLeast0(-f.Exponent) * 10 ^ AtLeast0(-shift))
            /\ e = precision + 3 /\ out[2] = "." /\ (f.Significand # 0 => out[1] # "0")

(* What float_dragon4.cpp:286-289 says, and test-suite/tests/fmt.cpp:554   *)
(* expects, of a half without digits behind the point: it is rounded up.   *)
HalfRoundsUp(v) ==
    LET number == [negative |-> FALSE, kind |-> "finite", number |-> v]
    IN  HalfAtZero(v, 0) => fmt_to_writer(Letters("{:#.0f}"), <<[type |-> "F64", value |-> number]>>).Out = Letters("1.")

(* A composed value is its elements, each as it would be on its own under  *)
(* the specs it is handed, between the brackets of its kind; the specs are *)
(* those of the field again behind every element.                          *)
ElementsAgree(items, hash, type) ==
    LET list == [type |-> "CUSTOM", value |-> [kind |-> "array_like", items |-> items]]
        field == "{0:" \o hash \o type \o "}"
        letter == IF type = "" THEN "" ELSE SubSeq(type, Len(type), Len(type))
        FieldOf(arg) == Letters(IF type_selector_compatible(letter, arg.type) THEN field ELSE "{0:" \o hash \o "}")
        Around(inner) == IF hash = "" THEN <<"[">> \o inner \o <<"]">>
                         ELSE Letters("<array_like> { count: ") \o format_uint_decimal(Len(items)) \o Letters(", data: [")
                              \o inner \o Letters("] }")
    IN  \A r \in {fmt_to_writer(Letters(field \o "|" \o field), <<list>>)} :
        \A alone \in {[i \in DOMAIN items |-> fmt_to_writer(FieldOf(items[i]), <<items[i]>>).Out]} :
        \A text \in {Around(FlattenSeq([i \in DOMAIN alone |-> (IF i > 1 THEN <<",", " ">> ELSE <<>>) \o alone[i]]))} :
            r.Errors = <<>> /\ r.Out = text \o <<"|">> \o text

(* A style is asked for by name, by a terminal's name or by channels, then *)
(* the background or emphasis; its escape codes come in a fixed order.     *)
StyleAgrees(color, behind) ==
    LET marks == Letters(behind)
        background == behind = ";BG"
        emphasis == {marks[i] : i \in DOMAIN marks} \cap Emphases
        codes == [B |-> "1", I |-> "3", U |-> "4", S |-> "9"]
        Code(k) == <<ESC, "[", codes[k], "m">>
        ordered == SelectSeq(<<"B", "I", "U", "S">>, LAMBDA k : k \in emphasis)
        colored == CASE background -> color.background
                     [] ~background /\ color.spelled = "" /\ emphasis = {} -> <<ESC, "[", "0", "m">>
                     [] OTHER -> color.foreground
    IN  \A r \in {fmt_to_writer(Letters("<{!" \o color.spelled \o behind \o "}>"), <<>>)} :
        IF background /\ color.spelled = "" THEN r.Errors # <<>>
        ELSE /\ r.Errors = <<>>
             /\ r.Out = <<"<">> \o colored \o (IF background THEN <<>> ELSE FlattenSeq([i \in DOMAIN ordered |-> Code(ordered[i])]))
                       \o <<">">>
=============================================================================
