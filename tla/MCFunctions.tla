------------------------------ MODULE MCFunctions ------------------------------
(***************************************************************************)
(* The library's pure functions against reference definitions, over        *)
(* bounded inputs.  A behaviour is one call: it starts with a part of the  *)
(* library and the first half of an input, and its step chooses the other  *)
(* half (two halves, so that TLC's workers share the inputs).              *)
(***************************************************************************)
EXTENDS Integers, FiniteSets, Sequences, TLC

CONSTANT Parts      \* those to call

VARIABLES part,
          first,
          second    \* << >>, then a sequence of one

-----------------------------------------------------------------------------
(* Words of 4 bits instead of 64, digits of 2 bits instead of 30, which    *)
(* are split from two on.                                                  *)
WI == INSTANCE Wide WITH W <- 4
NU == INSTANCE Numeric
TY == INSTANCE Types
BI == INSTANCE BigInteger WITH SHIFT <- 2, KARATSUBA_CUTOFF <- 2

ASSUME WI!WideAssumption /\ BI!BigIntegerAssumption

(* What Unicode's tables say of some letters with and without marks; a     *)
(* segment of 4 code points instead of 1024; numbers of 8 bits instead of  *)
(* 32.                                                                     *)
Singled == <<\hC1, \hC2, \h1EA0, \h1EA4, \h1EAC>>
Pairs == <<<<\h41, \h301>>, <<\h41, \h302>>, <<\h41, \h323>>, <<\hC2, \h301>>, <<\h1EA0, \h302>>>>
Classes == [cp \in {\h301, \h302, \h323, \h327, \h93C} |->
               CASE cp = \h323 -> 220 [] cp = \h327 -> 202 [] cp = \h93C -> 7 [] OTHER -> 230]
Decompositions ==
    [cp \in {Singled[k] : k \in 1..5} \cup {\h958} |->
        IF cp = \h958 THEN <<\h915, \h93C>> ELSE Pairs[CHOOSE k \in 1..5 : Singled[k] = cp]]
Categories ==
    \h41 :> "Lu" @@ \h61 :> "Ll" @@ \h1C5 :> "Lt" @@ \h2B0 :> "Lm" @@ \h5D0 :> "Lo" @@
    \h301 :> "Mn" @@ \h903 :> "Mc" @@ \h488 :> "Me" @@ \h30 :> "Nd" @@ \h2160 :> "Nl" @@ \hB2 :> "No" @@
    \h5F :> "Pc" @@ \h2D :> "Pd" @@ \h28 :> "Ps" @@ \h29 :> "Pe" @@ \hAB :> "Pi" @@ \hBB :> "Pf" @@ \h21 :> "Po" @@
    \h2B :> "Sm" @@ \h24 :> "Sc" @@ \h5E :> "Sk" @@ \hA9 :> "So" @@ \h20 :> "Zs" @@ \h2028 :> "Zl" @@ \h2029 :> "Zp" @@
    0 :> "Cc" @@ \hAD :> "Cf" @@ \hD800 :> "Cs" @@ \hE000 :> "Co"
TX == INSTANCE Clap WITH
          TABLE_SIZE <- 65536, SEGMENT <- 4, Class <- Classes, Decomposition <- Decompositions,
          CompKeys <- Pairs, CompValues <- Singled,
          Upper <- [cp \in \h61..\h7A |-> cp - 32], Lower <- [cp \in \h41..\h5A |-> cp + 32],
          Category <- Categories,
          UINT <- 8, S32 <- [signed |-> TRUE, bits |-> 8]

LowerOf(ch) == IF ch = "C" THEN "c" ELSE ch
PA == INSTANCE Path

(* Numbers of 4 bits of mantissa and exponents of -5 to 8, formatted by    *)
(* arithmetic of 14 bits.                                                  *)
CharA(cp) == IF cp = 65 THEN "A" ELSE "?"
FM == INSTANCE Fmt WITH
          MANT <- 4, BIAS <- 6, MAXBIASED <- 14, KAPPA <- 1, WORD <- 14,
          MIN_EXP <- -11, STEP <- 1,
          CharOf <- CharA, DataAt <- 43, Uninitialized <- "EXP", MaxS32 <- 63,
          Colors <- [RED |-> <<255, 0, 7>>, BLACK |-> <<0, 0, 0>>],
          TerminalColors <- [RED |-> 31, BRIGHT_RED |-> 91]

-----------------------------------------------------------------------------
Upto(n, S) == UNION {[1..k -> S] : k \in 0..n}
Some == {<<0>>}                         \* for inputs of one half
Singly(S) == {<<x>> : x \in S}

(* Big integers: around powers of the base, and sums that carry far.       *)
Divisors == {-1023, -700, -257, -255, -256, -64, -63, -17, -16, -5, -4, -3, -2, -1, 0, 1, 2, 3, 4, 5,
             15, 16, 17, 63, 64, 65, 128, 191, 255, 256, 257, 511, 512, 700, 1023}
Dividends == Divisors \cup 0..70 \cup {11 * i : i \in -100..100}

(* UTF-8: bytes at both ends of what each first byte and each later byte   *)
(* admits; code points at the ends of each length.                         *)
Leads == {\h00, \h7F, \h80, \hBF, \hC0, \hC1, \hC2, \hDF, \hE0, \hE1, \hEC, \hED, \hEE, \hEF,
          \hF0, \hF1, \hF3, \hF4, \hF5, \hF7, \hF8, \hFF}
Seconds == {\h7F, \h80, \h8F, \h90, \h9F, \hA0, \hBF, \hC0}
Thirds == {\h7F, \h80, \hBF, \hC0}
CodePoints == {0, \h7F, \h80, \h7FF, \h800, \hFFF, \h1000, \hCFFF, \hD000, \hD7FF, \hD800, \hDBFF, \hDC00, \hDFFF,
               \hE000, \hFFFF, \h10000, \h3FFFF, \h40000, \hFFFFF, \h100000, \h10FFFF, \h110000, \h1FFFFF}
Lengths == {\h61, \hE9, \h20AC, \h1F600}     \* one of each length
Marked == {\h41, \hC2, \h301, \h302, \h323, \h1EAC, \h958, \h62}

(* Numbers around the limits of types of 6, 8 and 10 bits, as they are     *)
(* written in each base, with a zero before them or not.                   *)
Types == [signed : BOOLEAN, bits : {6, 8, 10}]
Near == {0, 1, 7, 8, 9, 31, 32, 33, 63, 64, 65, 99, 127, 128, 129, 255, 256, 257, 511, 512, 513,
         640, 1023, 1024, 1025, 2047, 9999}
RECURSIVE Written(_, _)
Written(n, base) == (IF n < base THEN << >> ELSE Written(n \div base, base))
                    \o TX!Bytes(SubSeq("0123456789abcdef", (n % base) + 1, (n % base) + 1))
Texts == {"", "0", "1", "10", "true", "tRUE", "True", "truely", "tru", "false", "fALSE!", "fals", "x", "2"}
Prefixed == {TX!Byte(c) : c \in {"0", "x", "1", "7", "9", "g"}}

(* A command line: options, flags, counters and positional arguments, each *)
(* with the ways to spell it; in a cluster one word spells several.        *)
Parser == [auto_help |-> TRUE, auto_version |-> FALSE, arguments |-> <<
    TX!clap_arg_option_opt("out", [short_name |-> "o", long_name |-> "out", default_val |-> "a"]),
    TX!clap_arg_option_opt("jobs", [short_name |-> "j", long_name |-> "jobs", arg_type |-> "INT"]),
    TX!clap_arg_flag_opt("loud", [short_name |-> "l", long_name |-> "loud"]),
    TX!clap_arg_flag_opt("color", [short_name |-> "p", long_name |-> "plain", action |-> "SET_FALSE"]),
    TX!clap_arg_option_opt("more", [short_name |-> "m", arg_type |-> "INT", action |-> "COUNT"]),
    TX!clap_arg_positional_opt("in", [is_required |-> TRUE]),
    TX!clap_arg_positional_opt("next", [long_name |-> ""])>>]
Word(name, value, spelled) == [name |-> name, value |-> value, spelled |-> spelled]
Text(s) == <<"STRING", s>>
Phrases ==
    {<< >>}
    \cup {<<Word("out", Text("x"), s)>> : s \in {<<"-o", "x">>, <<"-ox">>, <<"--out", "x">>, <<"--out=x">>}}
    \cup {<<Word("out", Text("-l"), <<"--out", "-l">>)>>, <<Word("out", Text("b=c"), <<"--out=b=c">>)>>}
    \cup {<<Word("jobs", <<"INT", -4>>, s)>> : s \in {<<"-j", "-4">>, <<"-j-4">>, <<"--jobs=-4">>}}
    \cup {<<Word("loud", <<"BOOL", TRUE>>, s)>> : s \in {<<"-l">>, <<"--loud=yes">>, <<"", "--loud">>}}
    \cup {<<Word("loud", <<"BOOL", FALSE>>, s)>> : s \in {<<"--no-loud">>, <<"--loud=off">>}}
    \cup {<<Word("color", <<"BOOL", FALSE>>, <<"--plain">>)>>}
    \cup {<<Word("more", <<"COUNT">>, <<"-mm">>), Word("more", <<"COUNT">>, << >>)>>,
          <<Word("more", <<"COUNT">>, <<"-mpox">>), Word("color", <<"BOOL", FALSE>>, << >>), Word("out", Text("x"), << >>)>>,
          <<Word("loud", <<"BOOL", TRUE>>, <<"-lj", "5">>), Word("jobs", <<"INT", 5>>, << >>)>>}
In(s, spelled) == <<Word("in", Text(s), spelled)>>
Next_(s, spelled) == <<Word("next", Text(s), spelled)>>
Positional == {<<<< >>, << >>>>, <<In("a", <<"a">>), << >>>>, <<<< >>, In("a", <<"a">>)>>,
               <<In("a", <<"a">>), Next_("b", <<"b">>)>>, <<<< >>, In("-l", <<"--", "-l">>)>>,
               <<In("a", <<"a">>), Next_("--out", <<"--", "--out">>)>>,
               <<<< >>, In("-", <<"--", "-">>) \o Next_("b", <<"b">>)>>}

(* Paths, pieces of paths to join, and directories with what is in them.   *)
PathChars == {"\\", "/", "a", ".", ":"}
Pieces == {<< >>, <<"a">>, <<"/">>, <<"/", "a">>, <<"a", "/">>, <<"c", ":">>, <<"C", ":">>, <<"c", ":", "a">>,
           <<"c", ":", "/", "a">>, <<"d", ":", "b">>, <<".", ".">>, <<".", ".", "\\", "b">>,
           <<"\\", "\\", "h", "\\", "s">>, <<"\\", "\\", "h", "/", "s", "/", "b">>}
Listings == {<<<<".">>, <<".", ".">>>>, <<<<".">>, <<".", ".">>, <<"a">>>>,
             <<<<".">>, <<".", ".">>, <<"a">>, <<"b">>>>, <<<<"b">>, <<".">>, <<"a">>, <<".", ".">>>>}
Tree(dir, listings) ==
    LET Below(s) == IF dir[Len(dir)] = "/" THEN dir \o s ELSE dir \o <<"/">> \o s
        paths == <<dir, Below(<<"a">>), Below(<<"b">>), Below(<<"a", "/", "a">>)>>
    IN  [p \in {paths[k] : k \in 1..4} |-> listings[CHOOSE k \in 1..4 : paths[k] = p]]

(* Format strings and what they are given.                                 *)
Brackets == {"{", "}", "0", "1", "x"}
Integer(n) == [type |-> "S64", value |-> n]
String(s) == [type |-> "STRING", value |-> FM!Letters(s)]
Number(frac, biased) ==
    [type |-> "F64", value |-> [negative |-> FALSE, kind |-> "finite", number |-> [frac |-> frac, biased |-> biased]]]
List(items) ==
    [type |-> "CUSTOM", value |-> [kind |-> "array_like", items |-> items, Allocated |-> 8, name |-> <<"T">>]]
Specs(fill, align, sign, hash, zero, width, precision, type) ==
    [fill : fill, align : align, sign : sign, hash : hash, zero : zero, width : width, precision : precision, type : type]
None == {""}
IntegerSpecs ==
    LET With(fill, align) == Specs(fill, align, {"", "+", " "}, {"", "#"}, {"", "0"}, {"", "{}", "9"}, None, {"", "x", "o", "b"})
    IN  With({"", "*"}, {"<", ">", "^", "="}) \cup With(None, None)
TextSpecs ==
    LET With(fill, align) == Specs(fill, align, None, None, None, {"", "{}"}, {"", ".{}"}, {"", "s"})
    IN  With({"", "*"}, {"<", ">", "^"}) \cup With(None, None)
Elements == <<Integer(-5), Integer(12), String("ab"), Number(3, 6), List(<<Integer(3), String("c")>>)>>
Style(spelled, foreground, background) ==
    [spelled |-> spelled, foreground |-> foreground, background |-> background]
Escaped(s) == <<FM!ESC>> \o FM!Letters(s)
Styles == {Style("", << >>, << >>),
           Style("tRED", Escaped("[31m"), Escaped("[41m")),
           Style("tBRIGHT_RED", Escaped("[91m"), Escaped("[101m"))}
          \cup {Style(s, Escaped("[38;2;255;000;007m"), Escaped("[48;2;255;000;007m")) : s \in {"RED", "255;0;0x7"}}

-----------------------------------------------------------------------------
(* The two halves of the inputs of each part.                              *)
Firsts(p) ==
    CASE p = "wide" -> WI!Wides
      [] p = "bits" -> 0..255
      [] p = "casts" -> [signed : BOOLEAN, bits : 2..4]
      [] p = "types" -> TY!SomeTypes
      [] p = "floats" -> NU!ieee754(2, 2)
      [] p = "ranges" -> (-3..3) \X (-3..3)
      [] p = "big" -> Dividends
      [] p = "utf8" -> Leads \X Seconds
      [] p = "code points" -> CodePoints \cup DOMAIN Categories
      [] p = "text" -> Upto(3, Lengths)
      [] p = "normal" -> Upto(2, Marked)
      [] p = "strings" -> Upto(3, Lengths \cup {\h41})
      [] p = "replace" -> Upto(4, Lengths \ {\h1F600})
      [] p = "integers" -> Near \X {8, 10, 16}
      [] p = "prefixes" -> Upto(2, Prefixed)
      [] p = "booleans" -> {TX!Bytes(s) : s \in Texts}
      [] p = "options" -> Phrases
      [] p = "paths" -> PathChars
      [] p = "joins" -> Pieces
      [] p = "walks" -> Listings \X Listings
      [] p = "digits" -> FM!Finite
      [] p = "fields" -> Upto(3, Brackets)
      [] p = "integer specs" -> IntegerSpecs
      [] p = "text specs" -> TextSpecs
      [] p = "elements" -> {<< >>} \cup {<<k>> : k \in DOMAIN Elements}
      [] p = "styles" -> Styles

Second(p) ==
    CASE p = "ranges" -> {-3, -2, -1, 1, 2, 3}
      [] p = "casts" -> [signed : BOOLEAN, bits : 2..4]
      [] p = "big" -> Divisors
      [] p = "utf8" -> Thirds \X Thirds
      [] p = "normal" -> {<< >>} \cup Singly(Marked)
      [] p = "strings" -> Upto(2, Lengths \cup {\h41})
      [] p = "replace" -> (Upto(2, {\h61, \hE9}) \ {<< >>}) \X Upto(2, {\h61, \hE9})
      [] p = "integers" -> {"", "0"} \X {"", "+", "-"} \X {"", "z"} \X Types
      [] p = "prefixes" -> Upto(2, Prefixed) \X Types
      [] p = "options" -> Phrases \X Positional
      [] p = "paths" -> Upto(5, PathChars)
      [] p = "joins" -> Pieces \X Pieces
      [] p = "walks" -> (Listings \X Listings) \X {<<"a">>, <<"r", "/">>}
      [] p = "digits" -> 0..4
      [] p = "fields" -> Singly(Upto(3, Brackets))
      [] p = "integer specs" -> {0, 7, -45, 1234}
      [] p = "text specs" -> {"hello", "", "ab"} \X {0, 3, 8} \X (0..6)
      [] p = "elements" -> ({<< >>} \cup {<<k>> : k \in DOMAIN Elements}) \X {"", "x", ".2f", "q", "d"} \X {"", "#"}
      [] p = "styles" -> {"", ";BG", ";B", ";SU", ";BIUS", ";SUIB"}
      [] OTHER -> Some

Init == /\ part \in Parts
        /\ first \in Firsts(part)
        /\ second = << >>

Next == /\ second = << >>
        /\ second' \in Singly(Second(part))
        /\ UNCHANGED <<part, first>>

Spec == Init /\ [][Next]_<<part, first, second>>

Called(p) == part = p /\ second # << >>
x == first
y == second[1]

-----------------------------------------------------------------------------
(* Two-word integers compute what their numbers do (Wide); orderings,      *)
(* casts, powers, ranges and bits of the common header are exact (Numeric);*)
(* type traits and decay agree with what the language says (Types).        *)
NumbersAgree ==
    /\ Called("wide") => WI!SumsExact(x) /\ WI!ProductsExact(x)
    /\ Called("bits") => NU!BitsAgree(x) /\ NU!DigitsCounted(x)
    /\ Called("casts") => /\ NU!CastsCatch(x, y) /\ NU!OrderingsAgree /\ NU!LimitsAgree
                          /\ \A v \in NU!Values(x) : NU!PowersAgree(v, x)
    /\ Called("floats") => NU!ClassesAgree(x)
    /\ Called("ranges") => NU!RangesAgree(x[1], x[2], y)
    /\ Called("types") => TY!DecaysOnce(x) /\ TY!TraitsAgree(x)

(* Sums, products, quotients of both kinds, shifts and bitwise operations  *)
(* of big integers are those of the numbers (BigInteger).                  *)
BigIntegersAgree ==
    Called("big") => BI!SumsAgree(x, y) /\ BI!DivisionAgrees(x, y) /\ BI!BitwiseAgrees(x, y)

(* UTF-8 and its conversions, the canonical forms, and the operations on   *)
(* strings mean the same on bytes as on code points (Unicode, Strings).    *)
TextAgrees ==
    /\ Called("utf8") => TX!ValidityAgrees(x \o y)
    /\ Called("code points") => TX!EncodingAgrees(x) /\ TX!CharactersAgree(x)
    /\ Called("text") => TX!TextAgrees(x)
    /\ Called("normal") => TX!NormalFormsAgree(x \o y)
    /\ Called("strings") => TX!ReadsAgree(x, y) /\ TX!EditsAgree(x, y)
    /\ Called("replace") => TX!ReplacementAgrees(x, y[1], y[2])

(* Numbers and booleans are read, and command lines understood, as they    *)
(* were written, limits and wrapping included (Parse, Clap).               *)
InputIsUnderstood ==
    /\ Called("integers") =>
          TX!IntegersAgree(TX!Bytes(y[2]), TX!Bytes(y[1]) \o Written(x[1], x[2]), TX!Bytes(y[3]), y[4], x[2])
    /\ Called("prefixes") => TX!PrefixesAgree(x \o y[1], y[2])
    /\ Called("booleans") => TX!BooleansAgree(x)
    /\ Called("options") => TX!CommandLinesAgree(Parser, x \o y[2][1] \o y[1] \o y[2][2])

(* Normalising, splitting and joining a path keep where it leads, and a    *)
(* walk finds every entry once (Path).                                     *)
PathsLead ==
    /\ Called("paths") => PA!NormalizesAgree(<<x>> \o y) /\ PA!SplitsAgree(<<x>> \o y)
    /\ Called("joins") => PA!JoinsAgree(x, y[1], y[2])
    /\ Called("walks") =>
          LET tree == Tree(y[2], <<x[1], x[2], y[1][1], y[1][2]>>) IN PA!WalkFindsAll(y[2], tree)

(* Digits are those of the number rounded to them, a half to even, except  *)
(* that 0.5 without digits behind the point may be 0 or 1 (HalfRoundsUp);  *)
(* the shortest ones read back where no zeros were taken off them (Float). *)
DigitsAgree ==
    Called("digits") => /\ FM!DigitsRounded(x, y, TRUE) /\ FM!DigitsRounded(x, y, FALSE)
                        /\ FM!ShortestWithoutZeros(x)

(* Format strings mean their fields, each argument in its place, under its *)
(* specs and filled to its width, a number rounded to its precision but    *)
(* for 0.5 at precision 0 (HalfRoundsUp); composed values hand their specs *)
(* on and take them back; styles become their codes (FmtWrite, Fmt).       *)
FormatsAgree ==
    /\ Called("digits") => /\ y <= 3 => FM!FixedAgrees(x, y)
                           /\ y \in 1..3 => FM!ExponentAgrees(x, y)
    /\ Called("fields") => FM!FieldsAgree(x \o y[1], <<String("a"), String("b")>>)
    /\ Called("integer specs") => FM!IntegerAgrees(y, x, 9)
    /\ Called("text specs") => FM!TextAgrees(FM!Letters(y[1]), x, y[2], y[3])
    /\ Called("elements") =>
          FM!ElementsAgree([k \in DOMAIN (x \o y[1]) |-> Elements[(x \o y[1])[k]]], y[3], y[2])
    /\ Called("styles") => FM!StyleAgrees(x, y)

(* The digits a floating-point number is shown with read back as it, and   *)
(* no fewer do (Float).                                                    *)
ShortestReadsBack == Called("digits") => FM!ShortestReadsBack(x)

(* 0.5 is shown as "1." where no digits behind the point are asked for,    *)
(* as the comment in float_dragon4.cpp and the tests say (Fmt).            *)
HalfRoundsUp == Called("digits") => FM!HalfRoundsUp(x)
=============================================================================
