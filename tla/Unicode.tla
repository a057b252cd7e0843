-------------------------------- MODULE Unicode --------------------------------
(***************************************************************************)
(* Code points and their encodings: string.h, string.cpp, unicode.h and    *)
(* the normalisation of string_builder.h.  Text is a sequence of bytes,    *)
(* 16-bit units or code points; p is the place of a byte, from 1.  The     *)
(* generated tables are constants, in extract: functions of the code       *)
(* points that have an entry, and the compositions as pairs in order.      *)
(***************************************************************************)
EXTENDS Integers, SequencesExt, FiniteSetsExt

CONSTANTS TABLE_SIZE,   \* UNICODE_TABLE_SIZE
          SEGMENT,      \* the code points a segment holds: 1024 in the code
          Upper, Lower, Category, Class, Decomposition,
          CompKeys, CompValues

Continuation == \h80..\hBF

utf8_length(s) == Cardinality({i \in DOMAIN s : s[i] \notin Continuation})

size_at(s, p) ==
    CASE s[p] \in Continuation -> 0
      [] s[p] \in \hF0..\hF7 -> 4
      [] s[p] \in \hE0..\hEF -> 3
      [] s[p] \in \hC0..\hDF -> 2
      [] OTHER -> 1

(* A negative code point has its upper bits set.                           *)
size_of(cp) == CASE cp \in 0..\h7F -> 1 [] cp \in \h80..\h7FF -> 2
                 [] cp \in \h800..\hFFFF -> 3 [] OTHER -> 4

Six(cp, k) == \h80 + ((cp \div 64 ^ k) % 64)
encode(cp) ==
    CASE size_of(cp) = 1 -> <<cp>>
      [] size_of(cp) = 2 -> <<\hC0 + cp \div 64, Six(cp, 0)>>
      [] size_of(cp) = 3 -> <<\hE0 + cp \div 4096, Six(cp, 1), Six(cp, 0)>>
      [] size_of(cp) = 4 -> <<\hF0 + cp \div 262144, Six(cp, 2), Six(cp, 1), Six(cp, 0)>>
encode_all(cps) == FlattenSeq([i \in DOMAIN cps |-> encode(cps[i])])

(* A char is signed: a byte that begins nothing is negative.               *)
Low(s, p) == s[p] % 64
decode(s, p) ==
    CASE s[p] \in \hF0..\hF7 -> ((s[p] % 8) * 262144) + (Low(s, p + 1) * 4096) + (Low(s, p + 2) * 64) + Low(s, p + 3)
      [] s[p] \in \hE0..\hEF -> ((s[p] % 16) * 4096) + (Low(s, p + 1) * 64) + Low(s, p + 2)
      [] s[p] \in \hC0..\hDF -> ((s[p] % 32) * 64) + Low(s, p + 1)
      [] OTHER -> IF s[p] > 127 THEN s[p] - 256 ELSE s[p]

Second(b) == CASE b = \hE0 -> \hA0..\hBF
               [] b = \hED -> \h80..\h9F
               [] b = \hF0 -> \h90..\hBF
               [] b = \hF4 -> \h80..\h8F
               [] b \in (\hE1..\hEF) \cup (\hF1..\hF3) -> Continuation
               [] OTHER -> {}
is_valid(s, p) ==
    CASE size_at(s, p) = 0 -> FALSE
      [] size_at(s, p) = 1 -> s[p] < 128
      [] size_at(s, p) = 2 -> s[p] \in \hC2..\hDF /\ s[p + 1] \in Continuation
      [] size_at(s, p) = 3 -> s[p + 1] \in Second(s[p]) /\ s[p + 2] \in Continuation
      [] size_at(s, p) = 4 -> s[p + 1] \in Second(s[p]) /\ {s[p + 2], s[p + 3]} \subseteq Continuation

(* Whether p begins a whole, valid code point.                             *)
Whole(s, p) == size_at(s, p) > 0 /\ p + size_at(s, p) - 1 <= Len(s) /\ is_valid(s, p)

RECURSIVE InvalidFrom(_, _)
InvalidFrom(s, p) ==
    IF p > Len(s) THEN -1 ELSE IF ~Whole(s, p) THEN p - 1 ELSE InvalidFrom(s, p + size_at(s, p))
utf8_find_invalid(s) == InvalidFrom(s, 1)

(* The place of the code point with that index, and the code points from p.*)
place_of(s, index) ==
    LET At[i \in 0..index] == IF i = 0 THEN 1 ELSE At[i - 1] + size_at(s, At[i - 1])
    IN  At[index]
-----------------------------------------------------------------------------
RECURSIVE utf8_to_utf32(_)
utf8_to_utf32(s) ==
    IF s = <<>> THEN <<>>
    ELSE LET cp == decode(s, 1) IN <<cp>> \o utf8_to_utf32(SubSeq(s, size_of(cp) + 1, Len(s)))

Units(cp) == IF cp > \hFFFF THEN <<(cp \div 1024) + (\hD800 - 64), (cp % 1024) + \hDC00>> ELSE <<cp>>
utf8_to_utf16(s) == LET cps == utf8_to_utf32(s) IN FlattenSeq([i \in DOMAIN cps |-> Units(cps[i])])

utf32_to_utf8(cps) == encode_all(cps)

(* The trail of a pair takes the place of the lead before they are put     *)
(* together.                                                               *)
Leads == \hD800..\hDBFF
Trails == \hDC00..\hDFFF
RECURSIVE utf16_to_utf8(_)
utf16_to_utf8(u) ==
    IF u = <<>> THEN <<>>
    ELSE IF u[1] \in Leads
    THEN encode(((u[2] - \hD800) * 1024) + (u[2] - \hDC00) + \h10000) \o utf16_to_utf8(SubSeq(u, 3, Len(u)))
    ELSE encode(u[1]) \o utf16_to_utf8(Tail(u))
-----------------------------------------------------------------------------
clamp_cp(cp) == IF cp < 0 THEN 0 ELSE cp
Entry(table, cp, none) == LET c == clamp_cp(cp) IN IF c < TABLE_SIZE /\ c \in DOMAIN table THEN table[c] ELSE none

unicode_to_upper(cp, locale) ==
    IF locale = "Turkic" /\ clamp_cp(cp) = \h69 THEN \h130 ELSE Entry(Upper, cp, IF cp < 0 THEN 0 ELSE cp)
unicode_to_lower(cp, locale) ==
    IF locale = "Turkic" /\ clamp_cp(cp) = \h49 THEN \h131 ELSE Entry(Lower, cp, IF cp < 0 THEN 0 ELSE cp)

general_category == <<"Lu", "Ll", "Lt", "Lm", "Lo", "Mn", "Mc", "Me", "Nd", "Nl", "No", "Pc", "Pd", "Ps", "Pe", "Pi",
                      "Pf", "Po", "Sm", "Sc", "Sk", "So", "Zs", "Zl", "Zp", "Cc", "Cf", "Cs", "Co", "Cn">>
Order(gc) == CHOOSE i \in DOMAIN general_category : general_category[i] = gc
Between(gc, first, last) == Order(first) <= Order(gc) /\ Order(gc) <= Order(last)
unicode_get_general_category(cp) == Entry(Category, cp, "Cn")
unicode_is_letter(gc) == Between(gc, "Lu", "Lo")
unicode_is_mark(gc) == Between(gc, "Mn", "Me")
unicode_is_number(gc) == Between(gc, "Nd", "No")
unicode_is_punctuation(gc) == Between(gc, "Pc", "Po")
unicode_is_symbol(gc) == Between(gc, "Sm", "So")
unicode_is_separator(gc) == Between(gc, "Zs", "Zp")
unicode_is_other(gc) == Order(gc) >= Order("Cc")
unicode_combining_class(cp) == Entry(Class, cp, 0)
unicode_canonical_decompose(cp) == Entry(Decomposition, cp, <<cp>>)

(* Keys are the pairs in the order of (a << 21) | b.                       *)
Before(k, l) == k[1] < l[1] \/ (k[1] = l[1] /\ k[2] < l[2])
unicode_compose_pair(a, b) ==
    LET Find[lo \in Int, hi \in Int] ==
            LET mid == (lo + hi) \div 2
            IN  IF lo > hi THEN 0
                ELSE IF Before(CompKeys[mid + 1], <<a, b>>) THEN Find[mid + 1, hi]
                ELSE IF Before(<<a, b>>, CompKeys[mid + 1]) THEN Find[lo, mid - 1]
                ELSE CompValues[mid + 1]
    IN  Find[0, Len(CompKeys) - 1]
-----------------------------------------------------------------------------
(* One segment of the decomposed form: a code point and the marks after    *)
(* it, taken apart and in the order of their classes; the place after it.  *)
RECURSIVE Decomposed(_)
Decomposed(cp) ==
    LET d == unicode_canonical_decompose(cp)
    IN  IF Len(d) > 1 THEN FlattenSeq([i \in DOMAIN d |-> Decomposed(d[i])]) ELSE <<cp>>

Room(seg) == SubSeq(seg, 1, IF Len(seg) < SEGMENT THEN Len(seg) ELSE SEGMENT)
RECURSIVE Marks(_, _, _)
Marks(s, p, seg) ==
    IF p > Len(s) THEN [ok |-> TRUE, p |-> p, seg |-> seg]
    ELSE IF ~Whole(s, p) THEN [ok |-> FALSE, p |-> p, seg |-> seg]
    ELSE LET c == decode(s, p)
             more == Room(seg \o Decomposed(c))
         IN  IF unicode_combining_class(c) = 0 THEN [ok |-> TRUE, p |-> p, seg |-> seg]
             ELSE IF Len(more) >= SEGMENT THEN [ok |-> TRUE, p |-> p + size_at(s, p), seg |-> more]
             ELSE Marks(s, p + size_at(s, p), more)

Inserted(done, cp) ==
    LET above == Cardinality({i \in DOMAIN done : unicode_combining_class(done[i]) <= unicode_combining_class(cp)})
    IN  InsertAt(done, above + 1, cp)
Reordered(seg) ==
    IF seg = <<>> THEN seg
    ELSE IF unicode_combining_class(seg[1]) = 0
    THEN <<seg[1]>> \o FoldLeft(Inserted, <<>>, Tail(seg)) ELSE FoldLeft(Inserted, <<>>, seg)
utf8_segment_nfd(s, p) ==
    IF p > Len(s) \/ ~Whole(s, p) THEN [ok |-> FALSE, p |-> p, seg |-> <<>>]
    ELSE LET r == Marks(s, p + size_at(s, p), Room(Decomposed(decode(s, p)))) IN [r EXCEPT !.seg = Reordered(@)]

(* Composition of a segment: the place of the last starter in the part     *)
(* that is done and the class of the last mark left standing after it.     *)
ComposedOne(acc, c) ==
    LET cc == unicode_combining_class(c)
        composed == IF cc # 0 \/ acc.lastCC = 0 THEN unicode_compose_pair(acc.comp[acc.starter], c) ELSE 0
        added == Append(acc.comp, c)
    IN  IF composed # 0 /\ acc.lastCC < cc THEN [acc EXCEPT !.comp[acc.starter] = composed]
        ELSE IF cc = 0 THEN [comp |-> added, starter |-> Len(added), lastCC |-> 0]
        ELSE [acc EXCEPT !.comp = added, !.lastCC = cc]
Composed(seg) == FoldLeft(ComposedOne, [comp |-> <<seg[1]>>, starter |-> 1, lastCC |-> 0], Tail(seg)).comp

(* A run of ASCII is taken as it is, but for its last character when a     *)
(* mark follows; q is the place after the run.                             *)
RunEnd(s, p) == LET q == {i \in p..Len(s) : s[i] >= 128} IN IF q = {} THEN Len(s) + 1 ELSE Min(q)
CarriesNever(s, p, q) == FALSE        \* mutant: marks are cut off from their starter
Carries(s, p, q) == q > p /\ q <= Len(s) /\ Whole(s, q) /\ unicode_combining_class(decode(s, q)) # 0

Failed == <<>>
RECURSIVE ComposedFrom(_, _)
ComposedFrom(s, p) ==
    LET q == RunEnd(s, p)
        next == IF Carries(s, p, q) THEN q - 1 ELSE q
        r == utf8_segment_nfd(s, next)
        rest == ComposedFrom(s, r.p)
    IN  IF next > Len(s) THEN <<SubSeq(s, p, Len(s))>>
        ELSE IF ~r.ok \/ rest = Failed THEN Failed
        ELSE <<SubSeq(s, p, next - 1) \o encode_all(Composed(r.seg)) \o rest[1]>>
utf8_normalize_nfc(s) == ComposedFrom(s, 1)

RECURSIVE DecomposedFrom(_, _)
DecomposedFrom(s, p) ==
    LET r == utf8_segment_nfd(s, p)
        rest == DecomposedFrom(s, r.p)
    IN  IF p > Len(s) THEN <<<<>>>>
        ELSE IF ~r.ok \/ rest = Failed THEN Failed ELSE <<encode_all(r.seg) \o rest[1]>>
utf8_normalize_nfd(s) == DecomposedFrom(s, 1)

OrEmpty(r) == IF r = Failed THEN <<>> ELSE r[1]
make_string_normalized_nfc(s) == IF s = <<>> THEN <<>> ELSE OrEmpty(utf8_normalize_nfc(s))
-----------------------------------------------------------------------------
(* The code points that have an encoding.                                  *)
IsScalar(cp) == cp \in 0..\h10FFFF /\ cp \notin Leads \cup Trails

(* Bytes are one valid code point exactly when they are the encoding of a  *)
(* code point that is no surrogate, which is then what they decode to.     *)
ValidityAgrees(bytes) ==
    is_valid(bytes, 1) => LET cp == decode(bytes, 1) 
                          IN  IsScalar(cp) /\ encode(cp) = SubSeq(bytes, 1, size_at(bytes, 1))
EncodingAgrees(cp) == LET s == encode(cp)
                      IN  /\ is_valid(s, 1) = IsScalar(cp) /\ decode(s, 1) = cp
                          /\ Len(s) = size_of(cp) /\ size_at(s, 1) = Len(s)

(* Of the seven kinds of characters each is of one, that of its category;  *)
(* the two cases go to each other, save for the Turkic i.                  *)
Kinds == <<{"Lu", "Ll", "Lt", "Lm", "Lo"}, {"Mn", "Mc", "Me"}, {"Nd", "Nl", "No"},
           {"Pc", "Pd", "Ps", "Pe", "Pi", "Pf", "Po"}, {"Sm", "Sc", "Sk", "So"}, {"Zs", "Zl", "Zp"},
           {"Cc", "Cf", "Cs", "Co", "Cn"}>>
CharactersAgree(cp) ==
    LET gc == unicode_get_general_category(cp)
    IN  /\ <<unicode_is_letter(gc), unicode_is_mark(gc), unicode_is_number(gc), unicode_is_punctuation(gc),
             unicode_is_symbol(gc), unicode_is_separator(gc), unicode_is_other(gc)>>
              = [k \in DOMAIN Kinds |-> gc \in Kinds[k]]
        /\ unicode_to_lower(unicode_to_upper(cp, "Default"), "Default") = unicode_to_lower(cp, "Default")
        /\ unicode_to_upper(unicode_to_lower(cp, "Default"), "Default") = unicode_to_upper(cp, "Default")
        /\ unicode_to_upper(cp, "Turkic") # unicode_to_upper(cp, "Default") => cp = \h69
        /\ unicode_to_lower(cp, "Turkic") # unicode_to_lower(cp, "Default") => cp = \h49

(* Text is found whole exactly when it is the encoding of code points, and *)
(* goes to the other encodings and back.                                   *)
TextAgrees(cps) ==
    LET s == encode_all(cps)
    IN  /\ utf8_find_invalid(s) = -1 /\ utf8_length(s) = Len(cps)
        /\ \A i \in DOMAIN s : utf8_find_invalid(SubSeq(s, 1, i)) # -1
              <=> \A k \in 0..Len(cps) : i # Len(encode_all(SubSeq(cps, 1, k)))
        /\ \A i \in DOMAIN cps : decode(s, place_of(s, i - 1)) = cps[i]
        /\ utf8_to_utf32(s) = cps /\ utf32_to_utf8(cps) = s
        /\ (\A i \in DOMAIN cps : cps[i] <= \hFFFF) => utf16_to_utf8(utf8_to_utf16(s)) = s

(* The canonical forms as UAX 15 defines them: all decompositions, the     *)
(* marks between starters in the order of their classes; then each mark    *)
(* that nothing of its class or above, nor a starter, parts from the last  *)
(* starter joins it when there is a composition.                           *)
Ordered(cps) ==
    /\ \A i \in 1..(Len(cps) - 1) : LET next == unicode_combining_class(cps[i + 1])
                                    IN  next # 0 => unicode_combining_class(cps[i]) <= next
Everything(cps) == FlattenSeq([i \in DOMAIN cps |-> Decomposed(cps[i])])
IsNFD(cps, of) ==
    LET all == Everything(of)
        StartersTo(t, i) == Cardinality({k \in 1..i : unicode_combining_class(t[k]) = 0})
        Of(t, run, cc) == SelectSeq([i \in DOMAIN t |-> <<t[i], StartersTo(t, i)>>],
                                    LAMBDA x : x[2] = run /\ unicode_combining_class(x[1]) = cc)
        classes == {unicode_combining_class(all[i]) : i \in DOMAIN all}
    IN  /\ Ordered(cps) /\ Len(cps) = Len(all)
        /\ \A run \in 0..Len(all), cc \in classes : Of(cps, run, cc) = Of(all, run, cc)

Blocked(t, i, j) == \E k \in (i + 1)..(j - 1) :
                        unicode_combining_class(t[k]) \in {0} \cup {c \in 0..255 : c >= unicode_combining_class(t[j])}
Joined(t) == {<<i, j>> \in (DOMAIN t) \X (DOMAIN t) :
                 /\ i < j /\ unicode_combining_class(t[i]) = 0 /\ ~Blocked(t, i, j)
                 /\ unicode_combining_class(t[j]) # 0
                 /\ \E k \in DOMAIN CompKeys : CompKeys[k] = <<t[i], t[j]>>}
RECURSIVE NFCOf(_)
NFCOf(t) ==
    IF Joined(t) = {} THEN t
    ELSE LET first == CHOOSE x \in Joined(t) : \A y \in Joined(t) : x[2] <= y[2]
             k == CHOOSE n \in DOMAIN CompKeys : CompKeys[n] = <<t[first[1]], t[first[2]]>>
         IN  NFCOf(RemoveAt([t EXCEPT ![first[1]] = CompValues[k]], first[2]))

(* Text whose segments are no longer than the buffer.                      *)
Fits(cps) == \A i, j \in DOMAIN cps :
                 (i <= j /\ \A k \in (i + 1)..j : unicode_combining_class(cps[k]) # 0)
                 => Len(Everything(SubSeq(cps, i, j))) < SEGMENT

(* Normalised text is what UAX 15 says, of the same meaning, and a fixed   *)
(* point; invalid text gives nothing.                                      *)
NormalFormsAgree(cps) ==
    Fits(cps) => \A s \in {encode_all(cps)} : \A d \in {utf8_normalize_nfd(s)}, c \in {utf8_normalize_nfc(s)} :
        /\ IsNFD(utf8_to_utf32(d[1]), cps)
        /\ utf8_to_utf32(c[1]) = NFCOf(utf8_to_utf32(d[1]))
        /\ utf8_normalize_nfc(c[1]) = c /\ utf8_normalize_nfd(c[1]) = d
        /\ \A i \in DOMAIN s : utf8_find_invalid(SubSeq(s, 1, i)) # -1
              => make_string_normalized_nfc(SubSeq(s, 1, i)) = <<>>
=============================================================================
