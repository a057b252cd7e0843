-------------------------------- MODULE Strings --------------------------------
(***************************************************************************)
(* The string of string.h: bytes of UTF-8 and the room they are in, worked *)
(* on by the indices of code points, of which negative ones count from the *)
(* end.  A string of another's bytes (a view) has no room of its own and   *)
(* gets some when it is first changed.  Every operation that changes a     *)
(* string is a function to the string after it.                            *)
(***************************************************************************)
EXTENDS Unicode

String(bytes, room) == [Data |-> bytes, Allocated |-> room]
View(bytes) == String(bytes, 0)
Count(s) == Len(s.Data)
length(s) == utf8_length(s.Data)

Translated(index, len) == IF index < 0 THEN len + index ELSE index
Larger(a, b) == IF a > b THEN a ELSE b
CeilPow2(n) == 2 ^ Min({k \in 0..16 : 2 ^ k >= n})

reserve(s, n) == [s EXCEPT !.Allocated = IF n <= 0 THEN Larger(Count(s), 8) ELSE n]
maybe_grow(s, fit) ==
    LET target == Larger(CeilPow2(Count(s) + fit + 1), 8)
    IN  IF s.Allocated > 0 /\ Count(s) + fit <= s.Allocated THEN s ELSE reserve(s, target)
free(s) == String(<<>>, 0)

(* Where the code point with that index begins, from 0.                    *)
Offset(s, index) == place_of(s.Data, Translated(index, length(s))) - 1
get(s, index) == decode(s.Data, Offset(s, index) + 1)
Iterated(s) == [i \in 1..length(s) |-> get(s, i - 1)]

slice(s, begin, end) ==
    LET len == length(s)
        b == Translated(begin, len)
        e == Translated(end, len)
    IN  IF len = 0 THEN View(<<>>)
        ELSE View(SubSeq(s.Data, Offset(s, b) + 1, IF b < e THEN Offset(s, e) ELSE Offset(s, b)))
-----------------------------------------------------------------------------
(* Searching from Start on, to the end or back: the first index that does. *)
Found(s, Start, Reversed, Does(_)) ==
    LET len == length(s)
        start == Translated(Start, len)
        hits == {i \in IF Reversed THEN 0..start ELSE start..(len - 1) : Does(i)}
    IN  IF Start >= len \/ Start < -len \/ hits = {} THEN -1
        ELSE IF Reversed THEN Max(hits) ELSE Min(hits)

search_if(s, predicate(_), Start, Reversed) == Found(s, Start, Reversed, LAMBDA i : predicate(get(s, i)))
search_cp(s, cp, Start, Reversed) == search_if(s, LAMBDA c : c = cp, Start, Reversed)
search(s, what, Start, Reversed) ==
    LET MatchesAt(i) == \A progress \in 0..(length(what) - 1) :
                            i + progress < length(s) /\ get(s, i + progress) = get(what, progress)
    IN  IF Count(what) = 0 THEN -1 ELSE Found(s, Start, Reversed, MatchesAt)
has(s, what) == search(s, what, 0, FALSE) # -1
has_cp(s, cp) == has(s, View(encode(cp)))

White == {32, 10, 13, 9, 11, 12}
IsText(cp) == cp \notin White
trim_start(s) == slice(s, search_if(s, IsText, 0, FALSE), length(s))
trim_end(s) == slice(s, 0, search_if(s, IsText, -1, TRUE) + 1)
trim(s) == trim_end(trim_start(s))

match_beginning(s, str) == Count(str) <= Count(s) /\ SubSeq(s.Data, 1, Count(str)) = str.Data
match_end(s, str) == Count(str) <= Count(s) /\ SubSeq(s.Data, Count(s) - Count(str) + 1, Count(s)) = str.Data

(* Comparing: both from the code points at p and q on, index of which      *)
(* were the same.  The index of a string that ends first is one less.      *)
Same(cp) == cp
Lowered(cp) == unicode_to_lower(cp, "Default")
RECURSIVE Differs(_, _, _, _, _, _)
Differs(a, b, fold, p, q, index) ==
    LET x == decode(a, p)
        y == decode(b, q)
        pn == p + size_at(a, p)
        qn == q + size_at(b, q)
    IN  IF fold[x] # fold[y] THEN [at |-> index, order |-> IF fold[x] < fold[y] THEN -1 ELSE 1]
        ELSE IF pn > Len(a) /\ qn > Len(b) THEN [at |-> -1, order |-> 0]
        ELSE IF pn > Len(a) \/ qn > Len(b) THEN [at |-> index, order |-> IF pn > Len(a) THEN -1 ELSE 1]
        ELSE Differs(a, b, fold, pn, qn, index + 1)
Comparison(s, other, Fold(_)) ==
    LET cps == {get(s, i) : i \in 0..(length(s) - 1)} \cup {get(other, i) : i \in 0..(length(other) - 1)}
    IN  IF s.Data = <<>> /\ other.Data = <<>> THEN [at |-> -1, order |-> 0]
        ELSE IF s.Data = <<>> \/ other.Data = <<>> THEN [at |-> 0, order |-> IF s.Data = <<>> THEN -1 ELSE 1]
        ELSE Differs(s.Data, other.Data, [cp \in cps |-> Fold(cp)], 1, 1, 0)
compare(s, other) == Comparison(s, other, Same).at
compare_ignore_case(s, other) == Comparison(s, other, Lowered).at
compare_lexicographically(a, b) == Comparison(a, b, Same).order
compare_lexicographically_ignore_case(a, b) == Comparison(a, b, Lowered).order
strings_match(a, b) == compare(a, b) = -1
-----------------------------------------------------------------------------
Spliced(s, begin, end, bytes) == SubSeq(s.Data, 1, begin) \o bytes \o SubSeq(s.Data, end + 1, Count(s))

insert_at_index(s, index, bytes) ==
    LET t == Offset(s, index) IN [maybe_grow(s, Len(bytes)) EXCEPT !.Data = Spliced(s, t, t, bytes)]
add(s, bytes) == insert_at_index(s, length(s), bytes)
make_string(bytes) == add(reserve(View(<<>>), Len(bytes)), bytes)
clone(s) == make_string(s.Data)

replace_range_bytes(s, begin, end, by) ==
    [maybe_grow(s, Len(by) - (end - begin)) EXCEPT !.Data = Spliced(s, begin, end, by)]
replace_range(s, begin, end, by) ==
    IF length(s) = 0 THEN s ELSE replace_range_bytes(s, Offset(s, begin), Offset(s, end), by)
set(s, index, cp) ==
    LET t == Offset(s, index) IN replace_range_bytes(s, t, t + size_at(s.Data, t + 1), encode(cp))

remove_range_bytes(s, begin, end) == [s EXCEPT !.Data = Spliced(s, begin, end, <<>>)]
remove_range(s, begin, end) ==
    IF length(s) = 0 THEN s ELSE remove_range_bytes(s, Offset(s, begin), Offset(s, end))
remove_at_index(s, index) ==
    LET t == Offset(s, index) IN remove_range_bytes(s, t, t + size_at(s.Data, t + 1))
remove(s, cp) ==
    LET index == search(s, View(encode(cp)), 0, FALSE)
    IN  IF index = -1 THEN s ELSE remove_range(s, index, index + 1)

(* As many bytes as before: in place, where the first byte, a char, is the *)
(* first code point of what is looked for.                                 *)
Begins(byte, cp) == (IF byte > 127 THEN byte - 256 ELSE byte) = cp
RECURSIVE InPlace(_, _, _, _)
InPlace(bytes, p, what, by) ==
    IF p + Len(what) - 1 > Len(bytes) THEN bytes
    ELSE IF Begins(bytes[p], decode(what, 1)) /\ SubSeq(bytes, p, p + Len(what) - 1) = what
    THEN InPlace(SubSeq(bytes, 1, p - 1) \o by \o SubSeq(bytes, p + Len(what), Len(bytes)),
                 p + Len(what), what, by)
    ELSE InPlace(bytes, p + 1, what, by)

(* The search goes on after what was put in.                               *)
After(i, what, by) == i + utf8_length(by)
RECURSIVE ReplacedFrom(_, _, _, _)
ReplacedFrom(s, from, what, by) ==
    LET i == search(s, View(what), from, FALSE)
    IN  IF i = -1 THEN s
        ELSE ReplacedFrom(replace_range(s, i, i + utf8_length(what), by), After(i, what, by), what, by)
replace_all(s, what, by) ==
    IF s.Data = <<>> THEN s
    ELSE IF Len(what) = Len(by) THEN [s EXCEPT !.Data = InPlace(@, 1, what, by)]
    ELSE ReplacedFrom(s, 0, what, by)
remove_all(s, what) == replace_all(s, what, <<>>)
-----------------------------------------------------------------------------
(* Null-terminated strings, without their null.                            *)
CharAt(c, i) == IF i > Len(c) THEN 0 ELSE c[i]
RECURSIVE OrderFrom(_, _, _)
OrderFrom(one, other, i) ==
    IF CharAt(one, i) # 0 /\ CharAt(one, i) = CharAt(other, i) THEN OrderFrom(one, other, i + 1)
    ELSE IF CharAt(one, i) > CharAt(other, i) THEN 1 ELSE IF CharAt(other, i) > CharAt(one, i) THEN -1 ELSE 0
c_string_order(one, other) == OrderFrom(one, other, 1)
RECURSIVE FirstDiffFrom(_, _, _)
FirstDiffFrom(one, other, index) ==
    IF CharAt(one, index + 1) # CharAt(other, index + 1) THEN index
    ELSE IF index + 1 >= Len(one) /\ index + 1 >= Len(other) THEN -1
    ELSE IF index + 1 >= Len(one) \/ index + 1 >= Len(other) THEN index
    ELSE FirstDiffFrom(one, other, index + 1)
c_string_find_first_diff(one, other) == IF one = <<>> /\ other = <<>> THEN -1 ELSE FirstDiffFrom(one, other, 0)
-----------------------------------------------------------------------------
(* What each operation is on the code points themselves.                   *)
Text(cps) == View(encode_all(cps))
Cps(s) == utf8_to_utf32(s.Data)
Cut(cps, begin, end) == SubSeq(cps, begin + 1, end)

(* The bytes of a string that was changed are in its own room.             *)
Holds(s, cps) == Cps(s) = cps /\ Count(s) <= s.Allocated

Agree(a, b, i) == i < Len(a) /\ i < Len(b) /\ a[i + 1] = b[i + 1]
FirstDifference(a, b) == Min({i \in 0..(Len(a) + Len(b)) : ~Agree(a, b, i)})
Precedes(a, b) == LET d == FirstDifference(a, b)
                  IN  d >= Len(a) \/ (d < Len(b) /\ a[d + 1] < b[d + 1])
Match(cps, what, i) == i + Len(what) <= Len(cps) /\ SubSeq(cps, i + 1, i + Len(what)) = what

AllLowered(cps) == [i \in DOMAIN cps |-> Lowered(cps[i])]

(* Looking through text by bytes finds what is there by code points, from  *)
(* either end, and orders strings as their code points are.                *)
ReadsAgree(a, b) ==
    LET s == Text(a)
        t == Text(b)
        hits == {i \in 0..(Len(a) - 1) : b # <<>> /\ Match(a, b, i)}
        keep == {i \in DOMAIN a : IsText(a[i])}
    IN  /\ Iterated(s) = a
        /\ \A i \in DOMAIN a : get(s, i - 1 - Len(a)) = a[i]
        /\ \A i, j \in 0..Len(a) : Cps(slice(s, i, j)) = Cut(a, i, j)
        /\ search(s, t, 0, FALSE) = Min(hits \cup (IF hits = {} THEN {-1} ELSE {}))
        /\ search(s, t, -1, TRUE) = Max(hits \cup {-1})
        /\ has(s, t) = (hits # {})
        /\ match_beginning(s, t) = Match(a, b, 0)
        /\ match_end(s, t) = Match(a, b, Larger(Len(a) - Len(b), 0))
        /\ Cps(trim(s)) = (IF keep = {} THEN <<>> ELSE SubSeq(a, Min(keep), Max(keep)))
        /\ \A i \in DOMAIN a : /\ has_cp(s, a[i])
                               /\ search_cp(s, a[i], 0, FALSE) = Min({j \in DOMAIN a : a[j] = a[i]}) - 1
                               /\ search_cp(s, a[i], -1, TRUE) = Max({j \in DOMAIN a : a[j] = a[i]}) - 1
        /\ strings_match(s, t) = (a = b)
        /\ FirstDifference(a, b) < Min({Len(a), Len(b)}) => compare(s, t) = FirstDifference(a, b)
        /\ compare_lexicographically(s, t) = (IF a = b THEN 0 ELSE IF Precedes(a, b) THEN -1 ELSE 1)
        /\ compare_lexicographically(s, t) = c_string_order(a, b)
        /\ compare_ignore_case(s, t) = compare(Text(AllLowered(a)), Text(AllLowered(b)))
        /\ compare_lexicographically_ignore_case(s, t)
              = compare_lexicographically(Text(AllLowered(a)), Text(AllLowered(b)))
        /\ (c_string_find_first_diff(a, b) = -1) = (a = b)

(* Changing text by bytes changes the code points that were meant and no   *)
(* others, within room that suffices.                                      *)
EditsAgree(a, b) ==
    LET s == clone(Text(a))
        bytes == encode_all(b)
    IN  /\ Holds(s, a) /\ Holds(add(s, bytes), a \o b)
        /\ \A i \in 0..Len(a) : \A x \in {s, Text(a)} :
              Holds(insert_at_index(x, i, bytes), Cut(a, 0, i) \o b \o Cut(a, i, Len(a)))
        /\ \A i \in 0..(Len(a) - 1) :
              /\ Holds(remove_at_index(s, i), RemoveAt(a, i + 1))
              /\ Holds(remove(s, a[i + 1]), RemoveFirst(a, a[i + 1]))
              /\ \A cp \in ToSet(b) : Holds(set(s, i, cp), [a EXCEPT ![i + 1] = cp])
              /\ \A j \in i..Len(a) :
                    /\ Holds(replace_range(s, i, j, bytes), Cut(a, 0, i) \o b \o Cut(a, j, Len(a)))
                    /\ Holds(remove_range(s, i, j), Cut(a, 0, i) \o Cut(a, j, Len(a)))

(* Every occurrence from the left is replaced, and none is made anew; of   *)
(* as many bytes, only what begins with ASCII.                             *)
RECURSIVE Replaced(_, _, _)
Replaced(cps, what, by) ==
    IF cps = <<>> THEN <<>>
    ELSE IF Match(cps, what, 0) THEN by \o Replaced(Cut(cps, Len(what), Len(cps)), what, by)
    ELSE <<cps[1]>> \o Replaced(Tail(cps), what, by)
ReplacementAgrees(a, what, by) ==
    LET w == encode_all(what)
        r == encode_all(by)
    IN  (Len(w) = Len(r) => what[1] < 128)
        => Holds(replace_all(clone(Text(a)), w, r), Replaced(a, what, by))
=============================================================================
