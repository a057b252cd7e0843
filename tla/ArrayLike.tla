------------------------------ MODULE ArrayLike ------------------------------
(***************************************************************************)
(* Dynamic arrays (array_like.h, array.h): Data, Count and Allocated over  *)
(* blocks of cells.  An array with Allocated = 0 is a view on cells that   *)
(* something else owns; it turns into an owner when it grows.  Indices     *)
(* count from 0 as in the code, the cells of a block from 1.               *)
(***************************************************************************)
EXTENDS Integers, Sequences, SequencesExt, FiniteSets, FiniteSetsExt

CONSTANTS
    T,              \* what may be an element
    Given,          \* sequences of elements to insert, search and replace
    Junk,           \* what a fresh cell holds
    Arrays,         \* names of arrays
    Blocks,         \* numbers of blocks
    NoData,         \* a null Data
    MinAllocated,   \* the least growth, 8 in the code
    MaxCount        \* bound on the elements of each array

(* Memory suffices: there are more blocks than arrays that could own one.  *)
ArrayLikeAssumption ==
    /\ Junk \notin T /\ Given \subseteq Seq(T) /\ NoData \notin Blocks
    /\ IsFiniteSet(Arrays) /\ IsFiniteSet(Blocks) /\ Cardinality(Arrays) < Cardinality(Blocks)
    /\ MinAllocated \in Nat \ {0} /\ MaxCount \in [Arrays -> Nat]

VARIABLES
    blocks,     \* the cells of every block, << >> when it is free
    arr,        \* [Data, First, Count, Allocated] of every array; First is
                \* how far Data points into its block
    want        \* ghost: the elements an owner was given

vars == <<blocks, arr, want>>

Elements(a) == IF a.Count = 0 THEN << >>
               ELSE SubSeq(blocks[a.Data], a.First + 1, a.First + a.Count)

-----------------------------------------------------------------------------
(* Indices from the end are negative; other than this bounds are asserted. *)
Translate(index, length) == IF index < 0 THEN length + index ELSE index

InBounds(index, length, tolerateOnePastLast) ==
    Translate(index, length) \in 0..(length - IF tolerateOnePastLast THEN 0 ELSE 1)

(* The loop of search: over the indices from Start to the end, or down to  *)
(* the beginning, to the first one among hits.                             *)
LoopTo(start, end, step, hits) ==
    LET From[i \in Min({start, end})..Max({start, end})] ==
            IF i = end THEN -1 ELSE IF i \in hits THEN i ELSE From[i + step]
    IN  From[start]

SearchPredicate(s, Predicate(_), start, reversed) ==
    IF s = << >> THEN -1
    ELSE LoopTo(Translate(start, Len(s)), IF reversed THEN -1 ELSE Len(s),
                IF reversed THEN -1 ELSE 1,
                {i \in 0..(Len(s) - 1) : Predicate(s[i + 1])})

(* How many elements of search agree with s from index it on.              *)
Progress(s, it, search) ==
    LET From[n \in 0..Len(search)] ==
            IF n < Len(search) /\ it + n < Len(s) /\ s[it + n + 1] = search[n + 1]
            THEN From[n + 1] ELSE n
    IN  From[0]

Search(s, search, start, reversed) ==
    IF s = << >> \/ search = << >> THEN -1
    ELSE LoopTo(Translate(start, Len(s)), IF reversed THEN -1 ELSE Len(s),
                IF reversed THEN -1 ELSE 1,
                {i \in 0..(Len(s) - 1) : Progress(s, i, search) = Len(search)})

(* -1 for equal, or the index of the first difference.                     *)
Compare(s, t) ==
    IF s = << >> /\ t = << >> THEN -1
    ELSE IF s = << >> \/ t = << >> THEN 0
    ELSE LET p == Progress(s, 0, t)
         IN  IF p = Len(s) /\ p = Len(t) THEN -1 ELSE p

CompareLexicographically(s, t, Less(_, _)) ==
    IF s = << >> /\ t = << >> THEN 0
    ELSE IF s = << >> THEN -1
    ELSE IF t = << >> THEN 1
    ELSE LET p == Progress(s, 0, t)
         IN  CASE p = Len(s) /\ p = Len(t) -> 0
               [] p = Len(s) /\ p # Len(t) -> -1
               [] p # Len(s) /\ p = Len(t) -> 1
               [] OTHER -> IF Less(s[p + 1], t[p + 1]) THEN -1 ELSE 1

-----------------------------------------------------------------------------
(* Mutant: an ascending copy, which smears what it moves up by one.        *)
CopiedUp(cells, to, from, n) ==
    FoldLeft(LAMBDA c, i : [c EXCEPT ![to + i] = c[from + i]], cells, [i \in 1..n |-> i])

(* A memory is a record of blocks and of the array that an operation works *)
(* on.  memcpy is memmove when the ranges overlap (memory.cpp).            *)
Copied(cells, to, from, n) ==
    [i \in DOMAIN cells |-> IF i - 1 \in to..(to + n - 1)
                            THEN cells[i - to + from] ELSE cells[i]]

Written(cells, to, s) ==
    [i \in DOMAIN cells |-> IF i - to \in 1..Len(s) THEN s[i - to] ELSE cells[i]]

(* realloc stays in place or moves; malloc takes a free block.  A view's   *)
(* elements are copied and its old cells left to their owner.              *)
Reserved(m, n, moves) ==
    LET a == m.a
        size == IF n <= 0 THEN Max({a.Count, MinAllocated}) ELSE n
        held == IF a.Data = NoData THEN << >>
                ELSE SubSeq(m.blocks[a.Data], a.First + 1,
                            a.First + IF a.Allocated > 0 THEN a.Allocated ELSE a.Count)
        to == IF a.Allocated > 0 /\ ~moves THEN a.Data
              ELSE CHOOSE b \in Blocks : m.blocks[b] = << >>
        cells == [i \in 1..size |-> IF i <= Len(held) THEN held[i] ELSE Junk]
        others == IF a.Allocated > 0 THEN [m.blocks EXCEPT ![a.Data] = << >>] ELSE m.blocks
    IN  [blocks |-> [others EXCEPT ![to] = cells],
         a |-> [Data |-> to, First |-> 0, Count |-> a.Count, Allocated |-> size]]

Pow2[n \in Nat] == IF n = 0 THEN 1 ELSE 2 * Pow2[n - 1]
CeilPowOf2(x) == Pow2[Min({n \in 0..x : x <= Pow2[n]})]

MaybeGrown(m, fit, moves) ==
    IF m.a.Count + fit <= m.a.Allocated THEN m
    ELSE Reserved(m, Max({CeilPowOf2(m.a.Count + fit + 1), MinAllocated}), moves)

Inserted(m, index, s, moves) ==
    LET g == MaybeGrown(m, Len(s), moves)
        a == g.a
        where == a.First + Translate(index, a.Count)
        apart == Copied(g.blocks[a.Data], where + Len(s), where, a.First + a.Count - where)
    IN  IF s = << >> THEN m
        ELSE [blocks |-> [g.blocks EXCEPT ![a.Data] = Written(apart, where, s)],
              a |-> [a EXCEPT !.Count = @ + Len(s)]]

RemovedOrderedAt(m, index) ==
    LET where == m.a.First + Translate(index, m.a.Count)
    IN  [blocks |-> [m.blocks EXCEPT ![m.a.Data] =
                        Copied(@, where, where + 1, m.a.First + m.a.Count - where - 1)],
         a |-> [m.a EXCEPT !.Count = @ - 1]]

RemovedUnorderedAt(m, index) ==
    LET where == m.a.First + Translate(index, m.a.Count)
        cells == m.blocks[m.a.Data]
    IN  [blocks |-> [m.blocks EXCEPT ![m.a.Data] =
                        Written(cells, where, <<cells[m.a.First + m.a.Count]>>)],
         a |-> [m.a EXCEPT !.Count = @ - 1]]

RemovedRange(m, begin, end) ==
    LET tp == Translate(begin, m.a.Count)
        te == Translate(end, m.a.Count)
    IN  [blocks |-> [m.blocks EXCEPT ![m.a.Data] =
                        Copied(@, m.a.First + tp, m.a.First + te, m.a.Count - te)],
         a |-> [m.a EXCEPT !.Count = @ - (te - tp)]]

ReplacedRange(m, begin, end, s, moves) ==
    LET targetBegin == Translate(begin, m.a.Count)
        whereSize == Translate(end, m.a.Count) - targetBegin
        diff == Len(s) - whereSize
        g == IF diff > 0 THEN MaybeGrown(m, diff, moves) ELSE m
        where == g.a.First + targetBegin
        apart == Copied(g.blocks[g.a.Data], where + Len(s), where + whereSize,
                        g.a.Count - targetBegin - whereSize)
    IN  [blocks |-> [g.blocks EXCEPT ![g.a.Data] = Written(apart, where, s)],
         a |-> [g.a EXCEPT !.Count = @ + diff]]

ElementsOf(m) == IF m.a.Count = 0 THEN << >>
                 ELSE SubSeq(m.blocks[m.a.Data], m.a.First + 1, m.a.First + m.a.Count)

(* Equal counts: over the elements in place.                               *)
ReplacedInPlace(m, search, replace) ==
    LET After[turn \in 0..m.a.Count] ==
            IF turn = 0 THEN [m |-> m, p |-> 0]
            ELSE LET was == After[turn - 1]
                 IN  IF was.p >= m.a.Count THEN was
                     ELSE IF Progress(ElementsOf(was.m), was.p, search) = Len(search)
                     THEN [m |-> [was.m EXCEPT !.blocks[m.a.Data] =
                                     Written(@, m.a.First + was.p, replace)],
                           p |-> was.p + Len(replace)]
                     ELSE [was EXCEPT !.p = @ + 1]
    IN  After[m.a.Count].m

(* Other counts: search and replace_range, on from what was put there.     *)
ReplacedOneByOne(m, search, replace, moves) ==
    LET After[turn \in 0..m.a.Count] ==
            IF turn = 0 THEN [m |-> m, i |-> 0]
            ELSE LET was == After[turn - 1]
                     found == Search(ElementsOf(was.m), search, was.i, FALSE)
                 IN  IF was.i >= was.m.a.Count THEN was
                     ELSE IF found = -1 THEN [was EXCEPT !.i = was.m.a.Count]
                     ELSE [m |-> ReplacedRange(was.m, found, found + Len(search), replace, moves),
                           i |-> found + Len(replace)]
    IN  After[m.a.Count].m

ReplacedAll(m, search, replace, moves) ==
    IF m.a.Count = 0 THEN m
    ELSE IF Len(search) = Len(replace) THEN ReplacedInPlace(m, search, replace)
    ELSE ReplacedOneByOne(m, search, replace, moves)

-----------------------------------------------------------------------------
NewArray == [Data |-> NoData, First |-> 0, Count |-> 0, Allocated |-> 0]

Init == /\ blocks = [b \in Blocks |-> << >>]
        /\ arr = [x \in Arrays |-> NewArray]
        /\ want = [x \in Arrays |-> << >>]

Memory(x) == [blocks |-> blocks, a |-> arr[x]]
Owns(x) == arr[x].Allocated > 0

(* What a view shows is still there.                                       *)
Usable(x) == arr[x].Count > 0 =>
                 arr[x].First + arr[x].Count <= Len(blocks[arr[x].Data])

(* x becomes what operation m made of it; it owns its cells from there on. *)
(* The cells past Count, which nobody may read, are taken for fresh ones.  *)
Becomes(x, m, elements) ==
    /\ blocks' = IF m.a.Allocated = 0 THEN m.blocks
                 ELSE [m.blocks EXCEPT ![m.a.Data] =
                         SubSeq(@, 1, m.a.Count) \o [i \in 1..(Len(@) - m.a.Count) |-> Junk]]
    /\ arr' = [arr EXCEPT ![x] = m.a]
    /\ want' = [want EXCEPT ![x] = elements]

(* Only what grows beyond its block moves.                                 *)
MayMove(x, count) == 0 < arr[x].Allocated /\ arr[x].Allocated < count

(* insert_at_index and add, of an element, of several or of an array.      *)
Insert(x, index, s, moves) ==
    /\ Usable(x) /\ InBounds(index, arr[x].Count, TRUE)
    /\ arr[x].Count + Len(s) <= MaxCount[x]
    /\ moves => MayMove(x, arr[x].Count + Len(s))
    /\ LET e == Elements(arr[x])
           i == Translate(index, Len(e))
       IN  Becomes(x, Inserted(Memory(x), index, s, moves),
                   SubSeq(e, 1, i) \o s \o SubSeq(e, i + 1, Len(e)))

(* A copy of what array y shows, which may be x or a view into x, at the   *)
(* end of x.  The caller sees to the room: growth would free what it reads.*)
AddArray(x, y) ==
    /\ Owns(x) /\ Usable(y) /\ arr[y].Count > 0
    /\ arr[x].Count + arr[y].Count <= MaxCount[x]
    /\ arr[x].Count + arr[y].Count <= arr[x].Allocated
    /\ Becomes(x, Inserted(Memory(x), arr[x].Count, Elements(arr[y]), FALSE),
               want[x] \o Elements(arr[y]))

Reserve(x, n, moves) ==
    /\ Usable(x) /\ n \notin 1..(arr[x].Count - 1) /\ n <= MaxCount[x]
    /\ Becomes(x, Reserved(Memory(x), n, moves), Elements(arr[x]))

RemoveOrderedAt(x, index) ==
    /\ Owns(x) /\ InBounds(index, arr[x].Count, FALSE)
    /\ Becomes(x, RemovedOrderedAt(Memory(x), index),
               RemoveAt(want[x], Translate(index, arr[x].Count) + 1))

RemoveUnorderedAt(x, index) ==
    /\ Owns(x) /\ InBounds(index, arr[x].Count, FALSE)
    /\ LET i == Translate(index, arr[x].Count) + 1
       IN  Becomes(x, RemovedUnorderedAt(Memory(x), index),
                   Front([want[x] EXCEPT ![i] = Last(want[x])]))

(* remove_ordered and remove_unordered search for the element first.       *)
RemoveElement(x, element, ordered) ==
    LET i == SearchPredicate(Elements(arr[x]), LAMBDA e : e = element, 0, FALSE)
    IN  /\ Owns(x) /\ i # -1
        /\ IF ordered
           THEN Becomes(x, RemovedOrderedAt(Memory(x), i), RemoveFirst(want[x], element))
           ELSE RemoveUnorderedAt(x, i)

RemoveRange(x, begin, end) ==
    /\ Owns(x) /\ InBounds(begin, arr[x].Count, FALSE) /\ InBounds(end, arr[x].Count, TRUE)
    /\ Translate(begin, arr[x].Count) <= Translate(end, arr[x].Count)
    /\ Becomes(x, RemovedRange(Memory(x), begin, end),
               SubSeq(want[x], 1, Translate(begin, arr[x].Count))
               \o SubSeq(want[x], Translate(end, arr[x].Count) + 1, arr[x].Count))

ReplaceRange(x, begin, end, s, moves) ==
    /\ Owns(x) /\ InBounds(begin, arr[x].Count, FALSE) /\ InBounds(end, arr[x].Count, TRUE)
    /\ LET b == Translate(begin, arr[x].Count)
           e == Translate(end, arr[x].Count)
           count == arr[x].Count - (e - b) + Len(s)
       IN  /\ b <= e /\ count <= MaxCount[x] /\ (moves => MayMove(x, count))
           /\ Becomes(x, ReplacedRange(Memory(x), begin, end, s, moves),
                      SubSeq(want[x], 1, b) \o s \o SubSeq(want[x], e + 1, arr[x].Count))

(* What replace_all should make of s: from the left, every occurrence.     *)
AllReplaced(s, search, replace) ==
    LET From[i \in 1..(Len(s) + 1)] ==
            IF i > Len(s) THEN << >>
            ELSE IF IsPrefix(search, SubSeq(s, i, Len(s)))
            THEN replace \o From[i + Len(search)]
            ELSE <<s[i]>> \o From[i + 1]
    IN  From[1]

(* replace_all, and remove_all with nothing to replace by.                 *)
ReplaceEvery(x, search, replace, moves) ==
    /\ Owns(x) /\ search # << >>
    /\ LET all == AllReplaced(want[x], search, replace)
       IN  /\ Len(all) <= MaxCount[x] /\ (moves => MayMove(x, Len(all)))
           /\ Becomes(x, ReplacedAll(Memory(x), search, replace, moves), all)

(* slice and array(data, count): a view, which owns nothing.               *)
Slice(x, y, begin, end) ==
    /\ x # y /\ ~Owns(y) /\ Usable(x) /\ arr[x].Data # NoData
    /\ InBounds(begin, arr[x].Count, TRUE) /\ InBounds(end, arr[x].Count, TRUE)
    /\ Translate(begin, arr[x].Count) <= Translate(end, arr[x].Count)
    /\ LET b == Translate(begin, arr[x].Count)
           e == Translate(end, arr[x].Count)
       IN  /\ e - b <= MaxCount[y]
           /\ arr' = [arr EXCEPT ![y] = [Data |-> arr[x].Data, First |-> arr[x].First + b,
                                         Count |-> e - b, Allocated |-> 0]]
    /\ want' = [want EXCEPT ![y] = << >>]
    /\ UNCHANGED blocks

(* make_array and clone: elements added to a new array.                    *)
Clone(x, y) ==
    /\ x # y /\ ~Owns(y) /\ Usable(x) /\ arr[x].Count <= MaxCount[y]
    /\ Becomes(y, Inserted([blocks |-> blocks, a |-> NewArray], 0, Elements(arr[x]), TRUE),
               Elements(arr[x]))

Free(x) ==
    /\ blocks' = IF Owns(x) THEN [blocks EXCEPT ![arr[x].Data] = << >>] ELSE blocks
    /\ arr' = [arr EXCEPT ![x] = [@ EXCEPT !.Count = 0, !.Allocated = 0]]
    /\ want' = [want EXCEPT ![x] = << >>]

Indices(x) == (-1)..MaxCount[x]

Next ==
    \E x \in Arrays :
        \/ \E i \in Indices(x), s \in Given, moves \in BOOLEAN : Insert(x, i, s, moves)
        \/ \E y \in Arrays : AddArray(x, y)
        \/ \E n \in {-1, MaxCount[x]}, moves \in BOOLEAN : Reserve(x, n, moves)
        \/ \E i \in Indices(x) : RemoveOrderedAt(x, i) \/ RemoveUnorderedAt(x, i)
        \/ \E e \in T, ordered \in BOOLEAN : RemoveElement(x, e, ordered)
        \/ \E i, j \in Indices(x) : RemoveRange(x, i, j)
        \/ \E i, j \in Indices(x), s \in Given, moves \in BOOLEAN : ReplaceRange(x, i, j, s, moves)
        \/ \E s, r \in Given, moves \in BOOLEAN : ReplaceEvery(x, s, r, moves)
        \/ \E y \in Arrays, i, j \in Indices(x) : Slice(x, y, i, j)
        \/ \E y \in Arrays : Clone(x, y)
        \/ Free(x)

Spec == Init /\ [][Next]_vars

-----------------------------------------------------------------------------
TypeOK == /\ \A x \in Arrays : Len(want[x]) <= MaxCount[x]
          /\ \A b \in Blocks : \A i \in DOMAIN blocks[b] : blocks[b][i] \in T \cup {Junk}

(* An array holds what its own operations made, whatever is done with views*)
(* on it, and when growth moves it; a block belongs to one array and is    *)
(* freed with it.                                                          *)
ArraysHold ==
    /\ \A x \in Arrays : Owns(x) => /\ arr[x].Allocated = Len(blocks[arr[x].Data])
                                    /\ arr[x].Count <= arr[x].Allocated
                                    /\ Elements(arr[x]) = want[x]
    /\ \A x, y \in Arrays : x # y /\ Owns(x) /\ Owns(y) => arr[x].Data # arr[y].Data
    /\ \A b \in Blocks : blocks[b] # << >> => \E x \in Arrays : Owns(x) /\ arr[x].Data = b

(* The searching and comparing loops against occurrences and prefixes, over*)
(* the contents of the arrays.                                             *)
SearchesAgree ==
    \A x, y \in {z \in Arrays : Owns(z)} :
        LET s == want[x]
            t == want[y]
            at == {i \in 0..(Len(s) - Len(t)) : SubSeq(s, i + 1, i + Len(t)) = t}
            k == Len(LongestCommonPrefix({s, t}))
        IN  /\ \A i \in 0..(Len(s) - 1) : t # << >> =>
                  /\ LET after == {j \in at : j >= i}
                     IN  Search(s, t, i, FALSE) = IF after = {} THEN -1 ELSE Min(after)
                  /\ Search(s, t, i, TRUE) = Max({j \in at : j <= i} \cup {-1})
            /\ Compare(s, t) = IF s = t THEN -1 ELSE k
            /\ CompareLexicographically(s, t, <) =
                   CASE s = t -> 0
                     [] IsStrictPrefix(s, t) -> -1
                     [] IsStrictPrefix(t, s) -> 1
                     [] OTHER -> IF s[k + 1] < t[k + 1] THEN -1 ELSE 1
=============================================================================
