--------------------------------- MODULE Xar ---------------------------------
(***************************************************************************)
(* The exponential array (xar.h) and the string builder on it              *)
(* (string_builder.h): elements in chunks that never move, the first two   *)
(* of 2^BASE_SHIFT elements and every further one twice the one before.    *)
(* With STACK_FIRST the first chunk is part of the array itself.           *)
(***************************************************************************)
EXTENDS Integers, Sequences, SequencesExt, FiniteSetsExt

CONSTANTS
    T,              \* what may be an element
    Junk,           \* what a fresh cell holds
    N,              \* the number of chunks
    BASE_SHIFT,
    MaxElements     \* bound, at most what the chunks hold

(* 1 << n.                                                                 *)
Pow2[n \in Nat] == IF n = 0 THEN 1 ELSE 2 * Pow2[n - 1]

base_size == Pow2[BASE_SHIFT]
XarAssumption == /\ Junk \notin T /\ N \in Nat \ {0} /\ BASE_SHIFT \in Nat
                 /\ MaxElements \in 0..(base_size * Pow2[N - 1])

VARIABLES
    STACK_FIRST,
    Chunks,     \* the cells of chunks 0 to N - 1, << >> for null
    Count,
    added       \* ghost: the elements it should hold

vars == <<STACK_FIRST, Chunks, Count, added>>

(* The highest bit that is set (bits.h).                                   *)
msb(x) == CHOOSE b \in 0..N : Pow2[b] <= x /\ x < Pow2[b + 1]

ChunkSize(i) == IF i <= 1 THEN base_size ELSE base_size * Pow2[i - 1]

(* get: in which chunk an index is, and where in it.                       *)
Place(index) ==
    LET units == index \div base_size
    IN  IF units > 0
        THEN LET c == msb(units) IN <<c + 1, index - Pow2[c + BASE_SHIFT]>>
        ELSE <<0, index>>

Get(chunks, index) == chunks[Place(index)[1]][Place(index)[2] + 1]
Put(chunks, index, e) ==
    [chunks EXCEPT ![Place(index)[1]] = [@ EXCEPT ![Place(index)[2] + 1] = e]]

-----------------------------------------------------------------------------
(* reserve: the chunks there are, from the first on, and then the missing  *)
(* ones until the capacity suffices.                                       *)
NextIndex == Min({i \in 0..N : i = N \/ Chunks[i] = << >>})
Capacity(n) == IF n = 0 THEN 0 ELSE base_size * Pow2[n - 1]

Grown(chunks, from, newSize) ==
    [i \in 0..(N - 1) |-> IF i >= from /\ Capacity(i) < newSize
                          THEN [c \in 1..ChunkSize(i) |-> Junk] ELSE chunks[i]]

Reserved(newSize) == IF newSize <= Count THEN Chunks ELSE Grown(Chunks, NextIndex, newSize)

InlineChunk == [c \in 1..base_size |-> Junk]
NoChunks == [i \in 0..(N - 1) |-> IF i = 0 /\ STACK_FIRST THEN InlineChunk ELSE << >>]

Init == /\ STACK_FIRST \in BOOLEAN
        /\ Chunks = NoChunks
        /\ Count = 0 /\ added = << >>

Becomes(chunks, count, elements) ==
    /\ Chunks' = chunks /\ Count' = count /\ added' = elements
    /\ UNCHANGED STACK_FIRST

Reserve(newSize) == Becomes(Reserved(newSize), Count, added)

Add(element) ==
    /\ Count < MaxElements
    /\ Becomes(Put(Reserved(Count + 1), Count, element), Count + 1, Append(added, element))

(* Every element after index moves down by one, the nearest first.         *)
MovedDown(index) ==
    LET Until[i \in index..(Count - 1)] ==
            IF i = index THEN Chunks
            ELSE LET c == Until[i - 1] IN Put(c, i - 1, Get(c, i))
    IN  Until[Count - 1]

RemoveOrderedAt(index) ==
    /\ index \in 0..(Count - 1)
    /\ Becomes(MovedDown(index), Count - 1, RemoveAt(added, index + 1))

RemoveUnorderedAt(index) ==
    /\ index \in 0..(Count - 1)
    /\ Becomes(Put(Chunks, index, Get(Chunks, Count - 1)), Count - 1,
               Front([added EXCEPT ![index + 1] = Last(added)]))

Free == Becomes(IF STACK_FIRST THEN [NoChunks EXCEPT ![0] = Chunks[0]] ELSE NoChunks,
                0, << >>)

-----------------------------------------------------------------------------
(* The builder finds the chunk to write to from Count alone.               *)
BuilderChunk(count) ==
    IF count < base_size THEN 0
    ELSE IF count < 2 * base_size THEN 1
    ELSE msb(count \div base_size) + 1

ChunkStart(i) == IF i = 0 THEN 0 ELSE IF i = 1 THEN base_size ELSE base_size * Pow2[i - 1]

(* One turn of its loop copies what still fits into that chunk.            *)
CopyInto(chunks, count, data) ==
    LET idx == BuilderChunk(count)
        offset == count - ChunkStart(idx)
        n == Min({ChunkSize(idx) - offset, Len(data)})
    IN  [chunks |-> [chunks EXCEPT ![idx] =
                        SubSeq(@, 1, offset) \o SubSeq(data, 1, n)
                        \o SubSeq(@, offset + n + 1, Len(@))],
         count |-> count + n, data |-> SubSeq(data, n + 1, Len(data))]

Copied(chunks, count, data) ==
    LET After[turn \in 0..Len(data)] ==
            IF turn = 0 THEN [chunks |-> chunks, count |-> count, data |-> data]
            ELSE LET was == After[turn - 1]
                 IN  IF was.data = << >> THEN was ELSE CopyInto(was.chunks, was.count, was.data)
    IN  After[Len(data)].chunks

AddToBuilder(data) ==
    /\ Count + Len(data) <= MaxElements
    /\ Becomes(Copied(Reserved(Count + Len(data)), Count, data), Count + Len(data),
               added \o data)

(* builder_to_string: what a visit of the chunks copies.                   *)
Visited ==
    LET Before[i \in 0..N] ==
            IF i = 0 THEN << >>
            ELSE LET processed == Len(Before[i - 1])
                 IN  IF processed >= Count \/ Chunks[i - 1] = << >> THEN Before[i - 1]
                     ELSE Before[i - 1] \o
                          SubSeq(Chunks[i - 1], 1, Min({ChunkSize(i - 1), Count - processed}))
    IN  Before[N]

(* builder_to_string_and_clear_builder keeps the chunks.                   *)
ClearBuilder == Becomes(Chunks, 0, << >>)

Next == \/ \E n \in {1, MaxElements} : Reserve(n)
        \/ \E e \in T : Add(e)
        \/ \E i \in 0..(Count - 1) : RemoveOrderedAt(i) \/ RemoveUnorderedAt(i)
        \/ \E s \in [1..3 -> T] : AddToBuilder(s)
        \/ ClearBuilder
        \/ Free

Spec == Init /\ [][Next]_vars

-----------------------------------------------------------------------------
(* Whatever was added, removed, reserved, cleared and freed: indexing finds*)
(* the elements in order, the builder's string is those elements, and the  *)
(* chunks are there without a gap (get, add, exponential_array_visit_chunks*)
(* and the builder's own arithmetic agree on where an element is).         *)
XarHolds ==
    /\ [i \in 1..Count |-> Get(Chunks, i - 1)] = added
    /\ Visited = added
    /\ \A i, j \in 0..(N - 1) : i < j /\ Chunks[j] # << >> => Chunks[i] # << >>
    /\ \A i \in 0..(N - 1) : Chunks[i] # << >> => Len(Chunks[i]) = ChunkSize(i)
=============================================================================
