---------------------------- MODULE MCContainers -----------------------------
(***************************************************************************)
(* The containers: the signal (extended here), the hash table, arrays, the *)
(* exponential array with the string builder, linked lists, the quick sort *)
(* and variants.  A behaviour runs one of the Parts; the others stay as    *)
(* they began.                                                             *)
(***************************************************************************)
EXTENDS Signal

CONSTANTS
    Parts,                              \* those to run
    Keys, HashValues, Pairs, Hash, Absent, MINIMUM_SIZE, LOAD_FACTOR_PERCENT,
    Reservations, Sizes,                                            \* see HashTable
    Cells, Given, Junk, Arrays, Blocks, NoData, MinAllocated, MaxCount,
                                                                    \* see ArrayLike
    N, BASE_SHIFT, MaxElements,                                     \* see Xar
    Nodes, null,                                                    \* see LinkedList
    Sortable, Key, Lengths, Threshold,                              \* see QuickSort
    nil, MEMBERS, VariantValues, Empty, Variants, MaxMade,          \* see Variant
    callee, v1, v2, a1, a2, memberA, memberB, memberC, here, there

OneFunction == {callee}

(* A table of at least 16 slots (32 in the code), which grows with ten     *)
(* filled.  Keys collide at slots 2 and 15, so that probing wraps around;  *)
(* one hashes to the mark of an unused slot.                               *)
FiveKeys == {0, 2, 18, 15, 31}
TwoValues == {v1, v2}
ItsOwnHash == [k \in FiveKeys |-> k]
OneWithBoth == (FiveKeys \X {v1}) \cup ({18} \X {v2})

(* Two arrays, an owner of up to three elements and one that is mostly a   *)
(* view on it; what is inserted, sought and replaced has none to two.      *)
TwoArrays == {a1, a2}
UpToTwo == {<<>>, <<1>>, <<2, 1>>, <<1, 1>>}
ThreeAndOne == [z \in TwoArrays |-> IF z = a1 THEN 3 ELSE 1]

(* Up to five elements with a tie, an insertion for one: boundaries pile up*)
Tie == <<1, 2, 2, 3>>

ThreeMembers == <<memberA, memberB, memberC>>
TwoVariants == {here, there}

VARIABLES
    part,
    table, resizing, last,                          \* see HashTable
    blocks, arr, want,                              \* see ArrayLike
    STACK_FIRST, Chunks, xarCount, added,           \* see Xar
    links, head, tail, NextOf, PrevOf, list,        \* see LinkedList
    given, array, recursion,                        \* see QuickSort
    ti, Data, made, ended, holds                    \* see Variant

HT == INSTANCE HashTable WITH Values <- HashValues
AL == INSTANCE ArrayLike WITH T <- Cells
XA == INSTANCE Xar WITH T <- Cells, Count <- xarCount
LL == INSTANCE LinkedList
QS == INSTANCE QuickSort WITH Values <- Sortable
VR == INSTANCE Variant WITH Values <- VariantValues, want <- holds

ASSUME ContainersAssumption ==
       /\ HT!HashTableAssumption /\ AL!ArrayLikeAssumption /\ XA!XarAssumption
       /\ LL!LinkedListAssumption /\ QS!QuickSortAssumption /\ VR!VariantAssumption

ht == <<table, resizing, last>>
al == <<blocks, arr, want>>
xa == <<STACK_FIRST, Chunks, xarCount, added>>
ll == <<links, head, tail, NextOf, PrevOf, list>>
qs == <<given, array, recursion>>
vr == <<ti, Data, made, ended, holds>>

AllInit ==
    /\ part \in Parts
    /\ Init /\ HT!Init /\ AL!Init /\ VR!Init
    /\ IF part = "xar" THEN XA!Init ELSE XA!Init /\ STACK_FIRST
    /\ IF part = "list" THEN LL!Init ELSE LL!Init /\ links = "single"
    /\ IF part = "sort" THEN QS!Init ELSE QS!Init /\ given = CHOOSE g \in QS!Contents : TRUE

AllNext ==
    \/ part = "signal" /\ Next /\ UNCHANGED <<part, ht, al, xa, ll, qs, vr>>
    \/ part = "table" /\ HT!Next /\ UNCHANGED <<part, vars, al, xa, ll, qs, vr>>
    \/ part = "array" /\ AL!Next /\ UNCHANGED <<part, vars, ht, xa, ll, qs, vr>>
    \/ part = "xar" /\ XA!Next /\ UNCHANGED <<part, vars, ht, al, ll, qs, vr>>
    \/ part = "list" /\ LL!Next /\ UNCHANGED <<part, vars, ht, al, xa, qs, vr>>
    \/ part = "sort" /\ QS!Next /\ UNCHANGED <<part, vars, ht, al, xa, ll, vr>>
    \/ part = "variant" /\ VR!Next /\ UNCHANGED <<part, vars, ht, al, xa, ll, qs>>

AllSpec == /\ AllInit
           /\ [][AllNext]_<<part, vars, ht, al, xa, ll, qs, vr>>
           /\ WF_qs(part = "sort" /\ QS!Next)

-----------------------------------------------------------------------------
(* A search finds what was set last, in the table and in its clone, and    *)
(* there is always an unused slot to end a probe at (HashTable).           *)
FindsLast == HT!FindsLast /\ HT!NeverFull

(* An array holds what its own operations made, whatever is done with views*)
(* on it and when growth moves it, and the searching and comparing loops   *)
(* find the first or last occurrence and the first difference (ArrayLike). *)
ArraysHold == AL!ArraysHold /\ AL!SearchesAgree

(* Chunks hold their elements in order, to the string builder's own        *)
(* arithmetic too (Xar); lists read forwards and backwards as they were    *)
(* built (LinkedList); index, object and destructors of a variant agree.   *)
ReadsAsBuilt == XA!XarHolds /\ LL!ListsHold /\ VR!HoldsOne

(* What no boundary on the stack spans is in its place (QuickSort).        *)
Sorts == QS!Sorts

(* Every array gets sorted (QuickSort).                                    *)
EndsSorted == part = "sort" => QS!EndsSorted
=============================================================================
