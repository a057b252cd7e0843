------------------------------ MODULE QuickSort ------------------------------
(***************************************************************************)
(* quick_sort (qsort.h): in place, with a stack of the boundaries instead  *)
(* of recursion; parts of a few elements are sorted by insertion.  Every   *)
(* step takes the boundaries on top, partitions what is between them, and  *)
(* sorts or pushes the two parts, the larger one first.                    *)
(***************************************************************************)
EXTENDS Integers, Sequences, SequencesExt, FiniteSetsExt

CONSTANTS
    Values,         \* elements, compared by Key
    Key,            \* the key of an element; different elements may tie
    Lengths,        \* the lengths of arrays to sort, none of them zero
    Threshold       \* 4 in the code: up to where insertion takes over

QuickSortAssumption == /\ Key \in [Values -> Int] /\ Lengths \subseteq Nat \ {0}
                       /\ Threshold \in Nat

VARIABLES
    given,          \* the array before
    array,          \* and now
    recursion       \* stack of <<Left, Right>>, the last one on top

vars == <<given, array, recursion>>

compare(lhs, rhs) == IF Key[lhs] = Key[rhs] THEN 0 ELSE IF Key[lhs] < Key[rhs] THEN -1 ELSE 1

Contents == UNION {[1..n -> Values] : n \in Lengths}

Swap(a, i, j) == [a EXCEPT ![i] = a[j], ![j] = a[i]]

Init == /\ given \in Contents
        /\ array = given
        /\ recursion = <<<<1, Len(given)>>>>

(* What is smaller than the pivot, which is on the right, goes to the      *)
(* front, up to store: one turn of the loop, and the loop up to each index.*)
Turn(right, index) ==
    [was \in [a : Contents, store : Nat] |->
        IF compare(was.a[right], was.a[index]) > 0
        THEN [a |-> Swap(was.a, index, was.store), store |-> was.store + 1]
        ELSE was]

Turns(a, left, right) ==
    LET Until[index \in left..right] ==
            IF index = left THEN [a |-> a, store |-> left]
            ELSE Turn(right, index - 1)[Until[index - 1]]
    IN  Until

(* The pivot comes from the middle and goes behind them: the array, and    *)
(* where the pivot is.                                                     *)
PartitionedButLast(a, left, right) ==   \* mutant: the loop stops one element early
    LET turn == Turns(Swap(a, left + (right - left) \div 2, right), left, right)
        end == IF right = left THEN turn[left] ELSE turn[right - 1]
    IN  [a |-> Swap(end.a, right, end.store), store |-> end.store]

Partitioned(a, left, right) ==
    LET end == Turns(Swap(a, left + (right - left) \div 2, right), left, right)[right]
    IN  [a |-> Swap(end.a, right, end.store), store |-> end.store]

(* An element trails back to its place among those from first on: behind   *)
(* the last one that is not greater.                                       *)
PlaceOf(a, index, first) ==
    CHOOSE p \in first..index :
        /\ p = first \/ compare(a[p - 1], a[index]) <= 0
        /\ \A q \in (p + 1)..index : compare(a[q - 1], a[index]) > 0

Trailed(index, first) ==
    [a \in Contents |->
        LET p == PlaceOf(a, index, first)
        IN  [i \in DOMAIN a |-> IF i = p THEN a[index]
                                ELSE IF p < i /\ i <= index THEN a[i - 1] ELSE a[i]]]

Insertions(a, first, last) ==
    LET Until[index \in first..last] ==
            IF index = first THEN a ELSE Trailed(index, first)[Until[index - 1]]
    IN  Until

InsertionSorted(a, first, last) ==
    IF first < last THEN Insertions(a, first, last)[last] ELSE a

(* SORT_LEFT and SORT_RIGHT: insertion for at most Threshold elements next *)
(* to the pivot, otherwise boundaries on the stack, if there are two or    *)
(* more elements.                                                          *)
SortedLeft(a, left, store) ==
    IF store - left <= Threshold THEN InsertionSorted(a, left, store - 1) ELSE a
SortedRight(a, store, right) ==
    IF right - store <= Threshold THEN InsertionSorted(a, store + 1, right) ELSE a
PushedLeft(left, store) ==
    IF store - left > Threshold /\ left < store - 1 THEN <<<<left, store - 1>>>> ELSE << >>
PushedRightWithPivot(store, right) ==   \* mutant: the pivot is sorted again
    IF right - store > Threshold /\ store + 1 < right THEN <<<<store, right>>>> ELSE << >>
PushedRight(store, right) ==
    IF right - store > Threshold /\ store + 1 < right THEN <<<<store + 1, right>>>> ELSE << >>

(* The smaller part on top keeps the stack low, log2 of the length.        *)
Pushed(left, store, right) ==
    IF store - left < right - store
    THEN PushedRight(store, right) \o PushedLeft(left, store)
    ELSE PushedLeft(left, store) \o PushedRight(store, right)

Partition ==
    /\ recursion # << >>
    /\ LET left == Last(recursion)[1]
           right == Last(recursion)[2]
           p == Partitioned(array, left, right)
       IN  /\ array' = SortedRight(SortedLeft(p.a, left, p.store), p.store, right)
           /\ recursion' = Front(recursion) \o Pushed(left, p.store, right)
    /\ UNCHANGED given

Next == Partition
Spec == Init /\ [][Next]_vars /\ WF_vars(Next)

-----------------------------------------------------------------------------
(* The elements stay the same, and what no boundary on the stack spans is  *)
(* in its place: at the end that is everything.                            *)
Sorts ==
    /\ \A v \in Values : Cardinality({i \in DOMAIN array : array[i] = v})
                         = Cardinality({i \in DOMAIN given : given[i] = v})
    /\ \A i, j \in DOMAIN array :
          i < j /\ (\A k \in DOMAIN recursion : ~(recursion[k][1] <= i /\ j <= recursion[k][2]))
          => compare(array[i], array[j]) <= 0

(* Every array gets sorted, whatever the order of the elements.            *)
EndsSorted == <>(recursion = << >>)
=============================================================================
