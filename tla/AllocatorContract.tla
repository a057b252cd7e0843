-------------------------- MODULE AllocatorContract --------------------------
(***************************************************************************)
(* What memory.h asks of an allocator function (the comment above          *)
(* allocator_func_t): ALLOCATE answers null or a block nobody else holds,  *)
(* RESIZE answers null or the same block grown or shrunk in place, FREE    *)
(* takes a block back, FREE_ALL takes every block back.                    *)
(*                                                                         *)
(* This is the abstract specification the allocators of this library are   *)
(* compared with, and what general_allocate and its siblings build upon.   *)
(***************************************************************************)
EXTENDS Integers

CONSTANT Limit          \* bytes of the address space

VARIABLE granted        \* the blocks that were given out and not taken back

Block == [at : 0 .. Limit, size : 1 .. Limit]

Disjoint(b, c) == b.at + b.size <= c.at \/ c.at + c.size <= b.at

InSpace(b) == b.at + b.size <= Limit

Fits(b, others) == InSpace(b) /\ \A c \in others : Disjoint(b, c)

Init == granted = {}

Allocate ==
    \E b \in Block : /\ b \notin granted
                     /\ Fits(b, granted)
                     /\ granted' = granted \cup {b}

Resize ==
    \E b \in granted, size \in 1 .. Limit :
        LET resized == [at |-> b.at, size |-> size]
        IN  /\ Fits(resized, granted \ {b})
            /\ granted' = (granted \ {b}) \cup {resized}

Free == \E b \in granted : granted' = granted \ {b}

FreeAll == granted' = {}

Next == Allocate \/ Resize \/ Free \/ FreeAll

Spec == Init /\ [][Next]_granted

-----------------------------------------------------------------------------
(* No byte belongs to two blocks.                                          *)
NoOverlap == \A b, c \in granted : b # c => Disjoint(b, c)
=============================================================================
