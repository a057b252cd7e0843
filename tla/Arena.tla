------------------------------- MODULE Arena --------------------------------
(***************************************************************************)
(* arena_allocator (memory.h): a bump pointer over one block of memory.    *)
(* The arena's own state is arena_allocator_data; "held" is what its       *)
(* clients know: the blocks they got and have not given back.              *)
(*                                                                         *)
(* Addresses are offsets from data->Block.  Every request is at least one  *)
(* byte: general_allocate always adds a header.                            *)
(***************************************************************************)
EXTENDS Integers

CONSTANTS
    Provided,       \* Size of the block the program provides itself
    Lazy,           \* the 8_GiB block a zero-initialised arena asks the OS for
    Requests,       \* sizes the clients ask for
    MaxUsed         \* bound: no request is made that would end above it

ASSUME ArenaAssumption ==
    /\ MaxUsed \in Nat
    /\ Provided \in 0 .. MaxUsed
    /\ Lazy \in 0 .. MaxUsed
    /\ Requests \subseteq Nat \ {0}

VARIABLES
    block,          \* data->Block is not null
    size,           \* data->Size
    used,           \* data->Used
    held            \* blocks the clients hold

vars == <<block, size, used, held>>

Init == /\ \/ block = TRUE  /\ size = Provided     \* Block and Size set by hand
           \/ block = FALSE /\ size = 0            \* "0-initialized arena is valid"
        /\ used = 0
        /\ held = {}

(* The prologue of every call: a null block is replaced by a lazy one.     *)
Used0 == IF block THEN used ELSE 0
Size0 == IF block THEN size ELSE Lazy
Ready == block' = TRUE /\ size' = Size0

Allocate(n) ==
    /\ Ready
    /\ IF Used0 + n >= Size0
       THEN used' = Used0 /\ UNCHANGED held
       ELSE /\ used' = Used0 + n
            /\ held' = held \cup {[at |-> Used0, size |-> n]}

(* oldMemory = b.at and oldSize = b.size; only the last block can resize,  *)
(* any other one is answered null and stays as it is.                      *)
AnyBlockIsLast(b) == TRUE                       \* mutant: no check at all
IsLast(b) == b.at = Used0 - b.size

Resize(b, n) ==
    /\ Used0 - b.size + n <= MaxUsed
    /\ Ready
    /\ IF IsLast(b)
       THEN /\ used' = Used0 + (n - b.size)
            /\ held' = (held \ {b}) \cup {[at |-> b.at, size |-> n]}
       ELSE used' = Used0 /\ UNCHANGED held

(* The arena ignores FREE; the client forgets the block.                   *)
Free(b) == /\ Ready
           /\ used' = Used0
           /\ held' = held \ {b}

FreeAll == /\ Ready
           /\ used' = 0
           /\ held' = {}

Next == \/ \E n \in Requests : Allocate(n)
        \/ \E b \in held, n \in Requests : Resize(b, n)
        \/ \E b \in held : Free(b)
        \/ FreeAll

Spec == Init /\ [][Next]_vars

-----------------------------------------------------------------------------
TypeOK == /\ block \in BOOLEAN
          /\ size \in Nat
          /\ used \in Nat
          /\ held \subseteq [at : Nat, size : Nat \ {0}]

(* Every held block lies below the bump pointer: the next block the arena  *)
(* gives out, or a RESIZE of the last one, cannot reach into a block that  *)
(* somebody still holds, whatever was freed, shrunk or reset before.       *)
HeldBelowUsed == \A b \in held : b.at + b.size <= used

(* "The arena allocator doesn't handle overflows (when the block doesn't   *)
(* have enough space for an allocation)": what it hands out stays inside   *)
(* data->Block.  Not kept: RESIZE does not look at Size.                   *)
HeldInsideBlock == \A b \in held : b.at + b.size <= size

(* The arena keeps the promise of the comment above allocator_func_t: two  *)
(* blocks never share a byte, a RESIZE changes the size of one block and   *)
(* nothing else.                                                           *)
Contract == INSTANCE AllocatorContract
                WITH granted <- held, Limit <- MaxUsed
KeepsContract == Contract!Spec
=============================================================================
