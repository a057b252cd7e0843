-------------------------------- MODULE Pool --------------------------------
(***************************************************************************)
(* pool_allocator (memory.h): blocks of memory cut into chunks of          *)
(* ElementSize bytes, the free ones linked into FreeList.  DEBUG_MEMORY    *)
(* keeps its nodes in one.                                                 *)
(*                                                                         *)
(* A chunk is <<block, position in the block>>; FreeList is the sequence   *)
(* of chunks its links run through, Base the sequence of provided blocks,  *)
(* the newest first.                                                       *)
(***************************************************************************)
EXTENDS Integers, Sequences

CONSTANTS
    Blocks,         \* the blocks a program may provide
    ChunksOf        \* [Blocks -> number of chunks that fit in the block]

PoolAssumption == ChunksOf \in [Blocks -> Nat \ {0}]

Chunks(b) == {<<b, i>> : i \in 1 .. ChunksOf[b]}

VARIABLES
    Base,           \* data->Base
    FreeList,       \* data->FreeList
    held,           \* the chunks the clients hold
    crash           \* "" or the assertion that stopped the program

vars == <<Base, FreeList, held, crash>>

Given    == {Base[i] : i \in DOMAIN Base}
OnList   == {FreeList[i] : i \in DOMAIN FreeList}
AllChunks == UNION {Chunks(b) : b \in Given}

Running == crash = ""

Init == Base = << >> /\ FreeList = << >> /\ held = {} /\ crash = ""

(* pool_allocator_add_free_chunks: the chunks of b in order, then the rest.*)
DropOldFreeList(b, list) == [i \in 1 .. ChunksOf[b] |-> <<b, i>>]   \* mutant
AddFreeChunks(b, list) ==
    [i \in 1 .. ChunksOf[b] |-> <<b, i>>] \o list

ProvideBlock(b) ==
    /\ Running
    /\ b \notin Given
    /\ Base' = <<b>> \o Base
    /\ FreeList' = AddFreeChunks(b, FreeList)
    /\ UNCHANGED <<held, crash>>

(* An empty FreeList answers null.                                         *)
Allocate ==
    /\ Running
    /\ FreeList # << >>
    /\ FreeList' = Tail(FreeList)
    /\ held' = held \cup {Head(FreeList)}
    /\ UNCHANGED <<Base, crash>>

(* "Can't do that"                                                         *)
Resize(c) ==
    /\ Running
    /\ crash' = "Can't do that"
    /\ UNCHANGED <<Base, FreeList, held>>

Free(c) ==
    /\ Running
    /\ FreeList' = <<c>> \o FreeList
    /\ held' = held \ {c}
    /\ UNCHANGED <<Base, crash>>

(* FREE_ALL walks Base and links every block again, one before the other.  *)
Relinked[n \in 0 .. Len(Base)] ==
    IF n = 0 THEN << >> ELSE AddFreeChunks(Base[n], Relinked[n - 1])

FreeAll ==
    /\ Running
    /\ FreeList' = Relinked[Len(Base)]
    /\ held' = {}
    /\ UNCHANGED <<Base, crash>>

Next == \/ \E b \in Blocks : ProvideBlock(b)
        \/ Allocate
        \/ \E c \in held : Resize(c)
        \/ \E c \in held : Free(c)
        \/ FreeAll

Spec == Init /\ [][Next]_vars

-----------------------------------------------------------------------------
(* FreeList never runs through a chunk twice: no two clients are handed    *)
(* the same chunk, and the links never form a ring.                        *)
NoChunkTwice ==
    \A i, j \in DOMAIN FreeList : i # j => FreeList[i] # FreeList[j]

(* Every chunk of a provided block is on the list, once, or held: none is  *)
(* lost and none handed out twice, whatever blocks are added, freed in any *)
(* order or reset.                                                         *)
ChunksConserved ==
    /\ NoChunkTwice
    /\ OnList \cap held = {}
    /\ OnList \cup held = AllChunks
=============================================================================
