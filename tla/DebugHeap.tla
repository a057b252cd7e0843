----------------------------- MODULE DebugHeap ------------------------------
(***************************************************************************)
(* general_allocate, general_reallocate, general_free and free_all with    *)
(* DEBUG_MEMORY (memory.cpp), for several threads over several allocators. *)
(*                                                                         *)
(* Each thread keeps its own list of debug nodes, one per header address   *)
(* it ever saw, sorted by that address; a node outlives its block, marked  *)
(* Freed.  The sorted list is a function from header addresses here, its   *)
(* links are left out.  The allocators are any that keep the               *)
(* contract of memory.h (AllocatorContract): a new block overlaps none     *)
(* that is granted, RESIZE grows or shrinks in place or answers null.      *)
(*                                                                         *)
(* What a debug fill writes is a range of addresses; "torn" collects the   *)
(* live blocks in which a write that was meant for another block landed.   *)
(***************************************************************************)
EXTENDS HeapLayout, FiniteSets

CONSTANTS
    Threads,
    Uses,               \* [Threads -> set of allocators the thread works with]
    Limit,              \* bytes of the address space
    Bases,              \* addresses at which an allocator may place a block
    Sizes,              \* user sizes
    Aligns,             \* alignments the program asks for
    PoolNodes,          \* nodes DebugMemoryNodesPool holds besides the sentinels
    VerifyFrequency,    \* Context.DebugMemoryHeapVerifyFrequency
    MaxAllocations,     \* bound on AllocationCount
    MaxReallocations    \* bound on RID

Allocs == UNION {Uses[t] : t \in Threads}

ASSUME HeapAssumption ==
    /\ Limit \in Nat /\ Bases \subseteq Nat
    /\ Sizes \subseteq Nat \ {0}
    /\ Aligns \subseteq Alignments
    /\ PTR \in Alignments
    /\ PoolNodes \in Nat
    /\ VerifyFrequency \in Nat \ {0}
    /\ MaxAllocations \in Nat /\ MaxReallocations \in Nat

VARIABLES
    nodes,      \* per thread: header address -> debug_memory_node
    live,       \* header address -> allocation_header of a granted block
    count,      \* per thread: AllocationCount
    torn,       \* headers of live blocks overwritten by somebody else's fill
    crash       \* "" or the assertion that stopped the program

vars == <<nodes, live, count, torn, crash>>

Running  == crash = ""
Crash(a) == crash' = a /\ UNCHANGED <<nodes, live, count, torn>>

Without(f, h) == [k \in DOMAIN f \ {h} |-> f[k]]
With(f, h, v) == [k \in DOMAIN f \cup {h} |-> IF k = h THEN v ELSE f[k]]

Nothing == [h \in {} |-> 0]

Init == /\ nodes = [t \in Threads |-> Nothing]
        /\ live = Nothing
        /\ count = [t \in Threads |-> 0]
        /\ torn = {}
        /\ crash = ""

-----------------------------------------------------------------------------
(* Blocks: where they start and end, and which of them a write hits.       *)

BlockOf(h)  == [at   |-> h - live[h].pad,
                size |-> Required(live[h].size, live[h].align)]
Granted     == {BlockOf(h) : h \in DOMAIN live}
Contract    == INSTANCE AllocatorContract WITH granted <- Granted

(* [from, to) of everything verify_node_integrity and the user look at.    *)
EndOf(h)    == h + HDR + live[h].size + NML

Hit(from, to, mine) ==
    {k \in DOMAIN live \ mine : from < to /\ from < EndOf(k) /\ k < to}

-----------------------------------------------------------------------------
(* debug_memory_maybe_verify_heap asserts, check_for_overlapping_blocks    *)

VerifyAsserts(t) ==
    /\ count[t] % VerifyFrequency = 0
    /\ \E h \in DOMAIN nodes[t] : ~nodes[t][h].freed /\ h \in torn

(* "node" of thread t has just been given the header record new at h.      *)
(* mutant: the header of the left neighbour is counted twice.              *)
LeftHeaderCountedTwice(t, h, new) ==
    \E k \in DOMAIN nodes[t] \ {h} :
        /\ k \in DOMAIN live /\ ~nodes[t][k].freed /\ k < h
        /\ EndOf(k) + HDR > h - new.pad

OverlapAsserts(t, h, new) ==
    LET others == {k \in DOMAIN nodes[t] \ {h} :
                      k \in DOMAIN live /\ ~nodes[t][k].freed}
        left  == {k \in others : k < h /\ \A j \in others : j < h => j <= k}
        right == {k \in others : k > h /\ \A j \in others : j > h => j >= k}
    IN  \/ \E k \in left  : EndOf(k) > h - new.pad
        \/ \E k \in right : h + HDR + new.size + NML >= k - live[k].pad

-----------------------------------------------------------------------------
(* general_allocate                                                        *)

Header(al, u, a, at, t, leak) ==
    [alloc |-> al, size |-> u, align |-> a, pad |-> AlignmentPadding(at, a),
     by |-> t, leak |-> leak]           \* by and leak: what the program knows

(* mutants: the ID is taken before the first increment; the ID is the      *)
(* length of the list.                                                     *)
IdOffByOne(t, leak) == [id |-> count[t] - 1, rid |-> 0, leak |-> leak, freed |-> FALSE]
IdIsListLength(t, leak) ==
    [id |-> Cardinality(DOMAIN nodes[t]), rid |-> 0, leak |-> leak, freed |-> FALSE]

NewNode(t, leak) == [id |-> count[t], rid |-> 0, leak |-> leak, freed |-> FALSE]

Place(t, al, u, a, leak, at) ==
    LET h   == HeaderAt(at, a)
        new == Header(al, u, a, at, t, leak)
        known == h \in DOMAIN nodes[t]
    IN  IF known /\ ~nodes[t][h].freed
          THEN Crash("still live")
        ELSE IF ~known /\ Cardinality(DOMAIN nodes[t]) = PoolNodes
          THEN Crash("nodes pool")
        ELSE IF OverlapAsserts(t, h, new)
          THEN Crash("overlap")
        ELSE /\ nodes' = [nodes EXCEPT ![t] = With(@, h, NewNode(t, leak))]
             /\ live' = With(live, h, new)
             /\ count' = [count EXCEPT ![t] = @ + 1]
             /\ torn' = torn \cup Hit(h, h + HDR + u + NML, {})
             /\ UNCHANGED crash

Allocate(t, al, u, align, leak) ==
    LET a == EffectiveAlignment(align)
    IN  /\ Running /\ count[t] < MaxAllocations
        /\ IF VerifyAsserts(t) THEN Crash("verify")
           ELSE \/ Crash("allocator returned null")
                \/ \E at \in Bases :
                      /\ Contract!Fits([at |-> at, size |-> Required(u, a)], Granted)
                      /\ Place(t, al, u, a, leak, at)

-----------------------------------------------------------------------------
(* general_reallocate: a thread gets past list_search only for a header of *)
(* its own list that is not marked Freed.                                  *)

Owned(t, h) == h \in DOMAIN nodes[t] /\ ~nodes[t][h].freed

Freed(n)       == [id |-> n.id, rid |-> n.rid, leak |-> n.leak, freed |-> TRUE]
Reallocated(n) == [id |-> n.id, rid |-> n.rid + 1, leak |-> n.leak, freed |-> n.freed]
Resized(b, u, pad) == [alloc |-> b.alloc, size |-> u, align |-> b.align,
                       pad |-> pad, by |-> b.by, leak |-> b.leak]

(* mutant: growing fills from the end of the old block on as well.         *)
FillBehindOldBlock(t, h, u) ==
    LET old   == live[h]
        oldSize == Required(old.size, old.align)
        newSize == Required(u, old.align)
    IN  /\ Contract!Fits([at |-> h - old.pad, size |-> newSize], Granted \ {BlockOf(h)})
        /\ live' = With(live, h, Resized(old, u, old.pad))
        /\ nodes' = [nodes EXCEPT ![t] = With(@, h, Reallocated(@[h]))]
        /\ torn' = torn \cup Hit(h + oldSize, h + oldSize + newSize - oldSize, {h})
        /\ UNCHANGED <<count, crash>>

(* The allocator grows or shrinks the block in place.  Growing fills the   *)
(* new part, shrinking fills from header + oldSize on, which is where the  *)
(* old block ended, header padding included.                               *)
ResizeInPlace(t, h, u) ==
    LET old   == live[h]
        start == h - old.pad
        new   == Resized(old, u, old.pad)
        oldSize == Required(old.size, old.align)
        newSize == Required(u, old.align)
        user  == h + HDR
        fill  == IF oldSize < newSize
                 THEN Hit(user + old.size, user + old.size + newSize - oldSize, {h})
                 ELSE Hit(h + oldSize, h + oldSize + oldSize - newSize, {h})
    IN  /\ Contract!Fits([at |-> start, size |-> newSize], Granted \ {BlockOf(h)})
        /\ IF OverlapAsserts(t, h, new) THEN Crash("overlap")
           ELSE /\ live' = With(live, h, new)
                /\ nodes' = [nodes EXCEPT ![t] = With(@, h, Reallocated(@[h]))]
                /\ torn' = torn \cup fill \cup Hit(user + u, user + u + NML, {h})
                /\ UNCHANGED <<count, crash>>

(* mutants: the old node is not marked Freed; the mark is not copied.      *)
OldNodeStaysLive(t, h, u, at) ==
    LET h2 == HeaderAt(at, live[h].align)
    IN  /\ Contract!Fits([at |-> at, size |-> Required(u, live[h].align)], Granted)
        /\ h2 \notin DOMAIN nodes[t]
        /\ nodes' = [nodes EXCEPT ![t] = With(@, h2, @[h])]
        /\ live' = With(Without(live, h), h2, Resized(live[h], u, h2 - at))
        /\ UNCHANGED <<count, torn, crash>>
LeakMarkLost(t, h, u, at) ==
    LET h2 == HeaderAt(at, live[h].align)
    IN  /\ Contract!Fits([at |-> at, size |-> Required(u, live[h].align)], Granted)
        /\ h2 \notin DOMAIN nodes[t]
        /\ nodes' = [nodes EXCEPT ![t] = With(With(@, h, Freed(@[h])), h2,
                       [id |-> @[h].id, rid |-> 1, leak |-> FALSE, freed |-> FALSE])]
        /\ live' = With(Without(live, h), h2, Resized(live[h], u, h2 - at))
        /\ UNCHANGED <<count, torn, crash>>

(* The allocator answered null: a second block, the old contents copied,   *)
(* the old block freed.  The new node is added by list_add, which asserts  *)
(* that no node has this header address, freed or not.                     *)
Move(t, h, u, at) ==
    LET old  == live[h]
        new  == Resized(old, u, AlignmentPadding(at, old.align))
        h2   == HeaderAt(at, old.align)
        user == h2 + HDR
        oldSize == Required(old.size, old.align)
        newSize == Required(u, old.align)
        node == nodes[t][h]
        written ==
            Hit(h2, user + u + NML, {h2}) \cup Hit(user, user + old.size, {h2})
            \cup IF oldSize < newSize
                 THEN Hit(user + old.size, user + old.size + newSize - oldSize, {h2})
                 ELSE Hit(h2 + oldSize, h2 + oldSize + oldSize - newSize, {h2})
    IN  /\ Contract!Fits([at |-> at, size |-> newSize], Granted)
        /\ IF h2 \in DOMAIN nodes[t]                     THEN Crash("list_add")
           ELSE IF Cardinality(DOMAIN nodes[t]) = PoolNodes THEN Crash("nodes pool")
           ELSE IF OverlapAsserts(t, h2, new)            THEN Crash("overlap")
           ELSE /\ nodes' = [nodes EXCEPT ![t] =
                      With(With(@, h, Freed(node)), h2, Reallocated(node))]
                /\ live' = With(Without(live, h), h2, new)
                /\ torn' = (torn \cup written) \ {h}
                /\ UNCHANGED <<count, crash>>

Reallocate(t, h, u) ==
    /\ Running
    /\ IF VerifyAsserts(t) THEN Crash("verify")
       ELSE IF ~Owned(t, h) THEN UNCHANGED vars          \* panic, and return null
       ELSE IF h \notin DOMAIN live THEN Crash("garbage header")
       ELSE /\ live[h].size # u                          \* same size: return ptr
            /\ nodes[t][h].rid < MaxReallocations
            /\ \/ ResizeInPlace(t, h, u)
               \/ Crash("allocator returned null")
               \/ \E at \in Bases : Move(t, h, u, at)

-----------------------------------------------------------------------------
(* general_free and free_all                                               *)

Free(t, h) ==
    /\ Running
    /\ IF VerifyAsserts(t) THEN Crash("verify")
       ELSE IF ~Owned(t, h) THEN UNCHANGED vars          \* panic, and return
       ELSE IF h \notin DOMAIN live THEN Crash("garbage header")
       ELSE LET b == BlockOf(h)
            IN  /\ nodes' = [nodes EXCEPT ![t] = With(@, h, Freed(@[h]))]
                /\ torn' = (torn \cup Hit(b.at, b.at + b.size, {h})) \ {h}
                /\ live' = Without(live, h)
                /\ UNCHANGED <<count, crash>>

FreeAll(t, al) ==
    LET mine == {h \in DOMAIN nodes[t] : ~nodes[t][h].freed}
        gone == {h \in DOMAIN live : live[h].alloc = al}
    IN  /\ Running
        /\ gone # {}
        /\ IF ~(mine \subseteq DOMAIN live) THEN Crash("garbage header")
           ELSE /\ nodes' = [nodes EXCEPT ![t] =
                      [h \in DOMAIN @ |->
                          IF h \in mine \cap gone THEN Freed(nodes[t][h])
                                                  ELSE nodes[t][h]]]
                /\ live' = [h \in DOMAIN live \ gone |-> live[h]]
                /\ torn' = torn \ gone
                /\ UNCHANGED <<count, crash>>

-----------------------------------------------------------------------------
(* The program: it may pass any pointer it ever got, to any thread.        *)

Pointers == UNION {DOMAIN nodes[t] : t \in Threads}

SharedAlloc(al) == \E t, s \in Threads : t # s /\ al \in Uses[t] \cap Uses[s]

Grows(h, u) == h \in DOMAIN live => u > live[h].size

NextAllocate ==
    \E t \in Threads, u \in Sizes, a \in Aligns, leak \in BOOLEAN :
        \E al \in Uses[t] : Allocate(t, al, u, a, leak)
NextGrow ==
    \E t \in Threads, h \in Pointers, u \in Sizes : Grows(h, u) /\ Reallocate(t, h, u)
NextShrink ==
    \E t \in Threads, h \in Pointers, u \in Sizes : ~Grows(h, u) /\ Reallocate(t, h, u)
NextFree ==
    \E t \in Threads, h \in Pointers : Free(t, h)
NextFreeAll ==
    \E t \in Threads : \E al \in Uses[t] : ~SharedAlloc(al) /\ FreeAll(t, al)
NextFreeAllShared ==
    \E t \in Threads : \E al \in Uses[t] : SharedAlloc(al) /\ FreeAll(t, al)

(* A program that only lets blocks grow, and uses FREE_ALL only on an      *)
(* allocator no other thread uses (free_all cannot reach their lists).     *)
Next == NextAllocate \/ NextGrow \/ NextFree \/ NextFreeAll
Spec == Init /\ [][Next]_vars

(* Any program.                                                            *)
NextAny == Next \/ NextShrink \/ NextFreeAllShared
SpecAny == Init /\ [][NextAny]_vars

-----------------------------------------------------------------------------
Assertions == {"verify", "still live", "nodes pool", "overlap", "list_add",
               "garbage header", "allocator returned null"}

TypeOK ==
    /\ \A t \in Threads : \A h \in DOMAIN nodes[t] :
          nodes[t][h] \in [id : Nat, rid : Nat, leak : BOOLEAN, freed : BOOLEAN]
    /\ \A h \in DOMAIN live :
          live[h] \in [alloc : Allocs, size : Sizes, align : Alignments,
                       pad : Nat, by : Threads, leak : BOOLEAN]
    /\ count \in [Threads -> Nat]
    /\ torn \subseteq DOMAIN live
    /\ crash \in Assertions \cup {""}

(* The debug list and the heap agree: the nodes of a thread that are not   *)
(* marked Freed are exactly the blocks the thread allocated and has not    *)
(* given back, whatever was moved, freed, reset or handed out again to     *)
(* another thread in between.  This is what makes a double free and a      *)
(* cross-thread free panic instead of freeing, and the leak report exact.  *)
LiveNodesAreBlocks ==
    \A t \in Threads :
        {h \in DOMAIN nodes[t] : ~nodes[t][h].freed}
            = {h \in DOMAIN live : live[h].by = t}

(* debug_memory_report_leaks: the blocks it lists are those the program    *)
(* asked for without LEAK and still holds; a move keeps the mark.          *)
Leaks(t) == {h \in DOMAIN nodes[t] : ~nodes[t][h].freed /\ ~nodes[t][h].leak}
LeakReportExact ==
    \A t \in Threads :
        Leaks(t) = {h \in DOMAIN live : live[h].by = t /\ ~live[h].leak}

(* "Every allocation has an unique number": no two blocks of a thread that *)
(* are alive carry the same ID, moved and reused nodes included.           *)
IdsUnique ==
    \A t \in Threads : \A h, k \in DOMAIN nodes[t] :
        /\ nodes[t][h].id < count[t]
        /\ (h # k /\ ~nodes[t][h].freed /\ ~nodes[t][k].freed)
              => nodes[t][h].id # nodes[t][k].id

(* Header, guard bytes and user bytes of a block lie inside the memory the *)
(* allocator granted for it, and its user pointer is aligned: the room     *)
(* asked for in general_allocate covers the worst padding.                 *)
BlocksWellLaid ==
    \A h \in DOMAIN live :
        LET b == BlockOf(h)
        IN  /\ b.at <= h /\ EndOf(h) <= b.at + b.size
            /\ (h + HDR) % live[h].align = 0

(* No fill, copy or header the heap writes for one block lands in the      *)
(* header, the guard bytes or the user bytes of another live block.        *)
NoBlockTorn == torn = {}

(* With allocators that keep their contract and a program that writes only *)
(* to its own blocks, none of the corruption checks fires: every report of *)
(* an overlap or an overwritten guard is a real one.                       *)
NoFalseAlarm == crash \notin {"verify", "still live", "overlap", "garbage header"}

(* "If the program requests a new block and the allocator implementation   *)
(* returns the same memory address then we reuse this node and clear the   *)
(* flag": an address that was freed may always be used again, by a block   *)
(* that moves as well.  Not kept: list_add stops the program.              *)
FreedAddressReusable == crash # "list_add"
=============================================================================
