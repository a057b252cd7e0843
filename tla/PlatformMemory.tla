--------------------------- MODULE PlatformMemory ---------------------------
(***************************************************************************)
(* The platform's two allocators (os/memory.h, platform/memory.cpp).       *)
(*                                                                         *)
(*   temporary    an arena that starts over when it is full and moves to a *)
(*                larger block for a request that could never fit;         *)
(*   persistent   the vendored TLSF over pools got from the system one     *)
(*                page at a time; a large request gets a page of its own.  *)
(*                                                                         *)
(* Each runs under its own mutex, so that a call is a step, except where a *)
(* block goes back to the system and another is asked for: the system's    *)
(* memory belongs to both.  TLSF is external: a pool has room for a block  *)
(* when enough of it is free.  Of the temporary allocator's modes only     *)
(* ALLOCATE is here, with the FREE_ALL it starts over with.  The others go *)
(* straight to arena_allocator (Arena), and no caller in the library asks  *)
(* this allocator for them.                                                *)
(***************************************************************************)
EXTENDS Integers, FiniteSets, FiniteSetsExt

CONSTANTS
    Addresses,      \* where the system puts blocks
    Null,
    Platforms,      \* which of "windows" and "posix" to look at
    OneThread,      \* TRUE: one thread uses both allocators
    TempStart,      \* PLATFORM_TEMPORARY_STORAGE_STARTING_SIZE
    TempRequests,   \* sizes asked of the temporary allocator
    MaxTempSize,    \* bound on the size of the arena
    Start,          \* PLATFORM_PERSISTENT_STORAGE_STARTING_SIZE
    Control,        \* what TLSF's own state takes of the first pool
    PoolOverhead,   \* what TLSF takes of each pool
    Overhead,       \* what TLSF takes for each block
    Requests,       \* sizes asked of the persistent allocator
    MaxBlocks       \* bound on its blocks handed out at a time

PlatformAssumption ==
    /\ Null \notin Addresses /\ Platforms \subseteq {"windows", "posix"}
    /\ OneThread \in BOOLEAN
    /\ TempStart \in Nat \ {0} /\ TempRequests \subseteq Nat \ {0} /\ MaxTempSize \in Nat
    /\ Start \in Nat /\ Control \in Nat /\ PoolOverhead \in Nat /\ Overhead \in Nat
    /\ Requests \subseteq Nat \ {0} /\ MaxBlocks \in Nat

VARIABLES
    platform, phase,    \* "start", "up", "down"
    mapped,             \* what the process has from the system
    Block, Size, Used,  \* TempAllocData
    pending,            \* 0, or the request whose old block was just freed
    latest,             \* the temporary allocation made last: [block, at, size]
    pages,              \* what the persistent allocator asked for
    PageNext,           \* of each page: persistent_alloc_page::Next
    BasePage,           \* PersistentAllocBasePage
    pools,              \* pages TLSF knows
    blocks,             \* what the persistent allocator handed out
    broken              \* what went wrong: an assertion, memory foreign to TLSF

temp == <<Block, Size, Used, pending, latest>>
tlsf == <<pools, blocks, broken>>
vars == <<platform, phase, mapped, Block, Size, Used, pending, latest, pages,
          PageNext, BasePage, pools, blocks, broken>>

(* os_free_block: HeapFree, or munmap(ptr, 0), which fails with EINVAL and *)
(* unmaps nothing.                                                         *)
FreesNothing(m, a) == m                                          \* mutant
OsFreed(m, a) == IF platform = "posix" THEN m ELSE m \ {a}

(* Until the shutdown; nothing is said of what follows once an assertion   *)
(* stopped the program or TLSF was handed what it does not know.           *)
Working == phase = "up" /\ broken = {}

-----------------------------------------------------------------------------
(* create_persistent_alloc_page: the page points to the base page, but the *)
(* base page stays what it is and nothing points to the new one.           *)
PageNextUnset(p, m) ==              \* mutant: p->Next keeps what was there
    /\ p \notin m
    /\ mapped' = m \cup {p} /\ pages' = pages \cup {p}
    /\ PageNext' = [PageNext EXCEPT ![p] = "whatever"]
    /\ BasePage' = IF BasePage = Null THEN p ELSE BasePage

NewPage(p, m) ==
    /\ p \notin m
    /\ mapped' = m \cup {p} /\ pages' = pages \cup {p}
    /\ PageNext' = [PageNext EXCEPT ![p] = BasePage]
    /\ BasePage' = IF BasePage = Null THEN p ELSE BasePage

Init == /\ platform \in Platforms /\ phase = "start" /\ mapped = {}
        /\ Block = Null /\ Size = 0 /\ Used = 0 /\ pending = 0
        /\ latest = [block |-> Null, at |-> 0, size |-> 0]
        /\ pages = {} /\ BasePage = Null /\ PageNext = [a \in Addresses |-> Null]
        /\ pools = {} /\ blocks = {} /\ broken = {}

(* platform_init_allocators: the temporary block, then one page for TLSF.  *)
InitAllocators(b, p) ==
    /\ phase = "start" /\ phase' = "up"
    /\ Block' = b /\ Size' = TempStart /\ Used' = 0
    /\ latest' = [block |-> b, at |-> 0, size |-> 0]
    /\ NewPage(p, {b})
    /\ pools' = {p}
    /\ UNCHANGED <<platform, pending, blocks, broken>>

-----------------------------------------------------------------------------
(* The temporary allocator.  arena_allocator's ALLOCATE answers null when  *)
(* Used + n >= Size.                                                       *)
ArenaFits(n) == Used + n < Size

Answered(b, at, n) == /\ Used' = at + n
                      /\ latest' = [block |-> b, at |-> at, size |-> n]

AllocateNext(n) ==
    /\ Working /\ pending = 0 /\ ArenaFits(n)
    /\ Answered(Block, Used, n)
    /\ UNCHANGED <<platform, phase, mapped, Block, Size, pending, pages, PageNext,
                   BasePage, tlsf>>

(* The block is large enough, only full: free_all and once more.           *)
StartOverFrees(n) ==                \* mutant: the block is freed to start over
    /\ Working /\ pending = 0 /\ ~ArenaFits(n) /\ n < Size
    /\ mapped' = OsFreed(mapped, Block)
    /\ Answered(Block, 0, n)
    /\ UNCHANGED <<platform, phase, Block, Size, pending, pages, PageNext, BasePage, tlsf>>

StartOver(n) ==
    /\ Working /\ pending = 0 /\ ~ArenaFits(n) /\ n < Size
    /\ Answered(Block, 0, n)
    /\ UNCHANGED <<platform, phase, mapped, Block, Size, pending, pages, PageNext,
                   BasePage, tlsf>>

(* The block is too small.  It is freed, and freed again by                *)
(* create_new_temp_storage_block, which then asks for a new one.           *)
Outgrow(n) ==
    /\ Working /\ pending = 0 /\ ~ArenaFits(n) /\ n >= Size /\ n * 2 <= MaxTempSize
    /\ mapped' = OsFreed(mapped, Block)
    /\ pending' = n
    /\ UNCHANGED <<platform, phase, Block, Size, Used, latest, pages, PageNext,
                   BasePage, tlsf>>

Replace(n, b) ==
    /\ pending = n
    /\ LET m == OsFreed(mapped, Block) IN b \notin m /\ mapped' = m \cup {b}
    /\ Block' = b /\ Size' = n * 2
    /\ Answered(b, 0, n)
    /\ pending' = 0
    /\ UNCHANGED <<platform, phase, pages, PageNext, BasePage, tlsf>>

-----------------------------------------------------------------------------
(* The persistent allocator.  Another thread may call it while the         *)
(* temporary one replaces its block.                                       *)
Called == Working /\ (OneThread => pending = 0)

IsLargeAboveStart(n) == n > Start                                  \* mutant
IsLarge(n) == n * 2 > Start

Capacity(p, base) == Start - PoolOverhead - (IF p = base THEN Control ELSE 0)
InUse(p) == MapThenSumSet(LAMBDA b : b.size + Overhead, {b \in blocks : b.page = p})
HasRoom(p, n) == InUse(p) + n + Overhead <= Capacity(p, BasePage)

(* Blocks of one page and size are told apart by a number.                 *)
NewBlock(p, n) == [page |-> p, size |-> n,
                   nth |-> CHOOSE i \in 1 .. MaxBlocks : \A b \in blocks : b.nth # i]

AllocateLarge(n, p) ==
    /\ Called /\ Cardinality(blocks) < MaxBlocks /\ IsLarge(n)
    /\ NewPage(p, mapped)
    /\ blocks' = blocks \cup {NewBlock(p, n)}
    /\ UNCHANGED <<platform, phase, temp, pools, broken>>

AllocateFromPool(n, p) ==
    /\ Called /\ Cardinality(blocks) < MaxBlocks /\ ~IsLarge(n)
    /\ p \in pools /\ HasRoom(p, n)
    /\ blocks' = blocks \cup {NewBlock(p, n)}
    /\ UNCHANGED <<platform, phase, mapped, temp, pages, PageNext, BasePage, pools, broken>>

(* TLSF answers null: another pool, and TLSF once more; assert(result).    *)
AllocateFromNewPool(n, p) ==
    /\ Called /\ Cardinality(blocks) < MaxBlocks /\ ~IsLarge(n)
    /\ \A q \in pools : ~HasRoom(q, n)
    /\ NewPage(p, mapped)
    /\ pools' = pools \cup {p}
    /\ IF HasRoom(p, n)
       THEN blocks' = blocks \cup {NewBlock(p, n)} /\ UNCHANGED broken
       ELSE broken' = broken \cup {"assertion"} /\ UNCHANGED blocks
    /\ UNCHANGED <<platform, phase, temp>>

(* Free: straight to TLSF, for a block with a page of its own too.         *)
Free(b) ==
    /\ Called
    /\ blocks' = blocks \ {b}
    /\ broken' = IF b.page \in pools THEN broken ELSE broken \cup {"foreign"}
    /\ UNCHANGED <<platform, phase, mapped, temp, pages, PageNext, BasePage, pools>>

(* Resize in place: TLSF answers null, which is no error, if it cannot.    *)
Resize(b, n) ==
    /\ Called
    /\ LET fits == InUse(b.page) - b.size + n <= Capacity(b.page, BasePage)
       IN  blocks' = IF b.page \in pools /\ fits
                     THEN (blocks \ {b}) \cup {[b EXCEPT !.size = n]} ELSE blocks
    /\ broken' = IF b.page \in pools THEN broken ELSE broken \cup {"foreign"}
    /\ UNCHANGED <<platform, phase, mapped, temp, pages, PageNext, BasePage, pools>>

(* platform_uninit_allocators, with both mutexes: the pages from the base  *)
(* page along Next, then the temporary block.                              *)
Chain[k \in Nat] ==
    [p \in Addresses \cup {Null} |->
        IF p = Null \/ k = 0 THEN {} ELSE {p} \cup Chain[k - 1][PageNext[p]]]

Uninit ==
    /\ Working /\ pending = 0
    /\ mapped' = IF platform = "posix" THEN mapped
                 ELSE mapped \ (Chain[Cardinality(Addresses)][BasePage] \cup {Block})
    /\ BasePage' = Null /\ Size' = 0 /\ Used' = 0
    /\ phase' = "down"
    /\ UNCHANGED <<platform, Block, pending, latest, pages, PageNext, tlsf>>

Next == \/ \E b, p \in Addresses : InitAllocators(b, p)
        \/ \E n \in TempRequests : \/ AllocateNext(n) \/ StartOver(n) \/ Outgrow(n)
                                   \/ \E b \in Addresses : Replace(n, b)
        \/ \E n \in Requests, p \in Addresses :
              AllocateLarge(n, p) \/ AllocateFromPool(n, p) \/ AllocateFromNewPool(n, p)
        \/ \E b \in blocks : Free(b)
        \/ \E b \in blocks, n \in Requests : Resize(b, n)
        \/ Uninit

Spec == Init /\ [][Next]_vars

-----------------------------------------------------------------------------
TypeOK ==
    /\ platform \in Platforms /\ phase \in {"start", "up", "down"}
    /\ mapped \subseteq Addresses /\ pages \subseteq Addresses /\ pools \subseteq pages
    /\ Block \in Addresses \cup {Null} /\ BasePage \in Addresses \cup {Null}
    /\ Size \in Nat /\ Used \in 0 .. Size /\ pending \in TempRequests \cup {0}
    /\ PageNext \in [Addresses -> Addresses \cup {Null}]
    /\ \A b \in blocks : b.page \in pages /\ b.size \in Requests
    /\ broken \subseteq {"assertion", "foreign"}

(* "Memory returned is only guaranteed to be valid until the next          *)
(* temporary alloc call": until then the latest temporary allocation lies  *)
(* in memory the process has, in the arena's block and below Used.         *)
LatestIsValid ==
    phase = "up" /\ pending = 0
        => /\ latest.block = Block /\ Block \in mapped
           /\ latest.at + latest.size <= Used /\ Used <= Size

(* On Windows an outgrown block is the system's again: all that is mapped  *)
(* are the persistent pages and one temporary block.  (On POSIX            *)
(* munmap(ptr, 0) gives nothing back.)                                     *)
OutgrownReturned ==
    platform = "windows" /\ phase = "up" /\ pending = 0
        => mapped \subseteq pages \cup {Block}

(* Temporary memory is valid until the next call, and what was outgrown is *)
(* with the system again.                                                  *)
TemporaryIsSound == LatestIsValid /\ OutgrownReturned

(* "Frees a memory block allocated by os_allocate_block()": what the       *)
(* temporary allocator frees is its own, the pages of the persistent one   *)
(* stay mapped, and none is the temporary block.                           *)
PagesStayMapped ==
    phase = "up" => pages \subseteq mapped /\ (pending = 0 => Block \notin pages)

(* The request that did not fit anywhere fits in the pool that was added   *)
(* for it: assert(result) holds, whatever was allocated and freed before.  *)
NewPoolSuffices == "assertion" \notin broken
=============================================================================
