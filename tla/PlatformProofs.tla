---------------------------- MODULE PlatformProofs ----------------------------
(***************************************************************************)
(* The arena keeps the allocator contract, for every size of its block and *)
(* every set of requests.  Then what is proved of the parts of MCPlatform  *)
(* one at a time, of all of them together: of every behaviour its runs     *)
(* check a few of.                                                         *)
(***************************************************************************)
EXTENDS MCPlatform, SequenceTheorems, WellFoundedInduction, TLAPS

HeldDisjoint == \A b, c \in held : b # c => Contract!Disjoint(b, c)

Bounded == /\ used <= MaxUsed /\ size <= MaxUsed
           /\ ~block => used = 0 /\ held = {}

IInv == TypeOK /\ HeldBelowUsed /\ HeldDisjoint /\ Bounded

LEMMA InitInv == Init => IInv
<1> SUFFICES ASSUME Init PROVE IInv
  OBVIOUS
<1>1. held = {} /\ used = 0 /\ block \in BOOLEAN /\ size \in {0, Provided}
  BY DEF Init
<1>2. TypeOK /\ Bounded
  BY <1>1, ArenaAssumption DEF TypeOK, Bounded
<1>3. HeldBelowUsed /\ HeldDisjoint
  BY <1>1 DEF HeldBelowUsed, HeldDisjoint
<1>4. QED
  BY <1>2, <1>3 DEF IInv

(* Each operation of the arena keeps the invariant.                        *)
LEMMA StepInv == IInv /\ [Next]_vars => IInv'
<1> SUFFICES ASSUME IInv, [Next]_vars PROVE IInv'
  OBVIOUS
<1> USE ArenaAssumption
<1> USE DEF IInv, TypeOK, HeldBelowUsed, HeldDisjoint, Bounded,
            Contract!Disjoint, Ready, Used0, Size0
<1>1. ASSUME NEW n \in Requests, Allocate(n) PROVE IInv'
  BY <1>1 DEF Allocate
<1>2. ASSUME NEW b \in held, NEW n \in Requests, Resize(b, n) PROVE IInv'
  <2>1. CASE IsLast(b)
    <3>1. b.at \in Nat /\ b.size \in Nat \ {0} /\ b.at + b.size = used
      BY <2>1 DEF IsLast
    <3>2. /\ used' = b.at + n
          /\ held' = (held \ {b}) \cup {[at |-> b.at, size |-> n]}
      BY <1>2, <2>1, <3>1 DEF Resize
    <3>3. \A c \in held \ {b} : c.at + c.size <= b.at
      BY <3>1
    <3>4. QED
      BY <1>2, <2>1, <3>1, <3>2, <3>3 DEF Resize
  <2>2. CASE ~IsLast(b)
    BY <1>2, <2>2 DEF Resize
  <2>3. QED
    BY <2>1, <2>2
<1>3. ASSUME NEW b \in held, Free(b) PROVE IInv'
  BY <1>3 DEF Free
<1>4. CASE FreeAll
  BY <1>4 DEF FreeAll
<1>5. CASE UNCHANGED vars
  BY <1>5 DEF vars
<1>6. QED
  BY <1>1, <1>2, <1>3, <1>4, <1>5 DEF Next

(* Each operation of the arena is one of the contract, or changes nothing  *)
(* a client can see (null, a FREE of a block it forgot).                   *)
LEMMA StepContract == IInv /\ IInv' /\ [Next]_vars => [Contract!Next]_held
<1> SUFFICES ASSUME IInv, IInv', [Next]_vars PROVE [Contract!Next]_held
  OBVIOUS
<1> USE ArenaAssumption
<1> USE DEF IInv, TypeOK, HeldBelowUsed, HeldDisjoint, Bounded,
            Contract!Disjoint, Ready, Used0, Size0
<1>1. ASSUME NEW n \in Requests, Allocate(n) PROVE [Contract!Next]_held
  <2>1. CASE held' = held
    BY <2>1
  <2>2. CASE held' # held
    <3> DEFINE b == [at |-> Used0, size |-> n]
    <3>1. held' = held \cup {b} /\ used' = Used0 + n /\ Used0 + n < Size0
      BY <1>1, <2>2 DEF Allocate
    <3>2. b.at = Used0 /\ b.size = n /\ Used0 \in Nat /\ n \in Nat \ {0}
      OBVIOUS
    <3>3. b \in Contract!Block
      BY <3>1, <3>2 DEF Contract!Block
    <3>4. b \notin held
      BY <3>2
    <3>5. Contract!Fits(b, held)
      BY <3>1, <3>2 DEF Contract!Fits, Contract!InSpace
    <3>6. QED
      BY <3>1, <3>3, <3>4, <3>5 DEF Contract!Next, Contract!Allocate
  <2>3. QED
    BY <2>1, <2>2
<1>2. ASSUME NEW b \in held, NEW n \in Requests, Resize(b, n)
      PROVE  [Contract!Next]_held
  <2>1. CASE held' = held
    BY <2>1
  <2>2. CASE held' # held
    <3> DEFINE resized == [at |-> b.at, size |-> n]
    <3>1. IsLast(b) /\ held' = (held \ {b}) \cup {resized} /\ used' = Used0 + (n - b.size)
      BY <1>2, <2>2 DEF Resize
    <3>2. b.at \in Nat /\ b.size \in Nat \ {0} /\ n \in Nat \ {0}
      OBVIOUS
    <3>3. block /\ b.at + b.size = used /\ b.at + n <= MaxUsed
      BY <1>2, <3>1, <3>2 DEF Resize, IsLast
    <3>4. Contract!Fits(resized, held \ {b})
      <4>1. \A c \in held \ {b} : c.at + c.size <= b.at
        BY <3>2, <3>3
      <4>2. QED
        BY <3>2, <3>3, <4>1 DEF Contract!Fits, Contract!InSpace
    <3>5. n \in 1 .. MaxUsed
      BY <3>2, <3>3
    <3>6. QED
      BY <3>1, <3>4, <3>5 DEF Contract!Next, Contract!Resize
  <2>3. QED
    BY <2>1, <2>2
<1>3. ASSUME NEW b \in held, Free(b) PROVE [Contract!Next]_held
  BY <1>3 DEF Free, Contract!Next, Contract!Free
<1>4. CASE FreeAll
  BY <1>4 DEF FreeAll, Contract!Next, Contract!FreeAll
<1>5. CASE UNCHANGED vars
  BY <1>5 DEF vars
<1>6. QED
  BY <1>1, <1>2, <1>3, <1>4, <1>5 DEF Next

LEMMA Always == Spec => []IInv
  BY InitInv, StepInv, PTL DEF Spec

(* Every block a client holds lies below the bump pointer, so the next     *)
(* ALLOCATE or RESIZE of arena_allocator cannot reach into it.             *)
THEOREM HeldBelowUsedHolds == Spec => []HeldBelowUsed
<1>1. IInv => HeldBelowUsed
  BY DEF IInv
<1>2. QED
  BY <1>1, Always, PTL

(* arena_allocator is an allocator as the comment above allocator_func_t   *)
(* describes one.                                                          *)
THEOREM ArenaKeepsContract == Spec => KeepsContract
<1>1. Init => Contract!Init
  BY DEF Init, Contract!Init
<1>2. QED
  BY <1>1, Always, StepContract, PTL DEF Spec, KeepsContract, Contract!Spec

-----------------------------------------------------------------------------
(* The files are proved about in a module of their own.                    *)
FP == INSTANCE FilesProofs WITH
          Systems <- Platforms, system <- host, dir <- names, calls <- made

all == <<part, vars, pool, pm, wd, cn, fs>>

-----------------------------------------------------------------------------
(* The platform's two allocators do not take each other's memory, for any  *)
(* sizes and requests, as long as one thread uses them: freeing the        *)
(* outgrown block twice is then harmless.                                  *)
Shaped == \A b \in blocks : b = [page |-> b.page, size |-> b.size, nth |-> b.nth]

(* Between the frees and the new block the temporary allocator has none,   *)
(* and none of the persistent pages is at the place of the old one.        *)
Apart ==
    /\ pages \subseteq mapped
    /\ Block \in Addresses \ pages
    /\ pending = 0 => Block \in mapped
    /\ platform = "windows" =>
          mapped \subseteq (IF pending = 0 THEN pages \cup {Block} ELSE pages)

LatestIsLast ==
    pending = 0 => /\ latest.block = Block
                   /\ latest.at \in Nat /\ latest.size \in Nat
                   /\ latest.at + latest.size <= Used

MemoryInv ==
    /\ PM!TypeOK /\ Shaped
    /\ phase # "up" => pending = 0
    /\ phase = "start" => pages = {}
    /\ phase = "up" => Apart /\ LatestIsLast

LEMMA MemoryInit == ASSUME PM!PlatformAssumption, PM!Init PROVE MemoryInv
  BY DEF PM!PlatformAssumption, PM!Init, MemoryInv, PM!TypeOK, Shaped

LEMMA InitAllocatorsKeeps ==
    ASSUME PM!PlatformAssumption, MemoryInv, NEW b \in Addresses, NEW pg \in Addresses,
           PM!InitAllocators(b, pg)
    PROVE  MemoryInv'
<1> USE DEF PM!PlatformAssumption, MemoryInv, PM!InitAllocators, PM!NewPage
<1>1. PM!TypeOK' BY DEF PM!TypeOK
<1>2. Shaped' BY DEF Shaped
<1>3. Apart' BY DEF Apart, PM!TypeOK
<1>4. LatestIsLast' BY DEF LatestIsLast
<1> QED BY <1>1, <1>2, <1>3, <1>4

(* The temporary allocator.                                                *)
LEMMA AnsweredInPlace ==
    ASSUME PM!PlatformAssumption, MemoryInv, NEW n \in TempRequests, PM!AllocateNext(n) \/ PM!StartOver(n)
    PROVE  MemoryInv'
<1> USE DEF PM!PlatformAssumption, MemoryInv, PM!AllocateNext, PM!StartOver, PM!Working, PM!ArenaFits, PM!Answered, PM!tlsf
<1>1. PM!TypeOK'
  <2>1. n \in Nat /\ Used \in Nat /\ Size \in Nat BY DEF PM!TypeOK
  <2>2. Used' \in 0 .. Size /\ Size' = Size BY <2>1
  <2> QED BY <2>2 DEF PM!TypeOK
<1>2. Shaped' BY DEF Shaped
<1>3. Apart' BY DEF Apart
<1>4. LatestIsLast' BY DEF LatestIsLast, PM!TypeOK
<1> QED BY <1>1, <1>2, <1>3, <1>4

(* The first free takes the block, ...                                     *)
LEMMA OutgrowKeeps ==
    ASSUME PM!PlatformAssumption, MemoryInv, NEW n \in TempRequests, PM!Outgrow(n) PROVE MemoryInv'
<1> USE DEF PM!PlatformAssumption, MemoryInv, PM!Outgrow, PM!Working, PM!OsFreed, PM!tlsf
<1>1. PM!TypeOK' BY DEF PM!TypeOK
<1>2. Shaped' BY DEF Shaped
<1>3. Apart' BY DEF Apart, PM!TypeOK
<1>4. LatestIsLast' BY DEF LatestIsLast
<1> QED BY <1>1, <1>2, <1>3, <1>4

(* ... the second finds nothing there that is somebody else's.             *)
LEMMA ReplaceKeeps ==
    ASSUME PM!PlatformAssumption, MemoryInv, NEW n \in TempRequests, NEW b \in Addresses, PM!Replace(n, b)
    PROVE  MemoryInv'
<1> USE DEF PM!PlatformAssumption, MemoryInv, PM!Replace, PM!OsFreed, PM!Answered, PM!tlsf
<1>1. PM!TypeOK'
  <2>1. n \in Nat BY DEF PM!TypeOK
  <2>2. Size' \in Nat /\ Used' \in 0 .. Size' BY <2>1
  <2>3. mapped' \subseteq Addresses /\ Block' \in Addresses /\ pending' = 0 BY DEF PM!TypeOK
  <2> QED BY <2>2, <2>3 DEF PM!TypeOK
<1>2. Shaped' BY DEF Shaped
<1>3. phase = "up" BY DEF PM!TypeOK
<1>4. Apart' BY <1>3 DEF Apart, PM!TypeOK
<1>5. LatestIsLast' BY DEF LatestIsLast
<1> QED BY <1>1, <1>2, <1>3, <1>4, <1>5

(* The persistent allocator: a new page is where nothing was.              *)
LEMMA NewPageKeepsApart ==
    ASSUME PM!PlatformAssumption, MemoryInv, phase = "up", pending = 0, NEW pg \in Addresses,
           PM!NewPage(pg, mapped), UNCHANGED <<platform, Block, pending>>
    PROVE  Apart' /\ pages' = pages \cup {pg} /\ mapped' \subseteq Addresses
           /\ BasePage' \in Addresses \cup {Null}
           /\ PageNext' \in [Addresses -> Addresses \cup {Null}]
  BY DEF MemoryInv, PM!TypeOK, PM!NewPage, Apart

LEMMA AllocateLargeKeeps ==
    ASSUME PM!PlatformAssumption, OneThread, MemoryInv, NEW n \in BlockRequests, NEW pg \in Addresses,
           PM!AllocateLarge(n, pg)
    PROVE  MemoryInv'
<1> USE DEF MemoryInv, PM!AllocateLarge, PM!Called, PM!Working, PM!temp
<1>1. Apart' /\ pages' = pages \cup {pg} /\ mapped' \subseteq Addresses
      /\ BasePage' \in Addresses \cup {Null} /\ PageNext' \in [Addresses -> Addresses \cup {Null}]
  BY NewPageKeepsApart
<1>2. PM!TypeOK' BY <1>1 DEF PM!TypeOK, PM!NewBlock
<1>3. Shaped' BY DEF Shaped, PM!NewBlock
<1>4. LatestIsLast' BY DEF LatestIsLast
<1> QED BY <1>1, <1>2, <1>3, <1>4

LEMMA AllocateFromPoolKeeps ==
    ASSUME PM!PlatformAssumption, MemoryInv, NEW n \in BlockRequests, NEW pg \in Addresses,
           PM!AllocateFromPool(n, pg)
    PROVE  MemoryInv'
<1> USE DEF MemoryInv, PM!AllocateFromPool, PM!Called, PM!Working, PM!temp
<1>1. PM!TypeOK' BY DEF PM!TypeOK, PM!NewBlock
<1>2. Shaped' BY DEF Shaped, PM!NewBlock
<1>3. Apart' BY DEF Apart
<1>4. LatestIsLast' BY DEF LatestIsLast
<1> QED BY <1>1, <1>2, <1>3, <1>4

LEMMA AllocateFromNewPoolKeeps ==
    ASSUME PM!PlatformAssumption, OneThread, MemoryInv, NEW n \in BlockRequests, NEW pg \in Addresses,
           PM!AllocateFromNewPool(n, pg)
    PROVE  MemoryInv'
<1> USE DEF MemoryInv, PM!AllocateFromNewPool, PM!Called, PM!Working, PM!temp
<1>1. Apart' /\ pages' = pages \cup {pg} /\ mapped' \subseteq Addresses
      /\ BasePage' \in Addresses \cup {Null} /\ PageNext' \in [Addresses -> Addresses \cup {Null}]
  BY NewPageKeepsApart
<1>2. PM!TypeOK' /\ Shaped'
  <2>1. CASE PM!HasRoom(pg, n)
    BY <1>1, <2>1 DEF PM!TypeOK, Shaped, PM!NewBlock
  <2>2. CASE ~PM!HasRoom(pg, n)
    BY <1>1, <2>2 DEF PM!TypeOK, Shaped
  <2> QED BY <2>1, <2>2
<1>3. LatestIsLast' BY DEF LatestIsLast
<1> QED BY <1>1, <1>2, <1>3

LEMMA BlockFreeKeeps ==
    ASSUME PM!PlatformAssumption, MemoryInv, NEW b \in blocks, PM!Free(b) PROVE MemoryInv'
<1> USE DEF MemoryInv, PM!Free, PM!Called, PM!Working, PM!temp
<1>1. PM!TypeOK' BY DEF PM!TypeOK
<1>2. Shaped' BY DEF Shaped
<1>3. Apart' BY DEF Apart
<1>4. LatestIsLast' BY DEF LatestIsLast
<1> QED BY <1>1, <1>2, <1>3, <1>4

LEMMA ResizeKeeps ==
    ASSUME PM!PlatformAssumption, MemoryInv, NEW b \in blocks, NEW n \in BlockRequests, PM!Resize(b, n)
    PROVE  MemoryInv'
<1>1. b = [page |-> b.page, size |-> b.size, nth |-> b.nth] BY DEF MemoryInv, Shaped
<1> DEFINE new == [b EXCEPT !.size = n]
<1>2. new = [page |-> b.page, size |-> n, nth |-> b.nth] BY <1>1
<1>3. blocks' \subseteq blocks \cup {new} BY DEF PM!Resize
<1> HIDE DEF new
<1> USE DEF MemoryInv, PM!Called, PM!Working, PM!temp
<1>4. PM!TypeOK' BY <1>2, <1>3 DEF PM!TypeOK, PM!Resize
<1>5. Shaped' BY <1>2, <1>3 DEF Shaped
<1>6. Apart' BY DEF Apart, PM!Resize
<1>7. LatestIsLast' BY DEF LatestIsLast, PM!Resize
<1> QED BY <1>4, <1>5, <1>6, <1>7 DEF PM!Resize

LEMMA UninitKeeps == ASSUME PM!PlatformAssumption, MemoryInv, PM!Uninit PROVE MemoryInv'
<1> USE DEF MemoryInv, PM!Uninit, PM!Working, PM!tlsf
<1>1. PM!TypeOK' BY DEF PM!TypeOK
<1>2. Shaped' BY DEF Shaped
<1> QED BY <1>1, <1>2

LEMMA MemoryKeeps == ASSUME PM!PlatformAssumption, OneThread, MemoryInv, [PM!Next]_pm PROVE MemoryInv'
<1>1. CASE UNCHANGED pm
  BY <1>1 DEF pm, MemoryInv, PM!TypeOK, Shaped, Apart, LatestIsLast
<1>2. CASE PM!Next
  BY <1>2, InitAllocatorsKeeps, AnsweredInPlace, OutgrowKeeps, ReplaceKeeps, AllocateLargeKeeps,
     AllocateFromPoolKeeps, AllocateFromNewPoolKeeps, BlockFreeKeeps, ResizeKeeps, UninitKeeps DEF PM!Next
<1> QED BY <1>1, <1>2

(* A pool has room for the largest request that is not large (1 MiB and 24 *)
(* bytes of overhead in the code).                                         *)
RoomInAPool == 2 * (PoolOverhead + Overhead) <= Start

(* The base page is a page of the persistent allocator, so that a new one  *)
(* has no control structure of TLSF in it.                                 *)
RoomInv == MemoryInv /\ BasePage \in pages \cup {Null} /\ PM!NewPoolSuffices

LEMMA NothingInUse == ASSUME NEW pg, {b \in blocks : b.page = pg} = {} PROVE PM!InUse(pg) = 0
<1> DEFINE iter == CHOOSE g : g =
                      [s \in SUBSET {} |-> IF s = {} THEN 0
                          ELSE LET x == CHOOSE x \in s : TRUE IN x.size + Overhead + g[s \ {x}]]
<1>1. iter = [s \in SUBSET {} |-> IF s = {} THEN 0
                  ELSE LET x == CHOOSE x \in s : TRUE IN x.size + Overhead + iter[s \ {x}]]
  <2> DEFINE f == [s \in SUBSET {} |-> 0]
  <2>1. f = [s \in SUBSET {} |-> IF s = {} THEN 0
                ELSE LET x == CHOOSE x \in s : TRUE IN x.size + Overhead + f[s \ {x}]]
    OBVIOUS
  <2> HIDE DEF f
  <2> QED BY <2>1, Zenon
<1>2. iter[{}] = 0
  BY <1>1
<1> HIDE DEF iter
<1>3. PM!InUse(pg) = iter[{b \in blocks : b.page = pg}]
  BY Zenon DEF PM!InUse, PM!MapThenSumSet, PM!MapThenFoldSet, iter
<1> QED BY <1>2, <1>3

LEMMA NewPoolHasRoom ==
    ASSUME PM!PlatformAssumption, OneThread, RoomInAPool, RoomInv, NEW n \in BlockRequests,
           NEW pg \in Addresses, PM!AllocateFromNewPool(n, pg)
    PROVE  PM!HasRoom(pg, n)
<1>1. pg \notin pages
  BY DEF RoomInv, MemoryInv, Apart, PM!AllocateFromNewPool, PM!Called, PM!Working, PM!NewPage
<1>2. pg # BasePage
  BY <1>1 DEF PM!PlatformAssumption, RoomInv
<1>3. PM!InUse(pg) = 0
  <2>1. {b \in blocks : b.page = pg} = {}
    BY <1>1 DEF RoomInv, MemoryInv, PM!TypeOK
  <2> QED BY <2>1, NothingInUse
<1>4. PM!Capacity(pg, BasePage) = Start - PoolOverhead
  BY <1>2 DEF PM!Capacity, PM!PlatformAssumption
<1>5. n \in Nat /\ n * 2 <= Start
  BY DEF PM!AllocateFromNewPool, PM!IsLarge, PM!PlatformAssumption
<1>6. 0 + n + Overhead <= Start - PoolOverhead
  BY <1>5 DEF RoomInAPool, PM!PlatformAssumption
<1> QED BY <1>3, <1>4, <1>6 DEF PM!HasRoom

LEMMA RoomKept ==
    ASSUME PM!PlatformAssumption, OneThread, RoomInAPool, RoomInv, [PM!Next]_pm PROVE RoomInv'
<1>1. MemoryInv'
  BY MemoryKeeps DEF RoomInv
<1>2. ASSUME NEW pg, NEW m, PM!NewPage(pg, m) PROVE BasePage' \in pages' \cup {Null}
  BY <1>2 DEF PM!NewPage, RoomInv
<1>3. ASSUME UNCHANGED <<pages, BasePage, broken>> PROVE RoomInv'
  BY <1>1, <1>3 DEF RoomInv, PM!NewPoolSuffices
<1>4. CASE UNCHANGED pm
  BY <1>3, <1>4 DEF pm
<1>5. ASSUME NEW b \in Addresses, NEW pg \in Addresses, PM!InitAllocators(b, pg) PROVE RoomInv'
  <2>1. PM!NewPage(pg, {b}) /\ broken' = broken
    BY <1>5 DEF PM!InitAllocators
  <2> QED BY <1>1, <1>2, <2>1 DEF RoomInv, PM!NewPoolSuffices
<1>6. ASSUME NEW n \in TempRequests,
             PM!AllocateNext(n) \/ PM!StartOver(n) \/ PM!Outgrow(n) \/ \E b \in Addresses : PM!Replace(n, b)
      PROVE  RoomInv'
  BY <1>3, <1>6 DEF PM!AllocateNext, PM!StartOver, PM!Outgrow, PM!Replace, PM!tlsf
<1>7. ASSUME NEW n \in BlockRequests, NEW pg \in Addresses, PM!AllocateLarge(n, pg) PROVE RoomInv'
  <2>1. PM!NewPage(pg, mapped) /\ broken' = broken
    BY <1>7 DEF PM!AllocateLarge
  <2> QED BY <1>1, <1>2, <2>1 DEF RoomInv, PM!NewPoolSuffices
<1>8. ASSUME NEW n \in BlockRequests, NEW pg \in Addresses, PM!AllocateFromPool(n, pg) PROVE RoomInv'
  BY <1>3, <1>8 DEF PM!AllocateFromPool
<1>9. ASSUME NEW n \in BlockRequests, NEW pg \in Addresses, PM!AllocateFromNewPool(n, pg) PROVE RoomInv'
  <2>1. PM!NewPage(pg, mapped) /\ broken' = broken
    BY <1>9, NewPoolHasRoom DEF PM!AllocateFromNewPool
  <2> QED BY <1>1, <1>2, <2>1 DEF RoomInv, PM!NewPoolSuffices
<1>10. ASSUME UNCHANGED <<pages, BasePage>>, broken' = broken \/ broken' = broken \cup {"foreign"}
       PROVE  RoomInv'
  BY <1>1, <1>10 DEF RoomInv, PM!NewPoolSuffices
<1>11. ASSUME NEW b \in blocks, PM!Free(b) PROVE RoomInv'
  BY <1>10, <1>11 DEF PM!Free
<1>12. ASSUME NEW b \in blocks, NEW n \in BlockRequests, PM!Resize(b, n) PROVE RoomInv'
  <2>1. UNCHANGED <<pages, BasePage>> /\ (broken' = broken \/ broken' = broken \cup {"foreign"})
    BY <1>12 DEF PM!Resize
  <2> QED BY <1>10, <2>1
<1>13. CASE PM!Uninit
  BY <1>1, <1>13 DEF PM!Uninit, RoomInv, PM!NewPoolSuffices, PM!tlsf
<1> QED BY <1>4, <1>5, <1>6, <1>7, <1>8, <1>9, <1>11, <1>12, <1>13 DEF PM!Next

LEMMA MemoryStep == [AllNext]_all => [PM!Next]_pm
  BY DEF AllNext, all

LEMMA MemoryPart == ASSUME OneThread PROVE AllSpec => []MemoryInv
<1>1. AllInit => MemoryInv
  BY MemoryInit, PartsAssumption DEF AllInit
<1>2. MemoryInv /\ [AllNext]_all => MemoryInv'
  BY MemoryStep, MemoryKeeps, PartsAssumption
<1> QED BY <1>1, <1>2, PTL DEF AllSpec, all

(* The pages of the persistent allocator stay mapped until the shutdown,   *)
(* although the temporary one frees its outgrown block twice.              *)
THEOREM PagesStayMappedInAll == ASSUME OneThread PROVE AllSpec => []PagesStayMapped
<1>1. MemoryInv => PagesStayMapped
  BY DEF MemoryInv, Apart, PagesStayMapped, PM!PagesStayMapped
<1> QED BY <1>1, MemoryPart, PTL

(* Memory platform_temp_alloc answered is valid until its next call, and   *)
(* what it outgrew is the system's again.                                  *)
THEOREM TemporaryIsSoundInAll == ASSUME OneThread PROVE AllSpec => []TemporaryIsSound
<1>1. MemoryInv => TemporaryIsSound
  BY DEF MemoryInv, PM!TypeOK, Apart, LatestIsLast, TemporaryIsSound, PM!TemporaryIsSound,
     PM!LatestIsValid, PM!OutgrownReturned
<1> QED BY <1>1, MemoryPart, PTL

(* The assertion that a new pool serves the request it was added for never *)
(* fails, with pools larger than TLSF's overhead (PlatformMemory).         *)
THEOREM NewPoolSufficesInAll ==
    ASSUME OneThread, RoomInAPool PROVE AllSpec => []NewPoolSuffices
<1>1. AllInit => RoomInv
  BY MemoryInit, PartsAssumption DEF AllInit, PM!Init, RoomInv, PM!NewPoolSuffices
<1>2. RoomInv /\ [AllNext]_all => RoomInv'
  BY MemoryStep, RoomKept, PartsAssumption
<1>3. RoomInv => NewPoolSuffices
  BY DEF RoomInv, NewPoolSuffices
<1> QED BY <1>1, <1>2, <1>3, PTL DEF AllSpec, all

-----------------------------------------------------------------------------
(* The working directory.                                                  *)
(* While a call is under way the current directory is among those that     *)
(* were current since it began.                                            *)
CwdIsRecent ==
    \A th \in Threads : pc[th] \in {"size", "read"} => cwd \in since[th]

(* The size a call has asked for is that of such a directory.              *)
SizeWasRequired ==
    \A th \in Threads : system = "windows" /\ pc[th] = "read"
                           => \E d \in since[th] : required[th] = Length[d] + 1

DirectoryInv == WD!TypeOK /\ CwdIsRecent /\ SizeWasRequired /\ WD!GetAnswersCwd /\ WD!CacheIsLive

LEMMA DirectoryInit == ASSUME WD!WorkingDirAssumption, WD!Init PROVE DirectoryInv
  BY DEF WD!WorkingDirAssumption, WD!Init, DirectoryInv, WD!TypeOK, CwdIsRecent, SizeWasRequired, WD!GetAnswersCwd, WD!CacheIsLive

(* A call that begins knows the directory of that moment.                  *)
LEMMA GetKeeps == ASSUME WD!WorkingDirAssumption, DirectoryInv, NEW th \in Threads, WD!Get(th) PROVE DirectoryInv'
<1> USE DEF DirectoryInv, WD!TypeOK, WD!Get, WD!At
<1>1. WD!TypeOK' OBVIOUS
<1>2. CwdIsRecent' BY DEF CwdIsRecent
<1>3. SizeWasRequired' BY DEF SizeWasRequired
<1>4. WD!GetAnswersCwd' BY DEF WD!GetAnswersCwd
<1>5. WD!CacheIsLive' BY DEF WD!CacheIsLive
<1> QED BY <1>1, <1>2, <1>3, <1>4, <1>5

LEMMA GetSizeKeeps == ASSUME WD!WorkingDirAssumption, DirectoryInv, NEW th \in Threads, WD!GetSize(th) PROVE DirectoryInv'
<1> USE DEF DirectoryInv, WD!TypeOK, WD!GetSize, WD!At
<1>1. WD!TypeOK' BY DEF WD!WorkingDirAssumption
<1>2. CwdIsRecent' BY DEF CwdIsRecent
<1>3. SizeWasRequired'
  <2> SUFFICES ASSUME NEW other \in Threads, system' = "windows", pc'[other] = "read"
               PROVE  \E d \in since'[other] : required'[other] = Length[d] + 1
    BY DEF SizeWasRequired
  <2>1. CASE other = th
    <3>1. cwd \in since'[th] /\ required'[th] = Length[cwd] + 1
      BY <2>1 DEF CwdIsRecent, SizeWasRequired
    <3> QED BY <2>1, <3>1
  <2>2. CASE other # th
    BY <2>2 DEF SizeWasRequired
  <2> QED BY <2>1, <2>2
<1>4. WD!GetAnswersCwd' BY DEF WD!GetAnswersCwd
<1>5. WD!CacheIsLive' BY DEF WD!CacheIsLive
<1> QED BY <1>1, <1>2, <1>3, <1>4, <1>5

(* What a call reads is the current directory; on Windows it is not only   *)
(* if a longer name than the one measured has become current.              *)
LEMMA GetReadKeeps == ASSUME WD!WorkingDirAssumption, DirectoryInv, NEW th \in Threads, WD!GetRead(th) PROVE DirectoryInv'
<1> USE DEF DirectoryInv, WD!TypeOK, WD!GetRead, WD!At
<1>1. WD!TypeOK' OBVIOUS
<1>2. CwdIsRecent' BY DEF CwdIsRecent
<1>3. SizeWasRequired' BY DEF SizeWasRequired
<1>4. WD!GetAnswersCwd'
  <2> SUFFICES ASSUME NEW other \in Threads, pc'[other] \in {"lock", "store"}
               PROVE  \/ dir'[other] \in since'[other]
                      \/ /\ system' = "windows" /\ dir'[other] = Garbage
                         /\ \E d, e \in since'[other] : Length[d] < Length[e]
    BY DEF WD!GetAnswersCwd
  <2>1. CASE other # th
    BY <2>1 DEF WD!GetAnswersCwd
  <2>2. CASE other = th /\ system = "windows" /\ Length[cwd] + 1 > required[th] + 1
    <3>1. PICK d \in since[th] : required[th] = Length[d] + 1
      BY <2>2 DEF SizeWasRequired
    <3>2. cwd \in since[th] /\ Length[d] \in Int /\ Length[cwd] \in Int
      BY DEF CwdIsRecent, WD!WorkingDirAssumption
    <3> QED BY <2>2, <3>1, <3>2
  <2>3. CASE other = th /\ ~(system = "windows" /\ Length[cwd] + 1 > required[th] + 1)
    BY <2>3 DEF CwdIsRecent
  <2> QED BY <2>1, <2>2, <2>3
<1>5. WD!CacheIsLive' BY DEF WD!CacheIsLive
<1> QED BY <1>1, <1>2, <1>3, <1>4, <1>5

(* The cache is dead only while the mutex is held.                         *)
LEMMA GetFreeKeeps == ASSUME WD!WorkingDirAssumption, DirectoryInv, NEW th \in Threads, WD!GetFree(th) PROVE DirectoryInv'
<1> USE DEF DirectoryInv, WD!TypeOK, WD!GetFree, WD!At
<1>1. WD!TypeOK' BY DEF WD!Freed, WD!Locked
<1>2. CwdIsRecent' BY DEF CwdIsRecent
<1>3. SizeWasRequired' BY DEF SizeWasRequired
<1>4. WD!GetAnswersCwd' BY DEF WD!GetAnswersCwd
<1>5. WD!CacheIsLive' BY DEF WD!CacheIsLive, WD!Locked, WD!WorkingDirAssumption
<1> QED BY <1>1, <1>2, <1>3, <1>4, <1>5

LEMMA GetStoreKeeps == ASSUME WD!WorkingDirAssumption, DirectoryInv, NEW th \in Threads, WD!GetStore(th) PROVE DirectoryInv'
<1> USE DEF DirectoryInv, WD!TypeOK, WD!GetStore, WD!At
<1>1. WD!TypeOK' BY DEF WD!Unlocked
<1>2. CwdIsRecent' BY DEF CwdIsRecent
<1>3. SizeWasRequired' BY DEF SizeWasRequired
<1>4. WD!GetAnswersCwd' BY DEF WD!GetAnswersCwd
<1>5. WD!CacheIsLive' BY DEF WD!CacheIsLive, WD!WorkingDirAssumption
<1> QED BY <1>1, <1>2, <1>3, <1>4, <1>5

(* The calls under way hear of the directory that becomes current.         *)
LEMMA SetKeeps ==
    ASSUME WD!WorkingDirAssumption, DirectoryInv, NEW th \in Threads, NEW d \in Dirs, WD!Set(th, d) PROVE DirectoryInv'
<1> USE DEF DirectoryInv, WD!TypeOK, WD!Set, WD!At
<1>1. WD!TypeOK' OBVIOUS
<1>2. CwdIsRecent' BY DEF CwdIsRecent
<1>3. SizeWasRequired' BY DEF SizeWasRequired
<1>4. WD!GetAnswersCwd' BY DEF WD!GetAnswersCwd
<1>5. WD!CacheIsLive' BY DEF WD!CacheIsLive
<1> QED BY <1>1, <1>2, <1>3, <1>4, <1>5

LEMMA SetRefusedKeeps ==
    ASSUME WD!WorkingDirAssumption, DirectoryInv, NEW th \in Threads, NEW d \in Dirs, WD!SetRefused(th, d) PROVE DirectoryInv'
<1> USE DEF DirectoryInv, WD!TypeOK, WD!SetRefused, WD!At
<1>1. WD!TypeOK' OBVIOUS
<1>2. CwdIsRecent' BY DEF CwdIsRecent
<1>3. SizeWasRequired' BY DEF SizeWasRequired
<1>4. WD!GetAnswersCwd' BY DEF WD!GetAnswersCwd
<1>5. WD!CacheIsLive' BY DEF WD!CacheIsLive
<1> QED BY <1>1, <1>2, <1>3, <1>4, <1>5

LEMMA SetStoreKeeps == ASSUME WD!WorkingDirAssumption, DirectoryInv, NEW th \in Threads, WD!SetStore(th) PROVE DirectoryInv'
<1> USE DEF DirectoryInv, WD!TypeOK, WD!SetStore, WD!At
<1>1. WD!TypeOK' OBVIOUS
<1>2. CwdIsRecent' BY DEF CwdIsRecent
<1>3. SizeWasRequired' BY DEF SizeWasRequired
<1>4. WD!GetAnswersCwd' BY DEF WD!GetAnswersCwd
<1>5. WD!CacheIsLive' BY DEF WD!CacheIsLive, WD!WorkingDirAssumption
<1> QED BY <1>1, <1>2, <1>3, <1>4, <1>5

LEMMA DirectoryKeeps == ASSUME WD!WorkingDirAssumption, DirectoryInv, [WD!Next]_wd PROVE DirectoryInv'
<1>1. CASE UNCHANGED wd
  BY <1>1 DEF wd, DirectoryInv, WD!TypeOK, CwdIsRecent, SizeWasRequired, WD!GetAnswersCwd, WD!CacheIsLive
<1>2. CASE WD!Next
  BY <1>2, GetKeeps, GetSizeKeeps, GetReadKeeps, GetFreeKeeps, GetStoreKeeps, SetKeeps, SetRefusedKeeps,
     SetStoreKeeps DEF WD!Next
<1> QED BY <1>1, <1>2

LEMMA DirectoryPart == AllSpec => []DirectoryInv
<1>1. WD!WorkingDirAssumption
  BY PartsAssumption
<1>2. AllInit => DirectoryInv
  BY <1>1, DirectoryInit DEF AllInit
<1>3. DirectoryInv /\ [AllNext]_all => DirectoryInv'
  <2>1. [AllNext]_all => [WD!Next]_wd
    BY DEF AllNext, all, wd
  <2> QED BY <1>1, <2>1, DirectoryKeeps
<1> QED BY <1>2, <1>3, PTL DEF AllSpec, all

(* What a get answers was the current directory at some moment of the      *)
(* call, but for a buffer too small on Windows, and the cached directory   *)
(* is live memory whenever the mutex is free, for any number of threads.   *)
THEOREM DirectoryIsCurrentInAll == AllSpec => []DirectoryIsCurrent
<1>1. DirectoryInv => DirectoryIsCurrent
  BY DEF DirectoryInv, DirectoryIsCurrent, WD!DirectoryIsCurrent
<1> QED BY <1>1, DirectoryPart, PTL

-----------------------------------------------------------------------------
(* The files.                                                              *)
LEMMA SameFiles == FS!Next => FP!Next
<1>1. \A n : FS!Stat(n) = FP!Stat(n) /\ FS!Resolved(n) = FP!Resolved(n)
  BY DEF FS!Stat, FP!Stat, FS!Resolved, FP!Resolved, FS!Follow, FP!Follow, FS!Nothing, FP!Nothing
<1>2. \A n : (FS!path_exists(n) <=> FP!path_exists(n)) /\ (FS!MayOpen(n) <=> FP!MayOpen(n))
             /\ (FS!path_is_file(n) <=> FP!path_is_file(n)) /\ (FS!path_is_directory(n) <=> FP!path_is_directory(n))
  BY <1>1 DEF FS!path_exists, FP!path_exists, FS!MayOpen, FP!MayOpen, FS!path_is_file, FP!path_is_file,
     FS!path_is_directory, FP!path_is_directory, FS!Nothing, FP!Nothing, FS!Exclusive, FP!Exclusive
<1>3. FS!Free = FP!Free /\ FS!Idle = FP!Idle
  BY DEF FS!Free, FP!Free, FS!File, FP!File, FS!Idle, FP!Idle, FS!NoInode, FP!NoInode
<1>4. \A k : FS!Done(k) = FP!Done(k)
  BY <1>3 DEF FS!Done, FP!Done, FS!NoInode, FP!NoInode
<1>5. \A c, new : FS!Goes(c, new) <=> FP!Goes(c, new)
  BY DEF FS!Goes, FP!Goes
<1>6. \A c, ok : FS!Ends(c, ok) <=> FP!Ends(c, ok)
  BY <1>4, <1>5 DEF FS!Ends, FP!Ends
<1>7. \A c, at : FS!To(c, at) <=> FP!To(c, at)
  BY <1>5 DEF FS!To, FP!To
<1>8. \A S : FS!Cardinality(S) = FP!Cardinality(S)
  BY DEF FS!Cardinality, FP!Cardinality
<1> USE DEF FS!At_, FP!At_, FS!posix, FP!posix, FS!windows, FP!windows, FS!Kept, FP!Kept,
            FS!Nothing, FP!Nothing, FS!Directory, FP!Directory, FS!File, FP!File, FS!Link, FP!Link,
            FS!NoInode, FP!NoInode
<1>9. \A c : FS!Begin(c) => FP!Begin(c)
  <2>1. \A op : FS!FirstPlace(op) = FP!FirstPlace(op)
    BY Zenon DEF FS!FirstPlace, FP!FirstPlace
  <2>2. ASSUME NEW c, NEW op, NEW from, NEW to, NEW o, NEW contents
        PROVE  FS!Begun(c, op, from, to, o, contents) = FP!Begun(c, op, from, to, o, contents)
    <3>1. /\ FS!Stat(from) = FP!Stat(from) /\ FS!Stat(to) = FP!Stat(to)
          /\ FS!FirstPlace(op) = FP!FirstPlace(op) /\ FS!Idle = FP!Idle
      BY <1>1, <1>3, <2>1
    <3>2. FS!path_is_file(from) = FP!path_is_file(from)
      BY <3>1, Zenon DEF FS!path_is_file, FP!path_is_file
    <3> QED BY <3>1, <3>2, Zenon DEF FS!Begun, FP!Begun
  <2> SUFFICES ASSUME NEW c, FS!Begin(c) PROVE FP!Begin(c)
    OBVIOUS
  <2> QED BY <1>5, <2>2, Zenon DEF FS!Begin, FP!Begin
<1>10. \A c : FS!CheckMove(c) => FP!CheckMove(c)
  BY <1>1, <1>2, <1>3, <1>4, <1>5, <1>6, <1>7, <1>8 DEF FS!CheckMove, FP!CheckMove
<1>11. \A c : FS!CheckCopy(c) => FP!CheckCopy(c)
  BY <1>1, <1>2, <1>3, <1>4, <1>5, <1>6, <1>7, <1>8 DEF FS!CheckCopy, FP!CheckCopy
<1>12. \A c : FS!OpenSource(c) => FP!OpenSource(c)
  BY <1>1, <1>2, <1>3, <1>4, <1>5, <1>6, <1>7, <1>8 DEF FS!OpenSource, FP!OpenSource
<1>13. \A c : FS!OpenDest(c) => FP!OpenDest(c)
  BY <1>1, <1>2, <1>3, <1>4, <1>5, <1>6, <1>7, <1>8 DEF FS!OpenDest, FP!OpenDest, FS!Exclusively, FP!Exclusively
<1>14. \A c : FS!CopyPiece(c) => FP!CopyPiece(c)
  BY <1>1, <1>2, <1>3, <1>4, <1>5, <1>6, <1>7, <1>8 DEF FS!CopyPiece, FP!CopyPiece, FS!Copied, FP!Copied, FS!Written, FP!Written
<1>15. \A c : FS!Unlink(c) => FP!Unlink(c)
  BY <1>1, <1>2, <1>3, <1>4, <1>5, <1>6, <1>7, <1>8 DEF FS!Unlink, FP!Unlink
<1>16. \A c : FS!Check(c) => FP!Check(c)
  BY <1>1, <1>2, <1>3, <1>4, <1>5, <1>6, <1>7, <1>8 DEF FS!Check, FP!Check
<1>17. \A c : FS!CopyFileW(c) => FP!CopyFileW(c)
  BY <1>1, <1>2, <1>3, <1>4, <1>5, <1>6, <1>7, <1>8 DEF FS!CopyFileW, FP!CopyFileW
<1>18. \A c : FS!MoveFileExW(c) => FP!MoveFileExW(c)
  BY <1>1, <1>2, <1>3, <1>4, <1>5, <1>6, <1>7, <1>8 DEF FS!MoveFileExW, FP!MoveFileExW
<1>19. \A c : FS!OpenRead(c) => FP!OpenRead(c)
  BY <1>1, <1>2, <1>3, <1>4, <1>5, <1>6, <1>7, <1>8 DEF FS!OpenRead, FP!OpenRead
<1>20. \A c : FS!Read(c) => FP!Read(c)
  BY <1>1, <1>2, <1>3, <1>4, <1>5, <1>6, <1>7, <1>8 DEF FS!Read, FP!Read
<1>21. \A c : FS!OpenWrite(c) => FP!OpenWrite(c)
  BY <1>1, <1>2, <1>3, <1>4, <1>5, <1>6, <1>7, <1>8 DEF FS!OpenWrite, FP!OpenWrite, FS!Empties, FP!Empties
<1>22. \A c : FS!Write(c) => FP!Write(c)
  BY <1>1, <1>2, <1>3, <1>4, <1>5, <1>6, <1>7, <1>8 DEF FS!Write, FP!Write, FS!ToWrite, FP!ToWrite, FS!length, FP!length
<1>23. \A c : (FS!May(c) => FP!May(c)) /\ (FS!Once(c) => FP!Once(c))
  BY <1>3, <1>5 DEF FS!May, FP!May, FS!Once, FP!Once
<1>24. \A c, n : FS!path_create_directory(c, n) => FP!path_create_directory(c, n)
  BY <1>1, <1>2, <1>23 DEF FS!path_create_directory, FP!path_create_directory
<1>25. \A c, n : FS!path_delete_file(c, n) => FP!path_delete_file(c, n)
  BY <1>1, <1>2, <1>23 DEF FS!path_delete_file, FP!path_delete_file
<1>26. \A c, n : FS!path_delete_directory(c, n) => FP!path_delete_directory(c, n)
  BY <1>1, <1>2, <1>23 DEF FS!path_delete_directory, FP!path_delete_directory
<1>27. \A c, n, m : FS!path_rename(c, n, m) => FP!path_rename(c, n, m)
  BY <1>1, <1>2, <1>23 DEF FS!path_rename, FP!path_rename
<1>28. \A c, n, m : FS!path_create_hard_link(c, n, m) => FP!path_create_hard_link(c, n, m)
  BY <1>1, <1>2, <1>23 DEF FS!path_create_hard_link, FP!path_create_hard_link
<1>29. \A c, n, m : FS!path_create_symbolic_link(c, n, m) => FP!path_create_symbolic_link(c, n, m)
  BY <1>1, <1>2, <1>23 DEF FS!path_create_symbolic_link, FP!path_create_symbolic_link
<1> QED BY <1>9, <1>10, <1>11, <1>12, <1>13, <1>14, <1>15, <1>16, <1>17, <1>18, <1>19, <1>20, <1>21, <1>22, <1>24, <1>25, <1>26, <1>27, <1>28, <1>29, Zenon DEF FS!Next, FP!Next

LEMMA FilesStep == [AllNext]_all => [FP!Next]_fs
  BY SameFiles DEF AllNext, all, fs

LEMMA FilesPart == AllSpec => []FP!IInv
<1>1. FP!FilesAssumption
  BY PartsAssumption DEF FS!FilesAssumption, FP!FilesAssumption, FS!NoInode, FP!NoInode,
     FS!Entries, FP!Entries, FS!Nothing, FP!Nothing, FS!Directory, FP!Directory, FS!File, FP!File,
     FS!Link, FP!Link
<1>2. AllInit => FP!IInv
  <2>1. FS!Free = FP!Free /\ FS!Idle = FP!Idle
    BY DEF FS!Free, FP!Free, FS!File, FP!File, FS!Idle, FP!Idle, FS!NoInode, FP!NoInode
  <2>2. FS!Init => FP!Init
    BY <2>1 DEF FS!Init, FP!Init
  <2> QED BY <1>1, <2>2, FP!IInvInit DEF AllInit
<1>3. FP!IInv /\ [AllNext]_all => FP!IInv'
  BY <1>1, FilesStep, FP!IInvNext DEF fs, FP!vars
<1> QED BY <1>2, <1>3, PTL DEF AllSpec, all

LEMMA SameEntries ==
    /\ FS!Nothing = FP!Nothing /\ FS!Directory = FP!Directory /\ FS!NoInode = FP!NoInode
    /\ \A n : FS!Stat(n) = FP!Stat(n)
    /\ \A n, s : FS!Holds(n, s) <=> FP!Holds(n, s)
<1>1. FS!Nothing = FP!Nothing /\ FS!Directory = FP!Directory /\ FS!NoInode = FP!NoInode
  BY DEF FS!Nothing, FP!Nothing, FS!Directory, FP!Directory, FS!NoInode, FP!NoInode
<1>2. \A n : FS!Stat(n) = FP!Stat(n)
  BY <1>1 DEF FS!Stat, FP!Stat, FS!Resolved, FP!Resolved, FS!Follow, FP!Follow
<1>3. \A n, s : FS!Holds(n, s) <=> FP!Holds(n, s)
  BY <1>1, <1>2 DEF FS!Holds, FP!Holds, FS!path_is_file, FP!path_is_file
<1> QED BY <1>1, <1>2, <1>3

(* A move that nobody else interferes with never loses what it moves, at   *)
(* any of its steps and however one of them fails.                         *)
THEOREM MoveLosesNothingInAll == AllSpec => []MoveLosesNothing
<1>1. FP!IInv => MoveLosesNothing
  BY SameEntries, FP!IInvSuffices DEF MoveLosesNothing, FS!MoveLosesNothing, FP!MoveLosesNothing
<1> QED BY <1>1, FilesPart, PTL

(* A copy or a move told not to overwrite writes only into a file it made  *)
(* itself, whatever others do between its check and its open.              *)
THEOREM OverwritesNothingInAll == AllSpec => OverwritesNothing
<1>1. FP!IInv /\ [AllNext]_all => [\A c \in Callers : FP!WritesOnlyItsOwn(c)]_fs
  BY FilesStep, FP!StepWrites DEF fs, FP!vars
<1>2. OverwritesNothing <=> [][\A c \in Callers : FP!WritesOnlyItsOwn(c)]_fs
  BY DEF OverwritesNothing, FS!OverwritesNothing, FP!WritesOnlyItsOwn, fs, FS!vars
<1> QED BY <1>1, <1>2, FilesPart, PTL DEF AllSpec, all

-----------------------------------------------------------------------------
(* The arena, beside the other parts.                                      *)
LEMMA ArenaStep == [AllNext]_all => [Next]_vars
  BY DEF AllNext, all

LEMMA ArenaPart == AllSpec => []IInv
<1>1. AllInit => IInv
  BY InitInv DEF AllInit
<1>2. IInv /\ [AllNext]_all => IInv'
  BY ArenaStep, StepInv
<1> QED BY <1>1, <1>2, PTL DEF AllSpec, all

(* Every block a client holds lies below the bump pointer.                 *)
THEOREM HeldBelowUsedInAll == AllSpec => []HeldBelowUsed
<1>1. IInv => HeldBelowUsed
  BY DEF IInv
<1> QED BY <1>1, ArenaPart, PTL

(* arena_allocator is an allocator as the comment above allocator_func_t   *)
(* describes one.                                                          *)
THEOREM KeepsContractInAll == AllSpec => KeepsContract
<1>1. AllInit => Contract!Init
  BY DEF AllInit, Init, Contract!Init
<1>2. IInv /\ IInv' /\ [AllNext]_all => [Contract!Next]_held
  BY ArenaStep, StepContract
<1> QED BY <1>1, <1>2, ArenaPart, PTL DEF AllSpec, all, KeepsContract, Contract!Spec

-----------------------------------------------------------------------------
(* The consoles.  A byte is <<writer, number of its call, place in it>>.   *)
Byte == Writers \X Nat \X Nat

(* What remains of a write is the end of its message.                      *)
EndOfMessage(w, rest) ==
    /\ Len(rest) <= CN!Call(w).size
    /\ \A i \in 1 .. Len(rest) : rest[i] = <<w, done[w] + 1, CN!Call(w).size - Len(rest) + i>>

ConsolesTyped ==
    /\ started \in [Consoles -> BOOLEAN]
    /\ buffer \in [Consoles -> Seq(Byte)] /\ out \in [Consoles -> Seq(Byte)]
    /\ \A c \in Consoles : Len(buffer[c]) <= BufferSize
    /\ done \in [Writers -> Nat] /\ \A w \in Writers : done[w] <= Len(Script[w])
    /\ current \in [Writers -> Seq(Byte)] /\ flushing \in [Writers -> BOOLEAN]

InAWrite ==
    \A w \in Writers :
        /\ flushing[w] => current[w] # << >>
        /\ current[w] # << >> =>
               ~CN!Finished(w) /\ CN!Call(w).op = "write" /\ EndOfMessage(w, current[w])

(* Between the flush and the next turn of write's loop, and before a write,*)
(* no buffer holds any of the message.                                     *)
FlushedBetween ==
    \A w \in Writers, c \in Consoles :
        ~flushing[w] => \A i \in 1 .. Len(buffer[c]) :
            ~(buffer[c][i][1] = w /\ buffer[c][i][2] = done[w] + 1)

ConsoleInv == ConsolesTyped /\ InAWrite /\ FlushedBetween /\ CN!BytesInOrder /\ CN!PiecesContiguous

LEMMA ScriptTyped ==
    ASSUME NEW w \in Writers, NEW k \in 1 .. Len(Script[w])
    PROVE  /\ Script[w][k].op \in {"write", "flush"} /\ Script[w][k].to \in Consoles
           /\ Script[w][k].size \in Nat /\ Len(Script[w]) \in Nat
<1>1. Script[w] \in Seq([op : {"write", "flush"}, to : Consoles, size : Nat])
  BY PartsAssumption DEF CN!ConsoleAssumption
<1>2. Script[w][k] \in [op : {"write", "flush"}, to : Consoles, size : Nat] /\ Len(Script[w]) \in Nat
  BY <1>1, ElementOfSeq, LenProperties
<1> QED BY <1>2

LEMMA CallTyped ==
    ASSUME ConsolesTyped, NEW w \in Writers, ~CN!Finished(w)
    PROVE  /\ done[w] + 1 \in 1 .. Len(Script[w]) /\ Len(Script[w]) \in Nat /\ CN!Call(w) = Script[w][done[w] + 1]
           /\ CN!Call(w).op \in {"write", "flush"} /\ CN!Call(w).to \in Consoles
           /\ CN!Call(w).size \in Nat
<1>1. Script[w] \in Seq([op : {"write", "flush"}, to : Consoles, size : Nat])
  BY PartsAssumption DEF CN!ConsoleAssumption
<1>2. Len(Script[w]) \in Nat
  BY <1>1, LenProperties
<1>3. done[w] + 1 \in 1 .. Len(Script[w])
  BY <1>2 DEF ConsolesTyped, CN!Finished
<1> QED BY <1>2, <1>3, ScriptTyped DEF CN!Call

(* Two pieces of a sequence: its first n elements, and the others.         *)
LEMMA Split ==
    ASSUME NEW S, NEW s \in Seq(S), NEW n \in 0 .. Len(s)
    PROVE  /\ SubSeq(s, 1, n) \in Seq(S) /\ Len(SubSeq(s, 1, n)) = n
           /\ \A i \in 1 .. n : SubSeq(s, 1, n)[i] = s[i]
           /\ SubSeq(s, n + 1, Len(s)) \in Seq(S) /\ Len(SubSeq(s, n + 1, Len(s))) = Len(s) - n
           /\ \A i \in 1 .. Len(s) - n : SubSeq(s, n + 1, Len(s))[i] = s[n + i]
<1>1. Len(s) \in Nat /\ \A i \in 1 .. Len(s) : s[i] \in S
  BY LenProperties, ElementOfSeq
<1>2. \A i \in 1 .. n : s[i] \in S
  BY <1>1
<1>3. \A i \in n + 1 .. Len(s) : s[i] \in S
  BY <1>1
<1>4. SubSeq(s, 1, n) \in Seq(S)
  BY <1>1, <1>2, SubSeqProperties
<1>5. Len(SubSeq(s, 1, n)) = n
  BY <1>1, <1>2, SubSeqProperties
<1>6. \A i \in 1 .. n : SubSeq(s, 1, n)[i] = s[i]
  BY <1>1, <1>2, SubSeqProperties
<1>7. SubSeq(s, n + 1, Len(s)) \in Seq(S)
  BY <1>1, <1>3, SubSeqProperties
<1>8. Len(SubSeq(s, n + 1, Len(s))) = Len(s) - n
  BY <1>1, <1>3, SubSeqProperties
<1>9. \A i \in 1 .. Len(s) - n : SubSeq(s, n + 1, Len(s))[i] = s[n + i]
  BY <1>1, <1>3, SubSeqProperties
<1> QED BY <1>4, <1>5, <1>6, <1>7, <1>8, <1>9

LEMMA Joined ==
    ASSUME NEW S, NEW a \in Seq(S), NEW b \in Seq(S)
    PROVE  /\ a \o b \in Seq(S) /\ Len(a) \in Nat /\ Len(b) \in Nat /\ Len(a \o b) = Len(a) + Len(b)
           /\ \A i \in 1 .. Len(a) : (a \o b)[i] = a[i] /\ a[i] \in S
           /\ \A i \in 1 .. Len(b) : (a \o b)[Len(a) + i] = b[i] /\ b[i] \in S
<1>1. Len(a) \in Nat /\ Len(b) \in Nat
  BY LenProperties
<1>2. (\A i \in 1 .. Len(a) : a[i] \in S) /\ \A i \in 1 .. Len(b) : b[i] \in S
  BY ElementOfSeq
<1>3. a \o b \in Seq(S) /\ Len(a \o b) = Len(a) + Len(b)
  BY ConcatProperties
<1>4. \A i \in 1 .. Len(a) + Len(b) : (a \o b)[i] = IF i <= Len(a) THEN a[i] ELSE b[i - Len(a)]
  BY ConcatProperties
<1>5. \A i \in 1 .. Len(a) : (a \o b)[i] = a[i]
  BY <1>1, <1>4
<1>6. \A i \in 1 .. Len(b) : (a \o b)[Len(a) + i] = b[i]
  BY <1>1, <1>4
<1> QED BY <1>1, <1>2, <1>3, <1>5, <1>6

LEMMA ThreeJoined ==
    \A a, b, d \in Seq(Byte) : (a \o b) \o d = a \o (b \o d)
BY ConcatAssociative

LEMMA InBuffer ==
    ASSUME ConsoleInv, NEW c \in Consoles, NEW i \in 1 .. Len(buffer[c])
    PROVE  /\ buffer[c][i] \in Byte /\ buffer[c][i][1] \in Writers
           /\ CN!Wrote(buffer[c][i][1], buffer[c][i][2], buffer[c][i][3], c)
<1>1. out[c] \in Seq(Byte) /\ buffer[c] \in Seq(Byte)
  BY DEF ConsoleInv, ConsolesTyped
<1>2. PICK a, b \in Seq(Byte) : a = out[c] /\ b = buffer[c]
  BY <1>1
<1>3. CN!Arrived(c) = a \o b /\ i \in 1 .. Len(b)
  BY <1>2 DEF CN!Arrived
<1>4. /\ Len(a) \in Nat /\ Len(b) \in Nat /\ Len(a \o b) = Len(a) + Len(b)
      /\ (a \o b)[Len(a) + i] = b[i] /\ b[i] \in Byte
  BY <1>3, Joined
<1>5. Len(a) + i \in 1 .. Len(a \o b)
  BY <1>3, <1>4
<1>6. CN!Arrived(c)[Len(a) + i] = buffer[c][i] /\ Len(a) + i \in 1 .. Len(CN!Arrived(c))
  BY <1>2, <1>3, <1>4, <1>5
<1>7. buffer[c][i] \in Byte
  BY <1>2, <1>4
<1> QED BY <1>6, <1>7 DEF ConsoleInv, CN!BytesInOrder

(* What has arrived and was written is all there is to the order.          *)
LEMMA OrderKept ==
    ASSUME CN!BytesInOrder, \A c \in Consoles : CN!Arrived(c)' = CN!Arrived(c),
           \A w \in Writers, c \in Consoles : \A k, i : CN!Wrote(w, k, i, c)' <=> CN!Wrote(w, k, i, c)
    PROVE  CN!BytesInOrder'
<1> SUFFICES ASSUME NEW c \in Consoles, NEW a, a = CN!Arrived(c), a = CN!Arrived(c)'
             PROVE  /\ \A w \in Writers : \A k \in 1 .. Len(Script[w]) : \A i \in 1 .. Script[w][k].size :
                          CN!Wrote(w, k, i, c)' => \E j \in 1 .. Len(a) : a[j] = <<w, k, i>>
                    /\ \A i \in 1 .. Len(a) : a[i][1] \in Writers /\ CN!Wrote(a[i][1], a[i][2], a[i][3], c)'
                    /\ \A i, j \in 1 .. Len(a) : i < j => CN!Before(a[i], a[j])
  BY DEF CN!BytesInOrder, CN!Before
<1>1. \A w \in Writers : \A k \in 1 .. Len(Script[w]) : \A i \in 1 .. Script[w][k].size :
          CN!Wrote(w, k, i, c) => \E j \in 1 .. Len(a) : a[j] = <<w, k, i>>
  <2> SUFFICES ASSUME NEW w \in Writers, NEW k \in 1 .. Len(Script[w]), NEW i \in 1 .. Script[w][k].size,
                      CN!Wrote(w, k, i, c)
               PROVE  \E j \in 1 .. Len(a) : a[j] = <<w, k, i>>
    OBVIOUS
  <2>1. \E j \in 1 .. Len(CN!Arrived(c)) : CN!Arrived(c)[j] = <<w, k, i>>
    BY Zenon DEF CN!BytesInOrder
  <2> QED BY <2>1
<1>2. \A i \in 1 .. Len(a) : a[i][1] \in Writers /\ CN!Wrote(a[i][1], a[i][2], a[i][3], c)
  BY DEF CN!BytesInOrder
<1>3. \A i, j \in 1 .. Len(a) : i < j => CN!Before(a[i], a[j])
  BY DEF CN!BytesInOrder
<1> QED BY <1>1, <1>2, <1>3, Zenon

LEMMA FlushKeeps ==
    ASSUME ConsoleInv, NEW c \in Consoles, CN!Flushed(c)
    PROVE  /\ \A d \in Consoles : CN!Arrived(d)' = CN!Arrived(d)
           /\ buffer'[c] = << >> /\ \A d \in Consoles \ {c} : buffer'[d] = buffer[d]
           /\ started' \in [Consoles -> BOOLEAN] /\ buffer' \in [Consoles -> Seq(Byte)]
           /\ out' \in [Consoles -> Seq(Byte)] /\ \A d \in Consoles : Len(buffer'[d]) <= BufferSize
           /\ CN!PiecesContiguous'
<1>1. started \in [Consoles -> BOOLEAN] /\ buffer \in [Consoles -> Seq(Byte)] /\ out \in [Consoles -> Seq(Byte)]
      /\ BufferSize \in Nat
  BY PartsAssumption DEF ConsoleInv, ConsolesTyped, CN!ConsoleAssumption
<1>2. << >> \in Seq(Byte) /\ Len(<< >>) = 0
  BY EmptySeq
<1>3. /\ buffer'[c] = << >> /\ out'[c] = out[c] \o buffer[c]
      /\ \A d \in Consoles \ {c} : buffer'[d] = buffer[d] /\ out'[d] = out[d]
      /\ buffer' \in [Consoles -> Seq(Byte)]
  BY <1>1, <1>2 DEF CN!Flushed
<1>4. out[c] \o buffer[c] \in Seq(Byte)
  BY <1>1, Joined
<1>5. started' \in [Consoles -> BOOLEAN] /\ out' \in [Consoles -> Seq(Byte)]
  BY <1>1, <1>4 DEF CN!Flushed
<1>6. (out[c] \o buffer[c]) \o << >> = out[c] \o buffer[c]
  BY <1>4, ConcatEmptySeq
<1>7. \A d \in Consoles : CN!Arrived(d)' = CN!Arrived(d)
  <2> SUFFICES ASSUME NEW d \in Consoles PROVE CN!Arrived(d)' = CN!Arrived(d)
    OBVIOUS
  <2>1. CASE d = c
    BY <1>3, <1>6, <2>1, Zenon DEF CN!Arrived
  <2>2. CASE d # c
    BY <1>3, <2>2 DEF CN!Arrived
  <2> QED BY <2>1, <2>2
<1>8. \A d \in Consoles : Len(buffer'[d]) <= BufferSize
  <2>1. Len(buffer'[c]) <= BufferSize
    BY <1>1, <1>2, <1>3
  <2>2. \A d \in Consoles \ {c} : Len(buffer'[d]) <= BufferSize
    BY <1>3 DEF ConsoleInv, ConsolesTyped
  <2> QED BY <2>1, <2>2
<1>9. CN!PiecesContiguous'
  <2> SUFFICES ASSUME NEW d \in Consoles, NEW i \in 1 .. Len(buffer'[d]), NEW j \in 1 .. Len(buffer'[d]),
                      i < j, CN!SameMessage(buffer'[d][i], buffer'[d][j]), NEW k \in i .. j
               PROVE  CN!SameMessage(buffer'[d][i], buffer'[d][k])
    BY DEF CN!PiecesContiguous, CN!SameMessage
  <2>1. d # c
    BY <1>2, <1>3
  <2>2. buffer'[d] = buffer[d]
    BY <1>3, <2>1
  <2> QED BY <2>2 DEF ConsoleInv, CN!PiecesContiguous
<1> QED BY <1>3, <1>1, <1>5, <1>7, <1>8, <1>9

LEMMA WriteFlushesKeeps == ASSUME ConsoleInv, NEW w \in Writers, CN!WriteFlushes(w) PROVE ConsoleInv'
<1>1. /\ flushing[w] /\ current[w] # << >> /\ ~CN!Finished(w)
      /\ done \in [Writers -> Nat] /\ current \in [Writers -> Seq(Byte)] /\ flushing \in [Writers -> BOOLEAN]
      /\ done' = done /\ current' = current /\ flushing' = [flushing EXCEPT ![w] = FALSE]
  BY DEF ConsoleInv, ConsolesTyped, InAWrite, CN!WriteFlushes
<1>2. PICK c \in Consoles : c = CN!Call(w).to /\ CN!Flushed(c)
  BY <1>1, CallTyped DEF CN!WriteFlushes, ConsoleInv
<1>3. /\ \A d \in Consoles : CN!Arrived(d)' = CN!Arrived(d)
      /\ buffer'[c] = << >> /\ \A d \in Consoles \ {c} : buffer'[d] = buffer[d]
      /\ started' \in [Consoles -> BOOLEAN] /\ buffer' \in [Consoles -> Seq(Byte)]
      /\ out' \in [Consoles -> Seq(Byte)] /\ \A d \in Consoles : Len(buffer'[d]) <= BufferSize
      /\ CN!PiecesContiguous'
  BY <1>2, FlushKeeps
<1>4. flushing' \in [Writers -> BOOLEAN] /\ ~flushing'[w] /\ \A v \in Writers \ {w} : flushing'[v] = flushing[v]
  BY <1>1
<1>5. ConsolesTyped'
  BY <1>1, <1>3, <1>4 DEF ConsoleInv, ConsolesTyped
<1>6. InAWrite'
  BY <1>1, <1>4 DEF ConsoleInv, InAWrite, CN!Finished, CN!Call, EndOfMessage
<1>7. FlushedBetween'
  <2> SUFFICES ASSUME NEW v \in Writers, NEW d \in Consoles, ~flushing'[v], NEW i \in 1 .. Len(buffer'[d]),
                      buffer'[d][i][1] = v, buffer'[d][i][2] = done[v] + 1
               PROVE  FALSE
    BY <1>1 DEF FlushedBetween
  <2>1. d # c
    BY <1>3, EmptySeq
  <2>2. buffer'[d] = buffer[d]
    BY <1>3, <2>1
  <2>3. CASE v = w
    <3>1. CN!Wrote(w, done[w] + 1, buffer[d][i][3], d)
      BY <2>2, <2>3, InBuffer
    <3>2. d = CN!Call(w).to
      BY <3>1 DEF CN!Wrote, CN!Call
    <3> QED BY <1>2, <2>1, <3>2
  <2>4. CASE v # w
    BY <1>4, <2>2, <2>4 DEF ConsoleInv, FlushedBetween
  <2> QED BY <2>3, <2>4
<1>8. CN!BytesInOrder'
  BY <1>1, <1>3, OrderKept DEF ConsoleInv, CN!Wrote
<1> QED BY <1>3, <1>5, <1>6, <1>7, <1>8 DEF ConsoleInv

LEMMA ConsoleFlushKeeps == ASSUME ConsoleInv, NEW w \in Writers, CN!Flush(w) PROVE ConsoleInv'
<1>1. /\ ~CN!Finished(w) /\ CN!Call(w).op = "flush" /\ current[w] = << >> /\ ~flushing[w]
      /\ done \in [Writers -> Nat] /\ current \in [Writers -> Seq(Byte)] /\ flushing \in [Writers -> BOOLEAN]
      /\ done' = [done EXCEPT ![w] = @ + 1] /\ current' = current /\ flushing' = flushing
  BY DEF ConsoleInv, ConsolesTyped, InAWrite, CN!Flush
<1>2. PICK c \in Consoles : c = CN!Call(w).to /\ CN!Flushed(c)
  BY <1>1, CallTyped DEF CN!Flush, ConsoleInv
<1>3. /\ \A d \in Consoles : CN!Arrived(d)' = CN!Arrived(d)
      /\ buffer'[c] = << >> /\ \A d \in Consoles \ {c} : buffer'[d] = buffer[d]
      /\ started' \in [Consoles -> BOOLEAN] /\ buffer' \in [Consoles -> Seq(Byte)]
      /\ out' \in [Consoles -> Seq(Byte)] /\ \A d \in Consoles : Len(buffer'[d]) <= BufferSize
      /\ CN!PiecesContiguous'
  BY <1>2, FlushKeeps
<1>4. done' \in [Writers -> Nat] /\ done'[w] = done[w] + 1 /\ \A v \in Writers \ {w} : done'[v] = done[v]
  BY <1>1
<1>5. /\ done[w] + 1 \in 1 .. Len(Script[w]) /\ Len(Script[w]) \in Nat /\ CN!Call(w) = Script[w][done[w] + 1]
  BY <1>1, CallTyped DEF ConsoleInv
<1>6. ConsolesTyped'
  BY <1>1, <1>3, <1>4, <1>5 DEF ConsoleInv, ConsolesTyped
<1>7. InAWrite'
  BY <1>1, <1>4 DEF ConsoleInv, InAWrite, CN!Finished, CN!Call, EndOfMessage
<1>8. ASSUME NEW v \in Writers, NEW d \in Consoles, NEW k, NEW i
      PROVE  CN!Wrote(v, k, i, d)' <=> CN!Wrote(v, k, i, d)
  <2>1. CASE v # w
    BY <1>1, <1>4, <2>1 DEF CN!Wrote
  <2>2. CASE v = w
    BY <1>1, <1>4, <1>5, <2>2 DEF CN!Wrote
  <2> QED BY <2>1, <2>2
<1>9. CN!BytesInOrder'
  BY <1>3, <1>8, OrderKept DEF ConsoleInv
<1>10. FlushedBetween'
  <2> SUFFICES ASSUME NEW v \in Writers, NEW d \in Consoles, ~flushing[v], NEW i \in 1 .. Len(buffer'[d]),
                      buffer'[d][i][1] = v, buffer'[d][i][2] = done'[v] + 1
               PROVE  FALSE
    BY <1>1 DEF FlushedBetween
  <2>1. d # c
    BY <1>3, EmptySeq
  <2>2. buffer'[d] = buffer[d]
    BY <1>3, <2>1
  <2>3. CASE v = w
    <3>1. CN!Wrote(w, done[w] + 1 + 1, buffer[d][i][3], d)
      BY <1>4, <2>2, <2>3, InBuffer
    <3> QED BY <1>1, <3>1 DEF CN!Wrote
  <2>4. CASE v # w
    BY <1>4, <2>2, <2>4 DEF ConsoleInv, FlushedBetween
  <2> QED BY <2>3, <2>4
<1> QED BY <1>3, <1>6, <1>7, <1>9, <1>10 DEF ConsoleInv

(* What has arrived at c was a, and then a piece arrives: bytes from + 1   *)
(* to from + n of call k of w, which follow what w wrote before.           *)
Grown(w, k, c, a, piece, from, n) ==
    /\ a = CN!Arrived(c) /\ CN!Arrived(c)' = a \o piece /\ Len(piece) = n
    /\ \A d \in Consoles \ {c} : CN!Arrived(d)' = CN!Arrived(d)
    /\ \A i \in 1 .. n : piece[i] = <<w, k, from + i>>
    /\ \A v \in Writers, d \in Consoles : \A j, i :
          CN!Wrote(v, j, i, d)' <=> CN!Wrote(v, j, i, d) \/ (v = w /\ j = k /\ d = c /\ i \in from + 1 .. from + n)
    /\ \A j, i : CN!Wrote(w, j, i, c) => (j \in Nat /\ j < k) \/ (j = k /\ i \in 1 .. from)

LEMMA PieceInOrder ==
    ASSUME NEW w \in Writers, NEW k \in 1 .. Len(Script[w]), NEW c \in Consoles, CN!BytesInOrder,
           NEW a \in Seq(Byte), NEW piece \in Seq(Byte), NEW from \in Nat, NEW n \in Nat,
           Grown(w, k, c, a, piece, from, n)
    PROVE  CN!BytesInOrder'
<1> USE DEF Grown
<1>1. /\ a \o piece \in Seq(Byte) /\ Len(a) \in Nat /\ Len(a \o piece) = Len(a) + n
      /\ \A i \in 1 .. Len(a) : (a \o piece)[i] = a[i]
      /\ \A i \in 1 .. n : (a \o piece)[Len(a) + i] = <<w, k, from + i>>
  <2>1. a \o piece \in Seq(Byte) /\ Len(a) \in Nat
    BY Joined
  <2>2. Len(a \o piece) = Len(a) + n
    BY Joined
  <2>3. \A i \in 1 .. Len(a) : (a \o piece)[i] = a[i]
    BY Joined
  <2>4. \A i \in 1 .. Len(piece) : (a \o piece)[Len(a) + i] = piece[i]
    BY Joined
  <2> QED BY <2>1, <2>2, <2>3, <2>4
<1>2. PICK b \in Seq(Byte) : b = a \o piece
  BY <1>1
<1>3. \A i \in 1 .. Len(a) : a[i][1] \in Writers /\ CN!Wrote(a[i][1], a[i][2], a[i][3], c)
  BY DEF CN!BytesInOrder
<1>4. \A i, j \in 1 .. Len(a) : i < j => CN!Before(a[i], a[j])
  BY DEF CN!BytesInOrder
<1>5. \A v \in Writers : \A j \in 1 .. Len(Script[v]) : \A i \in 1 .. Script[v][j].size :
          CN!Wrote(v, j, i, c) => \E m \in 1 .. Len(a) : a[m] = <<v, j, i>>
  BY DEF CN!BytesInOrder
<1>6. Len(b) = Len(a) + n /\ \A i \in 1 .. Len(b) : (i \in 1 .. Len(a) /\ b[i] = a[i])
          \/ (i - Len(a) \in 1 .. n /\ b[i] = <<w, k, from + (i - Len(a))>>)
  <2>1. \A i \in 1 .. n : b[Len(a) + i] = <<w, k, from + i>>
    BY <1>1, <1>2
  <2>2. \A i \in 1 .. Len(a) + n : i \in 1 .. Len(a) \/ (i - Len(a) \in 1 .. n /\ i = Len(a) + (i - Len(a)))
    BY <1>1
  <2> QED BY <1>1, <1>2, <2>1, <2>2
<1>7. \A v \in Writers : \A j \in 1 .. Len(Script[v]) : \A i \in 1 .. Script[v][j].size :
          CN!Wrote(v, j, i, c)' => \E m \in 1 .. Len(b) : b[m] = <<v, j, i>>
  <2> SUFFICES ASSUME NEW v \in Writers, NEW j \in 1 .. Len(Script[v]), NEW i \in 1 .. Script[v][j].size,
                      CN!Wrote(v, j, i, c)'
               PROVE  \E m \in 1 .. Len(b) : b[m] = <<v, j, i>>
    OBVIOUS
  <2>1. CASE CN!Wrote(v, j, i, c)
    <3>1. PICK m \in 1 .. Len(a) : a[m] = <<v, j, i>>
      BY <1>5, <2>1
    <3>2. m \in 1 .. Len(b) /\ b[m] = a[m]
      BY <1>1, <1>2
    <3> QED BY <3>1, <3>2
  <2>2. CASE v = w /\ j = k /\ i \in from + 1 .. from + n
    <3>1. i - from \in 1 .. n /\ from + (i - from) = i
      BY <2>2
    <3>2. PICK x \in 1 .. n : x = i - from
      BY <3>1
    <3>3. b[Len(a) + x] = <<w, k, from + x>> /\ from + x = i
      BY <1>1, <1>2, <3>1, <3>2
    <3>4. Len(a) + x \in 1 .. Len(b)
      BY <1>1, <1>6
    <3> QED BY <2>2, <3>3, <3>4
  <2> QED BY <2>1, <2>2
<1>8. \A i \in 1 .. Len(b) : b[i][1] \in Writers /\ CN!Wrote(b[i][1], b[i][2], b[i][3], c)'
  <2> SUFFICES ASSUME NEW i \in 1 .. Len(b)
               PROVE  b[i][1] \in Writers /\ CN!Wrote(b[i][1], b[i][2], b[i][3], c)'
    OBVIOUS
  <2>1. CASE i \in 1 .. Len(a) /\ b[i] = a[i]
    BY <1>3, <2>1
  <2>2. CASE i - Len(a) \in 1 .. n /\ b[i] = <<w, k, from + (i - Len(a))>>
    <3>1. b[i][1] = w /\ b[i][2] = k /\ b[i][3] = from + (i - Len(a))
      BY <2>2
    <3>2. from + (i - Len(a)) \in from + 1 .. from + n
      BY <1>1, <2>2
    <3>3. CN!Wrote(w, k, from + (i - Len(a)), c)'
      BY <3>2
    <3> QED BY <3>1, <3>3, Zenon
  <2> QED BY <1>6, <2>1, <2>2
<1>9. \A i, j \in 1 .. Len(b) : i < j => CN!Before(b[i], b[j])
  <2> SUFFICES ASSUME NEW i \in 1 .. Len(b), NEW j \in 1 .. Len(b), i < j PROVE CN!Before(b[i], b[j])
    OBVIOUS
  <2>1. CASE j \in 1 .. Len(a) /\ b[j] = a[j]
    <3>1. i \in 1 .. Len(a)
      BY <1>1, <1>2, <2>1
    <3>2. b[i] = a[i]
      BY <1>1, <1>2, <3>1
    <3> QED BY <1>4, <2>1, <3>1, <3>2
  <2>2. CASE j - Len(a) \in 1 .. n /\ b[j] = <<w, k, from + (j - Len(a))>>
    <3>1. b[j][1] = w /\ b[j][2] = k /\ b[j][3] = from + (j - Len(a))
      BY <2>2
    <3>2. CASE i \in 1 .. Len(a) /\ b[i] = a[i]
      <4> SUFFICES ASSUME b[i][1] = w PROVE b[i][2] < k \/ (b[i][2] = k /\ b[i][3] < from + (j - Len(a)))
        BY <3>1 DEF CN!Before
      <4>1. CN!Wrote(w, b[i][2], b[i][3], c)
        BY <1>3, <3>2
      <4>2. (b[i][2] \in Nat /\ b[i][2] < k) \/ (b[i][2] = k /\ b[i][3] \in 1 .. from)
        BY <4>1
      <4> QED BY <1>1, <2>2, <4>2
    <3>3. CASE i - Len(a) \in 1 .. n /\ b[i] = <<w, k, from + (i - Len(a))>>
      <4>1. b[i][2] = k /\ b[i][3] = from + (i - Len(a))
        BY <3>3
      <4>2. from + (i - Len(a)) < from + (j - Len(a))
        BY <1>1
      <4> QED BY <3>1, <4>1, <4>2 DEF CN!Before
    <3> QED BY <1>6, <3>2, <3>3
  <2> QED BY <1>6, <2>1, <2>2
<1> SUFFICES ASSUME NEW d \in Consoles, NEW e, e = CN!Arrived(d)'
             PROVE  /\ \A v \in Writers : \A j \in 1 .. Len(Script[v]) : \A i \in 1 .. Script[v][j].size :
                          CN!Wrote(v, j, i, d)' => \E m \in 1 .. Len(e) : e[m] = <<v, j, i>>
                    /\ \A i \in 1 .. Len(e) : e[i][1] \in Writers /\ CN!Wrote(e[i][1], e[i][2], e[i][3], d)'
                    /\ \A i, j \in 1 .. Len(e) : i < j => CN!Before(e[i], e[j])
  BY DEF CN!BytesInOrder, CN!Before
<1>10. CASE d = c
  <2>1. e = b
    BY <1>2, <1>10
  <2>2. \A v, j, i : CN!Wrote(v, j, i, d)' <=> CN!Wrote(v, j, i, c)'
    BY <1>10 DEF CN!Wrote
  <2>3. \A v \in Writers : \A j \in 1 .. Len(Script[v]) : \A i \in 1 .. Script[v][j].size :
            CN!Wrote(v, j, i, d)' => \E m \in 1 .. Len(e) : e[m] = <<v, j, i>>
    BY <1>7, <2>1, <2>2
  <2>4. \A i \in 1 .. Len(e) : e[i][1] \in Writers /\ CN!Wrote(e[i][1], e[i][2], e[i][3], d)'
    BY <1>8, <2>1, <2>2
  <2> QED BY <1>9, <2>1, <2>3, <2>4, Zenon
<1>11. CASE d # c
  <2>1. e = CN!Arrived(d)
    BY <1>11
  <2>2. \A v \in Writers : \A j, i : CN!Wrote(v, j, i, d)' <=> CN!Wrote(v, j, i, d)
    BY <1>11
  <2>3. \A v \in Writers : \A j \in 1 .. Len(Script[v]) : \A i \in 1 .. Script[v][j].size :
            CN!Wrote(v, j, i, d) => \E m \in 1 .. Len(e) : e[m] = <<v, j, i>>
    <3>1. PICK f : f = CN!Arrived(d)
      OBVIOUS
    <3>2. \A v \in Writers : \A j \in 1 .. Len(Script[v]) : \A i \in 1 .. Script[v][j].size :
              CN!Wrote(v, j, i, d) => \E m \in 1 .. Len(f) : f[m] = <<v, j, i>>
      BY <3>1 DEF CN!BytesInOrder
    <3> QED BY <2>1, <3>1, <3>2, Zenon
  <2>4. \A i \in 1 .. Len(e) : e[i][1] \in Writers /\ CN!Wrote(e[i][1], e[i][2], e[i][3], d)
    BY <2>1 DEF CN!BytesInOrder
  <2>5. \A i, j \in 1 .. Len(e) : i < j => CN!Before(e[i], e[j])
    BY <2>1 DEF CN!BytesInOrder
  <2> QED BY <2>2, <2>3, <2>4, <2>5, Zenon
<1> QED BY <1>10, <1>11

(* A piece at the end of a buffer that has none of its message.            *)
InOnePiece(b) ==
    \A i, j \in 1 .. Len(b) :
        i < j /\ CN!SameMessage(b[i], b[j]) => \A m \in i .. j : CN!SameMessage(b[i], b[m])
PieceOf(piece, w, k, from) == \A i \in 1 .. Len(piece) : piece[i] = <<w, k, from + i>>
NothingOf(b, w, k) == \A i \in 1 .. Len(b) : ~(b[i][1] = w /\ b[i][2] = k)

LEMMA JoinedElement ==
    ASSUME NEW a \in Seq(Byte), NEW b \in Seq(Byte), NEW i \in 1 .. Len(a \o b)
    PROVE  (\E x \in 1 .. Len(a) : (a \o b)[i] = a[x]) \/ (\E y \in 1 .. Len(b) : (a \o b)[i] = b[y])
<1>1. PICK m \in Nat, n \in Nat : m = Len(a) /\ n = Len(b)
  BY LenProperties
<1>2. Len(a \o b) = m + n
  BY <1>1, Joined
<1>3. \A x \in 1 .. Len(a) : (a \o b)[x] = a[x]
  BY Joined
<1>4. \A x \in 1 .. Len(b) : (a \o b)[Len(a) + x] = b[x]
  BY Joined
<1>5. CASE i <= m
  <2>1. i \in 1 .. m
    BY <1>2, <1>5
  <2>2. i \in 1 .. Len(a) /\ (a \o b)[i] = a[i]
    BY <1>1, <1>3, <2>1
  <2> QED BY <2>2, Zenon
<1>6. CASE i > m
  <2>1. i - m \in 1 .. n /\ i = m + (i - m)
    BY <1>2, <1>6
  <2>2. PICK y \in 1 .. n : i = m + y
    BY <2>1
  <2> QED BY <1>1, <1>4, <2>2
<1>7. i <= m \/ i > m
  BY <1>2
<1> QED BY <1>5, <1>6, <1>7, Zenon

LEMMA PieceInOnePiece ==
    ASSUME NEW b \in Seq(Byte), NEW piece \in Seq(Byte), NEW w, NEW k, NEW from,
           PieceOf(piece, w, k, from), NothingOf(b, w, k), InOnePiece(b)
    PROVE  InOnePiece(b \o piece)
<1> USE DEF PieceOf, NothingOf, InOnePiece
<1>1. PICK there \in Nat, n \in Nat : there = Len(b) /\ n = Len(piece)
  BY LenProperties
<1>2. PICK e \in Seq(Byte) : e = b \o piece
  BY Joined
<1>3. Len(e) = there + n
  BY <1>1, <1>2, Joined
<1>4. \A i \in 1 .. Len(b) : (b \o piece)[i] = b[i]
  BY Joined
<1>5. \A i \in 1 .. there : e[i] = b[i]
  BY <1>1, <1>2, <1>4
<1>6. \A i \in 1 .. Len(piece) : (b \o piece)[Len(b) + i] = piece[i]
  BY Joined
<1>7. \A i \in 1 .. n : e[there + i] = <<w, k, from + i>>
  BY <1>1, <1>2, <1>6
<1>8. \A x \in 1 .. there + n : x > there => e[x][1] = w /\ e[x][2] = k
  <2> SUFFICES ASSUME NEW x \in 1 .. there + n, x > there PROVE e[x][1] = w /\ e[x][2] = k
    OBVIOUS
  <2>1. x - there \in 1 .. n /\ x = there + (x - there)
    OBVIOUS
  <2>2. PICK y \in 1 .. n : x = there + y
    BY <2>1
  <2>3. e[x] = <<w, k, from + y>>
    BY <1>7, <2>2
  <2> QED BY <2>3
<1> SUFFICES ASSUME NEW i \in 1 .. there + n, NEW j \in 1 .. there + n, i < j,
                    CN!SameMessage(e[i], e[j]), NEW m \in i .. j
             PROVE  CN!SameMessage(e[i], e[m])
  BY <1>2, <1>3
<1>9. CASE j <= there
  <2>1. i \in 1 .. there /\ j \in 1 .. there /\ m \in 1 .. there
    BY <1>9
  <2>2. e[i] = b[i] /\ e[j] = b[j] /\ e[m] = b[m]
    BY <1>5, <2>1
  <2> QED BY <1>1, <2>1, <2>2
<1>10. CASE i > there
  <2>1. m > there /\ m \in 1 .. there + n
    BY <1>10
  <2> QED BY <1>8, <1>10, <2>1 DEF CN!SameMessage
<1>11. CASE i <= there /\ j > there
  <2>1. i \in 1 .. there
    BY <1>11
  <2>2. b[i][1] = w /\ b[i][2] = k
    BY <1>5, <1>8, <1>11, <2>1 DEF CN!SameMessage
  <2> QED BY <1>1, <2>1, <2>2
<1> QED BY <1>9, <1>10, <1>11

(* One turn of write's loop.                                               *)
LEMMA FillKeeps ==
    ASSUME ConsoleInv, NEW w \in Writers, ~CN!Finished(w), CN!Call(w).op = "write", ~flushing[w],
           NEW rest \in Seq(Byte), EndOfMessage(w, rest),
           current[w] # << >> => rest = current[w], current[w] = << >> => Len(rest) = CN!Call(w).size,
           CN!Fill(w, rest), UNCHANGED <<started, out>>
    PROVE  ConsoleInv'
<1>1. PICK c \in Consoles, k \in 1 .. Len(Script[w]), bytes \in Nat :
          /\ c = CN!Call(w).to /\ k = done[w] + 1 /\ bytes = CN!Call(w).size
          /\ CN!Call(w) = Script[w][k] /\ Len(Script[w]) \in Nat
  BY CallTyped DEF ConsoleInv
<1>2. /\ started \in [Consoles -> BOOLEAN] /\ buffer \in [Consoles -> Seq(Byte)] /\ out \in [Consoles -> Seq(Byte)]
      /\ \A d \in Consoles : Len(buffer[d]) <= BufferSize
      /\ done \in [Writers -> Nat] /\ \A v \in Writers : done[v] <= Len(Script[v])
      /\ current \in [Writers -> Seq(Byte)] /\ flushing \in [Writers -> BOOLEAN] /\ BufferSize \in Nat
  BY PartsAssumption DEF ConsoleInv, ConsolesTyped, CN!ConsoleAssumption
<1>3. PICK total \in Nat : total = Len(rest) /\ total <= bytes
  BY <1>1, LenProperties DEF EndOfMessage
<1>30. \A i \in 1 .. total : rest[i] = <<w, k, bytes - total + i>>
  BY <1>1, <1>3 DEF EndOfMessage
<1>32. current[w] = << >> => total = bytes
  BY <1>1, <1>3
<1>31. PICK b \in Seq(Byte), there \in Nat : b = buffer[c] /\ there = Len(b) /\ there <= BufferSize
  BY <1>2, LenProperties
<1>4. PICK room \in Nat : room = CN!Available(c) /\ room <= BufferSize - there
  <2>1. CN!Available(c) = BufferSize - there \/ CN!Available(c) = 0
    BY <1>31 DEF CN!Available
  <2> QED BY <1>2, <1>31, <2>1
<1>5. PICK n \in 0 .. total : n = IF total < room THEN total ELSE room
  OBVIOUS
<1>6. there + n <= BufferSize /\ n \in Nat
  BY <1>2, <1>4, <1>5
<1>7. PICK piece, left \in Seq(Byte) : piece = SubSeq(rest, 1, n) /\ left = SubSeq(rest, n + 1, total)
  <2>1. n \in 0 .. Len(rest)
    BY <1>3
  <2>2. SubSeq(rest, 1, n) \in Seq(Byte) /\ SubSeq(rest, n + 1, Len(rest)) \in Seq(Byte)
    BY <2>1, Split
  <2> QED BY <1>3, <2>2
<1>8. Len(piece) = n /\ \A i \in 1 .. n : piece[i] = rest[i]
  BY <1>3, <1>7, Split
<1>9. Len(left) = total - n /\ \A i \in 1 .. total - n : left[i] = rest[n + i]
  BY <1>3, <1>7, Split
<1>10. PICK from \in Nat : from = bytes - total
  BY <1>3
<1>11. \A i \in 1 .. n : piece[i] = <<w, k, from + i>>
  <2>1. \A i \in 1 .. n : i \in 1 .. total
    OBVIOUS
  <2> QED BY <1>8, <1>10, <1>30, <2>1
<1>12. \A i \in 1 .. Len(left) : left[i] = <<w, k, bytes - Len(left) + i>>
  <2> SUFFICES ASSUME NEW i \in 1 .. Len(left) PROVE left[i] = <<w, k, bytes - Len(left) + i>>
    OBVIOUS
  <2>1. n + i \in 1 .. total /\ bytes - total + (n + i) = bytes - Len(left) + i
    BY <1>3, <1>9
  <2>2. left[i] = rest[n + i]
    BY <1>3, <1>9
  <2> QED BY <1>30, <2>1, <2>2
<1>13. /\ buffer' = [buffer EXCEPT ![c] = @ \o piece] /\ current' = [current EXCEPT ![w] = left]
       /\ flushing' = [flushing EXCEPT ![w] = n < total]
       /\ done' = IF n < total THEN done ELSE [done EXCEPT ![w] = @ + 1]
       /\ started' = started /\ out' = out
  BY <1>1, <1>3, <1>4, <1>5, <1>7, Zenon DEF CN!Fill
<1>14. b \o piece \in Seq(Byte) /\ Len(b \o piece) = there + n
  <2>1. b \o piece \in Seq(Byte)
    BY Joined
  <2>2. Len(b \o piece) = Len(b) + Len(piece)
    BY Joined
  <2> QED BY <1>8, <1>31, <2>1, <2>2
<1>15. /\ buffer' \in [Consoles -> Seq(Byte)] /\ buffer'[c] = b \o piece
       /\ \A d \in Consoles \ {c} : buffer'[d] = buffer[d]
  BY <1>2, <1>13, <1>14, <1>31
<1>16. /\ current' \in [Writers -> Seq(Byte)] /\ current'[w] = left
       /\ \A v \in Writers \ {w} : current'[v] = current[v]
  BY <1>2, <1>13
<1>17. flushing' \in [Writers -> BOOLEAN] /\ (flushing'[w] <=> n < total)
       /\ \A v \in Writers \ {w} : flushing'[v] = flushing[v]
  <2>1. flushing' \in [Writers -> BOOLEAN]
    BY <1>2, <1>13
  <2>2. (flushing'[w] <=> n < total) /\ \A v \in Writers \ {w} : flushing'[v] = flushing[v]
    BY <1>2, <1>13, Zenon
  <2> QED BY <2>1, <2>2
<1>18. /\ done' \in [Writers -> Nat] /\ \A v \in Writers \ {w} : done'[v] = done[v]
       /\ n < total => done'[w] + 1 = k
       /\ ~(n < total) => done'[w] = k
  BY <1>1, <1>2, <1>13
<1>19. (left = << >>) <=> ~(n < total)
  <2>1. Len(left) = 0 <=> left = << >>
    BY EmptySeq
  <2> QED BY <1>3, <1>9, <2>1
<1>20. ConsolesTyped'
  <2>1. \A d \in Consoles : Len(buffer'[d]) <= BufferSize
    <3>1. Len(buffer'[c]) <= BufferSize
      BY <1>6, <1>14, <1>15
    <3>2. \A d \in Consoles \ {c} : Len(buffer'[d]) <= BufferSize
      BY <1>2, <1>15
    <3> QED BY <3>1, <3>2
  <2>2. \A v \in Writers : done'[v] <= Len(Script[v])
    <3>1. done'[w] <= Len(Script[w])
      BY <1>1, <1>2, <1>18
    <3>2. \A v \in Writers \ {w} : done'[v] <= Len(Script[v])
      BY <1>2, <1>18
    <3> QED BY <3>1, <3>2
  <2> QED BY <1>2, <1>13, <1>15, <1>16, <1>17, <1>18, <2>1, <2>2 DEF ConsolesTyped
<1>21. InAWrite'
  <2> SUFFICES ASSUME NEW v \in Writers
               PROVE  /\ flushing'[v] => current'[v] # << >>
                      /\ current'[v] # << >> =>
                             ~CN!Finished(v)' /\ CN!Call(v)'.op = "write" /\ EndOfMessage(v, current[v])'
    BY DEF InAWrite
  <2>1. CASE v = w
    <3>1. flushing'[w] <=> left # << >>
      BY <1>17, <1>19
    <3>2. ASSUME left # << >> PROVE ~CN!Finished(w)' /\ CN!Call(w)' = Script[w][k] /\ done'[w] + 1 = k
      BY <1>1, <1>2, <1>18, <1>19, <3>2 DEF CN!Finished, CN!Call
    <3>3. Len(left) <= bytes
      BY <1>3, <1>9
    <3>4. ASSUME left # << >> PROVE EndOfMessage(w, left)'
      BY <1>1, <1>12, <3>2, <3>3, <3>4 DEF EndOfMessage
    <3>5. EndOfMessage(w, current[w])' <=> EndOfMessage(w, left)'
      BY <1>16 DEF EndOfMessage
    <3> QED BY <1>1, <1>16, <2>1, <3>1, <3>2, <3>4, <3>5
  <2>2. CASE v # w
    <3>1. flushing[v] => current[v] # << >>
      BY DEF ConsoleInv, InAWrite
    <3>2. current[v] # << >> => ~CN!Finished(v) /\ CN!Call(v).op = "write" /\ EndOfMessage(v, current[v])
      BY DEF ConsoleInv, InAWrite
    <3>3. current'[v] = current[v] /\ flushing'[v] = flushing[v] /\ done'[v] = done[v]
      BY <1>16, <1>17, <1>18, <2>2
    <3>4. /\ CN!Finished(v)' <=> CN!Finished(v)
          /\ CN!Call(v)' = CN!Call(v) /\ (EndOfMessage(v, current[v])' <=> EndOfMessage(v, current[v]))
      BY <3>3, Zenon DEF CN!Finished, CN!Call, EndOfMessage
    <3> QED BY <3>1, <3>2, <3>3, <3>4
  <2> QED BY <2>1, <2>2
<1>22. \A j, i, d : CN!Wrote(w, j, i, d) => (j \in Nat /\ j < k) \/ (j = k /\ d = c /\ i \in 1 .. from)
  <2> SUFFICES ASSUME NEW j, NEW i, NEW d, CN!Wrote(w, j, i, d)
               PROVE  (j \in Nat /\ j < k) \/ (j = k /\ d = c /\ i \in 1 .. from)
    OBVIOUS
  <2>1. j \in 1 .. Len(Script[w]) /\ i \in 1 .. Script[w][j].size /\ d = Script[w][j].to
        /\ (j <= done[w] \/ (j = k /\ current[w] # << >> /\ i <= Script[w][j].size - Len(current[w])))
    BY <1>1 DEF CN!Wrote
  <2>2. CASE j <= done[w]
    BY <1>1, <1>2, <2>1, <2>2
  <2>3. CASE j = k /\ current[w] # << >> /\ i <= Script[w][j].size - Len(current[w])
    BY <1>1, <1>3, <1>10, <2>1, <2>3
  <2> QED BY <2>1, <2>2, <2>3
<1>23. ASSUME NEW v \in Writers, NEW d \in Consoles, NEW j, NEW i
       PROVE  CN!Wrote(v, j, i, d)' <=> CN!Wrote(v, j, i, d) \/ (v = w /\ j = k /\ d = c /\ i \in from + 1 .. from + n)
  <2>1. CASE v # w
    BY <1>16, <1>18, <2>1 DEF CN!Wrote
  <2>2. CASE v = w /\ j # k
    <3>1. CN!Wrote(w, j, i, d)' <=>
              /\ j \in 1 .. Len(Script[w]) /\ Script[w][j].op = "write" /\ Script[w][j].to = d
              /\ i \in 1 .. Script[w][j].size /\ j <= done[w]
      <4>1. CN!Wrote(w, j, i, d)' <=>
              /\ j \in 1 .. Len(Script[w]) /\ Script[w][j].op = "write" /\ Script[w][j].to = d
              /\ i \in 1 .. Script[w][j].size
              /\ j <= done'[w] \/ (j = done'[w] + 1 /\ left # << >> /\ i <= Script[w][j].size - Len(left))
        BY <1>16 DEF CN!Wrote
      <4>2. ASSUME j \in 1 .. Len(Script[w])
            PROVE  (j <= done'[w] \/ (j = done'[w] + 1 /\ left # << >> /\ i <= Script[w][j].size - Len(left)))
                       <=> j <= done[w]
        <5>1. j \in Int /\ done[w] \in Nat
          BY <1>1, <1>2, <4>2
        <5> QED BY <1>1, <1>18, <1>19, <2>2, <5>1
      <4> QED BY <4>1, <4>2
    <3>2. CN!Wrote(w, j, i, d) <=>
              /\ j \in 1 .. Len(Script[w]) /\ Script[w][j].op = "write" /\ Script[w][j].to = d
              /\ i \in 1 .. Script[w][j].size /\ j <= done[w]
      BY <1>1, <1>2, <2>2 DEF CN!Wrote
    <3> QED BY <2>2, <3>1, <3>2
  <2>3. CASE v = w /\ j = k
    <3>1. CN!Wrote(w, k, i, d)' <=> d = c /\ i \in 1 .. from + n
      <4>1. CN!Wrote(w, k, i, d)' <=>
              /\ c = d /\ i \in 1 .. bytes /\ (k <= done'[w] \/ (k = done'[w] + 1 /\ left # << >> /\ i <= bytes - Len(left)))
        BY <1>1, <1>16 DEF CN!Wrote
      <4>2. CASE n < total
        BY <1>3, <1>9, <1>10, <1>18, <1>19, <4>1, <4>2
      <4>3. CASE ~(n < total)
        BY <1>3, <1>9, <1>10, <1>18, <1>19, <4>1, <4>3
      <4> QED BY <4>2, <4>3
    <3>2. CN!Wrote(w, k, i, d) <=> d = c /\ i \in 1 .. from
      <4>1. CN!Wrote(w, k, i, d) <=> c = d /\ i \in 1 .. bytes /\ current[w] # << >> /\ i <= bytes - Len(current[w])
        <5>1. ~(k <= done[w]) /\ k = done[w] + 1 /\ k \in 1 .. Len(Script[w])
          BY <1>1, <1>2
        <5> QED BY <1>1, <5>1 DEF CN!Wrote
      <4>2. CASE current[w] = << >>
        <5>1. from = 0
          BY <1>10, <1>32, <4>2
        <5> QED BY <4>1, <4>2, <5>1
      <4>3. CASE current[w] # << >>
        BY <1>3, <1>10, <4>1, <4>3
      <4> QED BY <4>2, <4>3
    <3> QED BY <2>3, <3>1, <3>2
  <2> QED BY <2>1, <2>2, <2>3
<1>24. PICK a \in Seq(Byte) : a = CN!Arrived(c)
  BY <1>2, Joined DEF CN!Arrived
<1>25. CN!Arrived(c)' = a \o piece /\ \A d \in Consoles \ {c} : CN!Arrived(d)' = CN!Arrived(d)
  <2>1. PICK before \in Seq(Byte) : before = out[c]
    BY <1>2
  <2>2. (before \o b) \o piece = before \o (b \o piece)
    BY ThreeJoined
  <2>4. CN!Arrived(c)' = before \o (b \o piece)
    BY <1>13, <1>15, <2>1, Zenon DEF CN!Arrived
  <2>3. \A d \in Consoles \ {c} : CN!Arrived(d)' = CN!Arrived(d)
    BY <1>13, <1>15, Zenon DEF CN!Arrived
  <2> QED BY <1>24, <1>31, <2>1, <2>2, <2>3, <2>4, Zenon DEF CN!Arrived
<1>26. CN!BytesInOrder'
  <2>1. CN!BytesInOrder
    BY DEF ConsoleInv
  <2>2. \A v \in Writers, d \in Consoles : \A j, i :
            CN!Wrote(v, j, i, d)' <=> CN!Wrote(v, j, i, d) \/ (v = w /\ j = k /\ d = c /\ i \in from + 1 .. from + n)
    BY <1>23
  <2>3. \A j, i : CN!Wrote(w, j, i, c) => (j \in Nat /\ j < k) \/ (j = k /\ i \in 1 .. from)
    BY <1>22
  <2>4. n \in Nat /\ Len(piece) = n /\ \A i \in 1 .. n : piece[i] = <<w, k, from + i>>
    BY <1>6, <1>8, <1>11
  <2>5. CN!Arrived(c)' = a \o piece /\ \A d \in Consoles \ {c} : CN!Arrived(d)' = CN!Arrived(d)
    BY <1>25
  <2>6. Grown(w, k, c, a, piece, from, n)
    BY <1>24, <2>2, <2>3, <2>4, <2>5, Zenon DEF Grown
  <2> QED BY <2>1, <2>4, <2>6, PieceInOrder
<1>27. CN!PiecesContiguous'
  <2>1. PieceOf(piece, w, k, from)
    BY <1>8, <1>11 DEF PieceOf
  <2>2. NothingOf(b, w, k)
    BY <1>1, <1>31 DEF ConsoleInv, FlushedBetween, NothingOf
  <2>3. InOnePiece(b)
    BY <1>31 DEF ConsoleInv, CN!PiecesContiguous, InOnePiece
  <2>4. InOnePiece(b \o piece)
    BY <2>1, <2>2, <2>3, PieceInOnePiece
  <2> SUFFICES ASSUME NEW d \in Consoles, NEW i \in 1 .. Len(buffer'[d]), NEW j \in 1 .. Len(buffer'[d]),
                      i < j, CN!SameMessage(buffer'[d][i], buffer'[d][j]), NEW m \in i .. j
               PROVE  CN!SameMessage(buffer'[d][i], buffer'[d][m])
    BY DEF CN!PiecesContiguous, CN!SameMessage
  <2>5. CASE d # c
    <3>1. buffer'[d] = buffer[d]
      BY <1>15, <2>5
    <3> QED BY <3>1 DEF ConsoleInv, CN!PiecesContiguous
  <2>6. CASE d = c
    <3>1. buffer'[d] = b \o piece
      BY <1>15, <2>6
    <3> QED BY <2>4, <3>1 DEF InOnePiece
  <2> QED BY <2>5, <2>6
<1>28. FlushedBetween'
  <2> SUFFICES ASSUME NEW v \in Writers, NEW d \in Consoles, ~flushing'[v], NEW i \in 1 .. Len(buffer'[d]),
                      buffer'[d][i][1] = v, buffer'[d][i][2] = done'[v] + 1
               PROVE  FALSE
    BY DEF FlushedBetween
  <2>1. (\E x \in 1 .. Len(buffer[d]) : buffer'[d][i] = buffer[d][x]) \/ (v = w /\ buffer'[d][i][2] = k)
    <3>1. CASE d # c
      BY <1>15, <3>1
    <3>2. CASE d = c
      <4>1. buffer'[d] = b \o piece /\ buffer[d] = b
        BY <1>15, <1>31, <3>2
      <4>2. (\E x \in 1 .. Len(b) : (b \o piece)[i] = b[x]) \/ (\E y \in 1 .. Len(piece) : (b \o piece)[i] = piece[y])
        BY <4>1, JoinedElement
      <4>3. \A y \in 1 .. Len(piece) : piece[y][1] = w /\ piece[y][2] = k
        BY <1>8, <1>11
      <4> QED BY <4>1, <4>2, <4>3
    <3> QED BY <3>1, <3>2
  <2>2. CASE v = w
    <3>1. done'[w] = k
      BY <1>17, <1>18, <2>2
    <3>2. ~(buffer'[d][i][2] = k)
      BY <2>2, <3>1
    <3>3. PICK x \in 1 .. Len(buffer[d]) : buffer'[d][i] = buffer[d][x]
      BY <2>1, <3>2
    <3>4. CN!Wrote(w, k + 1, buffer[d][x][3], d)
      BY <2>2, <3>1, <3>3, InBuffer
    <3>5. k \in Nat
      BY <1>1
    <3> QED BY <1>22, <3>4, <3>5
  <2>3. CASE v # w
    <3>1. PICK x \in 1 .. Len(buffer[d]) : buffer'[d][i] = buffer[d][x]
      BY <2>1, <2>3
    <3>2. ~flushing[v] /\ done'[v] = done[v]
      BY <1>17, <1>18, <2>3
    <3> QED BY <3>1, <3>2 DEF ConsoleInv, FlushedBetween
  <2> QED BY <2>2, <2>3
<1> QED BY <1>20, <1>21, <1>26, <1>27, <1>28 DEF ConsoleInv

LEMMA StartWriteKeeps == ASSUME ConsoleInv, NEW w \in Writers, CN!StartWrite(w) PROVE ConsoleInv'
<1>1. PICK k \in 1 .. Len(Script[w]), n \in Nat : k = done[w] + 1 /\ n = CN!Call(w).size
  BY CallTyped DEF ConsoleInv, CN!StartWrite
<1>2. PICK rest : rest = [i \in 1 .. n |-> <<w, k, i>>]
  OBVIOUS
<1>3. k \in Nat
  <2>1. Len(Script[w]) \in Nat
    BY ScriptTyped
  <2> QED BY <1>1, <2>1
<1>4. \A i \in 1 .. n : <<w, k, i>> \in Byte
  BY <1>3 DEF Byte
<1>5. rest \in Seq(Byte) /\ Len(rest) = n
  <2>1. rest \in [1 .. n -> Byte] /\ DOMAIN rest = 1 .. n
    BY <1>1, <1>2, <1>4
  <2>2. rest \in Seq(Byte)
    BY <2>1
  <2> QED BY <2>1, <2>2
<1>6. EndOfMessage(w, rest)
  BY <1>1, <1>2, <1>5 DEF EndOfMessage
<1>7. CN!Fill(w, rest)
  BY <1>1, <1>2, Zenon DEF CN!StartWrite, CN!Message
<1>8. /\ ~CN!Finished(w) /\ CN!Call(w).op = "write" /\ current[w] = << >> /\ ~flushing[w]
      /\ UNCHANGED <<started, out>>
  BY DEF CN!StartWrite
<1> QED BY <1>1, <1>5, <1>6, <1>7, <1>8, FillKeeps

LEMMA ContinueWriteKeeps == ASSUME ConsoleInv, NEW w \in Writers, CN!ContinueWrite(w) PROVE ConsoleInv'
<1>1. PICK rest \in Seq(Byte) : rest = current[w]
  BY DEF ConsoleInv, ConsolesTyped
<1>2. current[w] # << >> /\ ~flushing[w] /\ CN!Fill(w, rest) /\ UNCHANGED <<started, out>>
  BY <1>1 DEF CN!ContinueWrite
<1>3. ~CN!Finished(w) /\ CN!Call(w).op = "write" /\ EndOfMessage(w, rest)
  BY <1>1, <1>2 DEF ConsoleInv, InAWrite
<1> QED BY <1>1, <1>2, <1>3, FillKeeps

LEMMA ConsoleInit == CN!Init => ConsoleInv
<1> SUFFICES ASSUME CN!Init PROVE ConsoleInv
  OBVIOUS
<1>1. << >> \in Seq(Byte) /\ Len(<< >>) = 0 /\ BufferSize \in Nat
  BY EmptySeq, PartsAssumption DEF CN!ConsoleAssumption
<1>2. \A w \in Writers : Len(Script[w]) \in Nat
  BY PartsAssumption, LenProperties DEF CN!ConsoleAssumption
<1>3. /\ started \in [Consoles -> BOOLEAN] /\ buffer \in [Consoles -> Seq(Byte)] /\ out \in [Consoles -> Seq(Byte)]
      /\ done \in [Writers -> Nat] /\ current \in [Writers -> Seq(Byte)] /\ flushing \in [Writers -> BOOLEAN]
  BY <1>1 DEF CN!Init
<1>4. (\A c \in Consoles : buffer[c] = << >> /\ out[c] = << >>)
      /\ \A w \in Writers : done[w] = 0 /\ current[w] = << >> /\ ~flushing[w]
  BY DEF CN!Init
<1>5. ConsolesTyped
  BY <1>1, <1>2, <1>3, <1>4 DEF ConsolesTyped
<1>6. InAWrite /\ FlushedBetween
  BY <1>1, <1>4 DEF InAWrite, FlushedBetween
<1>7. \A c \in Consoles : Len(CN!Arrived(c)) = 0
  <2>1. << >> \o << >> = << >>
    BY <1>1, ConcatEmptySeq
  <2> QED BY <1>1, <1>4, <2>1 DEF CN!Arrived
<1>8. CN!BytesInOrder
  <2>1. \A w \in Writers, c \in Consoles : \A k \in 1 .. Len(Script[w]) : \A i : ~CN!Wrote(w, k, i, c)
    BY <1>2, <1>4 DEF CN!Wrote
  <2> QED BY <1>7, <2>1 DEF CN!BytesInOrder
<1>9. CN!PiecesContiguous
  BY <1>1, <1>4 DEF CN!PiecesContiguous
<1> QED BY <1>5, <1>6, <1>8, <1>9 DEF ConsoleInv

LEMMA ConsoleStays == ASSUME ConsoleInv, UNCHANGED cn PROVE ConsoleInv'
<1>1. UNCHANGED <<started, buffer, out, done, current, flushing>>
  BY DEF cn
<1>2. ConsolesTyped' /\ InAWrite' /\ FlushedBetween' /\ CN!PiecesContiguous'
  BY <1>1 DEF ConsoleInv, ConsolesTyped, InAWrite, FlushedBetween, CN!PiecesContiguous, CN!SameMessage,
              CN!Finished, CN!Call, EndOfMessage
<1>3. CN!BytesInOrder'
  BY <1>1, OrderKept DEF ConsoleInv, CN!Arrived, CN!Wrote
<1> QED BY <1>2, <1>3 DEF ConsoleInv

LEMMA ConsoleStep == [AllNext]_all => [CN!Next]_cn
  BY DEF AllNext, all, cn

LEMMA ConsolePart == AllSpec => []ConsoleInv
<1>1. AllInit => ConsoleInv
  BY ConsoleInit DEF AllInit
<1>2. ConsoleInv /\ [AllNext]_all => ConsoleInv'
  BY ConsoleStep, ConsoleStays, StartWriteKeeps, WriteFlushesKeeps, ContinueWriteKeeps, ConsoleFlushKeeps
     DEF CN!Next
<1> QED BY <1>1, <1>2, PTL DEF AllSpec, all

-----------------------------------------------------------------------------
(* What a flush promises to its caller.  What was shown stays shown, ...   *)
LEMMA ShownStays ==
    ASSUME ConsoleInv, NEW c \in Consoles, CN!Flushed(c)
    PROVE  \A d \in Consoles : \A w, k, i : CN!Shown(w, k, i, d) => CN!Shown(w, k, i, d)'
<1>1. PICK a, b \in Seq(Byte) : a = out[c] /\ b = buffer[c]
  BY DEF ConsoleInv, ConsolesTyped
<1>2. out'[c] = a \o b /\ \A d \in Consoles \ {c} : out'[d] = out[d]
  BY <1>1 DEF CN!Flushed, ConsoleInv, ConsolesTyped
<1>3. Len(a) \in Nat /\ Len(b) \in Nat /\ Len(a \o b) = Len(a) + Len(b) /\ \A j \in 1 .. Len(a) : (a \o b)[j] = a[j]
  BY Joined
<1>4. \A j \in 1 .. Len(a) : j \in 1 .. Len(a \o b)
  BY <1>3
<1> SUFFICES ASSUME NEW d \in Consoles, NEW w, NEW k, NEW i, CN!Shown(w, k, i, d) PROVE CN!Shown(w, k, i, d)'
  OBVIOUS
<1>5. CASE d = c
  <2>1. PICK j \in 1 .. Len(a) : a[j] = <<w, k, i>>
    BY <1>1, <1>5 DEF CN!Shown
  <2>2. (a \o b)[j] = <<w, k, i>> /\ j \in 1 .. Len(a \o b)
    BY <1>3, <1>4, <2>1
  <2> QED BY <1>2, <1>5, <2>2 DEF CN!Shown
<1>6. CASE d # c
  BY <1>2, <1>6 DEF CN!Shown
<1> QED BY <1>5, <1>6

(* ... so that a step in which no flush returns keeps the promise.         *)
LEMMA PromiseStays ==
    ASSUME CN!FlushedIsShown, done \in [Writers -> Nat], done' \in [Writers -> Nat],
           \A d \in Consoles : \A w, k, i : CN!Shown(w, k, i, d) => CN!Shown(w, k, i, d)',
           NEW w \in Writers, NEW f \in 1 .. done'[w], f \in 1 .. done[w], Script[w][f].op = "flush",
           NEW k \in 1 .. f, NEW c \in Consoles, NEW i \in 1 .. Script[w][k].size,
           c = Script[w][f].to, CN!Wrote(w, k, i, c)'
    PROVE  CN!Shown(w, k, i, c)'
<1>1. k <= done[w]
  OBVIOUS
<1>2. CN!Wrote(w, k, i, c)
  BY <1>1 DEF CN!Wrote
<1> QED BY <1>2 DEF CN!FlushedIsShown

(* A flush that returns has shown all there was in the buffer.             *)
LEMMA FlushPromises ==
    ASSUME ConsoleInv, ConsoleInv', CN!FlushedIsShown, NEW w \in Writers, CN!Flush(w)
    PROVE  CN!FlushedIsShown'
<1>1. /\ ~CN!Finished(w) /\ done \in [Writers -> Nat] /\ done' \in [Writers -> Nat]
      /\ done' = [done EXCEPT ![w] = @ + 1]
  BY DEF ConsoleInv, ConsolesTyped, CN!Flush
<1>2. PICK c \in Consoles : c = CN!Call(w).to /\ CN!Flushed(c)
  BY <1>1, CallTyped DEF CN!Flush, ConsoleInv
<1>3. \A d \in Consoles : \A v, k, i : CN!Shown(v, k, i, d) => CN!Shown(v, k, i, d)'
  BY <1>2, ShownStays
<1>4. CN!Arrived(c)' = out'[c]
  <2>1. buffer'[c] = << >> /\ out' \in [Consoles -> Seq(Byte)]
    BY <1>2, FlushKeeps
  <2>2. PICK a \in Seq(Byte) : a = out'[c]
    BY <2>1
  <2>3. a \o << >> = a
    BY ConcatEmptySeq
  <2> QED BY <2>1, <2>2, <2>3 DEF CN!Arrived
<1> SUFFICES ASSUME NEW v \in Writers, NEW f \in 1 .. done'[v], Script[v][f].op = "flush",
                    NEW k \in 1 .. f, NEW d \in Consoles, NEW i \in 1 .. Script[v][k].size,
                    d = Script[v][f].to, CN!Wrote(v, k, i, d)'
             PROVE  CN!Shown(v, k, i, d)'
  BY DEF CN!FlushedIsShown
<1>5. CASE f \in 1 .. done[v]
  BY <1>1, <1>3, <1>5, PromiseStays
<1>6. CASE ~(f \in 1 .. done[v])
  <2>1. v = w /\ f = done[w] + 1
    BY <1>1, <1>6
  <2>2. d = c
    BY <1>2, <2>1 DEF CN!Call
  <2>3. k \in 1 .. Len(Script[v])
    BY DEF CN!Wrote
  <2>4. \E j \in 1 .. Len(CN!Arrived(d)') : CN!Arrived(d)'[j] = <<v, k, i>>
    BY <2>3, Zenon DEF ConsoleInv, CN!BytesInOrder
  <2> QED BY <1>4, <2>2, <2>4 DEF CN!Shown
<1> QED BY <1>5, <1>6

LEMMA FlushedStep ==
    ASSUME ConsoleInv, ConsoleInv', CN!FlushedIsShown, [CN!Next]_cn PROVE CN!FlushedIsShown'
<1>0. done \in [Writers -> Nat] /\ done' \in [Writers -> Nat]
  BY DEF ConsoleInv, ConsolesTyped
<1>1. ASSUME \A d \in Consoles : \A w, k, i : CN!Shown(w, k, i, d) => CN!Shown(w, k, i, d)',
             \A w \in Writers : \A f \in 1 .. done'[w] : f \in 1 .. done[w] \/ Script[w][f].op # "flush"
      PROVE  CN!FlushedIsShown'
  <2> SUFFICES ASSUME NEW v \in Writers, NEW f \in 1 .. done'[v], Script[v][f].op = "flush",
                      NEW k \in 1 .. f, NEW d \in Consoles, NEW i \in 1 .. Script[v][k].size,
                      d = Script[v][f].to, CN!Wrote(v, k, i, d)'
               PROVE  CN!Shown(v, k, i, d)'
    BY DEF CN!FlushedIsShown
  <2>1. f \in 1 .. done[v]
    BY <1>1
  <2> QED BY <1>0, <1>1, <2>1, PromiseStays
<1>2. CASE UNCHANGED cn
  <2>1. UNCHANGED <<out, done>>
    BY <1>2 DEF cn
  <2> QED BY <1>1, <2>1 DEF CN!Shown
<1>3. ASSUME NEW w \in Writers, CN!StartWrite(w) \/ CN!ContinueWrite(w) PROVE CN!FlushedIsShown'
  <2>1. CN!Call(w) = Script[w][done[w] + 1] /\ CN!Call(w).op = "write"
    BY <1>3 DEF CN!StartWrite, CN!ContinueWrite, ConsoleInv, InAWrite, CN!Call
  <2>2. PICK rest : CN!Fill(w, rest) /\ out' = out
    BY <1>3 DEF CN!StartWrite, CN!ContinueWrite
  <2>3. done' = done \/ done' = [done EXCEPT ![w] = @ + 1]
    BY <2>2, Zenon DEF CN!Fill
  <2>4. \A v \in Writers : \A f \in 1 .. done'[v] : f \in 1 .. done[v] \/ (v = w /\ f = done[w] + 1)
    BY <1>0, <2>3
  <2>5. \A d \in Consoles : \A v, k, i : CN!Shown(v, k, i, d) => CN!Shown(v, k, i, d)'
    BY <2>2 DEF CN!Shown
  <2> QED BY <1>1, <2>1, <2>4, <2>5
<1>4. ASSUME NEW w \in Writers, CN!WriteFlushes(w) PROVE CN!FlushedIsShown'
  <2>1. ~CN!Finished(w) /\ done' = done
    BY <1>4 DEF CN!WriteFlushes, ConsoleInv, InAWrite
  <2>2. PICK c \in Consoles : CN!Flushed(c)
    BY <1>4, <2>1, CallTyped DEF CN!WriteFlushes, ConsoleInv
  <2>3. \A d \in Consoles : \A v, k, i : CN!Shown(v, k, i, d) => CN!Shown(v, k, i, d)'
    BY <2>2, ShownStays
  <2> QED BY <1>1, <2>1, <2>3
<1> QED BY <1>2, <1>3, <1>4, FlushPromises DEF CN!Next

(* Each writer's bytes arrive in order, none lost or doubled, a message is *)
(* in one piece between two flushes, and what a writer had written when its*)
(* flush returned was shown, for every script of every number of writers   *)
(* and every size of the buffer.                                           *)
THEOREM MessagesArriveInAll == AllSpec => []MessagesArrive
<1>1. AllInit => CN!FlushedIsShown
  <2> SUFFICES ASSUME CN!Init PROVE CN!FlushedIsShown
    BY DEF AllInit
  <2>1. \A w \in Writers : 1 .. done[w] = {}
    BY DEF CN!Init
  <2> QED BY <2>1 DEF CN!FlushedIsShown
<1>2. ConsoleInv /\ ConsoleInv' /\ CN!FlushedIsShown /\ [AllNext]_all => CN!FlushedIsShown'
  BY ConsoleStep, FlushedStep
<1>3. ConsoleInv /\ CN!FlushedIsShown => MessagesArrive
  BY DEF ConsoleInv, MessagesArrive
<1> QED BY <1>1, <1>2, <1>3, ConsolePart, PTL DEF AllSpec, all

-----------------------------------------------------------------------------

(* Induction on the natural numbers, of a set: the smallest number that is *)
(* not in it would have a predecessor that is.                             *)
LEMMA SetInduction ==
    ASSUME NEW S, 0 \in S, \A n \in Nat : n \in S => n + 1 \in S
    PROVE  Nat \subseteq S
<1> SUFFICES ASSUME Nat \ S # {} PROVE FALSE
  OBVIOUS
<1> DEFINE Less == {x \in Nat \X Nat : x[1] < x[2]}
<1>1. IsWellFoundedOn(Less, Nat)
  <2>1. OpToRel(<, Nat) = Less
    BY Zenon DEF OpToRel
  <2> QED BY <2>1, NatLessThanWellFounded
<1>2. PICK x \in Nat \ S : \A y \in Nat \ S : ~(<<y, x>> \in Less)
  BY <1>1, WFMin
<1>3. x - 1 \in Nat /\ x - 1 < x
  BY <1>2
<1>4. x - 1 \in S
  BY <1>2, <1>3
<1> QED BY <1>2, <1>3, <1>4

-----------------------------------------------------------------------------
(* The pool.  A list of chunks with none twice, and the set of them.       *)
Place == PoolBlocks \X Nat
Once(s) == \A i, j \in 1 .. Len(s) : i # j => s[i] # s[j]
Elements(s) == {s[i] : i \in 1 .. Len(s)}

(* Two lists with nothing in common, one after the other.                  *)
LEMMA OneAfterTheOther ==
    ASSUME NEW S, NEW a \in Seq(S), NEW b \in Seq(S)
    PROVE  /\ Elements(a \o b) = Elements(a) \cup Elements(b)
           /\ Once(a) /\ Once(b) /\ Elements(a) \cap Elements(b) = {} => Once(a \o b)
<1>1. PICK m \in Nat, n \in Nat : m = Len(a) /\ n = Len(b)
  BY LenProperties
<1>2. PICK e \in Seq(S) : e = a \o b
  BY Joined
<1>3. Len(e) = m + n
  BY <1>1, <1>2, Joined
<1>4. \A i \in 1 .. m : e[i] = a[i]
  <2>1. \A i \in 1 .. Len(a) : (a \o b)[i] = a[i]
    BY Joined
  <2> QED BY <1>1, <1>2, <2>1
<1>5. \A i \in 1 .. n : e[m + i] = b[i]
  <2>1. \A i \in 1 .. Len(b) : (a \o b)[Len(a) + i] = b[i]
    BY Joined
  <2> QED BY <1>1, <1>2, <2>1
<1>6. \A i \in 1 .. m + n : i \in 1 .. m \/ \E y \in 1 .. n : i = m + y
  <2> SUFFICES ASSUME NEW i \in 1 .. m + n, i \notin 1 .. m PROVE \E y \in 1 .. n : i = m + y
    OBVIOUS
  <2>1. i - m \in 1 .. n /\ i = m + (i - m)
    OBVIOUS
  <2> QED BY <2>1
<1>7. \A i \in 1 .. n : m + i \in 1 .. m + n
  OBVIOUS
<1>8. \A i \in 1 .. m : i \in 1 .. m + n
  OBVIOUS
<1>9. Elements(e) = Elements(a) \cup Elements(b)
  <2>1. ASSUME NEW i \in 1 .. m + n PROVE e[i] \in Elements(a) \cup Elements(b)
    BY <1>1, <1>4, <1>5, <1>6, <2>1 DEF Elements
  <2>2. ASSUME NEW i \in 1 .. m PROVE a[i] \in Elements(e)
    BY <1>3, <1>4, <1>8, <2>2 DEF Elements
  <2>3. ASSUME NEW i \in 1 .. n PROVE b[i] \in Elements(e)
    BY <1>3, <1>5, <1>7, <2>3 DEF Elements
  <2> QED BY <1>1, <1>3, <2>1, <2>2, <2>3 DEF Elements
<1>10. ASSUME Once(a), Once(b), Elements(a) \cap Elements(b) = {}, NEW i \in 1 .. m + n, NEW j \in 1 .. m + n, i < j
       PROVE  e[i] # e[j]
  <2>1. CASE j \in 1 .. m
    <3>1. i \in 1 .. m
      BY <1>10, <2>1
    <3> QED BY <1>1, <1>4, <1>10, <2>1, <3>1 DEF Once
  <2>2. CASE j \notin 1 .. m /\ i \in 1 .. m
    <3>1. PICK y \in 1 .. n : j = m + y
      BY <1>6, <2>2
    <3>2. e[j] = b[y] /\ e[i] = a[i]
      BY <1>4, <1>5, <2>2, <3>1
    <3>3. e[j] \in Elements(b) /\ e[i] \in Elements(a)
      BY <1>1, <2>2, <3>2 DEF Elements
    <3> QED BY <1>10, <3>3
  <2>3. CASE i \notin 1 .. m
    <3>1. PICK x \in 1 .. n : i = m + x
      BY <1>6, <2>3
    <3>2. j \notin 1 .. m
      BY <1>10, <2>3
    <3>3. PICK y \in 1 .. n : j = m + y
      BY <1>6, <3>2
    <3>4. x # y
      BY <1>10, <3>1, <3>3
    <3> QED BY <1>1, <1>5, <1>10, <3>1, <3>3, <3>4 DEF Once
  <2> QED BY <2>1, <2>2, <2>3
<1>11. Once(a) /\ Once(b) /\ Elements(a) \cap Elements(b) = {} => Once(e)
  <2> SUFFICES ASSUME Once(a), Once(b), Elements(a) \cap Elements(b) = {},
                      NEW i \in 1 .. m + n, NEW j \in 1 .. m + n, i # j
               PROVE  e[i] # e[j]
    BY <1>3 DEF Once
  <2>1. CASE i < j
    BY <1>10, <2>1
  <2>2. CASE j < i
    BY <1>10, <2>2
  <2> QED BY <2>1, <2>2
<1> QED BY <1>2, <1>9, <1>11

LEMMA FunctionIsSeq ==
    ASSUME NEW S, NEW n \in Nat, NEW f \in [1 .. n -> S]
    PROVE  f \in Seq(S) /\ Len(f) = n
<1>1. f \in Seq(S) /\ DOMAIN f = 1 .. n
  OBVIOUS
<1>2. PICK m \in Nat : m = Len(f) /\ DOMAIN f = 1 .. m
  BY <1>1, LenProperties
<1>3. 1 .. m = 1 .. n
  BY <1>1, <1>2
<1>4. m = n
  <2>1. CASE m < n
    <3>1. n \in 1 .. n /\ n \notin 1 .. m
      BY <2>1
    <3> QED BY <1>3, <3>1
  <2>2. CASE n < m
    <3>1. m \in 1 .. m /\ m \notin 1 .. n
      BY <2>2
    <3> QED BY <1>3, <3>1
  <2> QED BY <2>1, <2>2
<1> QED BY <1>1, <1>2, <1>4

(* The chunks of one block, in order.                                      *)
LEMMA Cut ==
    ASSUME NEW b \in PoolBlocks, NEW s, s = [i \in 1 .. ChunksOf[b] |-> <<b, i>>]
    PROVE  s \in Seq(Place) /\ Once(s) /\ Elements(s) = Chunked!Chunks(b)
<1>1. PICK n \in Nat : n = ChunksOf[b]
  BY PartsAssumption DEF Chunked!PoolAssumption
<1>2. s \in [1 .. n -> Place] /\ DOMAIN s = 1 .. n /\ \A i \in 1 .. n : s[i] = <<b, i>>
  BY <1>1 DEF Place
<1>3. s \in Seq(Place) /\ Len(s) = n
  BY <1>2, FunctionIsSeq
<1>5. Once(s)
  <2> SUFFICES ASSUME NEW i \in 1 .. n, NEW j \in 1 .. n, i # j PROVE s[i] # s[j]
    BY <1>3 DEF Once
  <2>1. s[i] = <<b, i>> /\ s[j] = <<b, j>>
    BY <1>2
  <2> QED BY <2>1
<1>6. Elements(s) = Chunked!Chunks(b)
  <2>1. Elements(s) = {s[i] : i \in 1 .. n} /\ Chunked!Chunks(b) = {<<b, i>> : i \in 1 .. n}
    BY <1>1, <1>3, Zenon DEF Elements, Chunked!Chunks
  <2> QED BY <1>2, <2>1
<1> QED BY <1>3, <1>5, <1>6

LEMMA ApartChunks ==
    ASSUME NEW b, NEW d, b # d
    PROVE  Chunked!Chunks(b) \cap Chunked!Chunks(d) = {}
<1> SUFFICES ASSUME NEW i, NEW j, <<b, i>> = <<d, j>> PROVE FALSE
  BY DEF Chunked!Chunks
<1> QED OBVIOUS

(* What linking the first n blocks again gives.                            *)
ChunksUpTo(n) == UNION {Chunked!Chunks(Base[i]) : i \in 1 .. n}
LinksOf(s, n) == s \in Seq(Place) /\ Once(s) /\ Elements(s) = ChunksUpTo(n)

LEMMA OneBlockMore ==
    ASSUME Base \in Seq(PoolBlocks), Once(Base), NEW n \in Nat, n + 1 <= Len(Base),
           NEW s, LinksOf(s, n)
    PROVE  LinksOf(Chunked!AddFreeChunks(Base[n + 1], s), n + 1)
<1>1. PICK b \in PoolBlocks : b = Base[n + 1]
  BY ElementOfSeq, LenProperties
<1>2. PICK c : c = [i \in 1 .. ChunksOf[b] |-> <<b, i>>]
  OBVIOUS
<1>3. c \in Seq(Place) /\ Once(c) /\ Elements(c) = Chunked!Chunks(b)
  BY <1>2, Cut
<1>4. Chunked!AddFreeChunks(Base[n + 1], s) = c \o s
  BY <1>1, <1>2, Zenon DEF Chunked!AddFreeChunks
<1>5. Len(Base) \in Nat
  BY LenProperties
<1>6. ChunksUpTo(n + 1) = ChunksUpTo(n) \cup Chunked!Chunks(b)
  <2>1. 1 .. n + 1 = (1 .. n) \cup {n + 1}
    OBVIOUS
  <2> QED BY <1>1, <2>1, Zenon DEF ChunksUpTo
<1>7. Chunked!Chunks(b) \cap ChunksUpTo(n) = {}
  <2>1. \A i \in 1 .. n : Base[i] # b
    <3>1. \A i \in 1 .. n : i \in 1 .. Len(Base) /\ n + 1 \in 1 .. Len(Base) /\ i # n + 1
      BY <1>5
    <3> QED BY <1>1, <3>1 DEF Once
  <2> QED BY <2>1, ApartChunks DEF ChunksUpTo
<1>8. c \o s \in Seq(Place)
  BY <1>3, Joined DEF LinksOf
<1>9. Elements(c \o s) = Chunked!Chunks(b) \cup ChunksUpTo(n) /\ Once(c \o s)
  BY <1>3, <1>7, OneAfterTheOther DEF LinksOf
<1> QED BY <1>4, <1>6, <1>8, <1>9 DEF LinksOf

(* The function FREE_ALL's walk computes is there, and what it computes.   *)
Walk(f, n) == f = [i \in 0 .. n |-> IF i = 0 THEN << >> ELSE Chunked!AddFreeChunks(Base[i], f[i - 1])]

LEMMA WalkExists == \A n \in Nat : \E f : Walk(f, n)
<1> DEFINE S == {n \in Nat : \E f : Walk(f, n)}
<1>1. 0 \in S
  <2>1. PICK f : f = [i \in 0 .. 0 |-> << >>]
    OBVIOUS
  <2>2. \A i \in 0 .. 0 : i = 0
    OBVIOUS
  <2>3. Walk(f, 0)
    BY <2>1, <2>2, Zenon DEF Walk
  <2> QED BY <2>3
<1>2. ASSUME NEW n \in Nat, n \in S PROVE n + 1 \in S
  <2>1. PICK f : Walk(f, n)
    BY <1>2
  <2>2. PICK g : g = [i \in 0 .. n + 1 |-> IF i = n + 1 THEN Chunked!AddFreeChunks(Base[n + 1], f[n]) ELSE f[i]]
    OBVIOUS
  <2>3. \A i \in 0 .. n : i \in 0 .. n + 1 /\ i # n + 1 /\ (i # 0 => i - 1 \in 0 .. n /\ i - 1 \in 0 .. n + 1 /\ i - 1 # n + 1)
    OBVIOUS
  <2>4. \A i \in 0 .. n : g[i] = f[i]
    BY <2>2, <2>3
  <2>5. \A i \in 0 .. n : f[i] = IF i = 0 THEN << >> ELSE Chunked!AddFreeChunks(Base[i], f[i - 1])
    BY <2>1 DEF Walk
  <2>6. \A i \in 0 .. n : g[i] = IF i = 0 THEN << >> ELSE Chunked!AddFreeChunks(Base[i], g[i - 1])
    BY <2>3, <2>4, <2>5
  <2>7. n + 1 \in 0 .. n + 1 /\ n + 1 # 0 /\ n + 1 - 1 = n /\ n \in 0 .. n
    OBVIOUS
  <2>8. g[n + 1] = Chunked!AddFreeChunks(Base[n + 1], g[n + 1 - 1])
    BY <2>2, <2>4, <2>7
  <2>9. \A i \in 0 .. n + 1 : i \in 0 .. n \/ i = n + 1
    OBVIOUS
  <2>10. g = [i \in 0 .. n + 1 |-> g[i]]
    BY <2>2
  <2>11. \A i \in 0 .. n + 1 : g[i] = IF i = 0 THEN << >> ELSE Chunked!AddFreeChunks(Base[i], g[i - 1])
    BY <2>6, <2>7, <2>8, <2>9
  <2>12. Walk(g, n + 1)
    BY <2>10, <2>11, Zenon DEF Walk
  <2> QED BY <2>12
<1> HIDE DEF S
<1>3. Nat \subseteq S
  BY <1>1, <1>2, SetInduction
<1> QED BY <1>3 DEF S

LEMMA WalkLinks ==
    ASSUME Base \in Seq(PoolBlocks), Once(Base)
    PROVE  LinksOf(Chunked!Relinked[Len(Base)], Len(Base))
<1>1. PICK m \in Nat : m = Len(Base)
  BY LenProperties
<1>2. PICK f : f = Chunked!Relinked
  OBVIOUS
<1>3. Walk(f, m)
  BY <1>1, <1>2, WalkExists DEF Walk, Chunked!Relinked
<1> DEFINE S == {n \in Nat : n <= m => LinksOf(f[n], n)}
<1>4. 0 \in S
  <2>1. f[0] = << >>
    BY <1>3 DEF Walk
  <2>2. LinksOf(<< >>, 0)
    <3>1. << >> \in Seq(Place) /\ Len(<< >>) = 0
      BY EmptySeq
    <3>2. 1 .. 0 = {}
      OBVIOUS
    <3> QED BY <3>1, <3>2 DEF LinksOf, Once, Elements, ChunksUpTo
  <2> QED BY <2>1, <2>2
<1>5. ASSUME NEW n \in Nat, n \in S PROVE n + 1 \in S
  <2> SUFFICES ASSUME n + 1 <= m PROVE LinksOf(f[n + 1], n + 1)
    OBVIOUS
  <2>1. LinksOf(f[n], n)
    BY <1>5
  <2>2. n + 1 \in 0 .. m /\ n + 1 # 0 /\ n + 1 - 1 = n
    OBVIOUS
  <2>3. f[n + 1] = Chunked!AddFreeChunks(Base[n + 1], f[n])
    BY <1>3, <2>2 DEF Walk
  <2> QED BY <1>1, <2>1, <2>3, OneBlockMore
<1> HIDE DEF S
<1>6. Nat \subseteq S
  BY <1>4, <1>5, SetInduction
<1>7. m \in S
  BY <1>6
<1> QED BY <1>1, <1>2, <1>7 DEF S

PoolInv ==
    /\ Base \in Seq(PoolBlocks) /\ Once(Base)
    /\ FreeList \in Seq(Place) /\ Once(FreeList)
    /\ Elements(FreeList) \cap poolHeld = {}
    /\ Elements(FreeList) \cup poolHeld = UNION {Chunked!Chunks(b) : b \in Elements(Base)}

LEMMA OneElement ==
    ASSUME NEW S, NEW e \in S
    PROVE  <<e>> \in Seq(S) /\ Once(<<e>>) /\ Elements(<<e>>) = {e}
<1>1. <<e>> \in Seq(S) /\ Len(<<e>>) = 1 /\ <<e>>[1] = e
  OBVIOUS
<1>2. \A i \in 1 .. 1 : i = 1
  OBVIOUS
<1> QED BY <1>1, <1>2 DEF Once, Elements

LEMMA OneInFront ==
    ASSUME NEW S, NEW e \in S, NEW s \in Seq(S), Once(s), e \notin Elements(s)
    PROVE  <<e>> \o s \in Seq(S) /\ Once(<<e>> \o s) /\ Elements(<<e>> \o s) = {e} \cup Elements(s)
<1>1. PICK a \in Seq(S) : a = <<e>> /\ Once(a) /\ Elements(a) = {e}
  BY OneElement
<1>2. a \o s \in Seq(S)
  BY Joined
<1>3. Elements(a \o s) = {e} \cup Elements(s)
  <2>1. Elements(a \o s) = Elements(a) \cup Elements(s)
    BY OneAfterTheOther
  <2> QED BY <1>1, <2>1, Zenon
<1>4. Elements(a) \cap Elements(s) = {}
  BY <1>1
<1>5. Once(a \o s)
  BY <1>1, <1>4, OneAfterTheOther
<1> QED BY <1>1, <1>2, <1>3, <1>5, Zenon

LEMMA FirstAndRest ==
    ASSUME NEW S, NEW s \in Seq(S), s # << >>
    PROVE  /\ Head(s) \in S /\ Tail(s) \in Seq(S)
           /\ Elements(s) = {Head(s)} \cup Elements(Tail(s))
           /\ Once(s) => Once(Tail(s)) /\ Head(s) \notin Elements(Tail(s))
<1>1. PICK e \in S, n \in Nat, others \in Seq(S) : e = Head(s) /\ n = Len(others) /\ others = Tail(s) /\ Len(s) = n + 1
  <2>1. PICK e \in S, others \in Seq(S) : e = Head(s) /\ others = Tail(s) /\ Len(others) = Len(s) - 1
    BY HeadTailProperties
  <2>2. Len(others) \in Nat /\ Len(s) \in Nat
    BY LenProperties
  <2>3. Len(s) = Len(others) + 1
    BY <2>1, <2>2
  <2> QED BY <2>1, <2>2, <2>3, Zenon
<1>2. s[1] = e /\ \A i \in 1 .. n : others[i] = s[i + 1]
  BY <1>1, HeadTailProperties
<1>3. \A i \in 1 .. n + 1 : i = 1 \/ \E j \in 1 .. n : i = j + 1
  <2> SUFFICES ASSUME NEW i \in 1 .. n + 1, i # 1 PROVE \E j \in 1 .. n : i = j + 1
    OBVIOUS
  <2>1. i - 1 \in 1 .. n /\ i = (i - 1) + 1
    OBVIOUS
  <2> QED BY <2>1
<1>4. 1 \in 1 .. n + 1 /\ \A j \in 1 .. n : j + 1 \in 1 .. n + 1 /\ j + 1 # 1
  OBVIOUS
<1>5. Elements(s) = {e} \cup Elements(others)
  <2>1. ASSUME NEW i \in 1 .. n + 1 PROVE s[i] \in {e} \cup Elements(others)
    BY <1>1, <1>2, <1>3, <2>1 DEF Elements
  <2>2. ASSUME NEW i \in 1 .. n PROVE others[i] \in Elements(s)
    BY <1>1, <1>2, <1>4, <2>2 DEF Elements
  <2>3. e \in Elements(s)
    BY <1>1, <1>2, <1>4 DEF Elements
  <2> QED BY <1>1, <2>1, <2>2, <2>3 DEF Elements
<1>6. ASSUME Once(s) PROVE Once(others) /\ e \notin Elements(others)
  <2>1. ASSUME NEW i \in 1 .. n, NEW j \in 1 .. n, i # j PROVE others[i] # others[j]
    <3>1. i + 1 # j + 1
      BY <2>1
    <3> QED BY <1>1, <1>2, <1>4, <1>6, <3>1 DEF Once
  <2>2. ASSUME NEW i \in 1 .. n PROVE others[i] # e
    BY <1>1, <1>2, <1>4, <1>6, <2>2 DEF Once
  <2> QED BY <1>1, <2>1, <2>2 DEF Once, Elements
<1> QED BY <1>1, <1>5, <1>6

LEMMA ProvideBlockKeeps == ASSUME PoolInv, NEW b \in PoolBlocks, Chunked!ProvideBlock(b) PROVE PoolInv'
<1>1. PICK s, c : s = <<b>> \o Base /\ c = [i \in 1 .. ChunksOf[b] |-> <<b, i>>]
  OBVIOUS
<1>2. Base' = s /\ FreeList' = c \o FreeList /\ poolHeld' = poolHeld /\ b \notin Chunked!Given
  BY <1>1, Zenon DEF Chunked!ProvideBlock, Chunked!AddFreeChunks
<1>3. b \notin Elements(Base)
  BY <1>2, LenProperties DEF Chunked!Given, Elements, PoolInv
<1>4. Base \in Seq(PoolBlocks) /\ Once(Base)
  BY DEF PoolInv
<1>5. s \in Seq(PoolBlocks) /\ Once(s) /\ Elements(s) = {b} \cup Elements(Base)
  BY <1>1, <1>3, <1>4, OneInFront, Zenon
<1>6. c \in Seq(Place) /\ Once(c) /\ Elements(c) = Chunked!Chunks(b)
  BY <1>1, Cut
<1>7. Chunked!Chunks(b) \cap (Elements(FreeList) \cup poolHeld) = {}
  BY <1>3, ApartChunks DEF PoolInv
<1>8. Elements(c \o FreeList) = Chunked!Chunks(b) \cup Elements(FreeList) /\ Once(c \o FreeList)
      /\ c \o FreeList \in Seq(Place)
  BY <1>6, <1>7, OneAfterTheOther, Joined DEF PoolInv
<1> QED BY <1>2, <1>5, <1>7, <1>8 DEF PoolInv

LEMMA ChunkAllocateKeeps == ASSUME PoolInv, Chunked!Allocate PROVE PoolInv'
<1>1. FreeList # << >> /\ FreeList' = Tail(FreeList) /\ poolHeld' = poolHeld \cup {Head(FreeList)} /\ Base' = Base
  BY DEF Chunked!Allocate
<1>2. /\ Tail(FreeList) \in Seq(Place) /\ Elements(FreeList) = {Head(FreeList)} \cup Elements(Tail(FreeList))
      /\ Once(Tail(FreeList)) /\ Head(FreeList) \notin Elements(Tail(FreeList))
  BY <1>1, FirstAndRest DEF PoolInv
<1> QED BY <1>1, <1>2 DEF PoolInv

LEMMA ChunkFreeKeeps == ASSUME PoolInv, NEW c \in poolHeld, Chunked!Free(c) PROVE PoolInv'
<1>1. FreeList' = <<c>> \o FreeList /\ poolHeld' = poolHeld \ {c} /\ Base' = Base
  BY DEF Chunked!Free
<1>2. c \in Place
  <2>1. PICK b \in Elements(Base) : c \in Chunked!Chunks(b)
    BY DEF PoolInv
  <2>2. b \in PoolBlocks /\ ChunksOf[b] \in Nat
    BY <2>1, ElementOfSeq, PartsAssumption DEF Elements, PoolInv, Chunked!PoolAssumption
  <2> QED BY <2>1, <2>2 DEF Chunked!Chunks, Place
<1>3. FreeList \in Seq(Place) /\ Once(FreeList)
  BY DEF PoolInv
<1>4. c \notin Elements(FreeList)
  BY DEF PoolInv
<1>5. <<c>> \o FreeList \in Seq(Place) /\ Once(<<c>> \o FreeList) /\ Elements(<<c>> \o FreeList) = {c} \cup Elements(FreeList)
  BY <1>2, <1>3, <1>4, OneInFront, Zenon
<1> QED BY <1>1, <1>4, <1>5 DEF PoolInv

LEMMA ChunkFreeAllKeeps == ASSUME PoolInv, Chunked!FreeAll PROVE PoolInv'
<1>1. FreeList' = Chunked!Relinked[Len(Base)] /\ poolHeld' = {} /\ Base' = Base
  BY DEF Chunked!FreeAll
<1>2. LinksOf(FreeList', Len(Base))
  BY <1>1, WalkLinks DEF PoolInv
<1>3. ChunksUpTo(Len(Base)) = UNION {Chunked!Chunks(b) : b \in Elements(Base)}
  BY DEF ChunksUpTo, Elements
<1> QED BY <1>1, <1>2, <1>3 DEF LinksOf, PoolInv

LEMMA PoolPart == AllSpec => []PoolInv
<1>1. AllInit => PoolInv
  <2>1. << >> \in Seq(PoolBlocks) /\ << >> \in Seq(Place) /\ Len(<< >>) = 0
    BY EmptySeq
  <2>2. 1 .. 0 = {}
    OBVIOUS
  <2> QED BY <2>1, <2>2 DEF AllInit, Chunked!Init, PoolInv, Once, Elements
<1>2. PoolInv /\ [AllNext]_all => PoolInv'
  <2>1. [AllNext]_all => [Chunked!Next]_pool
    BY DEF AllNext, all, pool
  <2>2. ASSUME PoolInv, NEW c \in poolHeld, Chunked!Resize(c) PROVE PoolInv'
    BY <2>2 DEF Chunked!Resize, PoolInv
  <2>3. ASSUME PoolInv, UNCHANGED pool PROVE PoolInv'
    BY <2>3 DEF pool, PoolInv
  <2> QED BY <2>1, <2>2, <2>3, ProvideBlockKeeps, ChunkAllocateKeeps, ChunkFreeKeeps, ChunkFreeAllKeeps DEF Chunked!Next
<1> QED BY <1>1, <1>2, PTL DEF AllSpec, all

(* Every chunk of a provided block is on the list, once, or held, for any  *)
(* number of blocks of any size.                                           *)
THEOREM ChunksConservedInAll == AllSpec => []ChunksConserved
<1>1. PoolInv => ChunksConserved
  <2> SUFFICES ASSUME PoolInv PROVE ChunksConserved
    OBVIOUS
  <2>1. DOMAIN FreeList = 1 .. Len(FreeList) /\ DOMAIN Base = 1 .. Len(Base)
    BY LenProperties DEF PoolInv
  <2>2. Chunked!OnList = Elements(FreeList) /\ Chunked!Given = Elements(Base)
    BY <2>1 DEF Chunked!OnList, Chunked!Given, Elements
  <2>3. Chunked!NoChunkTwice
    BY <2>1 DEF PoolInv, Once, Chunked!NoChunkTwice
  <2> QED BY <2>2, <2>3 DEF PoolInv, ChunksConserved, Chunked!ChunksConserved, Chunked!AllChunks
<1> QED BY <1>1, PoolPart, PTL

-----------------------------------------------------------------------------
(* Sizes and marks of the allocators, the cache and the mutex of the       *)
(* directory, the buffers and the writers, and the names and bytes of the  *)
(* files keep their types.                                                 *)
THEOREM TypesOKInAll == ASSUME OneThread PROVE AllSpec => []TypesOK
<1>1. IInv => TypeOK
  BY DEF IInv
<1>2. MemoryInv => PM!TypeOK
  BY DEF MemoryInv
<1>3. DirectoryInv => WD!TypeOK
  BY DEF DirectoryInv
<1>4. ConsoleInv => CN!TypeOK
  BY DEF ConsoleInv, ConsolesTyped, InAWrite, CN!TypeOK
<1>5. FP!IInv => FS!TypeOK
  <2>1. FP!IInv => FP!TypeOK
    BY FP!IInvSuffices
  <2> QED BY <2>1 DEF FS!TypeOK, FP!TypeOK, FS!Entries, FP!Entries, FS!Nothing, FP!Nothing,
             FS!Directory, FP!Directory, FS!File, FP!File, FS!Link, FP!Link, FS!NoInode, FP!NoInode
<1>6. IInv /\ MemoryInv /\ DirectoryInv /\ ConsoleInv /\ FP!IInv => TypesOK
  BY <1>1, <1>2, <1>3, <1>4, <1>5 DEF TypesOK
<1> QED BY <1>6, ArenaPart, MemoryPart, DirectoryPart, ConsolePart, FilesPart, PTL
=============================================================================
