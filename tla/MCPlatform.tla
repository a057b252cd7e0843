----------------------------- MODULE MCPlatform ------------------------------
(***************************************************************************)
(* Memory and the platform's state: the arena (extended here), the pool,   *)
(* the platform's own memory, the working directory, the consoles and the  *)
(* files.  They share no state, so a behaviour runs one of the Parts and   *)
(* the others stay as they began.  An arena's block is provided by hand or *)
(* lazily; a program provides the pool with up to two blocks, of two       *)
(* chunks and of three.                                                    *)
(***************************************************************************)
EXTENDS Arena, FiniteSets, Sequences, TLC

CONSTANTS
    Parts,                                              \* those to run
    PoolBlocks, ChunksOf,                               \* see Pool
    Null, Platforms, OneThread, TempStart, TempRequests, MaxTempSize, Start,
    Control, PoolOverhead, Overhead, BlockRequests, MaxBlocks, Addresses,
                                                        \* see PlatformMemory
    Threads, Dirs, Length, Garbage, MaxCalls,           \* see WorkingDir
    Writers, Consoles, Script, BufferSize,              \* see Console
    Callers, Names, Inside(_, _), Inodes, Contents, FirstDirs,      \* see Files
    small, large, a1, a2, a3, a4, t, u, short, long, p, q, r, c1, c2

FourAddresses == {a1, a2, a3, a4}
(* Where a block or a string is makes no difference, nor who calls.        *)
Anywhere == Permutations(FourAddresses) \union Permutations({c1, c2})

TwoBlocks == {small, large}
TwoAndThree == small :> 2 @@ large :> 3

(* Two threads, two directories with names of two lengths.                 *)
TwoThreads == {t, u}
TwoDirs == {short, long}
Lengths == short :> 4 @@ long :> 9

(* A buffer of three bytes.  One writer's message needs two flushes, the   *)
(* others' fit, end exactly at the end of the buffer or go to cerr.        *)
ThreeWriters == {p, q, r}
Put(c, n) == [op |-> "write", to |-> c, size |-> n]
Push(c) == [op |-> "flush", to |-> c, size |-> 0]
Scripts == p :> <<Put("COUT", 7), Push("COUT")>>
        @@ q :> <<Put("COUT", 2), Put("CERR", 4), Push("COUT")>>
        @@ r :> <<Put("COUT", 1), Put("COUT", 3), Push("CERR")>>

(* Two callers of two calls; two files and a directory, where a file may   *)
(* go.  What is written is one character of two bytes.                     *)
TwoCallers == {c1, c2}
InDirectory(d, n) == IF d = "d" /\ n = "a" THEN "d/a" ELSE d
Given == {[a |-> [kind |-> "file", inode |-> 1], b |-> [kind |-> "file", inode |-> 2],
           d |-> [kind |-> "directory"]] @@ "d/a" :> [kind |-> "nothing"]}
OneCharacter == {<<1, 0>>}

VARIABLES
    part,
    Base, FreeList, poolHeld, crash,                        \* see Pool
    platform, phase, mapped, Block, Size, Used, pending, latest, pages,
    PageNext, BasePage, pools, blocks, broken,              \* see PlatformMemory
    system, cwd, text, WorkingDir, WorkingDirMutex, pc, required, dir,
    result, since, calls,                                   \* see WorkingDir
    started, buffer, out, done, current, flushing,          \* see Console
    host, names, data, call, made                           \* see Files

Chunked == INSTANCE Pool WITH Blocks <- PoolBlocks, held <- poolHeld

PM == INSTANCE PlatformMemory WITH Requests <- BlockRequests

WD == INSTANCE WorkingDir WITH Strings <- Addresses, platform <- system

CN == INSTANCE Console

FS == INSTANCE Files WITH
          Systems <- Platforms, system <- host, dir <- names, calls <- made

ASSUME PartsAssumption ==
    /\ Chunked!PoolAssumption /\ PM!PlatformAssumption
    /\ WD!WorkingDirAssumption /\ CN!ConsoleAssumption /\ FS!FilesAssumption

pool == <<Base, FreeList, poolHeld, crash>>
pm == <<platform, phase, mapped, Block, Size, Used, pending, latest, pages,
        PageNext, BasePage, pools, blocks, broken>>
wd == <<system, cwd, text, WorkingDir, WorkingDirMutex, pc, required, dir,
        result, since, calls>>
cn == <<started, buffer, out, done, current, flushing>>
fs == <<host, names, data, call, made>>

Chosen == CHOOSE o \in Platforms : TRUE

AllInit ==
    /\ part \in Parts
    /\ Init /\ Chunked!Init /\ PM!Init /\ WD!Init /\ CN!Init /\ FS!Init
    /\ part # "arena" => block
    /\ part # "memory" => platform = Chosen
    /\ part # "files" => host = Chosen
    /\ part # "directory" => system = Chosen /\ cwd = CHOOSE d \in Dirs : TRUE

AllNext ==
    \/ part = "arena" /\ Next /\ UNCHANGED <<part, pool, pm, wd, cn, fs>>
    \/ part = "pool" /\ Chunked!Next /\ UNCHANGED <<part, vars, pm, wd, cn, fs>>
    \/ part = "memory" /\ PM!Next /\ UNCHANGED <<part, vars, pool, wd, cn, fs>>
    \/ part = "directory" /\ WD!Next /\ UNCHANGED <<part, vars, pool, pm, cn, fs>>
    \/ part = "consoles" /\ CN!Next /\ UNCHANGED <<part, vars, pool, pm, wd, fs>>
    \/ part = "files" /\ FS!Next /\ UNCHANGED <<part, vars, pool, pm, wd, cn>>

AllSpec == AllInit /\ [][AllNext]_<<part, vars, pool, pm, wd, cn, fs>>

-----------------------------------------------------------------------------
(* Sizes and marks of the allocators, the cache and the mutex of the       *)
(* directory, the buffers and the writers, and the names and bytes of the  *)
(* files keep their types.                                                 *)
TypesOK == TypeOK /\ PM!TypeOK /\ WD!TypeOK /\ CN!TypeOK /\ FS!TypeOK

(* The pool's chunks are on its list or held, none is lost and none handed *)
(* out twice (Pool).                                                       *)
ChunksConserved == Chunked!ChunksConserved

(* The pages of the persistent allocator stay mapped until the shutdown    *)
(* (PlatformMemory).                                                       *)
PagesStayMapped == PM!PagesStayMapped

(* Temporary memory is valid until the next call, and once everything was  *)
(* freed what was outgrown is with the system again (PlatformMemory).      *)
TemporaryIsSound == PM!TemporaryIsSound

(* What did not fit in the pools fits in a new one (PlatformMemory).       *)
NewPoolSuffices == PM!NewPoolSuffices

(* A get answers a directory that was current during the call, but for a   *)
(* buffer too small on Windows, and the cached directory is live memory    *)
(* whenever the mutex is free (WorkingDir).                                *)
DirectoryIsCurrent == WD!DirectoryIsCurrent

(* Each writer's bytes arrive in order, none lost or doubled, a message is *)
(* in one piece between two flushes, and what was flushed was shown        *)
(* (Console).                                                              *)
MessagesArrive == CN!BytesInOrder /\ CN!PiecesContiguous /\ CN!FlushedIsShown

(* A move nobody interferes with loses nothing of what it moves, at any    *)
(* step and however it fails (Files).                                      *)
MoveLosesNothing == FS!MoveLosesNothing

(* Told not to overwrite, a copy or move writes only into a file it made   *)
(* (Files).                                                                *)
OverwritesNothing == FS!OverwritesNothing
=============================================================================
