# light-std: a verification development

light-std (lstd) is a C++20 library that replaces the standard one: allocators with a debug heap,
an implicit thread-local Context, threads and their primitives, containers, strings, formatting,
parsing and, on Windows, the parts of a C runtime the library needs when it links none. This
directory holds TLA+ models of the parts where an order of steps, a boundary or another thread can
go wrong, or a function has more cases than anyone tests, TLC configurations that check them, and proofs checked by TLAPS.

Paths below are relative to `src/`: `include/lstd/` holds the headers, `src/lstd/` the
implementation, `test-suite/` the tests. `PROJECT.json` names, for each definition, the lines it
models; for each property, a plausible bug in the code (an operator marked `mutant`) that TLC must
catch; and the hazards the properties are for.

Contents: 1 inventory, 2 the modules and the code, 3 runs, 4 fairness, 5 proofs, 6 what the code
does not keep, 7 what is only model-checked or not modelled, 8 the plan.

## 1. Inventory

### Memory

| Part | State | Operations | What is hard | What makes it correct |
|---|---|---|---|---|
| Allocator contract (`memory.h` 193-245) | the blocks granted | ALLOCATE, RESIZE in place, FREE, FREE_ALL | every allocator promises it, the debug heap relies on it | blocks never overlap; RESIZE changes one block |
| Arena (`memory.h` 464-524) | Block, Size, Used | the four modes, a lazily provided block | FREE is ignored; RESIZE guesses which block is last | what is handed out is nobody else's |
| Pool (`memory.h` 541-634) | Base, FreeList, blocks | the four modes, `provide_block` | frees in any order, FREE_ALL over several blocks | free list and held chunks partition the blocks |
| Block layout (`memory.h` 636-657, `memory.cpp` 393-443) | none | padding, header placement, size requested | 16-bit padding, alignment above the header's | header, bytes and guard fit the block; the bytes are aligned |
| Debug heap (`memory.cpp`) | per thread a sorted list of nodes and AllocationCount; headers in memory | `general_allocate/reallocate/free`, `free_all`, verification, leak report | moved blocks, reused addresses, fills, threads that share an allocator | list agrees with heap; fills hit only their block; checks fire only for real corruption |
| Platform memory (`os/memory.h`, `platform/memory.cpp`) | temporary arena; pages, base page, TLSF pools; the system's memory | `platform_temp_alloc`, `platform_persistent_alloc`, init, uninit | a block is freed and another asked for; list of pages; limits of a pool | latest temporary block valid; pages stay mapped; a new pool suffices |
| TLSF (`vendor/`) | | | vendored | external |

The debug heap calls the allocator of a block through `allocator.Function` (the contract is their
interface); TLSF runs under the platform's persistent allocator and calls it back for pools; the
arena is the body of the temporary allocator.

### Threads

| Part | State | Operations | What is hard | What makes it correct |
|---|---|---|---|---|
| Mutexes (`os/thread.h`, `os/posix`, `os/windows`) | one word; the system's mutex | lock, try_lock, unlock | contention, the answer of try_lock | one holder, no lost update, nobody left out |
| Condition variable (same) | two events and WaitersCount on Windows | wait, notify_one, notify_all | steps outside the lock, auto-reset, late reset | nobody sleeps while its condition holds |
| Thread start and Context (`os/*/thread.h`, `platform/*/thread.cpp`, `context.h`) | per thread: Context, temporary allocator | create_and_launch_thread, thread wrapper, PUSH_CONTEXT | the child reads its parent's thread-local | a child works with the Context of its creation, on its own storage |
| Thread-safe statics (`platform/windows/no_crt/thread_safe_statics.cpp`) | guards, epochs, one wait primitive | header, footer, abort, wait, notify | unlocked fast path, exceptions, missed wake-ups | one builder, no use before construction, nobody left behind |
| Start and end without a C runtime (`no_crt/exe_dll_main.cpp`, `tlsdtor.cpp`, `tlsdyn.cpp`, `initterm.cpp`) | list of destructors per thread, exit callbacks | initialise, register, run, exit | callbacks that register more, order of the teardown | not modelled, see 7 |

### The system's services

| Part | State | Operations | What is hard | What makes it correct |
|---|---|---|---|---|
| Working directory (`os/posix/common.h`, `os/windows/common.h`) | cached string, mutex | get, set | the system is asked outside the mutex | a get answers a directory that was current; the cache is live |
| Consoles (same, `writer.h`) | one buffer per console, shared mutex | write, flush | write lets go of the mutex to flush | bytes arrive once, in order, pieces whole |
| Files (`os/*/path.h`, `os/*/common.h`) | names, contents and directories, which other programs share | exists, copy, move, rename, links, create, delete, read, write | a move is a copy and an unlink; any call of the system may fail in between | nothing is lost, nothing is overwritten unasked |
| Environment, clipboard, processes, crash handler, dynamic libraries, guid | | one call of the system each | | not modelled, see 7 |

### Containers

| Part | State | Operations | What is hard | What makes it correct |
|---|---|---|---|---|
| Signal (`lstd-extra/signal/signal.h`) | Callbacks, CurrentlyEmitting, ToRemove | connect, disconnect, emit (also while false/true) | callbacks that connect, disconnect and emit | an emit reaches all that stay; what is gone is silent |
| Hash table (`hash_table.h`) | Allocated, Count, SlotsFilled, Entries | add, set, search, resize, reset, free, clone, iterate | marks 0 and 1, wrap-around, growth while growing | a search finds what was set last; never full |
| Arrays (`array_like.h`, `array.h`) | Data, Count, Allocated | insert, remove, replace, reserve, search, clone, free | views that become owners, an element of the array itself as argument | the sequence a reader expects |
| Xar and string builder (`xar.h`, `string_builder.h`) | chunks that never move | reserve, add, remove, visit | the first index of a chunk | every element where its index says |
| Linked lists (`linked_list_like.h`) | Next, Prev, head, tail | add, insert, remove, find | ends, the tail a caller keeps | links in both directions spell the list |
| Quick sort (`qsort.h`) | the array, a stack of boundaries | one partition at a time | boundaries and the threshold | sorted, the same elements |
| Variant (`variant.h`) | an index and storage | construct, assign, move, visit | assignments between kinds | objects die once, the index names what is there |

### Text, numbers, files' names

| Part | State | Operations | What is hard | What makes it correct |
|---|---|---|---|---|
| Unicode (`string.h`, `string.cpp`, `unicode.h`) | none | encode, decode, validate, cases, normal forms | malformed input, the order of marks | the tables' and the standard's functions |
| String (`string.h`) | bytes of UTF-8, room | edit, search, trim, split, replace | negative indices, code points of different sizes | the same as on the sequence of code points |
| Parse (`parse.h`), clap (`clap.h`) | the rest of a text; arguments by position | integers, booleans; options | limits, rollback, prefixes; what is a value and what an option | the value the text denotes |
| Path (`os/path.h`) | none | split, join, normalise, relative, walk | `..` after roots, drives and `..` | what it spells leads to the same place |
| fmt (`fmt.h`, `fmt/*.cpp`) | a position, the next index, the specs in force | fields, specs, styles, composed values | indices by order and by number, state shared by nested fields | every field is its argument, under its specs |
| Floating-point digits (`fmt/float*.cpp`) | none | shortest, fixed, exponent | rounding with words that are too short for the answer | the digits are those of the number, rounded |
| Big integers (`big_integer.h`) | a signed count of digits | arithmetic, bits, comparison | carries, estimates of a quotient's digits | the number |
| Numbers, types, bits (`common.h`, `bits.h`) | none | casts, orderings, limits, rotations, 128-bit integers, traits | ends of the ranges | the mathematical function |
| Atomics, hashes, delegate, context, C runtime functions | | single operations | | not modelled, see 7 |

### How they interact

Allocation is the interface under everything: the debug heap calls an allocator through its
function, containers and strings allocate through the debug heap, threads inherit an allocator
with their Context, and the platform's allocators get memory from the system. Threads share the
statics, the mutexes, the platform's allocators, the directory cache and the consoles. Above that,
the library is sequential: strings stand on Unicode, parsing on strings, the command line on
parsing, formatting on the digits of numbers and on the writers of values.

## 2. Modules and code

Every module begins with what its variables and steps, or its operators, stand for. In short:

| Module | Models | Steps |
|---|---|---|
| `AllocatorContract` | the comment above `allocator_func_t` | one per mode, abstract |
| `Arena`, `Pool` | `arena_allocator`, `pool_allocator` | one per mode; `Ready` is the prologue of every call of the arena |
| `HeapLayout` | padding and header placement | pure operators |
| `DebugHeap` (EXTENDS `HeapLayout`, INSTANCE `AllocatorContract`) | `memory.cpp` with DEBUG_MEMORY | a call is a step: the code holds no lock, but lists are thread-local and the allocator's call is atomic. The allocator is *any* that keeps the contract |
| `PlatformMemory` | both platform allocators over the system's memory `mapped` | a call is a step under its mutex, but replacing the temporary block is two, since the system's memory is shared |
| `Locks` | `fast_mutex`, `mutex` under the counter of `test-suite/tests/thread.cpp` | one per atomic operation; reading and writing the counter are two |
| `CondVar` | `condition_variable` with the waiters and notifiers of the tests | one per atomic access: count, wait, count out, reset, look, signal |
| `ThreadStart` | launch, wrapper, PUSH_CONTEXT, end | copying the function pointer, copying the Context and finding the temporary allocator apart where others can step in between |
| `OnceInit` | the four `_Init_thread_*` functions and the compiler's test around them | critical sections are steps; the unlocked test and the wait are their own |
| `WorkingDir` | `os_get_working_dir`, `os_set_working_dir` | asking the system for a size, for the name, taking the mutex, storing |
| `Console` | `console::write`, `console::flush` | the parts between taking and releasing the mutex |
| `Files` | the calls on files, on both platforms, over a file system of names and inodes | one per call of the system, so that callers interleave; every call may fail |
| `Signal` | `delegate_signal` | the loop of an emit calls one callback per step; a callback may do anything a program may, so emits nest as a stack |
| `HashTable`, `ArrayLike`, `Xar`, `LinkedList`, `Variant` | their containers | a call is a step; a ghost variable is the abstract value |
| `QuickSort` | `quick_sort` | one partition with its pushes, or one insertion sort, per step |
| `Numeric`, `Wide`, `Types` | `common.h` and `bits.h`: numbers of one word, of two, and the traits | operators |
| `BigInteger` | `big_integer.h` | operators on [Size, digits]; digits have SHIFT bits |
| `Unicode` ← `Strings` ← `Parse` ← `Clap` | each EXTENDS the one before, as the headers include each other | operators from a string to the string after, a parse result, a command line's values and errors |
| `Path` | `os/path.h` | operators on sequences of characters |
| `Float` ← `FmtWrite` ← `Fmt` | digits; what is written for a value; the format language | operators; a writer takes a context (rest of the format, next index, specs in force, output, errors) to the context after |

Components are composed where they interact: `DebugHeap` over the contract, `Arena` implementing
it (`KeepsContract`, a refinement), the two platform allocators over one memory, and the chains
above. Components that share no state (for instance mutexes and condition variable) are *placed
side by side* in one MC module: a variable `part` chooses which one runs, the others stay in one
initial state. This asks the same questions as separate runs and multiplies no states.

Pure functions are called by `MCFunctions`: a behaviour is one call of one of 26 parts, whose
input is chosen in two halves (`first`, `second`), and an invariant compares what the function
answers with a reference definition that does not share its algorithm: a sum of digits against the
integer, a normalised path against the place it leads to from every place, a formatted field
against its specification in words. Where the code's answer differs from the reference, the
reference names the exception, so that both are pinned; section 6 lists them.

Data that properties do not tell apart is abstract: functions and values are model values, what a
debug fill writes is a range of addresses, a message of a console is a number of bytes with its
writer and position, a Unicode table is a function with a few letters of the generated one. Operators
that only take an operator through (`Arrays of which ...`, a `LAMBDA` as the code's predicate) have
no entry of their own in the map.

## 3. Runs

All bounds are CONSTANTS, in the configurations or in the MC modules; each is named and commented.

| Run (module, cfg) | Asks | Bounds, and why they suffice |
|---|---|---|
| `debug_heap` (`MCDebugHeap`, `DebugHeap.cfg`) | lists, marks, layout, fills, checks | 2 threads, one allocator shared and one private; bases 0, 8, 17 (aligned and not); header 3, guard 1; two node slots, so that nodes are reused; verification every second allocation; blocks only grow |
| `threads` (`MCThreads`, `Threads.cfg`), parts once, locks, condvar, start | statics, mutexes, condition variable, whose Context a thread works with | once: 3 threads, 2 statics, 2 exceptions, so that a third thread waits while one takes over. Locks: 3 threads with 2 rounds each, recursion 2. Condvar: 3 notifiers, 2 waiters on POSIX, 1 (as in the test) on Windows, one spurious wake-up. Start: 3 threads, so that a child launches one itself while its parent moves on; one allocator beside the temporary ones, PUSH_CONTEXT 2 deep, so that what is copied may be an inner or an outer scope's |
| `platform` (`MCPlatform`, `Platform.cfg`), parts arena, pool, memory, directory, consoles, files | does the arena implement the contract, does the pool keep its chunks; platform memory, directory, consoles, files | Arena of 6 or (lazily) 7 bytes, requests 1-3, growth to 9: a full arena, a RESIZE of and behind the last block, a freed block in the middle. Pool blocks of 2 and 3 chunks: lists joined and relinked. Memory: 4 addresses (symmetric: none is compared by order), temporary block of 4 with requests 3, 5 and 12 (below, above, above twice its size), blocks of 4, 10 and 18 in pages of 20, 3 of them. Directory: 2 threads with 2 calls. Consoles: 3 writers, buffer of 3 bytes and messages that fit, end exactly at its end, or need two flushes. Files: 2 callers (symmetric) with 2 calls, files a and b and a directory that a may go into, one character of two bytes to write; links make a and b the same file |
| `containers` (`MCContainers`, `Containers.cfg`), parts signal, table, array, xar, list, sort, variant | the containers | Signal: 3 callbacks, 2 nested emits. Table: 5 keys colliding at slots 2 and 15 (wrap-around) and one with hash 0; minimum size 16 instead of 32, growth at ten filled slots, sizes up to 32. Arrays: an owner of up to 3 elements that grows, and a view of 1. Xar: chunks of 2, 2, 4 and 8. List: 4 nodes, all three kinds of links. Sort: up to 5 elements with a tie, insertion from threshold 1, so that every path of the partition is taken. Variant: 3 member types, 2 variants, 6 objects |
| `functions` (`MCFunctions`, `Functions.cfg`), 26 parts | numbers, big integers, text, input, paths, digits, formats | Widths are small and every input is taken: two words of 4 bits (64 in the code), integers of 6, 8 and 10 bits, digits of 2 bits (30) with Karatsuba from 2, numbers of 8 bits (32) in formats, floats with 4 bits of mantissa, exponents -5 to 8 and 14-bit words (Grisu must give up on some and Dragon4 takes over), segments of 4 code points (1024), paths of up to 6 characters out of letters, dots, separators and a colon, format strings of up to 6 characters out of braces, an index and a letter |
| `heap_shrink` (`HeapShrink.cfg`) | expects a violation, see 6 | as `debug_heap`, with shrinking |
| `locks_posix`, `condvar_all`, `thread_start_late`, `platform_two_threads`, `signal_nested`, `shortest_digits` | expect a violation, see 6 | smaller instances of the above with the case that fails switched on |

What the passing runs show, property by property:

- `debug_heap`. `LiveNodesAreBlocks`, `IdsUnique`, `LeakReportExact`: the nodes not marked Freed are
  the blocks the thread holds, whatever moved; IDs name one block; the leak report lists exactly
  what was not freed and not marked. `BlocksWellLaid`, `NoBlockTorn`, `NoFalseAlarm`: layout, fills
  and checks.
- `threads`. `OneBuilder`, `UsedWhenBuilt`, `HeaderReturns` (statics); `FastPathSafe` is the
  comparison of guard and epoch without the lock. `MutualExclusion`, which includes that no
  increment is lost, and `ClientsFinish` (mutexes); `NobodySleepsOn` (condition variable).
  `UndisturbedContext` (thread start): parents push, pop, launch others and end whenever they like,
  and may be gone when a child copies. A thread that this did not touch (its parent did not push, pop
  or end between launching it and its copy, and was not itself started from a Context so changed) has
  the Context of its creation, on storage that is no other thread's. The rest is section 6,
  `thread_start_late`.
- `platform`. `KeepsContract`: no order of frees, shrinks, resets and in-place resizes makes the
  arena hand out or grow into what somebody holds. `ChunksConserved`: no chunk of the pool is handed
  out twice or lost. `TemporaryIsSound` (the latest temporary block is valid, what was outgrown is
  the system's again), `PagesStayMapped`, `NewPoolSuffices` (memory, one thread).
  `DirectoryIsCurrent`: a get answers a directory that was current during the call, the cache is
  live. `MessagesArrive` (bytes once, in order, pieces whole; what a writer wrote before a flush that
  has returned was shown, whoever else wrote and flushed meanwhile) (consoles).
  `MoveLosesNothing`: a move to another file, nobody else interfering, has the bytes whole under one
  of the two names at every step, however it fails; `OverwritesNothing`: without the flag a copy or
  a move writes only into a file it made itself, whatever others do between its check and its open
  (files).
- `containers`. `EmitReachesAll`, `RemovedIsGone` (signal); `FindsLast`, which includes clones and
  that the table is never full (keys whose hash is 0 or 1 are never found, see 6, and the property
  says exactly that of them); `ArraysHold` (arrays and views against sequences, blocks owned once);
  `ReadsAsBuilt` (xar and linked lists against sequences, variants against the value given, every
  object destructed once); `Sorts` (finished parts in place, boundaries apart) and `EndsSorted`.
- `functions`. `NumbersAgree`, `BigIntegersAgree`, `TextAgrees` (encodings, characters, normal
  forms, strings), `InputIsUnderstood` (integers, booleans, command lines), `PathsLead`,
  `DigitsAgree`, `FormatsAgree`.

TLC's check for deadlock is off: each instance may end, when its bounds are reached, an assertion
stops the program, or the clients are done. That nobody is stuck before is what `HeaderReturns`,
`ClientsFinish`, `NobodySleepsOn` and `EndsSorted` say.

## 4. Fairness

- `threads`, part once: weak fairness of a thread that is in the header, the constructor or asleep:
  an operating system runs its threads, a constructor returns or throws, and the wait has a timeout
  (100 ms in `_Init_thread_wait`). No thread has to ask for a static.
- `threads`, parts locks and condvar: weak fairness of each step of a client. A mutex is not fair,
  and `ClientsFinish` needs no more, since each client asks a bounded number of times. Spurious
  wake-ups are not fair.
- `containers`, part sort: weak fairness of the sort's step: a function that was called runs.
- No other run assumes fairness; their properties are safety.

## 5. Proofs

Theorems hold for every value of the constants that meets the modules' named assumptions. A module
`MProofs` extends `M`; its inductive invariants were first checked by TLC. `MCThreads`,
`MCPlatform` and `MCContainers` take all their parameters as constants, so that `ThreadsProofs`,
`PlatformProofs`, `ContainersProofs` and `ArrayProofs` prove the very formulas the runs check (theorems `...InAll`
and those of the signal), for every set of threads, sizes, requests, scripts, names, keys, contents
and numbers of chunks: a step of another part leaves a part's variables alone, and a step of its own
is a step of its module. `ContainersProofs` extends `XarProofs`, which extends `HashTableProofs`:
one chain in three modules; `ArrayProofs` takes the sequences from `XarProofs`.

| Module | Theorem | Argument |
|---|---|---|
| `DebugHeapProofs` | (lemmas) a padding is below its alignment, the user's pointer is aligned, the block requested covers header, bytes and guard | arithmetic of `%` for any positive alignment; the 16-bit wrap never happens since paddings are below 65536 |
| | `TypeCorrect` | nodes, headers and blocks stay well formed through every path of every call, the failing ones included |
| | `ListAgreesWithHeap`, `NoBlockIsTorn`, `ChecksRaiseNoFalseAlarm`, `BlocksAreWellLaid` | `IInv`: headers are well formed and lie in their blocks, blocks are pairwise disjoint, each thread's unfreed nodes are its blocks, nothing is torn and no check has fired. Disjointness comes from the contract, and carries everything else: a fill stays inside the block it is for (`RequiredCovers`, `BlockCovers`), so it hits no other (`NoHit`), so neither the guard check nor the overlap check finds anything. None of the four is inductive alone: the overlap check needs the layout, the layout needs that a node's header is the block's |
| | `IdsStayUnique`, `LeakReportIsExact` | `IdInv`: the counter is above every ID of the thread's list, and two nodes share an ID only when one is Freed; a moved block leaves its ID behind in a freed node, which is why uniqueness of the live ones alone is not inductive. `LeakInv` adds to `IInv` that marks agree with what was asked of each block |
| `ThreadsProofs` | `OneBuilderInAll`, `UsedWhenBuiltHolds`, `FastPathSafeHolds` | `OnceInv`: a guard tells whether its static was built (`GuardTellsBuilt`), two builders never build the same static (`BuildersExclusive`), a thread's place agrees with its static's guard (`PlacesMatchGuard`), and by `TypeOK` no thread's epoch is ahead of the global one. `OneBuilder` alone is not inductive: that nobody claims a static under construction needs the guard, that nobody is let past too early needs the epochs |
| | `UndisturbedContextInAll` | `StartInv`: a thread that has been launched, has not copied and is not disturbed has a parent that still runs with the Context of the launch (`ParentKeeps`), so the two words it copies late are those it would have copied early; what it copies goes through its scopes unchanged. `disturbed` is a history variable, and no assumption is made on what parents do. The theorem includes that temporary allocators are nobody else's (`WorksOnItsOwn`) |
| | `MutualExclusionInAll` | `LocksInv`: what the mutex stores counts who is inside (`CountsInside`: the word of a `fast_mutex`, owner and depth of a recursive one), a client's place tells how often it is inside (`PlacesMatch`), and the counter plus the increments under way is what it should be. Exclusion needs the count, the increments need exclusion |
| `PlatformProofs` | `HeldBelowUsedHolds`, `KeepsContractInAll` | the arena's `IInv` adds to `HeldBelowUsed` that held blocks are disjoint: only then is "the last block" the only one whose end is Used, and a RESIZE in place harms nobody. The refinement takes each step to a step of the contract or a stutter |
| | `ChunksConservedInAll` | `PoolInv`: the free list, the held chunks and those of the blocks provided partition what the pool was given, and the free list is a path without repetition. FREE_ALL relinks every chunk of every block in loops over loops, which an induction over the finite set of chunks already linked (`SetInduction`) follows; the induction is stated over sets, since one over an operator is out of the provers' reach |
| | `MessagesArriveInAll` | `ConsoleInv`: what was shown, what is buffered and what is left of the messages under way make up what was sent, in order (`BytesInOrder`), pieces whole (`PiecesContiguous`). That is inductive only with where a writer is: it has a rest and lets go of the mutex only inside a write (`InAWrite`), and unless it does, no buffer holds a byte of its present message (`FlushedBetween`), so that other writers' flushes in between cannot put it out of order. What was shown stays so, and a flush adds all that its writer had there (`FlushedIsShown`, by `PromiseStays` and `FlushPromises`) |
| | `PagesStayMappedInAll`, `TemporaryIsSoundInAll` | `MemoryInv`: persistent pages are mapped, the temporary block is apart from them, and on Windows nothing else is mapped (`Apart`); the latest allocation ends below Used (`LatestIsLast`). Between the two frees of an outgrown block its address is nobody's, so the second is harmless: this is where one thread is needed |
| | `NewPoolSufficesInAll` | `RoomInv`: the base page, which holds TLSF's control structure, is among the persistent pages, so a page just mapped is another one and empty, and by `RoomInAPool` a request for which a pool is added fits it |
| | `DirectoryIsCurrentInAll` | `DirectoryInv`: the directories that were current since a call began include the present one (`CwdIsRecent`) and one of the size the call has asked for (`SizeWasRequired`), from which what it reads was current too; the cache changes only under the mutex |
| | `MoveLosesNothingInAll`, `OverwritesNothingInAll` | `FilesProofs` |
| | `TypesOKInAll` | every part's type invariant, each of which is a conjunct of the part's invariant above |
| `FilesProofs` | `MoveLosesNothingHolds`, `OverwritesNothingHolds` | `IInv`: for a move that nobody interferes with, at each of its steps: until the unlink the old name leads to the whole text, the new one is another file, and what the loop has copied is the beginning of the text (`Lossless`). It is about inodes since names may be links to one file, which is also why moves onto the file itself are left out (section 6). `OverwritesNothing` follows from what opening without the flag creates, whoever else runs |
| `HashTableProofs`, `ContainersProofs` | `FindsLastInAll` | `TableInv`: every used entry can be found from its hash's place, since no unused slot lies on the probe to it (`Probed`, `Findable`); a key is kept once, with its last value (`KeptOnce`, `KeptLast`); what is marked is counted, so that the load factor leaves an unused slot (`Counted`, `RoomFor`), which is what ends a search. A table grows by adding its entries to a new one, and that may grow again inside: the invariant therefore says the same of every table on the stack of running resizes (`Calls`), and that what is not yet moved is nowhere else (`Carried`). Without the count nothing says that a probe ends |
| `XarProofs`, `ContainersProofs` | `ReadsAsBuiltInAll`, xar | `XarInv`: the first chunks are there in their full sizes and the rest is missing, and every index's place holds what was added there. Index to chunk and offset is arithmetic with the highest bit; `IndexPlace` proves that it enumerates the places of the chunks one after the other, and that the string builder's own search for chunk and offset agrees, for any base size. Removing in order, copying a string across chunks, and the walk of all chunks are loops, followed by functions over the numbers (`MovingDown`, `Copying`, `VisitingAll`) |
| | the same, lists | `ListInv`: Next of each node on the list is the one behind it, in double links Prev the one before, head and tail the ends, and every other node points nowhere (`Behind`, `Ahead`), each node once (`Distinct`). That the others point nowhere is what makes inserting at the ends right |
| | the same, variants | `VariantInv`: the index tells the type of what is held, and objects made less objects ended are those held, type by type; visiting by nested switches reaches the case of the index |
| `ContainersProofs` | `RemovedStaysGone`, `EveryEmitReachesAll` | `IInv`: what is gone is a hole or waits in ToRemove, and nothing else waits (`GoneOrWaiting`); every emit on the stack, with its index, has reached what was connected when it began up to that index and is silent about the rest (`SilentOK`, `DueOK`). The stack is in the invariant because a callback may change what every emit below it still has to call |
| | `SortsInAll` | `SortInv`: the array is a rearrangement of the given one (`Rearranges`), the boundaries on the stack lie apart, and whatever they do not span is in order with everything (`RestInOrder`). A partition needs two walks that stop because the pivot stands guard; the lemmas say where they stop and what they leave behind |

| `ArrayProofs` | `ArraysHoldInAll` | `ArrayInv`: every owner's block holds what its own operations made, at its beginning, with room behind (`IsOwner`), no block has two owners, and a block nobody owns is free (`OneOwner`). Views have no part in it, because what they show may be stale: it is enough that an operation on a view reads its elements and works on a block of its own from then on. Each operation is proved once as a function of one array and its memory that leaves the blocks of the others (`Whole`, `Leaves`), most of them as what stands between two indices replaced (`Splice`); `GoesOn` then carries the invariant over for all arrays. `replace_all` is a loop that moves and grows what it walks over: at every turn what is done and what replacing would make of the rest add up to what it should make of the whole (`Rests`, `ReplacesFrom`). Searching and comparing loops answer the first or last index of a set (`LoopUp`, `LoopDown`), which is then that of the occurrences, or of the first difference |

Assumptions are those of the modules (`LayoutAssumption`, `HeapAssumption`, `ThreadsAssumption`,
`PartsAssumption`, and so on): sets of sizes and alignments as the code has them, and for the arrays
that there are more blocks than arrays, since an allocation that fails stops the program; TLC
evaluates them in each run. Some theorems assume more in their statement, most of them the opposite of a run that fails:
`NoBlockIsTorn` and `ChecksRaiseNoFalseAlarm` speak of `Spec`, in which blocks grow (with shrinking
they are false: `heap_shrink`); `MutualExclusionInAll` assumes `Honest`, that no client relies on the
answer of POSIX's `try_lock` (`locks_posix`); those about the platform's memory assume `OneThread`
(`platform_two_threads`), and `NewPoolSufficesInAll` also `RoomInAPool`, that the smallest pool has
room for the overheads of TLSF twice: the code starts with 1 MiB, the overheads are some bytes.

## 6. What the code does not keep

Found while modelling. The first seven have a run whose counterexample shows it:

| Run | Code | What happens | What is promised |
|---|---|---|---|
| `heap_shrink` | `memory.cpp:686` | shrinking fills from `header + oldSize`, where oldSize already counts header, alignment and guard: bytes behind the block are overwritten | `memory.cpp:685` "If we are shrinking the memory, fill the old stuff with DEAD_LAND_FILL" |
| `locks_posix` | `os/posix/thread.h:34` | try_lock answers the result of `pthread_mutex_trylock`, 0 for locked | `os/thread.h:40` "the calling thread locks it and the function returns true" |
| `condvar_all` | `os/windows/thread.h:94` | the last waiter's ResetEvent clears a later broadcast | `os/thread.h:133` "Wake up all threads that are blocked" |
| `thread_start_late` | `platform/posix/thread.cpp:20` | the child copies the parent's Context when it runs | `context.h:200` "copies the context from the parent thread at the time of creation" |
| `platform_two_threads` | `os/memory.h:117` and 71 | the outgrown temporary block is freed twice, the second time it may be a persistent page | `os/memory.h:17` "Frees a memory block allocated by os_allocate_block()" |
| `signal_nested` | `signal.h:60` | an inner emit removes callbacks while the outer one runs | `signal.h:43` "We will remove the callback once we have finished emitting" |
| `shortest_digits` | `fmt/float_dragonbox.cpp:1246` | zeros are removed from a significand that is then extended by a digit: 1.0000000000000002 is shown as 12e-16 | `fmt/float_dragonbox.cpp:7` "we need to choose the shortest representation" of those that read back |

The others follow from one or two calls, or are variants of these. A property in the right column
is defined in its module and can be added to a configuration to see the counterexample; where there
is none, the reference definition of the module names the case as an exception.

### Memory, threads, services, signal and table

| Code | What happens | Property |
|---|---|---|
| `memory.h:505` | RESIZE of the arena's last block does not look at Size, the block may end past the arena's memory | `Arena!HeldInsideBlock` |
| `memory.cpp:651` | a block that moves onto an address freed before stops in list_add's assertion; `memory.h:834` says such a node is reused | `DebugHeap!FreedAddressReusable` |
| `memory.cpp:759` | free_all marks only the caller's nodes; another thread's nodes of the allocator stay live. In the model a shared allocator is reset only when nobody else holds blocks of it, except under `SpecAny` | `LiveNodesAreBlocks` under `SpecAny` |
| `os/windows/thread.h:107` | two notify_one in a row set one auto-reset event, the second waiter is not woken | `CondVar!NobodySleepsOn`, two waiters, `latch` FALSE |
| `os/posix/thread.h:85` | the child of a thread on temporary storage starts with a null allocator | `ThreadStart!TemporaryInherited` |
| `os/posix/memory.h:25` | `munmap(ptr, 0)` fails and unmaps nothing | `PlatformMemory!OutgrownReturned` without its `platform` conjunct |
| `os/memory.h:136` | the base page never changes and nothing links to later pages: the shutdown frees one page | |
| `platform/memory.cpp:23` | free and resize of a large allocation go to TLSF, which does not know its page | `broken` contains "foreign" |
| `os/windows/common.h:142` | a longer directory set between size and name leaves the buffer unfilled and unnoticed | `WorkingDir!GetAnswersCwd` without its exception |
| `os/posix/common.h:108` | set overwrites the cached string without freeing it | `WorkingDir!NothingLost` |
| `os/posix/common.h:83` | the string a get returned is freed by another thread's get | `WorkingDir!ResultStays` |
| `signal.h:47` | while emitting, disconnecting what is gone is answered with true | |
| `signal.h:28` | connecting a null delegate answers an id that a later function gets too | |
| `signal.h:59` | connect in a callback may grow the array while the range-for of emit walks it | |
| `hash_table.h:146` | growing counts the moved entries once more | `HashTable!CountIsUsed` |
| `hash_table.h:190`, 218 | hashes 0 and 1 are stored as 2 and 3 but looked for as they are | `FindsLast` without its exception |
| `hash.h` (xxhash64) | the bulk loop reads `key + 4*i` and the 4-byte step reads 8 bytes, past the key's end | |
| `os/windows/common.h:522` | without a C runtime, exit runs its callbacks first-in first-out, after the platform's state is gone, holding the mutex that scheduling another takes | |

### Files

| Code | What happens |
|---|---|
| `os/posix/path.h`, copy and move | onto itself, or onto a link to itself, with overwriting: the file is emptied, and by a move then unlinked. Copying a directory leaves an empty destination; a copy that fails leaves a part of one |
| `os/posix/common.h`, write | Overwrite truncates ("wb"), though `os/common.h` says that what is behind stays; `fwrite` is given the count of characters, not of bytes |
| `os/*/path.h`, rename | on POSIX relative to the working directory and replacing, on Windows inside the file's directory and not replacing |
| `os/windows/path.h`, links | a hard link asks for directories, a symbolic one for a destination that exists: both always fail. `path_exists` is false for a file that is open exclusively |
| `os/windows/common.h`, clipboard | setting it frees the object and closes the clipboard twice |

### Containers and numbers

| Code | What happens |
|---|---|
| `array_like.h`, reserve | a capacity between 0 and Count shrinks below Count; adding an element of the array itself reads freed memory when it grows; comparing empty arrays, and sorting one, touches the element before the first |
| `bits.h` | `count_digits(0)` is 0, `is_pow_of_2(0)` is true, rotating by 0 shifts by the width, clz and ctz of 0 are 64 in any width, popcnt truncates |
| `common.h` | `0 <=> unordered` is greater; `numeric<char>` has 8 digits and maximum 127; `cast_numeric` from signed to unsigned asserts for values that fit (3545); `is_const` answers volatile (2825); `i128_mul` forces the sign, so that -1 * 0 is the minimum; comparing an unsigned with 0 answers 0 without compiler support |
| `big_integer.h` | lshift by 0 answers its operand, so that a division works in its caller's digits; comparison of equal sizes ignores the digits; assigning reserves by BASE; add_one and invert do not carry beyond a digit; squaring is never reached |

### Text

| Code | What happens |
|---|---|
| `string.h`, `string.cpp` | `utf16_to_utf8` loses the lead of a pair; compare and find_first_diff answer one less for a prefix; trim_start of nothing but spaces leaves the last one; `replace_all` with as many bytes never matches a pattern that is not ASCII; a replacement that shrinks a view may reserve less than Count; clone of nothing allocates 8; `unicode_to_upper` of a negative code point reads entry 0 |
| `string_builder.h`, normal forms | singleton decompositions are never applied, two starters never composed, no Hangul; marks beyond 1024 in a row are cut; the table by default ends with the BMP; invalid input gives an empty string where a comment says a clone |
| `parse.h` | the negative limit is wrong: -2147483648 to -2147483640 are TOO_MANY, the minima of s8 and s16 come out wrong with SUCCESS, hex "-800000000" is 0 with SUCCESS; rollback is by a byte when the terminator has several; the byte behind the end is read; `eat_hex_byte` eats on failure; "0" alone with LookForBasePrefix; `parse_bool` takes only a lower-case first letter |
| `clap.cpp` | "--opt=" takes the next argument as value; COUNT by its long name needs a value; a negative positional is an option; "--=x" matches an option without long name; "12abc" is an INT |
| `os/path.h` | splitting does not see a leading separator; normalise writes '/' where its comment says '\\'; without components the last character of root or drive is dropped ("/." gives "", "c:." gives "c"); an empty rest and a path of two are read past the end; components with ':' become drives; joining puts a separator instead of the share before a relative path; `get_path_from_here_to` searches *there* in *here* |

### Formatting

| Code | What happens |
|---|---|
| `float_dragon4.cpp:306` | "{:#.0f}" of 0.5 is "0.", though lines 286-289 say "Python would round 0.5 to 0, and not to 1 like we do here", and `test-suite/tests/fmt.cpp:554` expects "1.". `DigitsAgree` and `FormatsAgree` accept 0 and 1 in this case; `MCFunctions!HalfRoundsUp`, added to `ShortestDigits.cfg`, shows it |
| `float_dragonbox.cpp:728` | divisible_by_power_of_2 looks at the most significant bit: false ties, the last digit of some numbers is one less (82.01018890809083) |
| `float_dragon4.cpp` | the shortest mode's rounding is inverted, but nothing calls it; "{:.0e}" and "{:.0g}" on ties round at the digit before |
| `fmt/write.cpp` | "{:#5.0f}" does not count the point; 'n' with numeric alignment is wider than Width and overruns the 65-byte buffer beyond width or precision 65; the condition of the octal prefix is the opposite of its comment; a null pointer writes a byte before its buffer; inf and nan with numeric alignment are padded on the right; a float of a wrong type leaves Format uninitialized; escapes of quoted strings do not count in the width; more than 1 KiB of digits asserts |
| `fmt/fmt.cpp` | a lone "}" drops the stretch of text and goes on; 2^32-1 as width or precision, and an end behind a colour's channel, stop silently; "{!t" at the end is read past it; "{!#" asserts; text that is not ASCII behind a number rolls back a byte |
| `fmt.h` | line 33 shows `{:<8}` with right alignment; the comment on '#' says "0o" |

## 7. Only model-checked, not modelled

Only model-checked:

- Liveness (`HeaderReturns`, `ClientsFinish`, `NobodySleepsOn`, `EndsSorted`): the prover knows
  neither fairness nor ENABLED.
- All of `functions`: the loops are RECURSIVE operators, some over data of any shape, and some use
  `Bitwise`; the prover has no backend for either. They are exhaustive over their bounded inputs
  instead.

Left out on purpose in what is modelled: RESIZE and FREE of `platform_temp_alloc`, and its FREE_ALL
other than to start over, which go straight to `arena_allocator` (its modes are in `Arena`) and which
no caller in the library asks of it; a
`getcwd` that fails, for which `os_get_working_dir` answers an empty string on POSIX; contents of memory other than where writes land; failure of
the system's calls that the code turns into an assertion; `LockMutex = false` consoles; a module's
reference count on Windows; `operator==` of the hash table and `remove_prehashed`, which cannot be
instantiated; growth of the signal's array; conversions of big integers to text and floats; entries
of the tables (powers of ten, Unicode), which are computed or taken as parameters; help texts of the
command line; the weak memory orders of the processor (atomics and the accesses under a lock are
sequentially consistent steps).

Not modelled at all:

- Dynamic libraries, environment, clipboard, processes, guid: one call of the system each. The crash
  handler walks a call stack and prints it.
- Start and end without a C runtime: the order of constructors and destructors is the linker's and
  the loader's, which the repository does not hold.
- The rest of the context: settings that are read, and a panic handler that reports and stops.
- C runtime functions: memcpy and its kind in assembly; other modules use what they do. Atomics are
  the single steps of other modules. Hashes mix 64-bit words; any function would do for the table,
  which is modelled with colliding ones.
- TLSF, cephes, nob.h, declarations of the Windows API: vendored or declarations.

## 8. The plan

Left, in order of worth:

1. `Lifecycle` (main, exit, panic, the order of the teardown) with `TlsDtors` (registration while
   destructors run), with the loader's part as an external module.
2. Growth of the signal's array as a step of its own, against the walk of an emit.
3. Conversion of big integers to text and to floats and back.
4. An abstract sequence as a module of its own, refined by array, xar and linked list, in place of
   their ghosts; a finite map for the hash table; a byte stream for the console.
