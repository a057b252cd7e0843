-------------------------------- MODULE Locks --------------------------------
(***************************************************************************)
(* The two mutexes of os/thread.h and what clients make of them:           *)
(*   fast_mutex   one word, taken with atomic_swap, spun on by lock();     *)
(*   mutex        the system's recursive mutex; on POSIX try_lock() hands  *)
(*                the return code of pthread_mutex_trylock to a bool.      *)
(* The clients are those of test-suite/tests/thread.cpp: each increments a *)
(* shared Count, a load and a store, several times.  A client is inside    *)
(* after lock() and after a try_lock() that answered true, as documented.  *)
(***************************************************************************)
EXTENDS Integers

CONSTANTS
    Threads,
    Kinds,          \* which of "fast", "windows" and "posix" to look at
    Nobody,         \* no owner
    TryLocks,       \* TRUE: clients call try_lock() too
    MaxDepth,       \* bound on how often one thread enters a recursive mutex
    Rounds          \* bound: increments of one thread

LocksAssumption ==
    /\ Kinds \subseteq {"fast", "windows", "posix"}
    /\ Nobody \notin Threads
    /\ TryLocks \in BOOLEAN
    /\ MaxDepth \in Nat /\ MaxDepth > 0
    /\ Rounds \in Nat

VARIABLES
    kind,           \* the mutex the clients share
    Lock,           \* fast_mutex::Lock
    owner, depth,   \* of the system mutex
    inside,         \* how often each client is inside, by what it was told
    pc, loaded,     \* each client: where it is in ++Count, what it loaded
    Count,          \* the shared counter
    done            \* increments each client finished

mutex  == <<kind, Lock, owner, depth>>
client == <<pc, loaded, Count, done>>
vars   == <<kind, Lock, owner, depth, inside, pc, loaded, Count, done>>

Init == /\ kind \in Kinds
        /\ Lock = 0
        /\ owner = Nobody /\ depth = 0
        /\ inside = [t \in Threads |-> 0]
        /\ pc = [t \in Threads |-> "out"]
        /\ loaded = [t \in Threads |-> 0]
        /\ Count = 0
        /\ done = [t \in Threads |-> 0]

-----------------------------------------------------------------------------
(* fast_mutex.  lock() repeats try_lock(), which leaves the word at 1 when *)
(* it fails.                                                               *)

FastWorks(got) ==
    /\ Lock' = 1 /\ got = (Lock = 0)
    /\ UNCHANGED <<kind, owner, depth>>

FastReleases == Lock' = 0 /\ UNCHANGED <<kind, owner, depth>>

-----------------------------------------------------------------------------
(* mutex: PTHREAD_MUTEX_RECURSIVE or a CRITICAL_SECTION.                   *)

Free(t) == owner \in {Nobody, t}

Acquires(t) == owner' = t /\ depth' = depth + 1 /\ UNCHANGED <<kind, Lock>>

(* What try_lock() answers: TryEnterCriticalSection is nonzero when it     *)
(* entered, pthread_mutex_trylock is zero when it locked and an error      *)
(* number otherwise.                                                       *)
Answer(acquired) == IF kind = "posix" THEN ~acquired ELSE acquired

(* Unlocking a mutex of another thread is an error that changes nothing.   *)
MutexForgetsDepth(t) ==             \* mutant: one unlock undoes every entry
    /\ owner' = Nobody /\ depth' = depth - 2
    /\ UNCHANGED <<kind, Lock>>

MutexReleases(t) ==
    /\ IF owner = t
       THEN /\ depth' = depth - 1
            /\ owner' = IF depth = 1 THEN Nobody ELSE t
       ELSE UNCHANGED <<owner, depth>>
    /\ UNCHANGED <<kind, Lock>>

-----------------------------------------------------------------------------
(* The client.  It enters when it has increments left and, where the mutex *)
(* is recursive, again before it loads.                                    *)

MayEnter(t) ==
    \/ pc[t] = "out" /\ done[t] < Rounds
    \/ pc[t] = "in" /\ kind # "fast" /\ inside[t] < MaxDepth

Enters(t) == /\ inside' = [inside EXCEPT ![t] = @ + 1]
             /\ pc' = [pc EXCEPT ![t] = "in"]
             /\ UNCHANGED <<loaded, Count, done>>

EnterLock(t) ==
    /\ MayEnter(t)
    /\ IF kind = "fast" THEN FastWorks(TRUE) ELSE Free(t) /\ Acquires(t)
    /\ Enters(t)

EnterTryLock(t) ==
    /\ TryLocks /\ MayEnter(t)
    /\ IF kind = "fast"
       THEN \E got \in BOOLEAN :
               /\ FastWorks(got)
               /\ IF got THEN Enters(t) ELSE UNCHANGED <<inside, client>>
       ELSE /\ IF Free(t) THEN depth < MaxDepth /\ Acquires(t)
                          ELSE UNCHANGED mutex
            /\ IF Answer(Free(t)) THEN Enters(t)
                                  ELSE UNCHANGED <<inside, client>>

Load(t) == /\ pc[t] = "in"
           /\ pc' = [pc EXCEPT ![t] = "loaded"]
           /\ loaded' = [loaded EXCEPT ![t] = Count]
           /\ UNCHANGED <<mutex, inside, Count, done>>

Store(t) == /\ pc[t] = "loaded"
            /\ pc' = [pc EXCEPT ![t] = "stored"]
            /\ Count' = loaded[t] + 1
            /\ done' = [done EXCEPT ![t] = @ + 1]
            /\ UNCHANGED <<mutex, inside, loaded>>

UnlockReleasesNothing(t) ==             \* mutant: the entries are not undone
    /\ pc[t] = "stored"
    /\ inside' = [inside EXCEPT ![t] = @ - 1]
    /\ pc' = [pc EXCEPT ![t] = IF inside[t] = 1 THEN "out" ELSE "stored"]
    /\ UNCHANGED <<mutex, loaded, Count, done>>

Unlock(t) ==
    /\ pc[t] = "stored"
    /\ IF kind = "fast" THEN FastReleases ELSE MutexReleases(t)
    /\ inside' = [inside EXCEPT ![t] = @ - 1]
    /\ pc' = [pc EXCEPT ![t] = IF inside[t] = 1 THEN "out" ELSE "stored"]
    /\ UNCHANGED <<loaded, Count, done>>

AllDone == /\ \A t \in Threads : pc[t] = "out" /\ done[t] = Rounds
           /\ UNCHANGED vars

Step(t) == EnterLock(t) \/ EnterTryLock(t) \/ Load(t) \/ Store(t) \/ Unlock(t)

Next == (\E t \in Threads : Step(t)) \/ AllDone

Spec == Init /\ [][Next]_vars

(* Every thread keeps running: a lock() that could get in for ever does.   *)
FairSpec ==
    Spec /\ \A t \in Threads : /\ WF_vars(EnterLock(t)) /\ WF_vars(Load(t))
                               /\ WF_vars(Store(t)) /\ WF_vars(Unlock(t))

-----------------------------------------------------------------------------
TypeOK == /\ kind \in Kinds /\ Lock \in {0, 1}
          /\ owner \in Threads \cup {Nobody} /\ depth \in Nat
          /\ inside \in [Threads -> Nat]
          /\ pc \in [Threads -> {"out", "in", "loaded", "stored"}]
          /\ loaded \in [Threads -> Nat] /\ Count \in Nat
          /\ done \in [Threads -> Nat]

(* "Returns true if the lock was acquired": two threads are never inside   *)
(* at the same time, whichever of lock() and try_lock() let them in.       *)
MutualExclusion ==
    \A t, u \in Threads : (inside[t] > 0 /\ inside[u] > 0) => t = u

(* A loaded Count is never overtaken, so that no increment is lost: what   *)
(* the tests mutex_lock and fast_mutex_lock count for one schedule.        *)
NoUpdateLost == \A t \in Threads : pc[t] = "loaded" => loaded[t] = Count

(* Every client finishes its increments: a released lock is always found   *)
(* by those who spin on it or sleep for it.                                *)
EveryoneFinishes == <>(\A t \in Threads : done[t] = Rounds)
=============================================================================
