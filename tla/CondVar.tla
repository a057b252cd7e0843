------------------------------- MODULE CondVar -------------------------------
(***************************************************************************)
(* condition_variable (os/thread.h) with the clients of                    *)
(* test-suite/tests/thread.cpp around it.  On POSIX it is the native       *)
(* condition variable; on Windows two events and a count of waiters:       *)
(*                                                                         *)
(*   wait        ++WaitersCount; unlock(m); wait for ONE or ALL;           *)
(*               --WaitersCount; the last one resets ALL; lock(m)          *)
(*   notify_one  WaitersCount > 0: set ONE, which one waiter clears        *)
(*   notify_all  WaitersCount > 0: set ALL, which stays until it is reset  *)
(*                                                                         *)
(* WaitersCountLock makes each access to WaitersCount one step; setting    *)
(* and resetting the events happens outside of it.  A waiter runs          *)
(*    lock; while (its condition is false) wait; unlock                    *)
(* and a notifier                                                          *)
(*    lock; change Count; notify; unlock.                                  *)
(***************************************************************************)
EXTENDS Integers, FiniteSets

CONSTANTS
    Waiters, Notifiers,     \* the threads, each running its program once
    Nobody,
    Casts,                  \* pairs of a platform (TRUE: POSIX) and the
                            \* waiters that take part on it
    Latches,                \* which programs to look at
    MaxSpurious             \* bound on wake-ups for no reason (POSIX)

CondVarAssumption ==
    /\ IsFiniteSet(Waiters) /\ IsFiniteSet(Notifiers)
    /\ Waiters \cap Notifiers = {}
    /\ Nobody \notin Waiters \cup Notifiers
    /\ Casts \subseteq BOOLEAN \X SUBSET Waiters /\ Latches \subseteq BOOLEAN
    /\ MaxSpurious \in Nat

Everyone == Waiters \cup Notifiers

VARIABLES
    native,         \* TRUE: POSIX, FALSE: the events of Windows
    latch,          \* TRUE: wait for Count = 0 (the test), notify_all
                    \* FALSE: wait for a unit of Count, notify_one
    holder,         \* of the mutex
    Count,          \* what the condition is about
    pc,
    one, all,       \* Events[ONE], Events[ALL]: signaled?
    WaitersCount,
    sawWaiters,     \* haveWaiters of each notifier
    spurious

program == <<native, latch>>
events == <<one, all, WaitersCount>>
vars   == <<program, holder, Count, pc, one, all, WaitersCount, sawWaiters, spurious>>

Locations == {"start", "check", "unlock", "blocked", "awake", "reset",
              "last", "relock", "leave", "change", "look", "signal", "done"}

Condition(v) == IF latch THEN v = 0 ELSE v > 0
Taken(v)     == IF latch THEN v ELSE v - 1
Changed(v)   == IF latch THEN v - 1 ELSE v + 1

Init == /\ \E cast \in Casts :
              /\ native = cast[1]
              /\ pc = [t \in Everyone |-> IF t \in cast[2] \cup Notifiers
                                       THEN "start" ELSE "done"]
        /\ latch \in Latches
        /\ holder = Nobody
        /\ Count = IF latch THEN Cardinality(Notifiers) ELSE 0
        /\ one = FALSE /\ all = FALSE /\ WaitersCount = 0
        /\ sawWaiters = [t \in Notifiers |-> FALSE]
        /\ spurious = 0

At(t, l)   == pc[t] = l
Goto(t, l) == pc' = [pc EXCEPT ![t] = l]

Asleep == {t \in Waiters : At(t, "blocked")}

-----------------------------------------------------------------------------
LockMutex(t) ==
    /\ pc[t] \in {"start", "relock"} /\ holder = Nobody
    /\ holder' = t
    /\ Goto(t, IF t \in Waiters THEN "check" ELSE "change")
    /\ UNCHANGED <<program, Count, events, sawWaiters, spurious>>

UnlockMutex(t) ==
    /\ At(t, "leave")
    /\ holder' = Nobody
    /\ Goto(t, "done")
    /\ UNCHANGED <<program, Count, events, sawWaiters, spurious>>

(* while (condition is false) wait(&Cond, &Mutex).  Native: the mutex is   *)
(* released and the thread blocks in one step.  Events: pre_wait.          *)
Check(t) ==
    /\ At(t, "check")
    /\ IF Condition(Count)
       THEN /\ Count' = Taken(Count)
            /\ Goto(t, "leave")
            /\ UNCHANGED <<holder, WaitersCount>>
       ELSE /\ IF native
               THEN holder' = Nobody /\ Goto(t, "blocked")
                    /\ UNCHANGED WaitersCount
               ELSE WaitersCount' = WaitersCount + 1 /\ Goto(t, "unlock")
                    /\ UNCHANGED holder
            /\ UNCHANGED Count
    /\ UNCHANGED <<program, one, all, sawWaiters, spurious>>

(* unlock(m) in wait(), after pre_wait.                                    *)
UnlockToWait(t) ==
    /\ At(t, "unlock")
    /\ holder' = Nobody
    /\ Goto(t, "blocked")
    /\ UNCHANGED <<program, Count, events, sawWaiters, spurious>>

(* WaitForMultipleObjects answers the signaled event of the lowest index;  *)
(* ONE is an auto-reset event.  "reset" marks a thread ALL woke.           *)
WaitReturns(t) ==
    /\ ~native /\ At(t, "blocked")
    /\ one \/ all
    /\ one' = FALSE
    /\ Goto(t, IF one THEN "awake" ELSE "reset")
    /\ UNCHANGED <<program, holder, Count, all, WaitersCount, sawWaiters, spurious>>

(* --WaitersCount; ResetEvent follows as a step of its own, "relock" is    *)
(* reached without it by all but the last of those ALL woke.               *)
CountOut(t) ==
    /\ pc[t] \in {"awake", "reset"}
    /\ WaitersCount' = WaitersCount - 1
    /\ Goto(t, IF At(t, "reset") /\ WaitersCount = 1 THEN "last" ELSE "relock")
    /\ UNCHANGED <<program, holder, Count, one, all, sawWaiters, spurious>>

ResetAll(t) ==
    /\ At(t, "last")
    /\ all' = FALSE
    /\ Goto(t, "relock")
    /\ UNCHANGED <<program, holder, Count, one, WaitersCount, sawWaiters, spurious>>

(* pthread_cond_wait may return for no reason.                             *)
SpuriousWake(t) ==
    /\ native /\ At(t, "blocked") /\ spurious < MaxSpurious
    /\ spurious' = spurious + 1
    /\ Goto(t, "relock")
    /\ UNCHANGED <<program, holder, Count, events, sawWaiters>>

-----------------------------------------------------------------------------
ChangeCount(t) ==
    /\ At(t, "change")
    /\ Count' = Changed(Count)
    /\ Goto(t, "look")
    /\ UNCHANGED <<program, holder, events, sawWaiters, spurious>>

(* pthread_cond_broadcast and pthread_cond_signal wake at once whom they   *)
(* wake; on Windows haveWaiters is read under the lock first.              *)
SignalsForBroadcast(t) ==               \* mutant: only one waiter is woken
    /\ native /\ At(t, "look")
    /\ \E woken \in SUBSET Asleep :
          /\ Cardinality(woken) = IF Asleep = {} THEN 0 ELSE 1
          /\ pc' = [u \in Everyone |-> IF u = t THEN "leave"
                                      ELSE IF u \in woken THEN "relock"
                                      ELSE pc[u]]
    /\ UNCHANGED <<program, holder, Count, events, sawWaiters, spurious>>

NativeNotify(t) ==
    /\ native /\ At(t, "look")
    /\ \E woken \in SUBSET Asleep :
          /\ IF latch THEN woken = Asleep
             ELSE Cardinality(woken) = IF Asleep = {} THEN 0 ELSE 1
          /\ pc' = [u \in Everyone |-> IF u = t THEN "leave"
                                      ELSE IF u \in woken THEN "relock"
                                      ELSE pc[u]]
    /\ UNCHANGED <<program, holder, Count, events, sawWaiters, spurious>>

Look(t) ==
    /\ ~native /\ At(t, "look")
    /\ sawWaiters' = [sawWaiters EXCEPT ![t] = WaitersCount > 0]
    /\ Goto(t, "signal")
    /\ UNCHANGED <<program, holder, Count, events, spurious>>

Signal(t) ==
    /\ At(t, "signal")
    /\ IF latch THEN all' = (all \/ sawWaiters[t]) /\ UNCHANGED one
                ELSE one' = (one \/ sawWaiters[t]) /\ UNCHANGED all
    /\ Goto(t, "leave")
    /\ UNCHANGED <<program, holder, Count, WaitersCount, sawWaiters, spurious>>

-----------------------------------------------------------------------------
Runs(t) == \/ LockMutex(t) \/ UnlockMutex(t) \/ Check(t)
           \/ UnlockToWait(t) \/ WaitReturns(t) \/ CountOut(t) \/ ResetAll(t)
           \/ ChangeCount(t) \/ NativeNotify(t) \/ Look(t) \/ Signal(t)

Next == \E t \in Everyone : Runs(t) \/ SpuriousWake(t)

Spec == Init /\ [][Next]_vars

(* Every thread keeps running.                                             *)
FairSpec == Spec /\ \A t \in Everyone : WF_vars(Runs(t))

-----------------------------------------------------------------------------
TypeOK ==
    /\ native \in BOOLEAN /\ latch \in Latches
    /\ holder \in Everyone \cup {Nobody} /\ Count \in Nat
    /\ pc \in [Everyone -> Locations]
    /\ one \in BOOLEAN /\ all \in BOOLEAN
    /\ WaitersCount \in 0 .. Cardinality(Waiters)
    /\ sawWaiters \in [Notifiers -> BOOLEAN] /\ spurious \in 0 .. MaxSpurious

(* "Wake up all threads that are blocked waiting for this condition        *)
(* variable", "If at least one thread is blocked ... one will be woken     *)
(* up": nobody sleeps on for ever while what it waits for is so.           *)
NobodySleepsOn ==
    \A t \in Waiters :
        []<>(~At(t, "blocked") \/ ~Condition(Count))
=============================================================================
