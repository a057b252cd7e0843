------------------------------ MODULE OnceInit ------------------------------
(***************************************************************************)
(* Thread-safe function-local statics (thread_safe_statics.cpp): the four  *)
(* _Init_thread_* functions and the code the compiler puts around them,    *)
(*                                                                         *)
(*    if (once > _Init_thread_epoch) {                                     *)
(*        _Init_thread_header(&once);                                      *)
(*        if (once == -1) { construct; _Init_thread_footer(&once); }       *)
(*    }                                                                    *)
(*    ... use the static ...                                               *)
(*                                                                         *)
(* which reads "once" twice without the lock.  A critical section under    *)
(* _Init_thread_lock is one step: all that happens inside it is on data    *)
(* the lock protects, the unlocked reads are steps of their own.  The      *)
(* condition variable is one for all statics.                              *)
(***************************************************************************)
EXTENDS Integers

CONSTANTS
    Threads,
    Statics,
    EpochStart,         \* epoch_start, the least int
    NativeWait,         \* TRUE: CONDITION_VARIABLE; FALSE: the Windows event
    MaxAborts           \* bound on constructors that throw

Uninitialized    == 0
BeingInitialized == -1

ASSUME OnceAssumption ==
    /\ EpochStart \in Int /\ EpochStart < BeingInitialized
    /\ NativeWait \in BOOLEAN
    /\ MaxAborts \in Nat

VARIABLES
    once,           \* the guard of each static
    globalEpoch,    \* _Init_global_epoch
    epoch,          \* _Init_thread_epoch of each thread
    pc, target,     \* where each thread is, and with which static
    built,          \* how often each static was constructed to the end
    aborts

vars == <<once, globalEpoch, epoch, pc, target, built, aborts>>

Locations == {"idle", "header", "unlocked", "asleep", "woken", "returned",
              "building", "notify", "rethrow", "using"}

Init == /\ once = [s \in Statics |-> Uninitialized]
        /\ globalEpoch = EpochStart
        /\ epoch = [t \in Threads |-> EpochStart]
        /\ pc = [t \in Threads |-> "idle"]
        /\ target \in [Threads -> Statics]
        /\ built = [s \in Statics |-> 0]
        /\ aborts = 0

At(t, l)   == pc[t] = l
Goto(t, l) == pc' = [pc EXCEPT ![t] = l]

Claim(t)    == once' = [once EXCEPT ![target[t]] = BeingInitialized]
CatchUp(t)  == epoch' = [epoch EXCEPT ![t] = globalEpoch]

-----------------------------------------------------------------------------
(* Compiler-generated code: the fast path compares without the lock.       *)

SkipWhenInitialized(s, t) == once[s] # Uninitialized            \* mutant
Skips(s, t) == ~(once[s] > epoch[t])

Access(t) ==
    /\ At(t, "idle")
    /\ \E s \in Statics :
          /\ target' = [target EXCEPT ![t] = s]
          /\ Goto(t, IF Skips(s, t) THEN "using" ELSE "header")
    /\ UNCHANGED <<once, globalEpoch, epoch, built, aborts>>

Returned(t) ==
    /\ At(t, "returned")
    /\ Goto(t, IF once[target[t]] = BeingInitialized THEN "building" ELSE "using")
    /\ UNCHANGED <<once, globalEpoch, epoch, target, built, aborts>>

LeaveUse(t) ==
    /\ At(t, "using")
    /\ Goto(t, "idle")
    /\ UNCHANGED <<once, globalEpoch, epoch, target, built, aborts>>

-----------------------------------------------------------------------------
(* _Init_thread_header: take the static over, wait for whoever has it, or  *)
(* learn that it is built.                                                 *)

Header(t) ==
    /\ At(t, "header")
    /\ \/ /\ once[target[t]] = Uninitialized
          /\ Claim(t)
          /\ Goto(t, "returned")
          /\ UNCHANGED epoch
       \/ /\ once[target[t]] = BeingInitialized
          /\ Goto(t, IF NativeWait THEN "asleep" ELSE "unlocked")
          /\ UNCHANGED <<once, epoch>>
       \/ /\ once[target[t]] \notin {Uninitialized, BeingInitialized}
          /\ CatchUp(t)
          /\ Goto(t, "returned")
          /\ UNCHANGED once
    /\ UNCHANGED <<globalEpoch, target, built, aborts>>

(* The event is waited for only after the lock was released.               *)
FallAsleep(t) ==
    /\ At(t, "unlocked")
    /\ Goto(t, "asleep")
    /\ UNCHANGED <<once, globalEpoch, epoch, target, built, aborts>>

(* xp_timeout passed, or the sleep ended for no reason.                    *)
NoTimeout(t) == FALSE /\ UNCHANGED vars          \* mutant: an infinite wait
Timeout(t) ==
    /\ At(t, "asleep")
    /\ Goto(t, "woken")
    /\ UNCHANGED <<once, globalEpoch, epoch, target, built, aborts>>

(* Back under the lock, in the loop of _Init_thread_header.                *)
WokenTakesOver(t) ==                    \* mutant: once is not looked at again
    /\ At(t, "woken")
    /\ Claim(t)
    /\ Goto(t, "returned")
    /\ UNCHANGED <<globalEpoch, epoch, target, built, aborts>>

Woken(t) ==
    /\ At(t, "woken")
    /\ \/ /\ once[target[t]] = Uninitialized
          /\ Claim(t)
          /\ Goto(t, "returned")
          /\ UNCHANGED epoch
       \/ /\ once[target[t]] = BeingInitialized
          /\ Goto(t, IF NativeWait THEN "asleep" ELSE "unlocked")
          /\ UNCHANGED <<once, epoch>>
       \/ /\ once[target[t]] \notin {Uninitialized, BeingInitialized}
          /\ CatchUp(t)
          /\ Goto(t, "returned")
          /\ UNCHANGED once
    /\ UNCHANGED <<globalEpoch, target, built, aborts>>

-----------------------------------------------------------------------------
(* _Init_thread_footer and _Init_thread_abort; both notify without the     *)
(* lock.  Bound: fewer statics than ints between EpochStart and -1.        *)

FooterBumpsThreadOnly(t) ==  \* mutant: the guard is set before the constructor
    /\ At(t, "returned") /\ once[target[t]] = BeingInitialized
    /\ globalEpoch + 1 < BeingInitialized
    /\ globalEpoch' = globalEpoch + 1
    /\ once' = [once EXCEPT ![target[t]] = globalEpoch + 1]
    /\ epoch' = [epoch EXCEPT ![t] = globalEpoch + 1]
    /\ Goto(t, "notify")
    /\ UNCHANGED <<target, built, aborts>>

Footer(t) ==
    /\ At(t, "building")
    /\ globalEpoch + 1 < BeingInitialized
    /\ globalEpoch' = globalEpoch + 1
    /\ once' = [once EXCEPT ![target[t]] = globalEpoch + 1]
    /\ epoch' = [epoch EXCEPT ![t] = globalEpoch + 1]
    /\ built' = [built EXCEPT ![target[t]] = @ + 1]
    /\ Goto(t, "notify")
    /\ UNCHANGED <<target, aborts>>

Abort(t) ==
    /\ At(t, "building")
    /\ aborts < MaxAborts
    /\ aborts' = aborts + 1
    /\ once' = [once EXCEPT ![target[t]] = Uninitialized]
    /\ Goto(t, "rethrow")
    /\ UNCHANGED <<globalEpoch, epoch, target, built>>

(* Wake every sleeper.  After an abort the exception leaves the static.    *)
Notify(t) ==
    /\ pc[t] \in {"notify", "rethrow"}
    /\ pc' = [u \in Threads |->
                 IF u = t THEN IF pc[t] = "notify" THEN "using" ELSE "idle"
                 ELSE IF pc[u] = "asleep" THEN "woken" ELSE pc[u]]
    /\ UNCHANGED <<once, globalEpoch, epoch, target, built, aborts>>

-----------------------------------------------------------------------------
Step(t) == \/ Access(t) \/ Returned(t) \/ LeaveUse(t)
           \/ Header(t) \/ FallAsleep(t) \/ Timeout(t) \/ Woken(t)
           \/ Footer(t) \/ Abort(t) \/ Notify(t)

Next == \E t \in Threads : Step(t)

Spec == Init /\ [][Next]_vars

(* A thread that is inside the library or the compiler's code keeps        *)
(* running, constructors return, a sleep of xp_timeout ends, and the lock  *)
(* is handed to everybody who wants it in turn.                            *)
Fairness ==
    \A t \in Threads :
        /\ WF_vars(Returned(t)) /\ WF_vars(Header(t)) /\ WF_vars(FallAsleep(t))
        /\ WF_vars(Woken(t)) /\ WF_vars(Timeout(t))
        /\ WF_vars(Footer(t) \/ Abort(t)) /\ WF_vars(Notify(t))
FairSpec == Spec /\ Fairness

-----------------------------------------------------------------------------
(* A guard is one of the two marks or an epoch that was already handed     *)
(* out, and no thread remembers an epoch from the future.                  *)
TypeOK ==
    /\ globalEpoch \in EpochStart .. BeingInitialized - 1
    /\ once \in [Statics -> {Uninitialized, BeingInitialized}
                              \cup (EpochStart + 1 .. globalEpoch)]
    /\ epoch \in [Threads -> EpochStart .. globalEpoch]
    /\ pc \in [Threads -> Locations] /\ target \in [Threads -> Statics]
    /\ built \in [Statics -> Nat] /\ aborts \in Nat

Builds(t) == \/ At(t, "building")
             \/ At(t, "returned") /\ once[target[t]] = BeingInitialized

(* "Only one thread may leave this function before the variable has        *)
(* completed initialization": two threads never construct the same static, *)
(* and a finished one is not constructed again.                            *)
OneBuilder ==
    /\ \A t, u \in Threads :
          (t # u /\ Builds(t) /\ Builds(u)) => target[t] # target[u]
    /\ \A s \in Statics : built[s] <= 1

(* Whoever gets past the guard, over the fast path, after waiting, or as   *)
(* the builder, finds the static constructed.                              *)
UsedWhenBuilt ==
    \A t \in Threads : At(t, "using") => built[target[t]] = 1

(* The epoch a thread remembers is never ahead of what is built: every     *)
(* static it may skip the header for has been constructed.                 *)
FastPathSafe ==
    \A t \in Threads, s \in Statics : Skips(s, t) => built[s] = 1

(* Nobody who entered the header is left behind, though constructors       *)
(* throw and wake-ups are missed.                                          *)
HeaderReturns ==
    \A t \in Threads : At(t, "header") ~> pc[t] \in {"using", "rethrow"}
=============================================================================
