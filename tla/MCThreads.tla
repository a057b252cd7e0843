------------------------------ MODULE MCThreads ------------------------------
(***************************************************************************)
(* What threads share, in one run: the thread-safe statics (extended here),*)
(* the mutexes, the condition variable and the start of a thread.  The     *)
(* parts share no state, so interleaving them would only multiply their    *)
(* states: a behaviour chooses one of them, and the others stay as they    *)
(* began.                                                                  *)
(***************************************************************************)
EXTENDS OnceInit

CONSTANTS
    Parts,                              \* those to run
    Kinds, Nobody, TryLocks, MaxDepth, Rounds,      \* see Locks
    Casts, Latches, Notifiers,          \* see CondVar
    Started, Main, Allocators, MaxScopes,           \* see ThreadStart
    t1, t2, t3, s1, s2, w1, w2, n1, n2, n3, main, c1, c2, malloc, pool

ThreeThreads == {t1, t2, t3}
TwoStatics == {s1, s2}
LowestEpoch == -5
TwoNotifiers == {n1, n2}
ThreeNotifiers == {n1, n2, n3}
MainAndTwo == {main, c1, c2}
TwoAllocators == {malloc, pool}

(* Both waiters on POSIX, one of them, as in the test, on the events of    *)
(* Windows; or both on the events.                                         *)
AsInTheTest == {<<TRUE, {w1, w2}>>, <<FALSE, {w1}>>}
WindowsTwo == {<<FALSE, {w1, w2}>>}

VARIABLES
    part,                                   \* the part that runs
    kind, Lock, owner, depth, inside, lockPc, loaded, Count,
    done,                                   \* see Locks
    native, latch, holder, cvCount, cvPc, one, all, WaitersCount,
    sawWaiters, spurious,                   \* see CondVar
    state, parent, wasTemp, alloc, temporary, saved, newContext,
    atCreation, disturbed                   \* see ThreadStart

LK == INSTANCE Locks WITH pc <- lockPc

CV == INSTANCE CondVar WITH Waiters <- {w1, w2}, MaxSpurious <- 1,
                            Count <- cvCount, pc <- cvPc

TS == INSTANCE ThreadStart WITH Threads <- Started, MaxDepth <- MaxScopes

lkVars == <<kind, Lock, owner, depth, inside, lockPc, loaded, Count, done>>
cvVars == <<native, latch, holder, cvCount, cvPc, one, all, WaitersCount,
            sawWaiters, spurious>>
tsVars == <<state, parent, wasTemp, alloc, temporary, saved, newContext,
            atCreation, disturbed>>

ASSUME ThreadsAssumption ==
    LK!LocksAssumption /\ CV!CondVarAssumption /\ TS!ThreadStartAssumption

AllInit ==
    /\ part \in Parts
    /\ Init /\ LK!Init /\ CV!Init /\ TS!Init
    /\ part # "once" => target = [t \in Threads |-> s1]
    /\ part # "locks" => kind = CHOOSE k \in Kinds : TRUE
    /\ part # "condvar" => <<native, latch>> = CHOOSE s \in {c[1] : c \in Casts} \X Latches : TRUE
    /\ part # "start" => alloc[Main] = TS!Heap(CHOOSE a \in Allocators : TRUE)

AllNext ==
    \/ part = "once" /\ Next /\ UNCHANGED <<part, lkVars, cvVars, tsVars>>
    \/ part = "locks" /\ LK!Next /\ UNCHANGED <<part, vars, cvVars, tsVars>>
    \/ part = "condvar" /\ CV!Next /\ UNCHANGED <<part, vars, lkVars, tsVars>>
    \/ part = "start" /\ TS!Next /\ UNCHANGED <<part, vars, lkVars, cvVars>>

(* The fairness of the parts: every thread keeps running.                  *)
AllSpec ==
    /\ AllInit /\ [][AllNext]_<<part, vars, lkVars, cvVars, tsVars>>
    /\ \A t \in Threads :
          /\ WF_vars(part = "once" /\ Returned(t))
          /\ WF_vars(part = "once" /\ Header(t))
          /\ WF_vars(part = "once" /\ FallAsleep(t))
          /\ WF_vars(part = "once" /\ Woken(t))
          /\ WF_vars(part = "once" /\ Timeout(t))
          /\ WF_vars(part = "once" /\ (Footer(t) \/ Abort(t)))
          /\ WF_vars(part = "once" /\ Notify(t))
          /\ WF_lkVars(part = "locks" /\ LK!EnterLock(t))
          /\ WF_lkVars(part = "locks" /\ LK!Load(t))
          /\ WF_lkVars(part = "locks" /\ LK!Store(t))
          /\ WF_lkVars(part = "locks" /\ LK!Unlock(t))
    /\ \A t \in CV!Everyone : WF_cvVars(part = "condvar" /\ CV!Runs(t))

-----------------------------------------------------------------------------
(* Two clients are never inside one mutex, and no increment is lost        *)
(* (Locks).                                                                *)
MutualExclusion == LK!MutualExclusion /\ LK!NoUpdateLost

(* Nobody sleeps on while what it waits for is so (CondVar).               *)
NobodySleepsOn == part = "condvar" => CV!NobodySleepsOn

(* Every client of a mutex finishes its increments (Locks).                *)
ClientsFinish == part = "locks" => LK!EveryoneFinishes

(* A thread has the Context of the moment of its creation (ThreadStart).   *)
ContextOfCreation == TS!ContextOfCreation

(* A thread whose parent and forebears kept theirs until it had copied it  *)
(* has the Context of its creation, and works on no other thread's         *)
(* temporary storage (ThreadStart).                                        *)
UndisturbedContext == TS!UndisturbedContext /\ TS!OwnTemporaryOnly
=============================================================================
