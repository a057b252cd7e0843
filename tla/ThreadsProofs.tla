---------------------------- MODULE ThreadsProofs ----------------------------
(***************************************************************************)
(* What threads share, proved for any number of them: the thread-safe      *)
(* statics, then the mutexes, then the Context a thread starts with, then  *)
(* all parts of MCThreads together.                                        *)
(***************************************************************************)
EXTENDS MCThreads, Sequences, SequenceTheorems, TLAPS

-----------------------------------------------------------------------------
(* Thread-safe statics, for both ways to wait and any number of aborts.    *)

(* The guard tells whether the static was built; the thread that holds the *)
(* mark BeingInitialized is the only one that can give it up.              *)
GuardTellsBuilt ==
    \A s \in Statics :
        built[s] = IF once[s] \in {Uninitialized, BeingInitialized} THEN 0 ELSE 1

BuildersExclusive ==
    \A t, u \in Threads :
        (t # u /\ Builds(t) /\ Builds(u)) => target[t] # target[u]

PlacesMatchGuard ==
    \A t \in Threads :
        /\ At(t, "building") => once[target[t]] = BeingInitialized
        /\ At(t, "returned") => once[target[t]] # Uninitialized
        /\ pc[t] \in {"notify", "using"} => built[target[t]] = 1

OnceInv == TypeOK /\ GuardTellsBuilt /\ BuildersExclusive /\ PlacesMatchGuard

(* The strengthened invariant holds initially ...                          *)
LEMMA OnceStarts == Init => OnceInv
  BY OnceAssumption
  DEF Uninitialized, BeingInitialized, At, Init, OnceInv, TypeOK, GuardTellsBuilt,
     BuildersExclusive, PlacesMatchGuard,
      Builds, Locations

(* ... and every step keeps it.                                            *)
LEMMA OnceStep == OnceInv /\ [Next]_vars => OnceInv'
<1> SUFFICES ASSUME OnceInv, [Next]_vars PROVE OnceInv'
  OBVIOUS
<1> USE OnceAssumption
<1> USE DEF OnceInv, TypeOK, GuardTellsBuilt, BuildersExclusive, PlacesMatchGuard,
            Builds, Locations, At, Goto, Claim, CatchUp, Uninitialized, BeingInitialized
<1>1. ASSUME NEW t \in Threads, Access(t) PROVE OnceInv'
  BY <1>1 DEF Access, Skips
<1>2. ASSUME NEW t \in Threads, Returned(t) PROVE OnceInv'
  BY <1>2 DEF Returned
<1>3. ASSUME NEW t \in Threads, LeaveUse(t) PROVE OnceInv'
  BY <1>3 DEF LeaveUse
<1>4. ASSUME NEW t \in Threads, Header(t) PROVE OnceInv'
  BY <1>4 DEF Header
<1>5. ASSUME NEW t \in Threads, FallAsleep(t) PROVE OnceInv'
  BY <1>5 DEF FallAsleep
<1>6. ASSUME NEW t \in Threads, Timeout(t) PROVE OnceInv'
  BY <1>6 DEF Timeout
<1>7. ASSUME NEW t \in Threads, Woken(t) PROVE OnceInv'
  BY <1>7 DEF Woken
<1>8. ASSUME NEW t \in Threads, Footer(t) PROVE OnceInv'
  BY <1>8 DEF Footer
<1>9. ASSUME NEW t \in Threads, Abort(t) PROVE OnceInv'
  BY <1>9 DEF Abort
<1>10. ASSUME NEW t \in Threads, Notify(t) PROVE OnceInv'
  BY <1>10 DEF Notify
<1>11. CASE UNCHANGED vars
  BY <1>11 DEF vars
<1>12. QED
  BY <1>1, <1>2, <1>3, <1>4, <1>5, <1>6, <1>7, <1>8, <1>9, <1>10, <1>11
  DEF Next, Step

(* The four promises follow from it in every state.                        *)
LEMMA OnceInvSuffices == OnceInv => OneBuilder /\ UsedWhenBuilt /\ FastPathSafe
  BY OnceAssumption
  DEF OnceInv, TypeOK, GuardTellsBuilt, BuildersExclusive, PlacesMatchGuard, At,
      OneBuilder, UsedWhenBuilt, FastPathSafe, Skips, Uninitialized, BeingInitialized

LEMMA OnceAlways == Spec => []OnceInv
  BY OnceStarts, OnceStep, PTL DEF Spec

(* Guards and epochs stay in their ranges: an epoch a thread remembers has *)
(* been handed out, and the marks 0 and -1 are never epochs.               *)
THEOREM TypeCorrect == Spec => []TypeOK
<1>1. OnceInv => TypeOK
  BY DEF OnceInv
<1>2. QED
  BY <1>1, OnceAlways, PTL

(* "Only one thread may leave this function before the variable has        *)
(* completed initialization" (_Init_thread_header), for every run.         *)
THEOREM OneBuilderHolds == Spec => []OneBuilder
  BY OnceAlways, OnceInvSuffices, PTL

(* Nobody gets past the guard of a static that is not constructed.         *)
THEOREM UsedWhenBuiltHolds == Spec => []UsedWhenBuilt
  BY OnceAlways, OnceInvSuffices, PTL

(* The unlocked comparison of the fast path is enough.                     *)
THEOREM FastPathSafeHolds == Spec => []FastPathSafe
  BY OnceAlways, OnceInvSuffices, PTL

-----------------------------------------------------------------------------
(* The mutexes, for any number of threads, entries and increments, as long *)
(* as no client relies on the answer of POSIX's try_lock().                *)

Honest == TryLocks => "posix" \notin Kinds

(* Who was let in is whom the mutex counts: the word of a fast_mutex is 1  *)
(* while somebody is inside, the owner of a recursive one is inside as     *)
(* often as its depth says, and nobody else is.                            *)
CountsInside ==
    IF kind = "fast"
    THEN /\ LK!MutualExclusion
         /\ \A t \in Threads : inside[t] > 0 => Lock = 1 /\ inside[t] = 1
    ELSE /\ \A t \in Threads : inside[t] = IF owner = t THEN depth ELSE 0
         /\ owner = Nobody <=> depth = 0

PlacesMatch == \A t \in Threads : lockPc[t] = "out" <=> inside[t] = 0

LocksInv == LK!TypeOK /\ CountsInside /\ PlacesMatch /\ LK!NoUpdateLost

(* What the mutex counts excludes two clients from each other.             *)
LEMMA CountsExclude ==
    ASSUME LocksInv PROVE LK!MutualExclusion
  BY DEF LocksInv, CountsInside, LK!MutualExclusion, LK!TypeOK

LEMMA LocksInit == ASSUME LK!LocksAssumption, LK!Init PROVE LocksInv
  BY DEF LK!LocksAssumption, LK!Init, LocksInv, LK!TypeOK, CountsInside, LK!MutualExclusion,
     PlacesMatch, LK!NoUpdateLost

(* A step that enters the mutex and tells the client so.                   *)
LEMMA EnterLockKeeps ==
    ASSUME LK!LocksAssumption, LocksInv, NEW t \in Threads, LK!EnterLock(t) PROVE LocksInv'
<1> USE DEF LocksInv, LK!TypeOK
<1>1. LK!TypeOK'
  BY DEF LK!LocksAssumption, LK!EnterLock, LK!MayEnter, LK!FastWorks, LK!Acquires, LK!Enters
<1>2. CountsInside'
  <2>1. CASE kind = "fast"
    BY <2>1, CountsExclude DEF LK!EnterLock, LK!MayEnter, LK!FastWorks, LK!Enters, CountsInside,
       PlacesMatch, LK!MutualExclusion
  <2>2. CASE kind # "fast"
    BY <2>2 DEF LK!LocksAssumption, LK!EnterLock, LK!Free, LK!Acquires, LK!Enters, CountsInside
  <2> QED BY <2>1, <2>2
<1>3. PlacesMatch'
  BY DEF LK!EnterLock, LK!Enters, PlacesMatch
<1>4. LK!NoUpdateLost'
  BY DEF LK!EnterLock, LK!Enters, LK!NoUpdateLost
<1> QED BY <1>1, <1>2, <1>3, <1>4

(* One that may find the mutex taken, and then says so.                    *)
LEMMA EnterTryLockKeeps ==
    ASSUME LK!LocksAssumption, Honest, LocksInv, NEW t \in Threads, LK!EnterTryLock(t)
    PROVE  LocksInv'
<1> USE DEF LocksInv, LK!TypeOK
<1>1. CASE kind = "fast"
  <2>1. PICK got \in BOOLEAN :
           LK!FastWorks(got) /\ (IF got THEN LK!Enters(t) ELSE UNCHANGED <<inside, LK!client>>)
    BY <1>1 DEF LK!EnterTryLock
  <2>2. CASE got
    <3>1. LK!MayEnter(t) /\ LK!FastWorks(TRUE) /\ LK!Enters(t)
      BY <2>1, <2>2 DEF LK!EnterTryLock
    <3>2. LK!EnterLock(t)
      BY <1>1, <3>1 DEF LK!EnterLock
    <3> QED BY <3>2, EnterLockKeeps
  <2>3. CASE ~got
    BY <1>1, <2>1, <2>3 DEF LK!FastWorks, LK!client, CountsInside, LK!MutualExclusion,
       PlacesMatch, LK!NoUpdateLost
  <2> QED BY <2>2, <2>3
<1>2. CASE kind # "fast" /\ LK!Free(t)
  <2>1. LK!EnterLock(t)
    BY <1>2 DEF LK!EnterTryLock, LK!EnterLock, LK!Answer, Honest, LK!LocksAssumption
  <2> QED BY <2>1, EnterLockKeeps
<1>3. CASE kind # "fast" /\ ~LK!Free(t)
  <2>1. UNCHANGED LK!vars
    BY <1>3 DEF LK!EnterTryLock, LK!Answer, Honest, LK!LocksAssumption, LK!mutex, LK!client, LK!vars
  <2> QED BY <2>1 DEF LK!vars, CountsInside, LK!MutualExclusion, PlacesMatch, LK!NoUpdateLost
<1> QED BY <1>1, <1>2, <1>3

LEMMA LoadKeeps == ASSUME LocksInv, NEW t \in Threads, LK!Load(t) PROVE LocksInv'
  BY DEF LocksInv, LK!TypeOK, LK!Load, LK!mutex, CountsInside, LK!MutualExclusion, PlacesMatch,
     LK!NoUpdateLost

(* Nobody else is between its load and its store.                          *)
LEMMA StoreKeeps == ASSUME LocksInv, NEW t \in Threads, LK!Store(t) PROVE LocksInv'
<1> USE DEF LocksInv, LK!TypeOK
<1>1. LK!TypeOK' BY DEF LK!Store, LK!mutex
<1>2. CountsInside' BY DEF LK!Store, LK!mutex, CountsInside, LK!MutualExclusion
<1>3. PlacesMatch' BY DEF LK!Store, PlacesMatch
<1>4. \A u \in Threads : lockPc[u] = "loaded" => u = t
  BY CountsExclude DEF LK!Store, PlacesMatch, LK!MutualExclusion
<1>5. LK!NoUpdateLost' BY <1>4 DEF LK!Store, LK!NoUpdateLost
<1> QED BY <1>1, <1>2, <1>3, <1>5

LEMMA UnlockKeeps ==
    ASSUME LK!LocksAssumption, LocksInv, NEW t \in Threads, LK!Unlock(t)
    PROVE  LocksInv'
<1> USE DEF LocksInv, LK!TypeOK
<1>1. inside[t] > 0
  BY DEF LK!Unlock, PlacesMatch
<1>2. LK!TypeOK'
  BY <1>1 DEF LK!LocksAssumption, LK!Unlock, LK!FastReleases, LK!MutexReleases, CountsInside
<1>3. CountsInside'
  <2>1. CASE kind = "fast"
    BY <1>1, <2>1 DEF LK!Unlock, LK!FastReleases, CountsInside, LK!MutualExclusion
  <2>2. CASE kind # "fast"
    BY <1>1, <2>2 DEF LK!LocksAssumption, LK!Unlock, LK!MutexReleases, CountsInside
  <2> QED BY <2>1, <2>2
<1>4. PlacesMatch'
  BY <1>1 DEF LK!Unlock, PlacesMatch
<1>5. LK!NoUpdateLost'
  BY DEF LK!Unlock, LK!NoUpdateLost
<1> QED BY <1>2, <1>3, <1>4, <1>5

LEMMA LocksNextKeeps ==
    ASSUME LK!LocksAssumption, Honest, LocksInv, [LK!Next]_lkVars PROVE LocksInv'
<1>1. CASE UNCHANGED lkVars
  BY <1>1 DEF LocksInv, LK!TypeOK, lkVars, CountsInside, LK!MutualExclusion, PlacesMatch,
     LK!NoUpdateLost
<1>2. ASSUME NEW t \in Threads, LK!Step(t) PROVE LocksInv'
  BY <1>2, EnterLockKeeps, EnterTryLockKeeps, LoadKeeps, StoreKeeps, UnlockKeeps DEF LK!Step
<1> QED BY <1>1, <1>2 DEF LK!Next, LK!AllDone, lkVars, LK!vars

-----------------------------------------------------------------------------
(* The start of a thread, for any allocators and depth of scopes.          *)

(* The allocators that are safe for t to work on.                          *)
Own(t) == {TS!Heap(a) : a \in Allocators} \cup {TS!Temp(t), TS!Null}

(* The words of the model have their types.                                *)
Typed ==
    /\ state \in [Started -> {"none", "launched", "copying", "running", "ended"}]
    /\ parent \in [Started -> Started] /\ wasTemp \in [Started -> BOOLEAN]
    /\ alloc \in [Started -> TS!Mixed] /\ temporary \in [Started -> TS!Whole]
    /\ saved \in [Started -> Seq(TS!Mixed)]
    /\ newContext \in [Started -> TS!Mixed] /\ atCreation \in [Started -> TS!Mixed]
    /\ disturbed \in [Started -> BOOLEAN]

(* A thread that runs has its own temporary allocator and, unless it was   *)
(* disturbed, works in every open scope on nobody else's; one that does    *)
(* not run yet has none.                                                   *)
WorksOnItsOwn ==
    /\ state[Main] = "running" /\ ~disturbed[Main]
    /\ \A t \in Started : TS!Runs(t) => temporary[t] = TS!Temp(t)
    /\ \A t \in Started : TS!Runs(t) /\ ~disturbed[t] =>
          /\ alloc[t] \in Own(t)
          /\ \A i \in DOMAIN saved[t] : saved[t][i] \in Own(t)
    /\ \A t \in Started : state[t] = "none" \/ TS!Waits(t) =>
          temporary[t] = TS!Null /\ saved[t] = << >>

(* While a child waits, and was not disturbed, its parent runs and keeps   *)
(* the allocator it had when it launched the child.                        *)
ParentKeeps ==
    \A c \in Started : TS!Waits(c) /\ ~disturbed[c] =>
        LET p == parent[c] IN
        /\ TS!Runs(p) /\ ~disturbed[p] /\ atCreation[c] = alloc[p]
        /\ wasTemp[c] = (alloc[p] = temporary[p])
        /\ state[c] = "copying" => newContext[c].Function = alloc[p].Function

StartInv == Typed /\ WorksOnItsOwn /\ ParentKeeps /\ TS!UndisturbedContext

-----------------------------------------------------------------------------
(* Opening a scope puts its allocator first and moves the others up, ...   *)
LEMMA PushedScope ==
    ASSUME NEW S, NEW s \in Seq(S), NEW e \in S
    PROVE  /\ <<e>> \o s \in Seq(S) /\ Len(<<e>> \o s) = Len(s) + 1
           /\ (<<e>> \o s)[1] = e
           /\ \A i \in 1 .. Len(s) : (<<e>> \o s)[i + 1] = s[i]
  OBVIOUS

(* ... closing it moves them down; the outermost stays the last.           *)
LEMMA PoppedScope ==
    ASSUME NEW S, NEW s \in Seq(S), s # << >>
    PROVE  /\ Tail(s) \in Seq(S) /\ Len(Tail(s)) = Len(s) - 1
           /\ Head(s) = s[1] /\ Head(s) \in S
           /\ \A i \in 1 .. Len(s) - 1 : Tail(s)[i] = s[i + 1]
           /\ IF Tail(s) = << >> THEN Len(s) = 1
              ELSE Tail(s)[Len(Tail(s))] = s[Len(s)]
<1>1. /\ Tail(s) \in Seq(S) /\ Len(Tail(s)) = Len(s) - 1 /\ Len(s) \in Nat \ {0}
      /\ Head(s) = s[1] /\ Head(s) \in S
      /\ \A i \in 1 .. Len(s) - 1 : Tail(s)[i] = s[i + 1]
  OBVIOUS
<1>2. CASE Tail(s) = << >>
  BY <1>1, <1>2
<1>3. CASE Tail(s) # << >>
  <2>1. Len(Tail(s)) \in Nat \ {0}
    BY <1>1, <1>3, EmptySeq
  <2>2. Len(s) - 1 \in 1 .. Len(s) - 1 /\ (Len(s) - 1) + 1 = Len(s)
    BY <1>1, <2>1
  <2> QED BY <1>1, <1>3, <2>2
<1> QED BY <1>1, <1>2, <1>3

(* An allocator is what its two words say.                                 *)
LEMMA Pairs ==
    /\ \A a \in TS!Mixed : a = [Function |-> a.Function, Data |-> a.Data]
    /\ \A a, b \in TS!Mixed : [Function |-> a.Function, Data |-> b.Data] \in TS!Mixed
    /\ TS!Whole \subseteq TS!Mixed
    /\ \A t \in Started : Own(t) \subseteq TS!Whole
<1>1. \A a \in TS!Whole : a = [Function |-> a.Function, Data |-> a.Data]
  BY DEF TS!Whole, TS!Heap, TS!Temp, TS!Null, TS!Garbage
<1>2. TS!Whole \subseteq TS!Mixed
  BY <1>1 DEF TS!Mixed
<1>3. \A a \in TS!Mixed : a = [Function |-> a.Function, Data |-> a.Data]
  BY DEF TS!Mixed
<1>4. \A a, b \in TS!Mixed : [Function |-> a.Function, Data |-> b.Data] \in TS!Mixed
  BY DEF TS!Mixed
<1>5. \A t \in Started : Own(t) \subseteq TS!Whole
  BY DEF Own, TS!Whole
<1> QED BY <1>2, <1>3, <1>4, <1>5

(* The main thread has its temporary allocator, nobody else runs.          *)
LEMMA StartInit == ASSUME TS!ThreadStartAssumption, TS!Init PROVE StartInv
<1> USE DEF TS!ThreadStartAssumption, TS!Init
<1>1. PICK a \in Allocators : alloc = [t \in Started |-> IF t = Main THEN TS!Heap(a) ELSE TS!Null]
  OBVIOUS
<1>2. /\ TS!Heap(a) \in TS!Whole /\ TS!Null \in TS!Whole
      /\ \A t \in Started : TS!Temp(t) \in TS!Whole
      /\ TS!Heap(a) \in Own(Main)
  BY DEF TS!Whole, Own
<1>3. Typed
  BY <1>1, <1>2, Pairs DEF Typed
<1>4. WorksOnItsOwn
  <2>1. \A t \in Started : TS!Runs(t) => t = Main
    BY DEF TS!Runs
  <2>2. alloc[Main] \in Own(Main) /\ saved[Main] = << >> /\ temporary[Main] = TS!Temp(Main)
    BY <1>1, <1>2
  <2>3. \A t \in Started : state[t] = "none" \/ TS!Waits(t) => temporary[t] = TS!Null /\ saved[t] = << >>
    BY DEF TS!Waits
  <2>4. state[Main] = "running" /\ ~disturbed[Main]
    OBVIOUS
  <2> QED BY <2>1, <2>2, <2>3, <2>4 DEF WorksOnItsOwn
<1>5. ParentKeeps
  BY DEF ParentKeeps, TS!Waits
<1>6. TS!UndisturbedContext
  BY DEF TS!UndisturbedContext, TS!StartedAsCreated, TS!Runs
<1> QED BY <1>3, <1>4, <1>5, <1>6 DEF StartInv

(* Who changes its Context or ends disturbs its children that wait, and    *)
(* nobody that runs or is not launched.                                    *)
LEMMA DisturbedChildren ==
    ASSUME Typed, NEW t \in Started, TS!DisturbsChildrenOf(t)
    PROVE  /\ disturbed' \in [Started -> BOOLEAN]
           /\ \A c \in Started : ~disturbed'[c] => ~disturbed[c] /\ ~(TS!Waits(c) /\ parent[c] = t)
           /\ \A c \in Started : ~TS!Waits(c) => disturbed'[c] = disturbed[c]
  BY DEF Typed, TS!DisturbsChildrenOf

(* A scope that opens or closes leaves undisturbed children undisturbed.   *)
LEMMA PushKeeps ==
    ASSUME TS!ThreadStartAssumption, StartInv, NEW t \in Started, NEW a \in Own(t),
           TS!Push(t, a)
    PROVE  StartInv'
<1> USE DEF StartInv, TS!Push, TS!Runs
<1>0. a \in TS!Mixed /\ saved[t] \in Seq(TS!Mixed) /\ alloc[t] \in TS!Mixed
  BY Pairs DEF Typed
<1>9. /\ disturbed' \in [Started -> BOOLEAN]
      /\ \A c \in Started : ~disturbed'[c] => ~disturbed[c] /\ ~(TS!Waits(c) /\ parent[c] = t)
      /\ \A c \in Started : ~TS!Waits(c) => disturbed'[c] = disturbed[c]
  BY DisturbedChildren
<1>1. Typed'
  BY <1>0, <1>9, PushedScope DEF Typed
<1>2. WorksOnItsOwn'
  <2> DEFINE pushed == <<alloc[t]>> \o saved[t]
  <2>1. ASSUME ~disturbed[t] PROVE \A i \in DOMAIN pushed : pushed[i] \in Own(t)
    <3>1. pushed[1] \in Own(t) /\ \A i \in 1 .. Len(saved[t]) : pushed[i + 1] \in Own(t)
      BY <1>0, <2>1, PushedScope DEF WorksOnItsOwn
    <3>2. DOMAIN pushed = 1 .. Len(saved[t]) + 1
      BY <1>0, PushedScope
    <3>3. \A i \in 1 .. Len(saved[t]) + 1 : i = 1 \/ (i - 1 \in 1 .. Len(saved[t]) /\ i = (i - 1) + 1)
      BY <1>0
    <3> HIDE DEF pushed
    <3> QED BY <3>1, <3>2, <3>3
  <2>2. saved' = [saved EXCEPT ![t] = pushed]
    OBVIOUS
  <2> HIDE DEF pushed
  <2>3. ~TS!Waits(t) /\ state[t] # "none" /\ ~TS!Waits(Main)
    BY DEF TS!Waits, WorksOnItsOwn
  <2> QED BY <1>9, <2>1, <2>2, <2>3 DEF WorksOnItsOwn, Typed, Own, TS!Waits, TS!ThreadStartAssumption
<1>3. ParentKeeps'
  <2> SUFFICES ASSUME NEW c \in Started, TS!Waits(c), ~disturbed'[c]
               PROVE  LET p == parent[c] IN
                      /\ TS!Runs(p) /\ ~disturbed'[p] /\ atCreation[c] = alloc'[p]
                      /\ wasTemp[c] = (alloc'[p] = temporary[p])
                      /\ state[c] = "copying" => newContext[c].Function = alloc'[p].Function
    BY DEF ParentKeeps, TS!Waits
  <2>1. ~disturbed[c] /\ parent[c] # t /\ parent[c] \in Started
    BY <1>9 DEF Typed
  <2>2. TS!Runs(parent[c]) /\ ~disturbed[parent[c]] /\ alloc'[parent[c]] = alloc[parent[c]]
    BY <2>1 DEF ParentKeeps, Typed
  <2>3. ~disturbed'[parent[c]]
    BY <1>9, <2>1, <2>2 DEF TS!Waits
  <2> QED BY <2>1, <2>2, <2>3 DEF ParentKeeps
<1>4. TS!UndisturbedContext'
  <2>1. TS!Outermost(t)' = TS!Outermost(t)
    <3>1. CASE saved[t] = << >>
      BY <1>0, <3>1, PushedScope DEF TS!Outermost, Typed
    <3>2. CASE saved[t] # << >>
      BY <1>0, <3>2, PushedScope DEF TS!Outermost, Typed
    <3> QED BY <3>1, <3>2
  <2>2. \A c \in Started \ {t} : TS!Outermost(c)' = TS!Outermost(c)
    BY DEF TS!Outermost, Typed
  <2> QED BY <1>9, <2>1, <2>2 DEF TS!UndisturbedContext, TS!StartedAsCreated
<1> QED BY <1>1, <1>2, <1>3, <1>4

LEMMA PopKeeps ==
    ASSUME TS!ThreadStartAssumption, StartInv, NEW t \in Started, TS!Pop(t)
    PROVE  StartInv'
<1> USE DEF StartInv, TS!Pop, TS!Runs
<1>0. /\ Tail(saved[t]) \in Seq(TS!Mixed) /\ Len(Tail(saved[t])) = Len(saved[t]) - 1
      /\ Head(saved[t]) = saved[t][1] /\ Head(saved[t]) \in TS!Mixed
      /\ \A i \in 1 .. Len(saved[t]) - 1 : Tail(saved[t])[i] = saved[t][i + 1]
      /\ IF Tail(saved[t]) = << >> THEN Len(saved[t]) = 1
         ELSE Tail(saved[t])[Len(Tail(saved[t]))] = saved[t][Len(saved[t])]
  BY PoppedScope, Zenon DEF Typed
<1>9. /\ disturbed' \in [Started -> BOOLEAN]
      /\ \A c \in Started : ~disturbed'[c] => ~disturbed[c] /\ ~(TS!Waits(c) /\ parent[c] = t)
      /\ \A c \in Started : ~TS!Waits(c) => disturbed'[c] = disturbed[c]
  BY DisturbedChildren
<1>1. Typed'
  BY <1>0, <1>9 DEF Typed
<1>2. WorksOnItsOwn'
  <2>1. ASSUME ~disturbed[t] PROVE Head(saved[t]) \in Own(t) /\ \A i \in DOMAIN Tail(saved[t]) : Tail(saved[t])[i] \in Own(t)
    <3>1. \A i \in DOMAIN saved[t] : saved[t][i] \in Own(t)
      BY <2>1 DEF WorksOnItsOwn
    <3>2. Len(saved[t]) \in Nat \ {0} /\ DOMAIN saved[t] = 1 .. Len(saved[t])
          /\ DOMAIN Tail(saved[t]) = 1 .. Len(saved[t]) - 1
      BY <1>0 DEF Typed
    <3> QED BY <1>0, <3>1, <3>2
  <2>2. ~TS!Waits(t) /\ state[t] # "none" /\ ~TS!Waits(Main)
    BY DEF TS!Waits, WorksOnItsOwn
  <2> QED BY <1>9, <2>1, <2>2 DEF WorksOnItsOwn, Typed, Own, TS!Waits, TS!ThreadStartAssumption
<1>3. ParentKeeps'
  <2> SUFFICES ASSUME NEW c \in Started, TS!Waits(c), ~disturbed'[c]
               PROVE  LET p == parent[c] IN
                      /\ TS!Runs(p) /\ ~disturbed'[p] /\ atCreation[c] = alloc'[p]
                      /\ wasTemp[c] = (alloc'[p] = temporary[p])
                      /\ state[c] = "copying" => newContext[c].Function = alloc'[p].Function
    BY DEF ParentKeeps, TS!Waits
  <2>1. ~disturbed[c] /\ parent[c] # t /\ parent[c] \in Started
    BY <1>9 DEF Typed
  <2>2. TS!Runs(parent[c]) /\ ~disturbed[parent[c]] /\ alloc'[parent[c]] = alloc[parent[c]]
    BY <2>1 DEF ParentKeeps, Typed
  <2>3. ~disturbed'[parent[c]]
    BY <1>9, <2>1, <2>2 DEF TS!Waits
  <2> QED BY <2>1, <2>2, <2>3 DEF ParentKeeps
<1>4. TS!UndisturbedContext'
  <2>1. TS!Outermost(t)' = TS!Outermost(t)
    <3>1. saved'[t] = Tail(saved[t]) /\ alloc'[t] = saved[t][1] /\ saved[t] # << >>
      BY <1>0 DEF Typed
    <3>2. IF Tail(saved[t]) = << >> THEN Len(saved[t]) = 1
          ELSE Tail(saved[t])[Len(Tail(saved[t]))] = saved[t][Len(saved[t])]
      BY <1>0
    <3> QED BY <3>1, <3>2, Zenon DEF TS!Outermost
  <2>2. \A c \in Started \ {t} : TS!Outermost(c)' = TS!Outermost(c)
    BY DEF TS!Outermost, Typed
  <2> QED BY <1>9, <2>1, <2>2 DEF TS!UndisturbedContext, TS!StartedAsCreated
<1> QED BY <1>1, <1>2, <1>3, <1>4

(* The child is told of the allocator of this moment.                      *)
LEMMA LaunchKeeps ==
    ASSUME TS!ThreadStartAssumption, StartInv, NEW p \in Started, NEW c \in Started,
           TS!Launch(p, c)
    PROVE  StartInv'
<1> USE DEF StartInv, TS!Launch, TS!Runs
<1>1. Typed'
  BY DEF Typed
<1>2. WorksOnItsOwn'
  <2>1. \A t \in Started : state'[t] = "running" <=> state[t] = "running"
    BY DEF Typed
  <2>2. \A t \in Started : state[t] = "running" => disturbed'[t] = disturbed[t]
    BY DEF Typed
  <2>3. \A t \in Started : state'[t] = "none" \/ TS!Waits(t)' => state[t] = "none" \/ TS!Waits(t)
    BY DEF Typed, TS!Waits
  <2> QED BY <2>1, <2>2, <2>3 DEF WorksOnItsOwn, Own, TS!ThreadStartAssumption
<1>3. ParentKeeps'
  <2>1. ASSUME NEW d \in Started, TS!Waits(d)', ~disturbed'[d], d = c
        PROVE  /\ parent'[d] = p /\ state'[p] = "running" /\ ~disturbed'[p] /\ atCreation'[d] = alloc[p]
               /\ wasTemp'[d] = (alloc[p] = temporary[p]) /\ state'[d] = "launched"
    <3>1. p # c
      OBVIOUS
    <3> QED BY <2>1, <3>1 DEF Typed
  <2>2. ASSUME NEW d \in Started, TS!Waits(d)', ~disturbed'[d], d # c
        PROVE  /\ TS!Waits(d) /\ ~disturbed[d] /\ parent'[d] = parent[d] /\ atCreation'[d] = atCreation[d]
               /\ wasTemp'[d] = wasTemp[d] /\ state'[d] = state[d] /\ parent[d] \in Started
    BY <2>2 DEF Typed, TS!Waits
  <2>3. ASSUME NEW d \in Started, TS!Waits(d)', ~disturbed'[d], d # c
        PROVE  state'[parent[d]] = "running" /\ ~disturbed'[parent[d]]
    <3>1. TS!Runs(parent[d]) /\ ~disturbed[parent[d]] /\ parent[d] # c /\ parent[d] \in Started
      BY <2>2, <2>3 DEF ParentKeeps
    <3> QED BY <3>1 DEF Typed
  <2>4. alloc' = alloc /\ temporary' = temporary /\ newContext' = newContext
    OBVIOUS
  <2> QED BY <2>1, <2>2, <2>3, <2>4 DEF ParentKeeps
<1>4. TS!UndisturbedContext'
  BY DEF TS!UndisturbedContext, TS!StartedAsCreated, TS!Outermost, Typed
<1> QED BY <1>1, <1>2, <1>3, <1>4

(* The two words an undisturbed child copies are those of its parent at its*)
(* creation.                                                               *)
LEMMA CopyFunctionKeeps ==
    ASSUME TS!ThreadStartAssumption, StartInv, NEW c \in Started, TS!CopyFunction(c)
    PROVE  StartInv'
<1> USE DEF StartInv, TS!CopyFunction, TS!Runs
<1> DEFINE p == parent[c]
<1>1. p \in Started /\ alloc[p] \in TS!Mixed /\ newContext[c] \in TS!Mixed /\ TS!Waits(c)
  BY DEF Typed, TS!Waits
<1>2. PICK a \in TS!Seen(c) : newContext' = [newContext EXCEPT
          ![c] = [Function |-> a.Function, Data |-> newContext[c].Data]]
  OBVIOUS
<1>3. a \in TS!Mixed
  BY <1>1, Pairs DEF TS!Seen, TS!Whole
<1>4. [Function |-> a.Function, Data |-> newContext[c].Data] \in TS!Mixed
  BY <1>1, <1>3, Pairs
<1>5. Typed'
  BY <1>2, <1>4 DEF Typed
<1>6. WorksOnItsOwn'
  <2>1. \A t \in Started : state'[t] = "running" <=> state[t] = "running"
    BY DEF Typed
  <2>2. \A t \in Started : state'[t] = "none" \/ TS!Waits(t)' => state[t] = "none" \/ TS!Waits(t)
    BY DEF Typed, TS!Waits
  <2> QED BY <2>1, <2>2 DEF WorksOnItsOwn, Own, TS!ThreadStartAssumption
<1>7. ParentKeeps'
  <2>1. \A d \in Started : TS!Waits(d)' => TS!Waits(d)
    BY DEF Typed, TS!Waits
  <2>2. \A d \in Started : state[d] = "running" => state'[d] = "running"
    BY DEF Typed
  <2>3. ASSUME ~disturbed[c] PROVE newContext'[c].Function = alloc[p].Function
    <3>1. state[p] # "ended"
      BY <1>1, <2>3 DEF ParentKeeps
    <3>2. a = alloc[p]
      BY <3>1 DEF TS!Seen
    <3>3. newContext'[c] = [Function |-> a.Function, Data |-> newContext[c].Data]
      BY <1>2 DEF Typed
    <3> QED BY <3>2, <3>3
  <2>4. \A d \in Started \ {c} : newContext'[d] = newContext[d] /\ state'[d] = state[d]
    BY <1>2 DEF Typed
  <2>5. UNCHANGED <<parent, wasTemp, alloc, temporary, atCreation, disturbed>> /\ parent \in [Started -> Started]
    BY DEF Typed
  <2> QED BY ONLY <2>1, <2>2, <2>3, <2>4, <2>5, StartInv DEF ParentKeeps, StartInv, TS!Runs
<1>8. TS!UndisturbedContext'
  BY DEF TS!UndisturbedContext, TS!StartedAsCreated, TS!Outermost, Typed
<1> QED BY <1>5, <1>6, <1>7, <1>8

(* The child starts with it, or with null for a temporary one.             *)
LEMMA StartKeeps ==
    ASSUME TS!ThreadStartAssumption, StartInv, NEW c \in Started, TS!Start(c)
    PROVE  StartInv'
<1> USE DEF StartInv, TS!Start, TS!Runs
<1> DEFINE p == parent[c]
<1>1. p \in Started /\ alloc[p] \in TS!Mixed /\ newContext[c] \in TS!Mixed /\ TS!Waits(c)
  BY DEF Typed, TS!Waits
<1>2. PICK a \in TS!Seen(c) : alloc' = [alloc EXCEPT ![c] =
          IF wasTemp[c] THEN temporary[c] ELSE [Function |-> newContext[c].Function, Data |-> a.Data]]
  OBVIOUS
<1>3. a \in TS!Mixed /\ TS!Null \in TS!Mixed /\ TS!Temp(c) \in TS!Whole
  BY <1>1, Pairs DEF TS!Seen, TS!Whole
<1>4. temporary[c] = TS!Null /\ saved[c] = << >>
  BY <1>1 DEF WorksOnItsOwn
<1>5. [Function |-> newContext[c].Function, Data |-> a.Data] \in TS!Mixed
  BY <1>1, <1>3, Pairs
<1>6. Typed'
  BY <1>2, <1>3, <1>4, <1>5 DEF Typed
<1>7. ASSUME ~disturbed[c]
      PROVE  alloc'[c] \in Own(c) /\ (~wasTemp[c] => alloc'[c] = atCreation[c])
  <2>1. /\ state[p] = "running" /\ ~disturbed[p] /\ atCreation[c] = alloc[p]
        /\ wasTemp[c] = (alloc[p] = temporary[p])
        /\ newContext[c].Function = alloc[p].Function
    BY <1>1, <1>7 DEF ParentKeeps
  <2>2. a = alloc[p] /\ alloc[p] \in Own(p) /\ temporary[p] = TS!Temp(p)
    BY <1>1, <2>1 DEF TS!Seen, WorksOnItsOwn
  <2>3. alloc[p] = [Function |-> newContext[c].Function, Data |-> a.Data]
    BY <1>1, <2>1, <2>2, Pairs
  <2>4. alloc'[c] = IF wasTemp[c] THEN TS!Null ELSE alloc[p]
    BY <1>2, <1>4, <2>3 DEF Typed
  <2> QED BY <2>1, <2>2, <2>4 DEF Own
<1>8. WorksOnItsOwn'
  <2>1. \A t \in Started \ {c} : /\ state'[t] = state[t] /\ alloc'[t] = alloc[t]
                               /\ temporary'[t] = temporary[t]
    BY <1>2 DEF Typed
  <2>2. temporary'[c] = TS!Temp(c) /\ state'[c] = "running"
    BY DEF Typed
  <2>3. DOMAIN saved[c] = {} /\ c # Main
    BY <1>1, <1>4 DEF WorksOnItsOwn, TS!Waits
  <2> QED BY <1>7, <2>1, <2>2, <2>3 DEF WorksOnItsOwn, Own, TS!Waits, TS!ThreadStartAssumption
<1>9. ParentKeeps'
  <2> SUFFICES ASSUME NEW d \in Started, TS!Waits(d)', ~disturbed[d]
               PROVE  LET q == parent[d] IN
                      /\ TS!Runs(q)' /\ ~disturbed[q] /\ atCreation[d] = alloc'[q]
                      /\ wasTemp[d] = (alloc'[q] = temporary'[q])
                      /\ state'[d] = "copying" => newContext'[d].Function = alloc'[q].Function
    BY DEF ParentKeeps
  <2>1. d # c /\ TS!Waits(d) /\ state'[d] = state[d] /\ newContext'[d] = newContext[d]
        /\ parent[d] \in Started
    BY DEF Typed, TS!Waits
  <2>2. TS!Runs(parent[d]) /\ parent[d] # c
    BY <2>1 DEF ParentKeeps
  <2>3. TS!Runs(parent[d])' /\ alloc'[parent[d]] = alloc[parent[d]]
        /\ temporary'[parent[d]] = temporary[parent[d]]
    BY <1>2, <2>1, <2>2 DEF Typed
  <2> QED BY <2>1, <2>3 DEF ParentKeeps
<1>10. TS!UndisturbedContext'
  <2>1. \A t \in Started \ {c} : state'[t] = state[t] /\ TS!Outermost(t)' = TS!Outermost(t)
    BY <1>2 DEF Typed, TS!Outermost
  <2>2. TS!Outermost(c)' = alloc'[c]
    BY <1>4 DEF TS!Outermost
  <2> QED BY <1>7, <2>1, <2>2 DEF TS!UndisturbedContext, TS!StartedAsCreated
<1> QED BY <1>6, <1>8, <1>9, <1>10

(* Who ends disturbs the children that still have to copy from it.         *)
LEMMA EndKeeps ==
    ASSUME TS!ThreadStartAssumption, StartInv, NEW t \in Started, TS!End(t)
    PROVE  StartInv'
<1> USE DEF StartInv, TS!End, TS!Runs
<1>9. /\ disturbed' \in [Started -> BOOLEAN]
      /\ \A c \in Started : ~disturbed'[c] => ~disturbed[c] /\ ~(TS!Waits(c) /\ parent[c] = t)
      /\ \A c \in Started : ~TS!Waits(c) => disturbed'[c] = disturbed[c]
  BY DisturbedChildren
<1>1. Typed'
  BY <1>9 DEF Typed
<1>2. WorksOnItsOwn'
  <2>1. \A c \in Started : state'[c] = "running" => state[c] = "running" /\ ~TS!Waits(c)
    BY DEF Typed, TS!Waits
  <2>2. \A c \in Started : state'[c] = "none" \/ TS!Waits(c)' => state[c] = "none" \/ TS!Waits(c)
    BY DEF Typed, TS!Waits
  <2>3. state'[Main] = "running" /\ ~TS!Waits(Main)
    BY DEF Typed, WorksOnItsOwn, TS!ThreadStartAssumption, TS!Waits
  <2> QED BY <1>9, <2>1, <2>2, <2>3 DEF WorksOnItsOwn, Own, TS!ThreadStartAssumption
<1>3. ParentKeeps'
  <2> SUFFICES ASSUME NEW c \in Started, TS!Waits(c)', ~disturbed'[c]
               PROVE  LET p == parent[c] IN
                      /\ TS!Runs(p)' /\ ~disturbed'[p] /\ atCreation[c] = alloc[p]
                      /\ wasTemp[c] = (alloc[p] = temporary[p])
                      /\ state'[c] = "copying" => newContext[c].Function = alloc[p].Function
    BY DEF ParentKeeps
  <2>1. TS!Waits(c) /\ state'[c] = state[c]
    BY DEF Typed, TS!Waits
  <2>2. ~disturbed[c] /\ parent[c] # t /\ parent[c] \in Started
    BY <1>9, <2>1 DEF Typed
  <2>3. TS!Runs(parent[c]) /\ ~disturbed[parent[c]]
    BY <2>1, <2>2 DEF ParentKeeps
  <2>4. TS!Runs(parent[c])' /\ ~disturbed'[parent[c]]
    BY <1>9, <2>2, <2>3 DEF Typed, TS!Waits
  <2> QED BY <2>1, <2>2, <2>4 DEF ParentKeeps
<1>4. TS!UndisturbedContext'
  <2>1. \A c \in Started : state'[c] = "running" => state[c] = "running" /\ disturbed'[c] = disturbed[c]
    BY <1>9 DEF Typed, TS!Waits
  <2>2. \A c \in Started : TS!Outermost(c)' = TS!Outermost(c)
    BY DEF TS!Outermost
  <2> QED BY <2>1, <2>2 DEF TS!UndisturbedContext, TS!StartedAsCreated
<1> QED BY <1>1, <1>2, <1>3, <1>4

LEMMA StartNextKeeps ==
    ASSUME TS!ThreadStartAssumption, StartInv, [TS!Next]_tsVars PROVE StartInv'
<1>1. CASE UNCHANGED tsVars
  BY <1>1 DEF tsVars, StartInv, Typed, WorksOnItsOwn, ParentKeeps, TS!UndisturbedContext,
     TS!StartedAsCreated, TS!Outermost, TS!Runs, Own, TS!Waits
<1>2. ASSUME NEW t \in Started, NEW a \in Allocators, TS!Push(t, TS!Heap(a)) PROVE StartInv'
  <2>1. TS!Heap(a) \in Own(t) BY DEF Own
  <2> QED BY <1>2, <2>1, PushKeeps
<1>3. ASSUME NEW t \in Started, TS!Push(t, temporary[t]) PROVE StartInv'
  <2>1. temporary[t] \in Own(t)
    BY <1>3 DEF StartInv, WorksOnItsOwn, Own, TS!Push
  <2> QED BY <1>3, <2>1, PushKeeps
<1>4. ASSUME TS!Next PROVE StartInv'
  BY <1>2, <1>3, <1>4, PopKeeps, LaunchKeeps, CopyFunctionKeeps, StartKeeps, EndKeeps DEF TS!Next
<1> QED BY <1>1, <1>4

LEMMA StartInvSuffices == ASSUME StartInv PROVE UndisturbedContext
  BY DEF StartInv, WorksOnItsOwn, Own, UndisturbedContext, TS!OwnTemporaryOnly

(* Whatever parents do, a thread that was not disturbed between its launch *)
(* and its copy has, in its outermost scope, the allocator its parent had  *)
(* when it created it, the temporary one aside, and never works on another *)
(* thread's temporary storage, for any number of threads, allocators and   *)
(* nested scopes (ThreadStart).                                            *)
THEOREM StartHolds ==
    ASSUME TS!ThreadStartAssumption
    PROVE  TS!Init /\ [][TS!Next]_tsVars => []UndisturbedContext
<1>1. TS!Init => StartInv
  BY StartInit
<1>2. StartInv /\ [TS!Next]_tsVars => StartInv'
  BY StartNextKeeps
<1>3. StartInv => UndisturbedContext
  BY StartInvSuffices
<1> QED BY <1>1, <1>2, <1>3, PTL

-----------------------------------------------------------------------------
(* All parts: whichever one runs, the others stay as they began, so each   *)
(* invariant survives the steps of every part.                             *)
LEMMA OncePart == AllSpec => []OnceInv
<1>1. AllInit => OnceInv
  BY OnceStarts DEF AllInit
<1>2. OnceInv /\ [AllNext]_<<part, vars, lkVars, cvVars, tsVars>> => OnceInv'
  <2>1. [AllNext]_<<part, vars, lkVars, cvVars, tsVars>> => [Next]_vars
    BY DEF AllNext
  <2> QED BY <2>1, OnceStep
<1> QED BY <1>1, <1>2, PTL DEF AllSpec

(* A static has one builder and is built once, whatever else may run.      *)
THEOREM OneBuilderInAll == AllSpec => []OneBuilder
  BY OncePart, OnceInvSuffices, PTL

(* Two clients are never inside one mutex and no increment is lost, as long*)
(* as nobody relies on the answer of POSIX's try_lock (Locks).             *)
THEOREM MutualExclusionInAll ==
    ASSUME Honest PROVE AllSpec => []MutualExclusion
<1>1. AllInit => LocksInv
  BY ThreadsAssumption, LocksInit DEF AllInit
<1>2. LocksInv /\ [AllNext]_<<part, vars, lkVars, cvVars, tsVars>> => LocksInv'
  <2>1. [AllNext]_<<part, vars, lkVars, cvVars, tsVars>> => [LK!Next]_lkVars
    BY DEF AllNext
  <2> QED BY <2>1, ThreadsAssumption, LocksNextKeeps
<1>3. LocksInv => MutualExclusion
  BY CountsExclude DEF LocksInv, MutualExclusion
<1> QED BY <1>1, <1>2, <1>3, PTL DEF AllSpec

(* A thread that was not disturbed while it waited has the Context of its  *)
(* creation and its own temporary storage (ThreadStart).                   *)
THEOREM UndisturbedContextInAll == AllSpec => []UndisturbedContext
<1>1. AllInit => StartInv
  BY ThreadsAssumption, StartInit DEF AllInit
<1>2. StartInv /\ [AllNext]_<<part, vars, lkVars, cvVars, tsVars>> => StartInv'
  <2>1. [AllNext]_<<part, vars, lkVars, cvVars, tsVars>> => [TS!Next]_tsVars
    BY DEF AllNext
  <2> QED BY <2>1, ThreadsAssumption, StartNextKeeps
<1>3. StartInv => UndisturbedContext
  BY StartInvSuffices
<1> QED BY <1>1, <1>2, <1>3, PTL DEF AllSpec
=============================================================================
