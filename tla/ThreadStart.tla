----------------------------- MODULE ThreadStart -----------------------------
(***************************************************************************)
(* How a thread comes by its Context (create_and_launch_thread,            *)
(* thread_wrapper_function, lstd_init_thread, PUSH_CONTEXT).               *)
(*                                                                         *)
(* The parent hands the child a POINTER to its thread-local Context and    *)
(* whether its allocator was the temporary one; the child copies through   *)
(* the pointer when it runs, while the parent may push and pop contexts or *)
(* be gone.  Of a Context the model keeps Alloc, a pair of a function and  *)
(* what it works on, which the child copies one word after the other.      *)
(* A parent may wait for its children, as the tests do, or not: wait only  *)
(* blocks, so what a program that waits can do is among the behaviours.    *)
(***************************************************************************)
EXTENDS Integers, Sequences

CONSTANTS
    Threads, Main,
    Allocators,         \* the allocators programs push, beside the temporary
    MaxDepth            \* bound on nested PUSH_CONTEXT scopes

ThreadStartAssumption ==
    Main \in Threads /\ MaxDepth \in Nat

Null == [Function |-> "null", Data |-> "null"]
Heap(a) == [Function |-> a, Data |-> a]
Temp(t) == [Function |-> "arena_allocator", Data |-> t]

(* What else there is where the Context of a thread was that is gone.      *)
Garbage == [Function |-> "garbage", Data |-> "garbage"]

(* Two words of two allocators.                                            *)
Whole == {Heap(a) : a \in Allocators} \cup {Temp(t) : t \in Threads} \cup {Null, Garbage}
Mixed == [Function : {a.Function : a \in Whole}, Data : {a.Data : a \in Whole}]

VARIABLES
    state,              \* "none", "launched", "copying", "running", "ended"
    parent, wasTemp,    \* thread_start_info of each thread
    alloc,              \* Context.Alloc of each thread
    temporary,          \* TemporaryAllocator of each thread
    saved,              \* what the open PUSH_CONTEXT scopes will restore
    newContext,         \* the child's copy while it copies
    atCreation,         \* history: the parent's allocator when it launched the
                        \* thread
    disturbed           \* history: the parent pushed, popped or ended before
                        \* the thread had copied its Context, or was itself
                        \* started so

vars == <<state, parent, wasTemp, alloc, temporary, saved, newContext,
          atCreation, disturbed>>

Init == /\ \E a \in Allocators :
              alloc = [t \in Threads |-> IF t = Main THEN Heap(a) ELSE Null]
        /\ state = [t \in Threads |-> IF t = Main THEN "running" ELSE "none"]
        /\ parent = [t \in Threads |-> Main]
        /\ wasTemp = [t \in Threads |-> FALSE]
        /\ temporary = [t \in Threads |-> IF t = Main THEN Temp(t) ELSE Null]
        /\ saved = [t \in Threads |-> << >>]
        /\ newContext = [t \in Threads |-> Null]
        /\ atCreation = [t \in Threads |-> Null]
        /\ disturbed = [t \in Threads |-> FALSE]

Runs(t) == state[t] = "running"

(* Launched, and not done copying from its parent.                         *)
Waits(c) == state[c] \in {"launched", "copying"}

DisturbsChildrenOf(t) ==
    disturbed' = [c \in Threads |-> disturbed[c] \/ (Waits(c) /\ parent[c] = t)]

-----------------------------------------------------------------------------
(* PUSH_CONTEXT with an allocator a; at the end of its scope the saved     *)
(* context is restored.                                                    *)
Push(t, a) ==
    /\ Runs(t)
    /\ Len(saved[t]) < MaxDepth
    /\ saved' = [saved EXCEPT ![t] = <<alloc[t]>> \o @]
    /\ alloc' = [alloc EXCEPT ![t] = a]
    /\ DisturbsChildrenOf(t)
    /\ UNCHANGED <<state, parent, wasTemp, temporary, newContext, atCreation>>

Pop(t) ==
    /\ Runs(t)
    /\ saved[t] # << >>
    /\ alloc' = [alloc EXCEPT ![t] = Head(saved[t])]
    /\ saved' = [saved EXCEPT ![t] = Tail(@)]
    /\ DisturbsChildrenOf(t)
    /\ UNCHANGED <<state, parent, wasTemp, temporary, newContext, atCreation>>

(* create_and_launch_thread.                                               *)
LaunchForgetsTemporary(p, c) == \* mutant: ParentWasUsingTemporaryAllocator
    /\ Runs(p) /\ state[c] = "none"              \* is never set
    /\ state' = [state EXCEPT ![c] = "launched"]
    /\ parent' = [parent EXCEPT ![c] = p]
    /\ atCreation' = [atCreation EXCEPT ![c] = alloc[p]]
    /\ disturbed' = [disturbed EXCEPT ![c] = disturbed[p]]
    /\ UNCHANGED <<wasTemp, alloc, temporary, saved, newContext>>

Launch(p, c) ==
    /\ Runs(p) /\ state[c] = "none"
    /\ state' = [state EXCEPT ![c] = "launched"]
    /\ parent' = [parent EXCEPT ![c] = p]
    /\ wasTemp' = [wasTemp EXCEPT ![c] = alloc[p] = temporary[p]]
    /\ atCreation' = [atCreation EXCEPT ![c] = alloc[p]]
    /\ disturbed' = [disturbed EXCEPT ![c] = disturbed[p]]
    /\ UNCHANGED <<alloc, temporary, saved, newContext>>

(* auto newContext = *ti->ContextPtr: the two words of the parent's        *)
(* allocator, or, once the parent and its thread-locals are gone, what is  *)
(* still there or anything else.                                           *)
Seen(c) == {alloc[parent[c]]} \cup (IF state[parent[c]] = "ended" THEN {Garbage} ELSE {})

CopyFunction(c) ==
    /\ state[c] = "launched"
    /\ state' = [state EXCEPT ![c] = "copying"]
    /\ \E a \in Seen(c) :
          newContext' = [newContext EXCEPT
              ![c] = [Function |-> a.Function, Data |-> newContext[c].Data]]
    /\ UNCHANGED <<parent, wasTemp, alloc, temporary, saved, atCreation,
                   disturbed>>

(* The second word; the thread's own TemporaryAllocator for a parent's     *)
(* temporary one; OVERRIDE_CONTEXT; lstd_init_thread, which only now sets  *)
(* TemporaryAllocator.                                                     *)
Start(c) ==
    /\ state[c] = "copying"
    /\ state' = [state EXCEPT ![c] = "running"]
    /\ \E a \in Seen(c) :
          LET copied == [Function |-> newContext[c].Function, Data |-> a.Data]
              start  == IF wasTemp[c] THEN temporary[c] ELSE copied
          IN  alloc' = [alloc EXCEPT ![c] = start]
    /\ temporary' = [temporary EXCEPT ![c] = Temp(c)]
    /\ newContext' = [newContext EXCEPT ![c] = Null]
    /\ UNCHANGED <<parent, wasTemp, saved, atCreation, disturbed>>

(* The function the thread was created for returns; Main's end is the end  *)
(* of the program.                                                         *)
End(t) ==
    /\ t # Main /\ Runs(t)
    /\ saved[t] = << >>
    /\ state' = [state EXCEPT ![t] = "ended"]
    /\ DisturbsChildrenOf(t)
    /\ UNCHANGED <<parent, wasTemp, alloc, temporary, saved, newContext,
                   atCreation>>

Next == \E t \in Threads :
           \/ \E a \in Allocators : Push(t, Heap(a))
           \/ Push(t, temporary[t])
           \/ Pop(t) \/ CopyFunction(t) \/ Start(t) \/ End(t)
           \/ \E c \in Threads : Launch(t, c)

Spec == Init /\ [][Next]_vars

-----------------------------------------------------------------------------
TypeOK ==
    /\ state \in [Threads ->
                     {"none", "launched", "copying", "running", "ended"}]
    /\ parent \in [Threads -> Threads] /\ wasTemp \in [Threads -> BOOLEAN]
    /\ alloc \in [Threads -> Mixed] /\ temporary \in [Threads -> Whole]
    /\ saved \in [Threads -> Seq(Mixed)]
    /\ newContext \in [Threads -> Mixed] /\ atCreation \in [Threads -> Mixed]
    /\ disturbed \in [Threads -> BOOLEAN]

(* "the new thread copies the context from the parent thread at the time   *)
(* of creation" (context.h): a thread starts, and when all its scopes are  *)
(* closed goes on, with what its parent had when it was created, but for   *)
(* the temporary allocator, of which each thread has its own.  Not kept by *)
(* parents that go on before the child has copied.                         *)
Outermost(t) == IF saved[t] = << >> THEN alloc[t] ELSE saved[t][Len(saved[t])]
StartedAsCreated(t) == (Runs(t) /\ ~wasTemp[t]) => Outermost(t) = atCreation[t]
ContextOfCreation == \A t \in Threads \ {Main} : StartedAsCreated(t)

(* What the code does keep, whatever parents do: a child that was not      *)
(* disturbed has the Context of its creation, though its parent goes on    *)
(* and its siblings are still copying; ...                                 *)
UndisturbedContext ==
    \A t \in Threads \ {Main} : ~disturbed[t] => StartedAsCreated(t)

(* ... and works neither on another thread's temporary storage ("otherwise *)
(* we are not thread-safe") nor on half of two allocators.                 *)
OwnTemporaryOnly ==
    \A t \in Threads : (Runs(t) /\ ~disturbed[t]) =>
        alloc[t] \in {Heap(a) : a \in Allocators} \cup {Temp(t), Null}

(* "set the new thread to also use the temporary allocator, but it needs   *)
(* to point to its own temp data".  Not kept: it starts with null.         *)
TemporaryInherited ==
    \A t \in Threads : (Runs(t) /\ wasTemp[t]) => Outermost(t) = Temp(t)
=============================================================================
