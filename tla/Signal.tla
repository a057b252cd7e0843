------------------------------- MODULE Signal --------------------------------
(***************************************************************************)
(* delegate_signal (lstd-extra/signal/signal.h): callbacks called in the   *)
(* order of their connection.  A callback may itself connect, disconnect   *)
(* and emit; what it disconnects stays until the emit is over.  Ids and    *)
(* indices count from 0 as in the code, sequences from 1.                  *)
(***************************************************************************)
EXTENDS Integers, Sequences, SequencesExt, FiniteSets

CONSTANTS
    Functions_,     \* what may be connected
    NoFunction,     \* a null delegate
    MaxCallbacks,   \* room reserved: connecting never moves the callbacks
    MaxDepth,       \* bound on emits inside callbacks
    MaxRemovals     \* bound on the length of ToRemove

ASSUME SignalAssumption ==
    /\ NoFunction \notin Functions_
    /\ MaxCallbacks \in Nat /\ MaxDepth \in Nat /\ MaxRemovals \in Nat

VARIABLES
    Callbacks,          \* sequence of functions and NoFunction
    CurrentlyEmitting,
    ToRemove,           \* sequence of ids
    emits,              \* stack of the running emits, see Frame
    ids,                \* what connect answered: pairs <<id, function>>
    gone                \* slots that disconnect answered true for

vars == <<Callbacks, CurrentlyEmitting, ToRemove, emits, ids, gone>>

Count == Len(Callbacks)

Init == /\ Callbacks = << >> /\ CurrentlyEmitting = FALSE /\ ToRemove = << >>
        /\ emits = << >> /\ ids = {} /\ gone = {}

(* Between two emits, or in a callback of the innermost one.               *)
Innermost == emits[Len(emits)]
MayCall == emits # << >> => Innermost.running

Slot(index) == index + 1

-----------------------------------------------------------------------------
Connect(f) ==
    /\ MayCall /\ Count < MaxCallbacks
    /\ Callbacks' = Append(Callbacks, f)
    /\ ids' = ids \cup {<<Count, f>>}
    /\ UNCHANGED <<CurrentlyEmitting, ToRemove, emits, gone>>

(* A null delegate is not added; the answer is the last index all the same.*)
ConnectNull ==
    /\ MayCall
    /\ \A c \in ids : c[2] # NoFunction      \* bound: once
    /\ ids' = ids \cup {<<Count - 1, NoFunction>>}
    /\ UNCHANGED <<Callbacks, CurrentlyEmitting, ToRemove, emits, gone>>

DisconnectNow(index) ==
    /\ MayCall /\ ~CurrentlyEmitting
    /\ gone' = IF Callbacks[Slot(index)] = NoFunction THEN gone ELSE gone \cup {Slot(index)}
    /\ Callbacks' = [Callbacks EXCEPT ![Slot(index)] = NoFunction]
    /\ UNCHANGED <<CurrentlyEmitting, ToRemove, emits, ids>>

DisconnectLater(index) ==
    /\ MayCall /\ CurrentlyEmitting /\ Len(ToRemove) < MaxRemovals
    /\ ToRemove' = Append(ToRemove, index)
    /\ gone' = gone \cup {Slot(index)}
    /\ UNCHANGED <<Callbacks, CurrentlyEmitting, emits, ids>>

-----------------------------------------------------------------------------
(* The loop runs over the callbacks there are when it starts.  due and     *)
(* reached are for the properties: the slots with a function then, and     *)
(* those called so far.                                                    *)
Frame(whole) ==
    [at |-> 1, end |-> Count, running |-> FALSE, whole |-> whole,
     due |-> {i \in 1 .. Count : Callbacks[i] # NoFunction} \ gone,
     reached |-> {}, silent |-> IF emits = << >> THEN gone ELSE {}]

(* emit, and with whole FALSE emit_while_false and emit_while_true.        *)
Emit(whole) ==
    /\ MayCall /\ Len(emits) < MaxDepth
    /\ CurrentlyEmitting' = TRUE
    /\ emits' = Append(emits, Frame(whole))
    /\ UNCHANGED <<Callbacks, ToRemove, ids, gone>>

Set(frame) == emits' = [emits EXCEPT ![Len(emits)] = frame]

CallNextBlind ==                    \* mutant: if (it) is left out
    /\ ~MayCall /\ Innermost.at <= Innermost.end
    /\ Set([Innermost EXCEPT !.running = TRUE, !.reached = @ \cup {Innermost.at}])
    /\ UNCHANGED <<Callbacks, CurrentlyEmitting, ToRemove, ids, gone>>

CallNext ==
    /\ ~MayCall /\ Innermost.at <= Innermost.end
    /\ Set(IF Callbacks[Innermost.at] = NoFunction
           THEN [Innermost EXCEPT !.at = @ + 1]
           ELSE [Innermost EXCEPT !.running = TRUE, !.reached = @ \cup {Innermost.at}])
    /\ UNCHANGED <<Callbacks, CurrentlyEmitting, ToRemove, ids, gone>>

(* The callback returns; in emit_while_... what it returns may end the loop.*)
Return(stop) ==
    /\ emits # << >> /\ Innermost.running
    /\ stop => ~Innermost.whole
    /\ Set([Innermost EXCEPT !.running = FALSE,
                             !.at = IF stop THEN Innermost.end + 1 ELSE @ + 1])
    /\ UNCHANGED <<Callbacks, CurrentlyEmitting, ToRemove, ids, gone>>

(* handle_to_remove_after_emit_end *)

Without(callbacks) ==
    [i \in DOMAIN callbacks |->
        IF \E j \in 1 .. Len(ToRemove) : Slot(ToRemove[j]) = i
        THEN NoFunction ELSE callbacks[i]]

LoopOverForgets(frame) == frame.at >= frame.end     \* mutant: one short
LoopOver(frame) == frame.at > frame.end

EmitEnds ==
    /\ ~MayCall /\ LoopOver(Innermost)
    /\ CurrentlyEmitting' = FALSE
    /\ Callbacks' = Without(Callbacks)
    /\ ToRemove' = << >>
    /\ emits' = Front(emits)
    /\ UNCHANGED <<ids, gone>>

(* What connect answers for a null delegate on an empty signal, -1, is not *)
(* taken for an id.                                                        *)
Ids == {c[1] : c \in ids} \ {-1}

Next == \/ \E f \in Functions_ : Connect(f)
        \/ ConnectNull
        \/ \E index \in Ids : DisconnectNow(index) \/ DisconnectLater(index)
        \/ \E whole \in BOOLEAN : Emit(whole)
        \/ CallNext
        \/ \E stop \in BOOLEAN : Return(stop)
        \/ EmitEnds

Spec == Init /\ [][Next]_vars

-----------------------------------------------------------------------------
TypeOK ==
    /\ Callbacks \in Seq(Functions_ \cup {NoFunction}) /\ Count <= MaxCallbacks
    /\ CurrentlyEmitting \in BOOLEAN
    /\ \A i \in 1 .. Len(ToRemove) : ToRemove[i] \in 0 .. MaxCallbacks - 1
    /\ \A i \in 1 .. Len(emits) : /\ emits[i].at \in 1 .. emits[i].end + 1
                                  /\ emits[i].end <= Count
                                  /\ i < Len(emits) => emits[i].running
    /\ ids \subseteq (-1 .. MaxCallbacks - 1) \X (Functions_ \cup {NoFunction})
    /\ gone \subseteq 1 .. Count

(* An emit that nothing stops calls every function connected when it       *)
(* started and not disconnected since, whatever its callbacks connect,     *)
(* disconnect and emit in between.                                         *)
EmitReachesAll ==
    [][Len(emits') < Len(emits) /\ Innermost.whole
          => Innermost.due \ gone \subseteq Innermost.reached]_vars

(* A function disconnected before an emit began, outside of all others, is *)
(* never called by it.                                                     *)
GoneIsSilent ==
    \A i \in 1 .. Len(emits) : emits[i].reached \cap emits[i].silent = {}

(* Once no emit runs, every disconnect that was answered with true has     *)
(* happened: none is forgotten because emits were nested.                  *)
RemovalsHappen ==
    emits = << >> => /\ ToRemove = << >> /\ ~CurrentlyEmitting
                     /\ \A i \in gone : Callbacks[i] = NoFunction

(* What was disconnected before an emit is not called by it, and once no   *)
(* emit runs every removal that was answered with true has happened.       *)
RemovedIsGone == GoneIsSilent /\ RemovalsHappen

(* "We will remove the callback once we have finished emitting": no slot   *)
(* is emptied while an emit is still going on.                             *)
RemovedAfterEmitting ==
    [][\A i \in 1 .. Count :
          Callbacks[i] # NoFunction /\ Callbacks'[i] = NoFunction
              => emits' = << >>]_vars
=============================================================================
