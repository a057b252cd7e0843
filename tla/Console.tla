------------------------------- MODULE Console -------------------------------
(***************************************************************************)
(* The consoles cout and cerr (writer.h, posix/common.h, windows/common.h):*)
(* a buffer each, one mutex for both.  A write that does not fit lets go of *)
(* the mutex to flush and takes it again, so the others write in between.  *)
(* A byte is <<writer, number of its write, place in it>>.                 *)
(***************************************************************************)
EXTENDS Integers, Sequences

CONSTANTS
    Writers,        \* threads
    Consoles,       \* COUT and CERR
    Script,         \* of each writer: sequence of [op, to, size]
    BufferSize      \* CONSOLE_BUFFER_SIZE

ConsoleAssumption ==
    /\ BufferSize \in Nat \ {0}
    /\ Script \in [Writers -> Seq([op : {"write", "flush"}, to : Consoles, size : Nat])]

VARIABLES
    started,        \* of each console: Buffer points to CoutBuffer, CerrBuffer
    buffer,         \* of each console: the bytes from Buffer to Current
    out,            \* of each console: what went to stdout or stderr, by flushes
    done,           \* of each writer: the calls it has returned from
    current,        \* of each writer: remaining, << >> between two writes
    flushing        \* of each writer: whether its next step is write's flush

vars == <<started, buffer, out, done, current, flushing>>

Init == /\ started = [c \in Consoles |-> FALSE]
        /\ buffer = [c \in Consoles |-> << >>]
        /\ out = [c \in Consoles |-> << >>]
        /\ done = [w \in Writers |-> 0]
        /\ current = [w \in Writers |-> << >>]
        /\ flushing = [w \in Writers |-> FALSE]

Finished(w) == done[w] = Len(Script[w])
Call(w) == Script[w][done[w] + 1]
Message(w) == [i \in 1 .. Call(w).size |-> <<w, done[w] + 1, i>>]

(* Zero until the first flush, which finds the buffer.                     *)
Available(c) == IF started[c] THEN BufferSize - Len(buffer[c]) ELSE 0

-----------------------------------------------------------------------------
(* One turn of write's loop with the mutex held: rest is what remains.     *)
FillForgetsOverflow(w, rest) ==     \* mutant: a full buffer drops the rest
    LET c == Call(w).to
        n == IF Len(rest) < Available(c) THEN Len(rest) ELSE Available(c)
    IN  /\ buffer' = [buffer EXCEPT ![c] = @ \o SubSeq(rest, 1, n)]
        /\ current' = [current EXCEPT ![w] = << >>]
        /\ flushing' = [flushing EXCEPT ![w] = n < Len(rest)]
        /\ done' = IF n < Len(rest) THEN done ELSE [done EXCEPT ![w] = @ + 1]

Fill(w, rest) ==
    LET c == Call(w).to
        n == IF Len(rest) < Available(c) THEN Len(rest) ELSE Available(c)
    IN  /\ buffer' = [buffer EXCEPT ![c] = @ \o SubSeq(rest, 1, n)]
        /\ current' = [current EXCEPT ![w] = SubSeq(rest, n + 1, Len(rest))]
        /\ flushing' = [flushing EXCEPT ![w] = n < Len(rest)]
        /\ done' = IF n < Len(rest) THEN done ELSE [done EXCEPT ![w] = @ + 1]

(* flush, all of it with the mutex held.                                   *)
Flushed(c) ==
    /\ out' = [out EXCEPT ![c] = @ \o buffer[c]]
    /\ started' = [started EXCEPT ![c] = TRUE]
    /\ buffer' = [buffer EXCEPT ![c] = << >>]

-----------------------------------------------------------------------------
(* write: lock, then the first turn of the loop.                           *)
StartWrite(w) ==
    /\ ~Finished(w) /\ Call(w).op = "write"
    /\ current[w] = << >> /\ ~flushing[w]
    /\ Fill(w, Message(w))
    /\ UNCHANGED <<started, out>>

(* What did not fit: flush after the unlock, and what is left after the    *)
(* next lock.                                                              *)
WriteFlushes(w) ==
    /\ flushing[w]
    /\ Flushed(Call(w).to)
    /\ flushing' = [flushing EXCEPT ![w] = FALSE]
    /\ UNCHANGED <<done, current>>

ContinueWrite(w) ==
    /\ current[w] # << >> /\ ~flushing[w]
    /\ Fill(w, current[w])
    /\ UNCHANGED <<started, out>>

(* flush called by the user, as fmt does at the end of a print.            *)
Flush(w) ==
    /\ ~Finished(w) /\ Call(w).op = "flush"
    /\ Flushed(Call(w).to)
    /\ done' = [done EXCEPT ![w] = @ + 1]
    /\ UNCHANGED <<current, flushing>>

Next == \E w \in Writers : StartWrite(w) \/ WriteFlushes(w) \/ ContinueWrite(w) \/ Flush(w)

Spec == Init /\ [][Next]_vars

-----------------------------------------------------------------------------
TypeOK ==
    /\ started \in [Consoles -> BOOLEAN]
    /\ \A c \in Consoles : /\ Len(buffer[c]) <= BufferSize
    /\ \A w \in Writers : /\ done[w] \in 0 .. Len(Script[w])
                          /\ current[w] # << >> => ~Finished(w)
                          /\ flushing[w] \in BOOLEAN

(* What has reached a console, and whether byte i of w's call k should     *)
(* have: the call wrote to this console and got that far.                  *)
Arrived(c) == out[c] \o buffer[c]
Wrote(w, k, i, c) ==
    /\ k \in 1 .. Len(Script[w]) /\ Script[w][k].op = "write" /\ Script[w][k].to = c
    /\ i \in 1 .. Script[w][k].size
    /\ k <= done[w] \/ (k = done[w] + 1 /\ current[w] # << >> /\ i <= Script[w][k].size - Len(current[w]))

SameMessage(a, b) == a[1] = b[1] /\ a[2] = b[2]
Before(a, b) == a[1] = b[1] => a[2] < b[2] \/ (a[2] = b[2] /\ a[3] < b[3])

(* Whoever else writes and flushes, and wherever the mutex changes hands,  *)
(* each writer's bytes arrive in the order it wrote them: none is lost,    *)
(* doubled or on the wrong console.                                        *)
BytesInOrder ==
    \A c \in Consoles :
        /\ \A w \in Writers : \A k \in 1 .. Len(Script[w]) : \A i \in 1 .. Script[w][k].size :
               Wrote(w, k, i, c) => \E j \in 1 .. Len(Arrived(c)) : Arrived(c)[j] = <<w, k, i>>
        /\ \A i \in 1 .. Len(Arrived(c)) :
               LET b == Arrived(c)[i] IN b[1] \in Writers /\ Wrote(b[1], b[2], b[3], c)
        /\ \A i, j \in 1 .. Len(Arrived(c)) : i < j => Before(Arrived(c)[i], Arrived(c)[j])

(* One buffer holds a message in one piece: another thread gets in between *)
(* only where the buffer was flushed.                                      *)
PiecesContiguous ==
    \A c \in Consoles : \A i, j \in 1 .. Len(buffer[c]) :
        i < j /\ SameMessage(buffer[c][i], buffer[c][j])
            => \A k \in i .. j : SameMessage(buffer[c][i], buffer[c][k])

(* What a writer wrote to a console before a flush that has returned was   *)
(* shown, whatever the others wrote and flushed meanwhile.                 *)
Shown(w, k, i, c) == \E j \in 1 .. Len(out[c]) : out[c][j] = <<w, k, i>>
FlushedIsShown ==
    \A w \in Writers : \A f \in 1 .. done[w] : Script[w][f].op = "flush" =>
        \A k \in 1 .. f, c \in Consoles : \A i \in 1 .. Script[w][k].size :
            c = Script[w][f].to /\ Wrote(w, k, i, c) => Shown(w, k, i, c)
=============================================================================
