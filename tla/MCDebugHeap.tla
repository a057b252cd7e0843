----------------------------- MODULE MCDebugHeap -----------------------------
(* Two threads; "own" is an allocator of thread t1 only (an arena, say),   *)
(* "both" is used by both (the persistent allocator).                      *)
EXTENDS DebugHeap, TLC

CONSTANTS t1, t2, own, both

TwoThreads == {t1, t2}
OwnAndBoth == t1 :> {own, both} @@ t2 :> {both}
=============================================================================
