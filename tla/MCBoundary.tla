----------------------------- MODULE MCBoundary -----------------------------
(* Boundary with two threads and one error callback. *)
EXTENDS Boundary, TLC

CONSTANT callback

MCNoHandler == [cb |-> NoCallback]
MCHandlers == {MCNoHandler, [cb |-> callback]}

ThreadSymmetry == Permutations(Threads)
=============================================================================
