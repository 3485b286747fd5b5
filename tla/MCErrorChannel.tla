--------------------------- MODULE MCErrorChannel ---------------------------
(* ErrorChannel on a few threads, errors and handlers.  The two errors have  *)
(* distinct codes and texts and the two callbacks distinct user pointers, so *)
(* a pair made of halves is not in Errors or Handlers.                       *)
EXTENDS ErrorChannel, TLC

CONSTANTS c1, c2, m1, m2, cbA, cbB, userA, userB

MCErrors == {[code |-> c1, text |-> m1], [code |-> c2, text |-> m2]}
MCHandlers == {NoHandler, [cb |-> cbA, user |-> userA], [cb |-> cbB, user |-> userB]}
MCOneHandler == {NoHandler, [cb |-> cbA, user |-> userA]}

MCNoHandler == {NoHandler}

ThreadSymmetry == Permutations(Threads)
=============================================================================
