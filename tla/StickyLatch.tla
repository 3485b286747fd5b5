---------------------------- MODULE StickyLatch ----------------------------
(***************************************************************************)
(* What the error channel promises its host, without threads, mutexes or   *)
(* call stacks: a register that keeps the first error since the last       *)
(* clear, the error callback installed now, and the notices that are due:  *)
(* an error was latched while a callback was installed, and that callback  *)
(* has not been started yet.                                               *)
(***************************************************************************)
EXTENDS Naturals

CONSTANTS
  Errors,      \* the pairs [code, text] a failing call may latch
  Handlers,    \* the pairs [cb, user] a host may install
  NoCallback,  \* the NULL function pointer
  NoError,     \* what the register holds while nothing is latched
  NoHandler    \* the pair installed by default; its cb is NoCallback

VARIABLES
  err,      \* the error latched, or NoError
  handler,  \* the error callback and its user pointer
  era,      \* how many times a latched error has been cleared
  due       \* the notices owed to an error callback

vars == <<err, handler, era, due>>

Notice == [err : Errors, handler : Handlers, era : Nat]

Init ==
  /\ err = NoError
  /\ handler = NoHandler
  /\ era = 0
  /\ due = {}

\* The first error since the last clear is kept, and announced to the callback
\* installed at that moment.
Latch(e) ==
  /\ err = NoError
  /\ err' = e
  /\ due' = IF handler.cb = NoCallback THEN due
            ELSE due \union {[err |-> e, handler |-> handler, era |-> era]}
  /\ UNCHANGED <<handler, era>>

Clear ==
  /\ err # NoError
  /\ err' = NoError
  /\ era' = era + 1
  /\ UNCHANGED <<handler, due>>

SetHandler(h) ==
  /\ handler' = h
  /\ UNCHANGED <<err, era, due>>

\* The host's callback is entered for a notice that is due.
Start(n) ==
  /\ n \in due
  /\ due' = due \ {n}
  /\ UNCHANGED <<err, handler, era>>

Next ==
  \/ \E e \in Errors : Latch(e)
  \/ Clear
  \/ \E h \in Handlers : SetHandler(h)
  \/ \E n \in due : Start(n)

\* A notice that is due is started: nothing of the host's stands in its way.
Spec ==
  /\ Init
  /\ [][Next]_vars
  /\ WF_vars(\E n \in due : Start(n))

-----------------------------------------------------------------------------
TypeOK ==
  /\ err \in Errors \union {NoError}
  /\ handler \in Handlers
  /\ era \in Nat
  /\ due \in SUBSET Notice
=============================================================================
