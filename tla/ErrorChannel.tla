---------------------------- MODULE ErrorChannel ----------------------------
(***************************************************************************)
(* The sticky error channel and the two callbacks of src/abi.cpp, as any   *)
(* number of host threads use them.                                        *)
(*                                                                         *)
(* Each thread is at one program point of the library or in the host's own *)
(* code ("host"), possibly below some callbacks the library is running on  *)
(* that thread.  g_mutex is explicit.  A call is two or three steps: the   *)
(* host makes it, the mutex is taken and the first global written, the     *)
(* remaining globals are written and the mutex released.  All a suspended  *)
(* latching call does after its callback is to return a neutral value, so  *)
(* the stack of callbacks is all that is kept of it.                       *)
(***************************************************************************)
EXTENDS Integers, Sequences, FiniteSets

CONSTANTS
  Threads,     \* the host's threads
  NoThread,    \* the mutex is free
  Codes,       \* the BWAPI_ERR_* codes
  None,        \* BWAPI_ERR_NONE
  Texts,       \* the messages
  Empty,       \* the empty message
  Errors,      \* the pairs [code, text] some failing call latches
  Callbacks,   \* function pointers of the host
  NoCallback,  \* the NULL function pointer
  Users,       \* user pointers
  NoUser,      \* the NULL user pointer
  Handlers,    \* the pairs [cb, user] the host installs for errors
  LogHandlers, \* the pairs it installs for the log
  MaxDepth,    \* bound: callbacks nested on one thread
  MaxEra       \* bound: clears of a latched error

NoError == [code |-> None, text |-> Empty]
NoHandler == [cb |-> NoCallback, user |-> NoUser]

\* A callback with its user pointer, of one installation or of two.
Handler == [cb : Callbacks \union {NoCallback}, user : Users \union {NoUser}]

ASSUME ThreadAssumption == NoThread \notin Threads
ASSUME ErrorAssumption == None \notin Codes /\ Errors \subseteq [code : Codes, text : Texts]
ASSUME HandlerAssumption ==
  /\ Handlers \subseteq Handler
  /\ NoHandler \in LogHandlers /\ LogHandlers \subseteq Handlers
ASSUME BoundAssumption == MaxDepth \in Nat /\ MaxEra \in Nat

VARIABLES
  mutex,      \* g_mutex: its owner, or NoThread
  code,       \* g_code
  message,    \* g_message
  errorCb,    \* g_error_cb
  errorUser,  \* g_error_user
  logCb,      \* g_log_cb
  logUser,    \* g_log_user
  depth,      \* t_reentrancy_depth, one per thread
  pc,         \* where each thread is
  failure,    \* the error a latch() in progress was called with
  local,      \* cb and user of the call in progress: a setter's arguments,
              \* or what latch() and log() have copied
  stack,      \* the callbacks running on each thread, the innermost last
  era,        \* auxiliary: how many times a latched error has been cleared
  latchedIn,  \* auxiliary: the era in which the latch() in progress latched
  lastCode    \* auxiliary: the code each thread has read since the last clear

channel == <<code, message>>
errorHandler == <<errorCb, errorUser>>
logHandler == <<logCb, logUser>>
vars == <<mutex, code, message, errorCb, errorUser, logCb, logUser,
          depth, pc, failure, local, stack, era, latchedIn, lastCode>>

\* Program points at which the mutex is held.
Critical == {"latch.code", "clear.code", "setError.cb", "setLog.cb"}
\* Program points at which the mutex is wanted.
Waiting == {"latch", "clear", "setError", "setLog", "log", "readCode", "readMessage"}
\* Program points after the mutex, with a callback about to be entered.
Announcing == {"announceError", "announceLog"}

InstalledError == [cb |-> errorCb, user |-> errorUser]
InstalledLog == [cb |-> logCb, user |-> logUser]

\* A callback the library has entered: of which channel, with which error, cb
\* and user, and the era in which that error was latched.
Frame == [kind : {"error", "log"}, err : Errors \union {NoError},
          handler : Handler, era : Nat]

Init ==
  /\ mutex = NoThread
  /\ code = None /\ message = Empty
  /\ errorCb = NoCallback /\ errorUser = NoUser
  /\ logCb = NoCallback /\ logUser = NoUser
  /\ depth = [t \in Threads |-> 0]
  /\ pc = [t \in Threads |-> "host"]
  /\ failure = [t \in Threads |-> NoError]
  /\ local = [t \in Threads |-> NoHandler]
  /\ stack = [t \in Threads |-> <<>>]
  /\ era = 0
  /\ latchedIn = [t \in Threads |-> 0]
  /\ lastCode = [t \in Threads |-> None]

-----------------------------------------------------------------------------
(* Movements of one thread *)

\* The host calls into the library with an error to latch or a pair to install.
Call(t, point, e, h) ==
  /\ pc[t] = "host"
  /\ pc' = [pc EXCEPT ![t] = point]
  /\ failure' = [failure EXCEPT ![t] = e]
  /\ local' = [local EXCEPT ![t] = h]
  /\ UNCHANGED <<mutex, channel, errorHandler, logHandler, depth, stack, era, latchedIn, lastCode>>

\* The call in progress returns to the host's code that made it.
Return(t) ==
  /\ pc' = [pc EXCEPT ![t] = "host"]
  /\ failure' = [failure EXCEPT ![t] = NoError]
  /\ local' = [local EXCEPT ![t] = NoHandler]
  /\ latchedIn' = [latchedIn EXCEPT ![t] = 0]

\* std::lock_guard is constructed, and the first write made under it.
Lock(t, from, point) ==
  /\ pc[t] = from
  /\ mutex = NoThread
  /\ mutex' = t
  /\ pc' = [pc EXCEPT ![t] = point]
  /\ UNCHANGED <<failure, local>>

\* The last access under the lock, and std::lock_guard is destroyed.
Unlock(t, from) ==
  /\ pc[t] = from
  /\ mutex' = NoThread

\* A critical section of one access: locked, done and unlocked in one step.
Access(t, from) ==
  /\ pc[t] = from
  /\ mutex = NoThread
  /\ UNCHANGED mutex

\* ReentrancyScope is constructed and the host's callback entered.
Enter(t, frame) ==
  /\ stack' = [stack EXCEPT ![t] = Append(@, frame)]
  /\ depth' = [depth EXCEPT ![t] = @ + 1]
  /\ Return(t)

-----------------------------------------------------------------------------
(* latch(): every failing call of the ABI ends here *)

\* Some export fails on thread t with error e.
CallLatch(t, e) ==
  /\ Len(stack[t]) < MaxDepth
  /\ Call(t, "latch", e, NoHandler)

\* Mutant: a failure on a latched channel is announced as well.
LatchAgainAnnounces(t) ==
  /\ Access(t, "latch")
  /\ code # None
  /\ IF errorCb = NoCallback
     THEN Return(t)
     ELSE /\ pc' = [pc EXCEPT ![t] = "announceError"]
          /\ local' = [local EXCEPT ![t] = InstalledError]
          /\ UNCHANGED <<failure, latchedIn>>
  /\ UNCHANGED <<channel, errorHandler, logHandler, depth, stack, era, lastCode>>

\* On a latched channel nothing happens: the first error is the causal one.
LatchAgain(t) ==
  /\ Access(t, "latch")
  /\ code # None
  /\ Return(t)
  /\ UNCHANGED <<channel, errorHandler, logHandler, depth, stack, era, lastCode>>

\* Mutant: the last error wins.
LatchCodeOverwrites(t) ==
  /\ Lock(t, "latch", "latch.code")
  /\ code' = failure[t].code
  /\ latchedIn' = [latchedIn EXCEPT ![t] = era]
  /\ UNCHANGED <<message, errorHandler, logHandler, depth, stack, era, lastCode>>

LatchCode(t) ==
  /\ Lock(t, "latch", "latch.code")
  /\ code = None
  /\ code' = failure[t].code
  /\ latchedIn' = [latchedIn EXCEPT ![t] = era]
  /\ UNCHANGED <<message, errorHandler, logHandler, depth, stack, era, lastCode>>

\* Mutant: the mutex is kept while the callback is called.
LatchMessageUnderLock(t) ==
  /\ pc[t] = "latch.code"
  /\ message' = failure[t].text
  /\ IF errorCb = NoCallback
     THEN Return(t) /\ mutex' = NoThread
     ELSE /\ pc' = [pc EXCEPT ![t] = "announceError"]
          /\ local' = [local EXCEPT ![t] = InstalledError]
          /\ UNCHANGED <<mutex, failure, latchedIn>>
  /\ UNCHANGED <<code, errorHandler, logHandler, depth, stack, era, lastCode>>

\* Mutant: the callback is called before the message is stored.
LatchMessageLate(t) ==
  /\ Unlock(t, "latch.code")
  /\ IF errorCb = NoCallback
     THEN Return(t) /\ message' = failure[t].text
     ELSE /\ pc' = [pc EXCEPT ![t] = "announceError"]
          /\ local' = [local EXCEPT ![t] = InstalledError]
          /\ UNCHANGED <<message, failure, latchedIn>>
  /\ UNCHANGED <<code, errorHandler, logHandler, depth, stack, era, lastCode>>

\* The message is stored and the installed pair copied before the mutex goes.
LatchMessage(t) ==
  /\ Unlock(t, "latch.code")
  /\ message' = failure[t].text
  /\ IF errorCb = NoCallback
     THEN Return(t)
     ELSE /\ pc' = [pc EXCEPT ![t] = "announceError"]
          /\ local' = [local EXCEPT ![t] = InstalledError]
          /\ UNCHANGED <<failure, latchedIn>>
  /\ UNCHANGED <<code, errorHandler, logHandler, depth, stack, era, lastCode>>

\* Mutant: the user pointer is read again after the mutex is gone.
EnterErrorCallbackRereads(t) ==
  /\ pc[t] = "announceError"
  /\ Enter(t, [kind |-> "error", err |-> failure[t],
               handler |-> [cb |-> local[t].cb, user |-> errorUser], era |-> latchedIn[t]])
  /\ UNCHANGED <<mutex, channel, errorHandler, logHandler, era, lastCode>>

\* The callback runs with nothing held: the channel may have been cleared and
\* another pair installed since.
EnterErrorCallback(t) ==
  /\ pc[t] = "announceError"
  /\ Enter(t, [kind |-> "error", err |-> failure[t], handler |-> local[t],
               era |-> latchedIn[t]])
  /\ UNCHANGED <<mutex, channel, errorHandler, logHandler, era, lastCode>>

-----------------------------------------------------------------------------
(* log() *)

CallLog(t) ==
  /\ Len(stack[t]) < MaxDepth
  /\ Call(t, "log", NoError, NoHandler)

Log(t) ==
  /\ Access(t, "log")
  /\ IF logCb = NoCallback
     THEN Return(t)
     ELSE /\ pc' = [pc EXCEPT ![t] = "announceLog"]
          /\ local' = [local EXCEPT ![t] = InstalledLog]
          /\ UNCHANGED <<failure, latchedIn>>
  /\ UNCHANGED <<channel, errorHandler, logHandler, depth, stack, era, lastCode>>

EnterLogCallback(t) ==
  /\ pc[t] = "announceLog"
  /\ Enter(t, [kind |-> "log", err |-> NoError, handler |-> local[t], era |-> 0])
  /\ UNCHANGED <<mutex, channel, errorHandler, logHandler, era, lastCode>>

\* Mutant: the depth is not lowered again.
LeaveCallbackKeepsDepth(t) ==
  /\ pc[t] = "host"
  /\ stack[t] # <<>>
  /\ stack' = [stack EXCEPT ![t] = SubSeq(@, 1, Len(@) - 1)]
  /\ UNCHANGED <<mutex, channel, errorHandler, logHandler, depth, pc, failure, local,
                 era, latchedIn, lastCode>>

\* A callback of either kind returns, ReentrancyScope is destroyed, and latch()
\* or log() returns to a wrapper that returns its neutral value.
LeaveCallback(t) ==
  /\ pc[t] = "host"
  /\ stack[t] # <<>>
  /\ stack' = [stack EXCEPT ![t] = SubSeq(@, 1, Len(@) - 1)]
  /\ depth' = [depth EXCEPT ![t] = @ - 1]
  /\ UNCHANGED <<mutex, channel, errorHandler, logHandler, pc, failure, local,
                 era, latchedIn, lastCode>>

-----------------------------------------------------------------------------
(* bwapi_last_error(), bwapi_last_error_message(), bwapi_clear_last_error() *)

CallLastError(t) == Call(t, "readCode", NoError, NoHandler)

LastError(t) ==
  /\ Access(t, "readCode")
  /\ lastCode' = [lastCode EXCEPT ![t] = code]
  /\ Return(t)
  /\ UNCHANGED <<channel, errorHandler, logHandler, depth, stack, era>>

\* A malformed buffer makes this call a CallLatch of BAD_BUFFER instead.
CallLastErrorMessage(t) == Call(t, "readMessage", NoError, NoHandler)

LastErrorMessage(t) ==
  /\ Access(t, "readMessage")
  /\ Return(t)
  /\ UNCHANGED <<channel, errorHandler, logHandler, depth, stack, era, lastCode>>

CallClear(t) ==
  /\ era + Cardinality({u \in Threads : pc[u] = "clear"}) < MaxEra
  /\ Call(t, "clear", NoError, NoHandler)

ClearCode(t) ==
  /\ Lock(t, "clear", "clear.code")
  /\ code' = None
  /\ era' = IF code = None THEN era ELSE era + 1
  /\ lastCode' = [u \in Threads |-> None]
  /\ UNCHANGED <<message, errorHandler, logHandler, depth, stack, latchedIn>>

\* Mutant: the message is not reset with the code.
ClearMessageForgotten(t) ==
  /\ Unlock(t, "clear.code")
  /\ Return(t)
  /\ UNCHANGED <<channel, errorHandler, logHandler, depth, stack, era, lastCode>>

ClearMessage(t) ==
  /\ Unlock(t, "clear.code")
  /\ message' = Empty
  /\ Return(t)
  /\ UNCHANGED <<code, errorHandler, logHandler, depth, stack, era, lastCode>>

-----------------------------------------------------------------------------
(* bwapi_set_error_callback(), bwapi_set_log_callback() *)

CallSetErrorCallback(t, h) == Call(t, "setError", NoError, h)

\* Mutant: cb and user are swapped.
SetErrorCbSwapped(t) ==
  /\ Lock(t, "setError", "setError.cb")
  /\ errorCb' = local[t].user
  /\ UNCHANGED <<channel, errorUser, logHandler, depth, stack, era, latchedIn, lastCode>>

SetErrorCb(t) ==
  /\ Lock(t, "setError", "setError.cb")
  /\ errorCb' = local[t].cb
  /\ UNCHANGED <<channel, errorUser, logHandler, depth, stack, era, latchedIn, lastCode>>

SetErrorUser(t) ==
  /\ Unlock(t, "setError.cb")
  /\ errorUser' = local[t].user
  /\ Return(t)
  /\ UNCHANGED <<channel, errorCb, logHandler, depth, stack, era, lastCode>>

CallSetLogCallback(t, h) == Call(t, "setLog", NoError, h)

SetLogCb(t) ==
  /\ Lock(t, "setLog", "setLog.cb")
  /\ logCb' = local[t].cb
  /\ UNCHANGED <<channel, errorHandler, logUser, depth, stack, era, latchedIn, lastCode>>

SetLogUser(t) ==
  /\ Unlock(t, "setLog.cb")
  /\ logUser' = local[t].user
  /\ Return(t)
  /\ UNCHANGED <<channel, errorHandler, logCb, depth, stack, era, lastCode>>

-----------------------------------------------------------------------------
\* What the host does of its own accord, from its frame loop or from a callback.
HostStep(t) ==
  \/ \E e \in Errors : CallLatch(t, e)
  \/ CallLog(t)
  \/ CallLastError(t)
  \/ CallLastErrorMessage(t)
  \/ CallClear(t)
  \/ \E h \in Handlers : CallSetErrorCallback(t, h)
  \/ \E h \in LogHandlers : CallSetLogCallback(t, h)
  \/ LeaveCallback(t)

\* What the library does once called, up to the entry of a callback.
LibraryStep(t) ==
  \/ LatchAgain(t) \/ LatchCode(t) \/ LatchMessage(t) \/ EnterErrorCallback(t)
  \/ Log(t) \/ EnterLogCallback(t)
  \/ LastError(t) \/ LastErrorMessage(t)
  \/ ClearCode(t) \/ ClearMessage(t)
  \/ SetErrorCb(t) \/ SetErrorUser(t)
  \/ SetLogCb(t) \/ SetLogUser(t)

Next == \E t \in Threads : HostStep(t) \/ LibraryStep(t)

\* The operating system runs every thread that can run.  Nothing is assumed of
\* the host: it need not call, and a callback need not return.
Fairness == \A t \in Threads : WF_vars(LibraryStep(t))

Spec == Init /\ [][Next]_vars
FairSpec == Spec /\ Fairness

-----------------------------------------------------------------------------
(* Properties *)

TypeOK ==
  /\ mutex \in Threads \union {NoThread}
  /\ code \in Codes \union {None}
  /\ message \in Texts \union {Empty}
  /\ errorCb \in Callbacks \union {NoCallback}
  /\ errorUser \in Users \union {NoUser}
  /\ logCb \in Callbacks \union {NoCallback}
  /\ logUser \in Users \union {NoUser}
  /\ depth \in [Threads -> Int]
  /\ pc \in [Threads -> {"host"} \union Critical \union Waiting \union Announcing]
  /\ failure \in [Threads -> Errors \union {NoError}]
  /\ local \in [Threads -> Handler]
  /\ stack \in [Threads -> Seq(Frame)]
  /\ era \in Nat
  /\ latchedIn \in [Threads -> Nat]
  /\ lastCode \in [Threads -> Codes \union {None}]

\* g_mutex is held exactly inside the critical sections: never while a callback
\* is being entered or runs, so a callback may call back into the channel and
\* cannot wait for a mutex its own thread holds.
MutexHeldOnlyInside == \A t \in Threads : mutex = t <=> pc[t] \in Critical

\* Whoever takes the mutex finds the code and the message of one error, or
\* neither: g_code and g_message never come from two failures.
ChannelCoherent ==
  mutex = NoThread => [code |-> code, text |-> message] \in Errors \union {NoError}

\* A callback is called with the user pointer installed together with it,
\* whatever other threads install meanwhile.
HandlersPaired ==
  /\ mutex = NoThread => InstalledError \in Handlers /\ InstalledLog \in Handlers
  /\ \A t \in Threads :
       /\ pc[t] \in Announcing => local[t] \in Handlers /\ local[t].cb # NoCallback
       /\ \A i \in 1..Len(stack[t]) : stack[t][i].handler \in Handlers

\* The notices of thread t: 0 is the error whose callback it is about to enter,
\* i > 0 the i-th callback running on it, if that is an error callback.
Notices(t) ==
  {i \in 0..Len(stack[t]) :
     IF i = 0 THEN pc[t] = "announceError" ELSE stack[t][i].kind = "error"}
EraOf(t, i) == IF i = 0 THEN latchedIn[t] ELSE stack[t][i].era
ErrOf(t, i) == IF i = 0 THEN failure[t] ELSE stack[t][i].err

\* Between two clears at most one error callback is started, on whatever thread
\* and at whatever depth: failing calls made by the callback itself, or by other
\* threads while it runs, do not fire it again.
OneNoticePerEra ==
  \A t, u \in Threads : \A i \in Notices(t), j \in Notices(u) :
    EraOf(t, i) = EraOf(u, j) => t = u /\ i = j

\* The code and the message a callback is given are what it reads from the
\* channel, unless some thread has cleared the channel since the latch.
NoticeMatchesChannel ==
  \A t \in Threads : \A i \in Notices(t) :
    EraOf(t, i) = era => ErrOf(t, i) = [code |-> code, text |-> message]

\* A host that polls bwapi_last_error() and then bwapi_last_error_message(), two
\* calls, gets the message of the code it read unless the channel has been
\* cleared between them, however many calls fail meanwhile.
ReadsPaired ==
  \A t \in Threads : mutex = NoThread /\ lastCode[t] # None =>
    [code |-> lastCode[t], text |-> message] \in Errors

\* t_reentrancy_depth is the number of callbacks running on the thread, which is
\* what a mutating wrapper will have to go by to reject a re-entrant call.
DepthCountsCallbacks == \A t \in Threads : depth[t] = Len(stack[t])

-----------------------------------------------------------------------------
(* The inductive invariant: what is true at each program point, and how the  *)
(* eras of the notices lie with respect to the present one.                  *)

LatchInProgress ==
  \A t \in Threads :
    /\ pc[t] \in {"latch", "latch.code", "announceError"} => failure[t] \in Errors
    /\ pc[t] = "latch.code" =>
         code = failure[t].code /\ message = Empty /\ latchedIn[t] = era
    /\ pc[t] = "clear.code" => code = None

ChannelSettled ==
  (\A t \in Threads : pc[t] \notin {"latch.code", "clear.code"}) =>
    [code |-> code, text |-> message] \in Errors \union {NoError}

HandlersSettled ==
  /\ (\A t \in Threads : pc[t] # "setError.cb") => InstalledError \in Handlers
  /\ (\A t \in Threads : pc[t] # "setLog.cb") => InstalledLog \in Handlers
  /\ \A t \in Threads :
       /\ pc[t] = "setError.cb" => errorCb = local[t].cb
       /\ pc[t] = "setLog.cb" => logCb = local[t].cb
       /\ local[t] \in Handlers
       /\ pc[t] \in Announcing => local[t].cb # NoCallback

CallbacksSettled ==
  \A t \in Threads : \A i \in 1..Len(stack[t]) : stack[t][i].handler \in Handlers

\* No notice is of a later era; and none is of the present one while nothing is
\* latched, or while the latch that opens it is still under the mutex.
NoticesOfPastEras ==
  \A t \in Threads : \A i \in Notices(t) :
    /\ EraOf(t, i) \leq era
    /\ code = None \/ (\E u \in Threads : pc[u] = "latch.code") => EraOf(t, i) < era

ReadsCurrent == \A t \in Threads : lastCode[t] # None => code = lastCode[t]

IInv ==
  /\ TypeOK
  /\ MutexHeldOnlyInside
  /\ LatchInProgress
  /\ ChannelSettled
  /\ HandlersSettled
  /\ CallbacksSettled
  /\ NoticesOfPastEras
  /\ OneNoticePerEra
  /\ NoticeMatchesChannel
  /\ ReadsCurrent
  /\ DepthCountsCallbacks

-----------------------------------------------------------------------------
(* The channel implements the sticky register of StickyLatch.  A latch and a *)
(* clear take effect when g_code is written, a setter when g_error_cb is.    *)

Latching == {t \in Threads : pc[t] = "latch.code"}
Installing == {t \in Threads : pc[t] = "setError.cb"}

AbstractErr ==
  IF code = None THEN NoError
  ELSE IF Latching # {} THEN failure[CHOOSE t \in Latching : TRUE]
  ELSE [code |-> code, text |-> message]

AbstractHandler ==
  IF Installing # {} THEN local[CHOOSE t \in Installing : TRUE] ELSE InstalledError

AbstractDue ==
  {[err |-> failure[t], handler |-> local[t], era |-> latchedIn[t]] :
     t \in {u \in Threads : pc[u] = "announceError"}}
  \union
  {[err |-> failure[t], handler |-> InstalledError, era |-> latchedIn[t]] :
     t \in {u \in Latching : errorCb # NoCallback}}

Abstract == INSTANCE StickyLatch WITH
  err <- AbstractErr, handler <- AbstractHandler, era <- era, due <- AbstractDue

\* Whatever threads interleave, the host sees a first-error-wins register, and an
\* error latched while a callback is installed does reach that callback.
ImplementsStickyLatch == Abstract!Spec

\* g_mutex is released again and again: no critical section waits for anything.
MutexReleased == []<>(mutex = NoThread)

\* What the specification of bwapi_set_error_callback says, "NULL disables": once
\* the setter that stored NULL has returned, and until one stores a callback, no
\* error callback is entered.
Disabled == errorCb = NoCallback /\ Installing = {}

NullDisables == [][\A t \in Threads : EnterErrorCallback(t) => ~Disabled]_vars
=============================================================================
