------------------------ MODULE ErrorChannelProofs ------------------------
(* Proofs about ErrorChannel, for any threads, errors, handlers and bounds, *)
(* and that it implements StickyLatch.                                      *)
EXTENDS ErrorChannel, TLAPS, SequenceTheorems

\* What popping a stack leaves.
LEMMA Pop ==
  ASSUME NEW S, NEW s \in Seq(S), s # <<>>
  PROVE  LET p == SubSeq(s, 1, Len(s) - 1)
         IN  /\ p \in Seq(S)
             /\ Len(p) = Len(s) - 1
             /\ \A i \in 1..Len(p) : p[i] = s[i]
<1>1. Len(s) \in Nat /\ Len(s) > 0
  BY EmptySeq, LenProperties
<1>2. \A i \in 1..(Len(s) - 1) : s[i] \in S
  BY <1>1, ElementOfSeq
<1> DEFINE n == Len(s) - 1
<1>3. 1 \in Int /\ n \in Int /\ n \geq 0 /\ \A i \in 1..n : s[i] \in S
  BY <1>1, <1>2
<1> HIDE DEF n
<1>4. /\ SubSeq(s, 1, n) \in Seq(S)
      /\ Len(SubSeq(s, 1, n)) = IF 1 \leq n THEN n - 1 + 1 ELSE 0
      /\ \A i \in 1..(n - 1 + 1) : SubSeq(s, 1, n)[i] = s[1 + i - 1]
  BY <1>3
<1>5. Len(SubSeq(s, 1, n)) = n /\ \A i \in 1..n : SubSeq(s, 1, n)[i] = s[i]
  BY <1>3, <1>4
<1> QED
  BY <1>4, <1>5 DEF n

\* The components of the pairs the host passes.
LEMMA Fields ==
  /\ \A e \in Errors \union {NoError} :
       e.code \in Codes \union {None} /\ e.text \in Texts \union {Empty}
  /\ \A h \in Handler :
       h.cb \in Callbacks \union {NoCallback} /\ h.user \in Users \union {NoUser}
  /\ NoError.code = None /\ NoError.text = Empty
  /\ NoHandler.cb = NoCallback /\ NoHandler.user = NoUser /\ NoHandler \in Handlers
  /\ LogHandlers \subseteq Handlers /\ Handlers \subseteq Handler
BY ErrorAssumption, HandlerAssumption DEF Handler, NoError, NoHandler

\* Pairs are equal when their components are.
LEMMA Pairs ==
  /\ \A e \in Errors : e.code \in Codes /\ e = [code |-> e.code, text |-> e.text]
  /\ \A h \in Handlers : h = [cb |-> h.cb, user |-> h.user]
BY ErrorAssumption, HandlerAssumption DEF Handler

-----------------------------------------------------------------------------
(* Type correctness *)

LEMMA InitTypeOK == Init => TypeOK
BY Fields DEF Init, TypeOK

\* A call stores its arguments and waits for the mutex.
LEMMA CallTypeOK ==
  ASSUME TypeOK, NEW t \in Threads, NEW point \in Waiting,
         NEW e \in Errors \union {NoError}, NEW h \in Handlers, Call(t, point, e, h)
  PROVE  TypeOK'
BY Fields DEF Call, TypeOK, channel, errorHandler, logHandler

\* What a return does to the variables of the call.
LEMMA ReturnTypeOK ==
  ASSUME TypeOK, NEW t \in Threads, Return(t)
  PROVE  /\ pc' \in [Threads -> {"host"} \union Critical \union Waiting \union Announcing]
         /\ failure' \in [Threads -> Errors \union {NoError}]
         /\ local' \in [Threads -> Handler]
         /\ latchedIn' \in [Threads -> Nat]
BY Fields DEF Return, TypeOK

\* Entering a callback pushes a frame.
LEMMA EnterTypeOK ==
  ASSUME TypeOK, NEW t \in Threads, NEW f \in Frame, Enter(t, f),
         UNCHANGED <<mutex, channel, errorHandler, logHandler, era, lastCode>>
  PROVE  TypeOK'
<1>1. Append(stack[t], f) \in Seq(Frame)
  BY AppendProperties DEF TypeOK
<1>2. stack' \in [Threads -> Seq(Frame)]
  BY <1>1 DEF Enter, TypeOK
<1>3. depth' \in [Threads -> Int]
  BY DEF Enter, TypeOK
<1>4. Return(t)
  BY DEF Enter
<1> QED
  BY <1>2, <1>3, <1>4, ReturnTypeOK DEF TypeOK, channel, errorHandler, logHandler

LEMMA HostStepTypeOK ==
  ASSUME TypeOK, NEW t \in Threads, HostStep(t)
  PROVE  TypeOK'
<1>1. ASSUME NEW e \in Errors, CallLatch(t, e) PROVE TypeOK'
  BY <1>1, CallTypeOK, Fields DEF CallLatch, Waiting
<1>2. CASE CallLog(t)
  BY <1>2, CallTypeOK, Fields DEF CallLog, Waiting
<1>3. CASE CallLastError(t)
  BY <1>3, CallTypeOK, Fields DEF CallLastError, Waiting
<1>4. CASE CallLastErrorMessage(t)
  BY <1>4, CallTypeOK, Fields DEF CallLastErrorMessage, Waiting
<1>5. CASE CallClear(t)
  BY <1>5, CallTypeOK, Fields DEF CallClear, Waiting
<1>6. ASSUME NEW h \in Handlers, CallSetErrorCallback(t, h) PROVE TypeOK'
  BY <1>6, CallTypeOK, Fields DEF CallSetErrorCallback, Waiting
<1>7. ASSUME NEW h \in LogHandlers, CallSetLogCallback(t, h) PROVE TypeOK'
  BY <1>7, CallTypeOK, Fields DEF CallSetLogCallback, Waiting
<1>8. CASE LeaveCallback(t)
  <2>1. SubSeq(stack[t], 1, Len(stack[t]) - 1) \in Seq(Frame)
    BY <1>8, Pop DEF LeaveCallback, TypeOK
  <2>2. stack' \in [Threads -> Seq(Frame)]
    BY <1>8, <2>1 DEF LeaveCallback, TypeOK
  <2>3. depth' \in [Threads -> Int]
    BY <1>8 DEF LeaveCallback, TypeOK
  <2> QED
    BY <1>8, <2>2, <2>3 DEF LeaveCallback, TypeOK, channel, errorHandler, logHandler
<1> QED
  BY <1>1, <1>2, <1>3, <1>4, <1>5, <1>6, <1>7, <1>8 DEF HostStep

LEMMA LibraryStepTypeOK ==
  ASSUME TypeOK, NEW t \in Threads, LibraryStep(t)
  PROVE  TypeOK'
<1> USE DEF channel, errorHandler, logHandler
<1>1. CASE LatchAgain(t)
  BY <1>1, ReturnTypeOK DEF LatchAgain, Access, TypeOK
<1>2. CASE LatchCode(t)
  BY <1>2, Fields DEF LatchCode, Lock, TypeOK, Critical
<1>3. CASE LatchMessage(t)
  <2>1. message' \in Texts \union {Empty}
    BY <1>3, Fields DEF LatchMessage, TypeOK
  <2>2. CASE errorCb = NoCallback
    BY <1>3, <2>1, <2>2, ReturnTypeOK DEF LatchMessage, Unlock, TypeOK
  <2>3. InstalledError \in Handler
    BY DEF InstalledError, Handler, TypeOK
  <2> QED
    BY <1>3, <2>1, <2>2, <2>3 DEF LatchMessage, Unlock, TypeOK, Announcing
<1>4. CASE EnterErrorCallback(t)
  <2>1. [kind |-> "error", err |-> failure[t], handler |-> local[t],
         era |-> latchedIn[t]] \in Frame
    BY DEF Frame, TypeOK
  <2> QED
    BY <1>4, <2>1, EnterTypeOK DEF EnterErrorCallback
<1>5. CASE Log(t)
  <2>1. InstalledLog \in Handler
    BY DEF InstalledLog, Handler, TypeOK
  <2>2. CASE logCb = NoCallback
    BY <1>5, <2>2, ReturnTypeOK DEF Log, Access, TypeOK
  <2> QED
    BY <1>5, <2>1, <2>2 DEF Log, Access, TypeOK, Announcing
<1>6. CASE EnterLogCallback(t)
  <2>1. [kind |-> "log", err |-> NoError, handler |-> local[t], era |-> 0] \in Frame
    BY DEF Frame, TypeOK
  <2> QED
    BY <1>6, <2>1, EnterTypeOK DEF EnterLogCallback
<1>7. CASE LastError(t)
  BY <1>7, ReturnTypeOK DEF LastError, Access, TypeOK
<1>8. CASE LastErrorMessage(t)
  BY <1>8, ReturnTypeOK DEF LastErrorMessage, Access, TypeOK
<1>9. CASE ClearCode(t)
  BY <1>9 DEF ClearCode, Lock, TypeOK, Critical
<1>10. CASE ClearMessage(t)
  BY <1>10, ReturnTypeOK DEF ClearMessage, Unlock, TypeOK
<1>11. CASE SetErrorCb(t)
  BY <1>11, Fields DEF SetErrorCb, Lock, TypeOK, Critical
<1>12. CASE SetErrorUser(t)
  BY <1>12, Fields, ReturnTypeOK DEF SetErrorUser, Unlock, TypeOK
<1>13. CASE SetLogCb(t)
  BY <1>13, Fields DEF SetLogCb, Lock, TypeOK, Critical
<1>14. CASE SetLogUser(t)
  BY <1>14, Fields, ReturnTypeOK DEF SetLogUser, Unlock, TypeOK
<1> QED
  BY <1>1, <1>2, <1>3, <1>4, <1>5, <1>6, <1>7, <1>8, <1>9, <1>10, <1>11, <1>12,
     <1>13, <1>14 DEF LibraryStep
LEMMA NextTypeOK == TypeOK /\ [Next]_vars => TypeOK'
<1> SUFFICES ASSUME TypeOK, [Next]_vars PROVE TypeOK'
  OBVIOUS
<1>1. CASE UNCHANGED vars
  BY <1>1 DEF vars, TypeOK
<1>2. CASE Next
  BY <1>2, HostStepTypeOK, LibraryStepTypeOK DEF Next
<1> QED
  BY <1>1, <1>2

\* Every variable keeps its type: no thread is ever at a point, or holds a
\* value, the code has no name for.
THEOREM TypeCorrect == Spec => []TypeOK
BY InitTypeOK, NextTypeOK, PTL DEF Spec

-----------------------------------------------------------------------------
(* The inductive invariant *)

\* What the host does is to call, with an error if the call is to latch one, or
\* to return from a callback.
LEMMA HostStepCases ==
  ASSUME NEW t \in Threads, HostStep(t)
  PROVE  \/ LeaveCallback(t)
         \/ \E point \in Waiting, e \in Errors \union {NoError}, h \in Handlers :
              (point = "latch" => e \in Errors) /\ Call(t, point, e, h)
BY Fields DEF HostStep, CallLatch, CallLog, CallLastError, CallLastErrorMessage, CallClear,
   CallSetErrorCallback, CallSetLogCallback, Waiting

\* Mutual exclusion: taking the mutex needs it free, and releasing it is the owner's.
LEMMA MutexStep ==
  ASSUME TypeOK, MutexHeldOnlyInside, NEW t \in Threads, HostStep(t) \/ LibraryStep(t)
  PROVE  MutexHeldOnlyInside'
<1> USE ThreadAssumption DEF MutexHeldOnlyInside, TypeOK, Critical, Waiting, Announcing
<1>1. ASSUME NEW point \in Waiting, NEW e \in Errors \union {NoError}, NEW h \in Handlers,
             point = "latch" => e \in Errors, Call(t, point, e, h)
      PROVE  MutexHeldOnlyInside'
  BY <1>1 DEF Call
<1>2. CASE LeaveCallback(t)
  BY <1>2 DEF LeaveCallback
<1>3. CASE LatchAgain(t)
  BY <1>3 DEF LatchAgain, Access, Return
<1>4. CASE LatchCode(t)
  BY <1>4 DEF LatchCode, Lock
<1>5. CASE LatchMessage(t)
  BY <1>5 DEF LatchMessage, Unlock, Return
<1>6. CASE EnterErrorCallback(t)
  BY <1>6 DEF EnterErrorCallback, Enter, Return
<1>7. CASE Log(t)
  BY <1>7 DEF Log, Access, Return
<1>8. CASE EnterLogCallback(t)
  BY <1>8 DEF EnterLogCallback, Enter, Return
<1>9. CASE LastError(t)
  BY <1>9 DEF LastError, Access, Return
<1>10. CASE LastErrorMessage(t)
  BY <1>10 DEF LastErrorMessage, Access, Return
<1>11. CASE ClearCode(t)
  BY <1>11 DEF ClearCode, Lock
<1>12. CASE ClearMessage(t)
  BY <1>12 DEF ClearMessage, Unlock, Return
<1>13. CASE SetErrorCb(t)
  BY <1>13 DEF SetErrorCb, Lock
<1>14. CASE SetErrorUser(t)
  BY <1>14 DEF SetErrorUser, Unlock, Return
<1>15. CASE SetLogCb(t)
  BY <1>15 DEF SetLogCb, Lock
<1>16. CASE SetLogUser(t)
  BY <1>16 DEF SetLogUser, Unlock, Return
<1> QED
  BY <1>1, <1>2, <1>3, <1>4, <1>5, <1>6, <1>7, <1>8, <1>9,
     <1>10, <1>11, <1>12, <1>13, <1>14, <1>15, <1>16, HostStepCases DEF LibraryStep

\* What a latch or a clear has written stays until it is finished: nobody else
\* can be inside.
LEMMA LatchStep ==
  ASSUME TypeOK, MutexHeldOnlyInside, LatchInProgress, ChannelSettled, NEW t \in Threads, HostStep(t) \/ LibraryStep(t)
  PROVE  LatchInProgress'
<1> USE ThreadAssumption, ErrorAssumption DEF LatchInProgress, TypeOK, MutexHeldOnlyInside, ChannelSettled, Critical, Waiting, Announcing, channel, NoError
<1>1. ASSUME NEW point \in Waiting, NEW e \in Errors \union {NoError}, NEW h \in Handlers,
             point = "latch" => e \in Errors, Call(t, point, e, h)
      PROVE  LatchInProgress'
  BY <1>1 DEF Call
<1>2. CASE LeaveCallback(t)
  BY <1>2 DEF LeaveCallback
<1>3. CASE LatchAgain(t)
  BY <1>3 DEF LatchAgain, Access, Return
<1>4. CASE LatchCode(t)
  BY <1>4 DEF LatchCode, Lock
<1>5. CASE LatchMessage(t)
  BY <1>5 DEF LatchMessage, Unlock, Return
<1>6. CASE EnterErrorCallback(t)
  BY <1>6 DEF EnterErrorCallback, Enter, Return
<1>7. CASE Log(t)
  BY <1>7 DEF Log, Access, Return
<1>8. CASE EnterLogCallback(t)
  BY <1>8 DEF EnterLogCallback, Enter, Return
<1>9. CASE LastError(t)
  BY <1>9 DEF LastError, Access, Return
<1>10. CASE LastErrorMessage(t)
  BY <1>10 DEF LastErrorMessage, Access, Return
<1>11. CASE ClearCode(t)
  BY <1>11 DEF ClearCode, Lock
<1>12. CASE ClearMessage(t)
  BY <1>12 DEF ClearMessage, Unlock, Return
<1>13. CASE SetErrorCb(t)
  BY <1>13 DEF SetErrorCb, Lock
<1>14. CASE SetErrorUser(t)
  BY <1>14 DEF SetErrorUser, Unlock, Return
<1>15. CASE SetLogCb(t)
  BY <1>15 DEF SetLogCb, Lock
<1>16. CASE SetLogUser(t)
  BY <1>16 DEF SetLogUser, Unlock, Return
<1> QED
  BY <1>1, <1>2, <1>3, <1>4, <1>5, <1>6, <1>7, <1>8, <1>9,
     <1>10, <1>11, <1>12, <1>13, <1>14, <1>15, <1>16, HostStepCases DEF LibraryStep

\* Between critical sections the code and the message are of one error.
LEMMA ChannelStep ==
  ASSUME TypeOK, MutexHeldOnlyInside, LatchInProgress, ChannelSettled, NEW t \in Threads, HostStep(t) \/ LibraryStep(t)
  PROVE  ChannelSettled'
<1> USE ThreadAssumption, Pairs DEF ChannelSettled, LatchInProgress, TypeOK, MutexHeldOnlyInside, Critical, Waiting, Announcing, channel, NoError
<1>1. ASSUME NEW point \in Waiting, NEW e \in Errors \union {NoError}, NEW h \in Handlers,
             point = "latch" => e \in Errors, Call(t, point, e, h)
      PROVE  ChannelSettled'
  BY <1>1 DEF Call
<1>2. CASE LeaveCallback(t)
  BY <1>2 DEF LeaveCallback
<1>3. CASE LatchAgain(t)
  BY <1>3 DEF LatchAgain, Access, Return
<1>4. CASE LatchCode(t)
  BY <1>4 DEF LatchCode, Lock
<1>5. CASE LatchMessage(t)
  BY <1>5 DEF LatchMessage, Unlock, Return
<1>6. CASE EnterErrorCallback(t)
  BY <1>6 DEF EnterErrorCallback, Enter, Return
<1>7. CASE Log(t)
  BY <1>7 DEF Log, Access, Return
<1>8. CASE EnterLogCallback(t)
  BY <1>8 DEF EnterLogCallback, Enter, Return
<1>9. CASE LastError(t)
  BY <1>9 DEF LastError, Access, Return
<1>10. CASE LastErrorMessage(t)
  BY <1>10 DEF LastErrorMessage, Access, Return
<1>11. CASE ClearCode(t)
  BY <1>11 DEF ClearCode, Lock
<1>12. CASE ClearMessage(t)
  BY <1>12 DEF ClearMessage, Unlock, Return
<1>13. CASE SetErrorCb(t)
  BY <1>13 DEF SetErrorCb, Lock
<1>14. CASE SetErrorUser(t)
  BY <1>14 DEF SetErrorUser, Unlock, Return
<1>15. CASE SetLogCb(t)
  BY <1>15 DEF SetLogCb, Lock
<1>16. CASE SetLogUser(t)
  BY <1>16 DEF SetLogUser, Unlock, Return
<1> QED
  BY <1>1, <1>2, <1>3, <1>4, <1>5, <1>6, <1>7, <1>8, <1>9,
     <1>10, <1>11, <1>12, <1>13, <1>14, <1>15, <1>16, HostStepCases DEF LibraryStep

\* A code that was read is replaced by a clear only, which forgets the reading.
LEMMA ReadsStep ==
  ASSUME TypeOK, ReadsCurrent, NEW t \in Threads, HostStep(t) \/ LibraryStep(t)
  PROVE  ReadsCurrent'
<1> USE DEF ReadsCurrent, TypeOK, channel
<1>1. ASSUME NEW point \in Waiting, NEW e \in Errors \union {NoError}, NEW h \in Handlers,
             point = "latch" => e \in Errors, Call(t, point, e, h)
      PROVE  ReadsCurrent'
  BY <1>1 DEF Call
<1>2. CASE LeaveCallback(t)
  BY <1>2 DEF LeaveCallback
<1>3. CASE LatchAgain(t)
  BY <1>3 DEF LatchAgain, Access, Return
<1>4. CASE LatchCode(t)
  BY <1>4 DEF LatchCode, Lock
<1>5. CASE LatchMessage(t)
  BY <1>5 DEF LatchMessage, Unlock, Return
<1>6. CASE EnterErrorCallback(t)
  BY <1>6 DEF EnterErrorCallback, Enter, Return
<1>7. CASE Log(t)
  BY <1>7 DEF Log, Access, Return
<1>8. CASE EnterLogCallback(t)
  BY <1>8 DEF EnterLogCallback, Enter, Return
<1>9. CASE LastError(t)
  BY <1>9 DEF LastError, Access, Return
<1>10. CASE LastErrorMessage(t)
  BY <1>10 DEF LastErrorMessage, Access, Return
<1>11. CASE ClearCode(t)
  BY <1>11 DEF ClearCode, Lock
<1>12. CASE ClearMessage(t)
  BY <1>12 DEF ClearMessage, Unlock, Return
<1>13. CASE SetErrorCb(t)
  BY <1>13 DEF SetErrorCb, Lock
<1>14. CASE SetErrorUser(t)
  BY <1>14 DEF SetErrorUser, Unlock, Return
<1>15. CASE SetLogCb(t)
  BY <1>15 DEF SetLogCb, Lock
<1>16. CASE SetLogUser(t)
  BY <1>16 DEF SetLogUser, Unlock, Return
<1> QED
  BY <1>1, <1>2, <1>3, <1>4, <1>5, <1>6, <1>7, <1>8, <1>9,
     <1>10, <1>11, <1>12, <1>13, <1>14, <1>15, <1>16, HostStepCases DEF LibraryStep

LEMMA EnterDepth ==
  ASSUME TypeOK, NEW t \in Threads, NEW f \in Frame, Enter(t, f), DepthCountsCallbacks
  PROVE  DepthCountsCallbacks'
<1>1. Len(Append(stack[t], f)) = Len(stack[t]) + 1
  BY AppendProperties DEF TypeOK
<1> QED
  BY <1>1 DEF Enter, TypeOK, DepthCountsCallbacks

\* Every frame pushed raises the counter and every frame popped lowers it.
LEMMA DepthStep ==
  ASSUME TypeOK, DepthCountsCallbacks, NEW t \in Threads, HostStep(t) \/ LibraryStep(t)
  PROVE  DepthCountsCallbacks'
<1> USE DEF DepthCountsCallbacks, TypeOK
<1>1. ASSUME NEW point \in Waiting, NEW e \in Errors \union {NoError}, NEW h \in Handlers,
             point = "latch" => e \in Errors, Call(t, point, e, h)
      PROVE  DepthCountsCallbacks'
  BY <1>1 DEF Call
<1>2. CASE LeaveCallback(t)
  <2>1. Len(stack'[t]) = Len(stack[t]) - 1
    BY <1>2, Pop DEF LeaveCallback
  <2> QED
    BY <1>2, <2>1 DEF LeaveCallback
<1>3. CASE LatchAgain(t)
  BY <1>3 DEF LatchAgain, Access, Return
<1>4. CASE LatchCode(t)
  BY <1>4 DEF LatchCode, Lock
<1>5. CASE LatchMessage(t)
  BY <1>5 DEF LatchMessage, Unlock, Return
<1>6. CASE EnterErrorCallback(t)
  BY <1>6, EnterDepth DEF EnterErrorCallback, Frame
<1>7. CASE Log(t)
  BY <1>7 DEF Log, Access, Return
<1>8. CASE EnterLogCallback(t)
  BY <1>8, EnterDepth DEF EnterLogCallback, Frame
<1>9. CASE LastError(t)
  BY <1>9 DEF LastError, Access, Return
<1>10. CASE LastErrorMessage(t)
  BY <1>10 DEF LastErrorMessage, Access, Return
<1>11. CASE ClearCode(t)
  BY <1>11 DEF ClearCode, Lock
<1>12. CASE ClearMessage(t)
  BY <1>12 DEF ClearMessage, Unlock, Return
<1>13. CASE SetErrorCb(t)
  BY <1>13 DEF SetErrorCb, Lock
<1>14. CASE SetErrorUser(t)
  BY <1>14 DEF SetErrorUser, Unlock, Return
<1>15. CASE SetLogCb(t)
  BY <1>15 DEF SetLogCb, Lock
<1>16. CASE SetLogUser(t)
  BY <1>16 DEF SetLogUser, Unlock, Return
<1> QED
  BY <1>1, <1>2, <1>3, <1>4, <1>5, <1>6, <1>7, <1>8, <1>9,
     <1>10, <1>11, <1>12, <1>13, <1>14, <1>15, <1>16, HostStepCases DEF LibraryStep

-----------------------------------------------------------------------------
(* The callbacks running *)

\* Entering a callback puts its frame on top of the thread's stack.
LEMMA EnterFrames ==
  ASSUME TypeOK, NEW t \in Threads, NEW f \in Frame, Enter(t, f)
  PROVE  /\ \A u \in Threads : u # t => stack'[u] = stack[u]
         /\ Len(stack[t]) \in Nat
         /\ Len(stack'[t]) = Len(stack[t]) + 1
         /\ \A i \in 1..Len(stack[t]) : stack'[t][i] = stack[t][i]
         /\ stack'[t][Len(stack[t]) + 1] = f
<1>1. stack[t] \in Seq(Frame) /\ stack'[t] = Append(stack[t], f)
  BY DEF Enter, TypeOK
<1>2. \A u \in Threads : u # t => stack'[u] = stack[u]
  BY DEF Enter, TypeOK
<1> QED
  BY <1>1, <1>2, AppendProperties, LenProperties

\* Leaving one takes the top frame away.
LEMMA LeaveFrames ==
  ASSUME TypeOK, NEW t \in Threads, LeaveCallback(t)
  PROVE  /\ \A u \in Threads : u # t => stack'[u] = stack[u]
         /\ Len(stack[t]) \in Nat
         /\ Len(stack'[t]) = Len(stack[t]) - 1
         /\ \A i \in 1..Len(stack'[t]) : stack'[t][i] = stack[t][i]
<1>1. /\ stack[t] \in Seq(Frame) /\ stack[t] # <<>>
      /\ stack'[t] = SubSeq(stack[t], 1, Len(stack[t]) - 1)
  BY DEF LeaveCallback, TypeOK
<1>2. \A u \in Threads : u # t => stack'[u] = stack[u]
  BY DEF LeaveCallback, TypeOK
<1> QED
  BY <1>1, <1>2, Pop, LenProperties

\* The frame of an error callback, and that of a log callback.
LEMMA EnteredFrames ==
  ASSUME TypeOK, NEW t \in Threads
  PROVE  /\ [kind |-> "error", err |-> failure[t], handler |-> local[t],
             era |-> latchedIn[t]] \in Frame
         /\ [kind |-> "log", err |-> NoError, handler |-> local[t], era |-> 0] \in Frame
BY DEF Frame, TypeOK

\* Only callbacks entered and left change a stack.
LEMMA OtherStepsKeepStack ==
  ASSUME NEW t \in Threads, HostStep(t) \/ LibraryStep(t)
  PROVE  LeaveCallback(t) \/ EnterErrorCallback(t) \/ EnterLogCallback(t) \/ UNCHANGED stack
BY HostStepCases DEF LibraryStep, Call, LatchAgain, LatchCode, LatchMessage, Log, LastError,
   LastErrorMessage, ClearCode, ClearMessage, SetErrorCb, SetErrorUser, SetLogCb, SetLogUser

\* The cb and the user of an installation stay together.
LEMMA HandlersStep ==
  ASSUME TypeOK, MutexHeldOnlyInside, HandlersSettled, NEW t \in Threads, HostStep(t) \/ LibraryStep(t)
  PROVE  HandlersSettled'
<1>0. NoHandler \in Handlers /\ (\A h \in Handlers : h = [cb |-> h.cb, user |-> h.user])
  BY Pairs, Fields
<1> USE <1>0, ThreadAssumption DEF HandlersSettled, TypeOK, MutexHeldOnlyInside, Critical,
    Waiting, Announcing, errorHandler, logHandler, InstalledError, InstalledLog
<1>1. ASSUME NEW point \in Waiting, NEW e \in Errors \union {NoError}, NEW h \in Handlers,
             point = "latch" => e \in Errors, Call(t, point, e, h)
      PROVE  HandlersSettled'
  BY <1>1 DEF Call
<1>2. CASE LeaveCallback(t)
  BY <1>2 DEF LeaveCallback
<1>3. CASE LatchAgain(t)
  BY <1>3 DEF LatchAgain, Access, Return
<1>4. CASE LatchCode(t)
  BY <1>4 DEF LatchCode, Lock
<1>5. CASE LatchMessage(t)
  <2>1. InstalledError \in Handlers
    BY <1>5 DEF LatchMessage, Unlock
  <2>2. CASE errorCb = NoCallback
    BY <1>5, <2>2 DEF LatchMessage, Unlock, Return
  <2>3. CASE errorCb # NoCallback
    <3>1. /\ pc[t] = "latch.code" /\ pc' = [pc EXCEPT ![t] = "announceError"]
          /\ local' = [local EXCEPT ![t] = InstalledError]
          /\ InstalledError.cb # NoCallback
          /\ UNCHANGED <<errorHandler, logHandler>>
      BY <1>5, <2>3 DEF LatchMessage, Unlock
    <3> QED
      BY <2>1, <3>1
  <2> QED
    BY <2>2, <2>3
<1>6. CASE EnterErrorCallback(t)
  <2>1. Return(t) /\ UNCHANGED <<mutex, errorHandler, logHandler>>
    BY <1>6 DEF EnterErrorCallback, Enter
  <2> QED
    BY <2>1, <1>6 DEF EnterErrorCallback, Return
<1>7. CASE Log(t)
  <2>1. InstalledLog \in Handlers
    BY <1>7 DEF Log, Access
  <2>2. CASE logCb = NoCallback
    BY <1>7, <2>2 DEF Log, Access, Return
  <2>3. CASE logCb # NoCallback
    BY <1>7, <2>1, <2>3 DEF Log, Access
  <2> QED
    BY <2>2, <2>3
<1>8. CASE EnterLogCallback(t)
  <2>1. Return(t) /\ UNCHANGED <<mutex, errorHandler, logHandler>>
    BY <1>8 DEF EnterLogCallback, Enter
  <2> QED
    BY <2>1, <1>8 DEF EnterLogCallback, Return
<1>9. CASE LastError(t)
  BY <1>9 DEF LastError, Access, Return
<1>10. CASE LastErrorMessage(t)
  BY <1>10 DEF LastErrorMessage, Access, Return
<1>11. CASE ClearCode(t)
  BY <1>11 DEF ClearCode, Lock
<1>12. CASE ClearMessage(t)
  BY <1>12 DEF ClearMessage, Unlock, Return
<1>13. CASE SetErrorCb(t)
  BY <1>13 DEF SetErrorCb, Lock
<1>14. CASE SetErrorUser(t)
  BY <1>14 DEF SetErrorUser, Unlock, Return
<1>15. CASE SetLogCb(t)
  BY <1>15 DEF SetLogCb, Lock
<1>16. CASE SetLogUser(t)
  BY <1>16 DEF SetLogUser, Unlock, Return
<1> QED
  BY <1>1, <1>2, <1>3, <1>4, <1>5, <1>6, <1>7, <1>8, <1>9,
     <1>10, <1>11, <1>12, <1>13, <1>14, <1>15, <1>16, HostStepCases DEF LibraryStep

\* A callback is entered with a pair its thread has copied under the mutex.
LEMMA CallbacksStep ==
  ASSUME TypeOK, HandlersSettled, CallbacksSettled,
         NEW t \in Threads, HostStep(t) \/ LibraryStep(t)
  PROVE  CallbacksSettled'
<1>1. CASE LeaveCallback(t)
  BY <1>1, LeaveFrames DEF CallbacksSettled
<1>2. CASE EnterErrorCallback(t)
  <2>1. PICK f \in Frame : Enter(t, f) /\ f.handler = local[t]
    BY <1>2, EnteredFrames DEF EnterErrorCallback
  <2>2. local[t] \in Handlers
    BY DEF HandlersSettled
  <2> QED
    BY <2>1, <2>2, EnterFrames DEF CallbacksSettled
<1>3. CASE EnterLogCallback(t)
  <2>1. PICK f \in Frame : Enter(t, f) /\ f.handler = local[t]
    BY <1>3, EnteredFrames DEF EnterLogCallback
  <2>2. local[t] \in Handlers
    BY DEF HandlersSettled
  <2> QED
    BY <2>1, <2>2, EnterFrames DEF CallbacksSettled
<1>4. CASE UNCHANGED stack
  BY <1>4 DEF CallbacksSettled
<1> QED
  BY <1>1, <1>2, <1>3, <1>4, OtherStepsKeepStack

-----------------------------------------------------------------------------
(* Notices: at most one for an era, and that of the error latched in it *)

\* A latch may still happen in the present era, or is happening.
Open == code = None \/ \E u \in Threads : pc[u] = "latch.code"

\* A step ends the era, or leaves it no more open than it was; and the channel
\* is written only while the era is open.
LEMMA ChannelMoves ==
  ASSUME TypeOK, LatchInProgress, NEW t \in Threads, HostStep(t) \/ LibraryStep(t)
  PROVE  \/ era' = era + 1
         \/ /\ era' = era
            /\ Open' => Open
            /\ Open \/ UNCHANGED channel
<1> DEFINE Goal == \/ era' = era + 1
                   \/ era' = era /\ (Open' => Open) /\ (Open \/ UNCHANGED channel)
<1> USE DEF Open, TypeOK, channel
<1>1. ASSUME NEW point \in Waiting, NEW e \in Errors \union {NoError}, NEW h \in Handlers,
             Call(t, point, e, h)
      PROVE  Goal
  BY <1>1 DEF Call, Waiting
<1>2. CASE LeaveCallback(t)
  BY <1>2 DEF LeaveCallback
<1>3. CASE LatchAgain(t)
  BY <1>3 DEF LatchAgain, Return
<1>4. CASE LatchCode(t)
  BY <1>4 DEF LatchCode
<1>5. CASE LatchMessage(t)
  BY <1>5 DEF LatchMessage, Unlock
<1>6. CASE EnterErrorCallback(t)
  <2>1. pc' = [pc EXCEPT ![t] = "host"] /\ UNCHANGED <<code, message, era>>
    BY <1>6 DEF EnterErrorCallback, Enter, Return
  <2> QED
    BY <2>1
<1>7. CASE Log(t)
  BY <1>7 DEF Log, Return
<1>8. CASE EnterLogCallback(t)
  <2>1. pc' = [pc EXCEPT ![t] = "host"] /\ UNCHANGED <<code, message, era>>
    BY <1>8 DEF EnterLogCallback, Enter, Return
  <2> QED
    BY <2>1
<1>9. CASE LastError(t)
  BY <1>9 DEF LastError, Return
<1>10. CASE LastErrorMessage(t)
  BY <1>10 DEF LastErrorMessage, Return
<1>11. CASE ClearCode(t)
  BY <1>11 DEF ClearCode, Lock
<1>12. CASE ClearMessage(t)
  BY <1>12 DEF ClearMessage, Unlock, Return, LatchInProgress
<1>13. CASE SetErrorCb(t)
  BY <1>13 DEF SetErrorCb, Lock
<1>14. CASE SetErrorUser(t)
  BY <1>14 DEF SetErrorUser, Return
<1>15. CASE SetLogCb(t)
  BY <1>15 DEF SetLogCb, Lock
<1>16. CASE SetLogUser(t)
  BY <1>16 DEF SetLogUser, Return
<1> QED
  BY <1>1, <1>2, <1>3, <1>4, <1>5, <1>6, <1>7, <1>8, <1>9,
     <1>10, <1>11, <1>12, <1>13, <1>14, <1>15, <1>16, HostStepCases DEF LibraryStep

\* The notices after the step are among those before it.
Kept == \A u \in Threads : \A i \in Notices(u)' :
          i \in Notices(u) /\ EraOf(u, i)' = EraOf(u, i) /\ ErrOf(u, i)' = ErrOf(u, i)

Announces(t) == LatchMessage(t) /\ errorCb # NoCallback

\* Notices are kept by a step that neither announces an error nor moves a stack.
LEMMA QuietKept ==
  ASSUME NEW t \in Threads, UNCHANGED stack,
         \A u \in Threads : pc'[u] = "announceError" =>
           pc[u] = "announceError" /\ latchedIn'[u] = latchedIn[u] /\ failure'[u] = failure[u]
  PROVE  Kept
BY DEF Kept, Notices, EraOf, ErrOf

\* Which steps those are.
LEMMA KeptSteps ==
  ASSUME TypeOK, NEW t \in Threads, HostStep(t) \/ LibraryStep(t),
         ~Announces(t), ~EnterErrorCallback(t)
  PROVE  Kept
<1> USE DEF TypeOK
<1>1. ASSUME NEW point \in Waiting, NEW e \in Errors \union {NoError}, NEW h \in Handlers,
             Call(t, point, e, h)
      PROVE  Kept
  BY <1>1, QuietKept DEF Call, Waiting
<1>2. CASE LeaveCallback(t)
  <2>1. \A u \in Threads : /\ Len(stack'[u]) \leq Len(stack[u])
                           /\ \A i \in 1..Len(stack'[u]) : stack'[u][i] = stack[u][i]
                           /\ Len(stack[u]) \in Nat /\ Len(stack'[u]) \in Int
    <3>1. \A u \in Threads : Len(stack[u]) \in Nat
      BY LenProperties
    <3>2. \A u \in Threads : u # t => stack'[u] = stack[u]
      BY <1>2, LeaveFrames
    <3>3. /\ Len(stack'[t]) = Len(stack[t]) - 1
          /\ \A i \in 1..Len(stack'[t]) : stack'[t][i] = stack[t][i]
      BY <1>2, LeaveFrames
    <3> HIDE DEF TypeOK
    <3> QED
      BY <3>1, <3>2, <3>3
  <2>2. UNCHANGED <<pc, latchedIn, failure>>
    BY <1>2 DEF LeaveCallback
  <2> QED
    BY <2>1, <2>2 DEF Kept, Notices, EraOf, ErrOf
<1>3. CASE LatchAgain(t)
  BY <1>3, QuietKept DEF LatchAgain, Return
<1>4. CASE LatchCode(t)
  BY <1>4, QuietKept DEF LatchCode, Lock
<1>5. CASE LatchMessage(t)
  BY <1>5, QuietKept DEF LatchMessage, Announces, Return
<1>7. CASE Log(t)
  BY <1>7, QuietKept DEF Log, Return
<1>8. CASE EnterLogCallback(t)
  <2>1. PICK f \in Frame : Enter(t, f) /\ f.kind = "log"
    BY <1>8, EnteredFrames DEF EnterLogCallback
  <2>2. /\ \A u \in Threads : u # t => stack'[u] = stack[u]
        /\ Len(stack[t]) \in Nat
        /\ Len(stack'[t]) = Len(stack[t]) + 1
        /\ \A i \in 1..Len(stack[t]) : stack'[t][i] = stack[t][i]
        /\ stack'[t][Len(stack[t]) + 1].kind = "log"
    BY <2>1, EnterFrames
  <2>3. /\ \A u \in Threads : u # t =>
             pc'[u] = pc[u] /\ latchedIn'[u] = latchedIn[u] /\ failure'[u] = failure[u]
        /\ pc'[t] = "host"
    BY <2>1 DEF Enter, Return
  <2>4. ASSUME NEW i \in Notices(t)'
        PROVE  i \in 1..Len(stack[t]) /\ stack'[t][i] = stack[t][i] /\ stack[t][i].kind = "error"
    BY <2>2, <2>3 DEF Notices
  <2>5. \A i \in Notices(t)' : i \in Notices(t) /\ EraOf(t, i)' = EraOf(t, i)
                                                /\ ErrOf(t, i)' = ErrOf(t, i)
    BY <2>4, <2>2 DEF Notices, EraOf, ErrOf
  <2>6. ASSUME NEW u \in Threads, u # t, NEW i \in Notices(u)'
        PROVE  i \in Notices(u) /\ EraOf(u, i)' = EraOf(u, i) /\ ErrOf(u, i)' = ErrOf(u, i)
    BY <2>2, <2>3, <2>6 DEF Notices, EraOf, ErrOf
  <2> QED
    BY <2>5, <2>6 DEF Kept
<1>9. CASE LastError(t)
  BY <1>9, QuietKept DEF LastError, Return
<1>10. CASE LastErrorMessage(t)
  BY <1>10, QuietKept DEF LastErrorMessage, Return
<1>11. CASE ClearCode(t)
  BY <1>11, QuietKept DEF ClearCode, Lock
<1>12. CASE ClearMessage(t)
  BY <1>12, QuietKept DEF ClearMessage, Return
<1>13. CASE SetErrorCb(t)
  BY <1>13, QuietKept DEF SetErrorCb, Lock
<1>14. CASE SetErrorUser(t)
  BY <1>14, QuietKept DEF SetErrorUser, Return
<1>15. CASE SetLogCb(t)
  BY <1>15, QuietKept DEF SetLogCb, Lock
<1>16. CASE SetLogUser(t)
  BY <1>16, QuietKept DEF SetLogUser, Return
<1> QED
  BY <1>1, <1>2, <1>3, <1>4, <1>5, <1>7, <1>8, <1>9, <1>10, <1>11,
     <1>12, <1>13, <1>14, <1>15, <1>16, HostStepCases DEF LibraryStep

\* An error announced is the one notice of the present era.
LEMMA AnnounceNotices ==
  ASSUME TypeOK, LatchInProgress, NEW t \in Threads, Announces(t)
  PROVE  /\ \A u \in Threads : \A i \in Notices(u)' :
              \/ u = t /\ i = 0
              \/ i \in Notices(u) /\ EraOf(u, i)' = EraOf(u, i) /\ ErrOf(u, i)' = ErrOf(u, i)
         /\ EraOf(t, 0)' = era
         /\ ErrOf(t, 0)' = [code |-> code, text |-> message']
<1>1. /\ stack' = stack /\ latchedIn' = latchedIn /\ failure' = failure
      /\ pc[t] = "latch.code" /\ message' = failure[t].text
      /\ pc' = [pc EXCEPT ![t] = "announceError"]
  BY DEF Announces, LatchMessage, Unlock
<1>2. latchedIn[t] = era /\ failure[t] = [code |-> code, text |-> failure[t].text]
  BY <1>1, Pairs DEF LatchInProgress
<1> QED
  BY <1>1, <1>2 DEF Notices, EraOf, ErrOf, TypeOK

\* A callback entered carries over the notice its thread was about to deliver.
LEMMA EnterNotices ==
  ASSUME TypeOK, NEW t \in Threads, EnterErrorCallback(t)
  PROVE  LET top == Len(stack[t]) + 1
         IN  /\ 0 \in Notices(t) /\ 0 \notin Notices(t)'
             /\ \A i \in Notices(t)' : IF i = top
                  THEN EraOf(t, i)' = EraOf(t, 0) /\ ErrOf(t, i)' = ErrOf(t, 0)
                  ELSE /\ i \in Notices(t)
                       /\ EraOf(t, i)' = EraOf(t, i) /\ ErrOf(t, i)' = ErrOf(t, i)
             /\ \A u \in Threads \ {t} : \A i \in Notices(u)' :
                  i \in Notices(u) /\ EraOf(u, i)' = EraOf(u, i) /\ ErrOf(u, i)' = ErrOf(u, i)
<1>1. PICK f \in Frame : Enter(t, f) /\ f.era = latchedIn[t] /\ f.err = failure[t]
  BY EnteredFrames DEF EnterErrorCallback
<1>2. /\ \A u \in Threads : u # t => stack'[u] = stack[u]
      /\ Len(stack[t]) \in Nat
      /\ Len(stack'[t]) = Len(stack[t]) + 1
      /\ \A i \in 1..Len(stack[t]) : stack'[t][i] = stack[t][i]
      /\ stack'[t][Len(stack[t]) + 1] = f
  BY <1>1, EnterFrames
<1>3. /\ \A u \in Threads : u # t =>
           pc'[u] = pc[u] /\ latchedIn'[u] = latchedIn[u] /\ failure'[u] = failure[u]
      /\ pc[t] = "announceError" /\ pc'[t] = "host"
  BY <1>1 DEF Enter, Return, EnterErrorCallback, TypeOK
<1> QED
  BY <1>1, <1>2, <1>3 DEF Notices, EraOf, ErrOf

\* The three together: nothing but a latch in an open era makes a notice, and a
\* latch closes the era for every other one.
LEMMA NoticesStep ==
  ASSUME TypeOK, MutexHeldOnlyInside, LatchInProgress,
         NoticesOfPastEras, OneNoticePerEra, NoticeMatchesChannel,
         NEW t \in Threads, HostStep(t) \/ LibraryStep(t)
  PROVE  NoticesOfPastEras' /\ OneNoticePerEra' /\ NoticeMatchesChannel'
<1>1. \A u \in Threads : \A i \in Notices(u) :
        /\ EraOf(u, i) \in Nat /\ EraOf(u, i) \leq era
        /\ Open => EraOf(u, i) < era
  <2>1. ASSUME NEW u \in Threads, NEW i \in Notices(u) PROVE EraOf(u, i) \in Nat
    <3>1. CASE i = 0
      BY <3>1 DEF EraOf, TypeOK
    <3>2. CASE i # 0
      <4>1. stack[u] \in Seq(Frame) /\ i \in 1..Len(stack[u])
        BY <3>2, LenProperties DEF Notices, TypeOK
      <4>2. stack[u][i] \in Frame
        BY <4>1, ElementOfSeq
      <4> QED
        BY <3>2, <4>2 DEF EraOf, Frame
    <3> QED
      BY <3>1, <3>2
  <2> QED
    BY <2>1 DEF NoticesOfPastEras, Open
<1>2. \/ era' = era + 1
      \/ era' = era /\ (Open' => Open) /\ (Open \/ UNCHANGED channel)
  BY ChannelMoves
<1>3. era \in Nat
  BY DEF TypeOK
<1>4. CASE Kept
  <2>1. NoticesOfPastEras'
    BY <1>1, <1>2, <1>3, <1>4 DEF NoticesOfPastEras, Kept, Open
  <2>2. OneNoticePerEra'
    BY <1>4 DEF OneNoticePerEra, Kept
  <2>3. NoticeMatchesChannel'
    BY <1>1, <1>2, <1>3, <1>4 DEF NoticeMatchesChannel, Kept, channel
  <2> QED
    BY <2>1, <2>2, <2>3
<1>5. CASE Announces(t)
  <2>1. \A u \in Threads : \A i \in Notices(u)' :
          \/ u = t /\ i = 0 /\ EraOf(u, i)' = era /\ ErrOf(u, i)' = [code |-> code, text |-> message']
          \/ i \in Notices(u) /\ EraOf(u, i)' = EraOf(u, i) /\ ErrOf(u, i)' = ErrOf(u, i)
    BY <1>5, AnnounceNotices
  <2>2. Open /\ ~Open' /\ UNCHANGED <<code, era>>
    <3>1. /\ pc[t] = "latch.code" /\ pc' = [pc EXCEPT ![t] = "announceError"]
          /\ UNCHANGED <<code, era>>
      BY <1>5 DEF Announces, LatchMessage, Unlock
    <3>2. code # None
      BY <3>1, Pairs, ErrorAssumption DEF LatchInProgress
    <3>3. \A u \in Threads : u # t => pc[u] # "latch.code"
      BY <3>1 DEF MutexHeldOnlyInside, Critical
    <3> QED
      BY <3>1, <3>2, <3>3 DEF Open, TypeOK
  <2>3. NoticesOfPastEras'
    BY <1>1, <1>3, <2>1, <2>2 DEF NoticesOfPastEras, Open
  <2>4. OneNoticePerEra'
    BY <1>1, <1>3, <2>1, <2>2 DEF OneNoticePerEra
  <2>5. NoticeMatchesChannel'
    BY <1>1, <1>3, <2>1, <2>2 DEF NoticeMatchesChannel
  <2> QED
    BY <2>3, <2>4, <2>5
<1>6. CASE EnterErrorCallback(t)
  <2> DEFINE top == Len(stack[t]) + 1
  <2>1. /\ 0 \in Notices(t) /\ 0 \notin Notices(t)'
        /\ \A i \in Notices(t)' : IF i = top
             THEN EraOf(t, i)' = EraOf(t, 0) /\ ErrOf(t, i)' = ErrOf(t, 0)
             ELSE /\ i \in Notices(t)
                  /\ EraOf(t, i)' = EraOf(t, i) /\ ErrOf(t, i)' = ErrOf(t, i)
        /\ \A u \in Threads \ {t} : \A i \in Notices(u)' :
             i \in Notices(u) /\ EraOf(u, i)' = EraOf(u, i) /\ ErrOf(u, i)' = ErrOf(u, i)
    BY <1>6, EnterNotices
  <2> HIDE DEF top
  <2>2. \A u \in Threads : \A i \in Notices(u)' : \E j \in Notices(u) :
          EraOf(u, i)' = EraOf(u, j) /\ ErrOf(u, i)' = ErrOf(u, j)
    BY <2>1
  <2>3. NoticesOfPastEras'
    BY <1>1, <1>2, <1>3, <2>2 DEF NoticesOfPastEras, Open
  <2>4. OneNoticePerEra'
    BY <2>1 DEF OneNoticePerEra
  <2>5. NoticeMatchesChannel'
    BY <1>1, <1>2, <1>3, <2>2 DEF NoticeMatchesChannel, channel
  <2> QED
    BY <2>3, <2>4, <2>5
<1> QED
  BY <1>4, <1>5, <1>6, KeptSteps

-----------------------------------------------------------------------------
(* The theorems *)

LEMMA InitIInv == Init => IInv
<1> SUFFICES ASSUME Init PROVE IInv
  OBVIOUS
<1>1. TypeOK
  BY InitTypeOK
<1>2. \A t \in Threads : Len(stack[t]) = 0 /\ Notices(t) = {}
  BY DEF Init, Notices
<1>3. MutexHeldOnlyInside /\ LatchInProgress
  BY ThreadAssumption DEF Init, MutexHeldOnlyInside, LatchInProgress, Critical
<1>4. ChannelSettled /\ ReadsCurrent
  BY DEF Init, ChannelSettled, ReadsCurrent, NoError
<1>5. HandlersSettled /\ CallbacksSettled
  BY <1>2, Fields
  DEF Init, HandlersSettled, CallbacksSettled, InstalledError, InstalledLog, NoHandler, Announcing
<1>6. NoticesOfPastEras /\ OneNoticePerEra /\ NoticeMatchesChannel
  BY <1>2 DEF NoticesOfPastEras, OneNoticePerEra, NoticeMatchesChannel
<1>7. DepthCountsCallbacks
  BY <1>2 DEF Init, DepthCountsCallbacks
<1> QED
  BY <1>1, <1>3, <1>4, <1>5, <1>6, <1>7 DEF IInv

LEMMA NextIInv == IInv /\ [Next]_vars => IInv'
<1> SUFFICES ASSUME IInv, [Next]_vars PROVE IInv'
  OBVIOUS
<1> USE DEF IInv
<1>1. TypeOK'
  BY NextTypeOK
<1>2. CASE UNCHANGED vars
  BY <1>1, <1>2
  DEF vars, MutexHeldOnlyInside, LatchInProgress, ChannelSettled, HandlersSettled,
      CallbacksSettled, NoticesOfPastEras, OneNoticePerEra, NoticeMatchesChannel,
      ReadsCurrent, DepthCountsCallbacks, Notices, EraOf, ErrOf, InstalledError, InstalledLog
<1>3. ASSUME NEW t \in Threads, HostStep(t) \/ LibraryStep(t) PROVE IInv'
  BY <1>1, <1>3, MutexStep, LatchStep, ChannelStep, HandlersStep, CallbacksStep, NoticesStep,
     ReadsStep, DepthStep
<1> QED
  BY <1>2, <1>3 DEF Next

\* The inductive invariant holds of every behaviour.
THEOREM Invariance == Spec => []IInv
BY InitIInv, NextIInv, PTL DEF Spec

\* g_mutex is never held while host code runs or a callback is entered, so no
\* callback can wait for its own thread.
THEOREM MutexNeverHeldByHost == Spec => []MutexHeldOnlyInside
<1>1. IInv => MutexHeldOnlyInside
  BY DEF IInv
<1> QED
  BY <1>1, Invariance, PTL

\* g_code and g_message are always of one error, for any number of threads.
THEOREM Coherence == Spec => []ChannelCoherent
<1>1. IInv => ChannelCoherent
  BY ThreadAssumption
  DEF IInv, ChannelCoherent, ChannelSettled, MutexHeldOnlyInside, Critical
<1> QED
  BY <1>1, Invariance, PTL

\* No callback is ever called with another callback's user pointer.
THEOREM Pairing == Spec => []HandlersPaired
<1>1. IInv => HandlersPaired
  BY ThreadAssumption
  DEF IInv, HandlersPaired, HandlersSettled, CallbacksSettled, MutexHeldOnlyInside, Critical
<1> QED
  BY <1>1, Invariance, PTL

\* Between two clears at most one error callback is started, whatever calls fail
\* on whatever threads and at whatever depth.
THEOREM NoticeOnce == Spec => []OneNoticePerEra
<1>1. IInv => OneNoticePerEra
  BY DEF IInv
<1> QED
  BY <1>1, Invariance, PTL

\* The error a callback is given is the one latched, until the next clear.
THEOREM NoticeIsLatched == Spec => []NoticeMatchesChannel
<1>1. IInv => NoticeMatchesChannel
  BY DEF IInv
<1> QED
  BY <1>1, Invariance, PTL

\* A code and a message read by two calls belong together unless a clear came
\* between them.
THEOREM Polling == Spec => []ReadsPaired
<1>1. IInv => ReadsPaired
  <2> SUFFICES ASSUME IInv, NEW t \in Threads, mutex = NoThread, lastCode[t] # None
               PROVE  [code |-> lastCode[t], text |-> message] \in Errors
    BY DEF ReadsPaired
  <2>1. code = lastCode[t]
    BY DEF IInv, ReadsCurrent
  <2>2. [code |-> code, text |-> message] \in Errors \union {NoError}
    BY ThreadAssumption DEF IInv, ChannelSettled, MutexHeldOnlyInside, Critical
  <2> QED
    BY <2>1, <2>2 DEF NoError
<1> QED
  BY <1>1, Invariance, PTL

\* t_reentrancy_depth counts the callbacks running on its thread.
THEOREM DepthIsNesting == Spec => []DepthCountsCallbacks
<1>1. IInv => DepthCountsCallbacks
  BY DEF IInv
<1> QED
  BY <1>1, Invariance, PTL

----------------------------------------------------------------------------
(* ErrorChannel implements the register of StickyLatch: the safety half.     *)

\* StickyLatch without its fairness.
StickyRegister == Abstract!Init /\ [][Abstract!Next]_(Abstract!vars)

-----------------------------------------------------------------------------
(* What the mapped variables are, without the CHOOSE *)

ErrMeaning ==
  /\ \A t \in Threads : pc[t] = "latch.code" => AbstractErr = failure[t]
  /\ (\A t \in Threads : pc[t] # "latch.code") =>
       AbstractErr = IF code = None THEN NoError ELSE [code |-> code, text |-> message]
  /\ AbstractErr = NoError <=> code = None

HandlerMeaning ==
  /\ \A t \in Threads : pc[t] = "setError.cb" => AbstractHandler = local[t]
  /\ (\A t \in Threads : pc[t] # "setError.cb") => AbstractHandler = InstalledError

\* What a thread owes the callback it is about to enter, or will copy.
Announcement(t) == [err |-> failure[t], handler |-> local[t], era |-> latchedIn[t]]
Forthcoming(t) == [err |-> failure[t], handler |-> InstalledError, era |-> latchedIn[t]]

DueMeaning ==
  \A n : n \in AbstractDue <=>
    \/ \E t \in Threads : pc[t] = "announceError" /\ n = Announcement(t)
    \/ errorCb # NoCallback /\ \E t \in Threads : pc[t] = "latch.code" /\ n = Forthcoming(t)

\* One thread at most is in a critical section.
LEMMA OneInside ==
  ASSUME TypeOK, MutexHeldOnlyInside,
         NEW t \in Threads, NEW u \in Threads, pc[t] \in Critical, pc[u] \in Critical
  PROVE  t = u
BY DEF MutexHeldOnlyInside

LEMMA ErrMeant == IInv => ErrMeaning
<1> SUFFICES ASSUME IInv PROVE ErrMeaning
  OBVIOUS
<1>1. ASSUME NEW t \in Threads, pc[t] = "latch.code"
      PROVE  AbstractErr = failure[t] /\ code # None /\ AbstractErr # NoError
  <2>1. Latching = {t}
    BY <1>1, OneInside DEF Latching, Critical, IInv
  <2>2. (CHOOSE u \in Latching : TRUE) = t
    BY <2>1
  <2>3. failure[t] \in Errors /\ code = failure[t].code
    BY <1>1 DEF IInv, LatchInProgress
  <2>4. code # None
    BY <2>3, Pairs, ErrorAssumption
  <2> QED
    BY <2>1, <2>2, <2>3, <2>4 DEF AbstractErr, NoError
<1>2. ASSUME \A t \in Threads : pc[t] # "latch.code"
      PROVE  /\ AbstractErr = IF code = None THEN NoError
                              ELSE [code |-> code, text |-> message]
             /\ AbstractErr = NoError <=> code = None
  <2>1. Latching = {}
    BY <1>2 DEF Latching
  <2> QED
    BY <2>1 DEF AbstractErr, NoError
<1> QED
  BY <1>1, <1>2 DEF ErrMeaning

LEMMA HandlerMeant == IInv => HandlerMeaning
<1> SUFFICES ASSUME IInv PROVE HandlerMeaning
  OBVIOUS
<1>1. ASSUME NEW t \in Threads, pc[t] = "setError.cb"
      PROVE  AbstractHandler = local[t]
  <2>1. Installing = {t}
    BY <1>1, OneInside DEF Installing, Critical, IInv
  <2> QED
    BY <2>1 DEF AbstractHandler
<1>2. ASSUME \A t \in Threads : pc[t] # "setError.cb"
      PROVE  AbstractHandler = InstalledError
  BY <1>2 DEF Installing, AbstractHandler
<1> QED
  BY <1>1, <1>2 DEF HandlerMeaning

LEMMA DueMeant == DueMeaning
BY DEF DueMeaning, AbstractDue, Announcement, Forthcoming, Latching

\* The same after a step.
LEMMA MeantNext == IInv' => ErrMeaning' /\ HandlerMeaning' /\ DueMeaning'
BY ErrMeant, HandlerMeant, DueMeant, PTL

-----------------------------------------------------------------------------
(* Steps the register does not see *)

\* A step of thread t leaves the calls of the other threads where they are.
Others(t) == \A u \in Threads \ {t} :
  /\ pc'[u] = pc[u] /\ failure'[u] = failure[u]
  /\ local'[u] = local[u] /\ latchedIn'[u] = latchedIn[u]

LEMMA OthersStay ==
  ASSUME TypeOK, NEW t \in Threads, HostStep(t) \/ LibraryStep(t)
  PROVE  Others(t)
<1> USE DEF Others, TypeOK
<1>1. ASSUME NEW point \in Waiting, NEW e \in Errors \union {NoError}, NEW h \in Handlers,
             Call(t, point, e, h)
      PROVE  Others(t)
  BY <1>1 DEF Call
<1>2. CASE LeaveCallback(t)
  BY <1>2 DEF LeaveCallback
<1>3. CASE LatchAgain(t) \/ LatchCode(t)
  BY <1>3 DEF LatchAgain, LatchCode, Lock, Return
<1>4. CASE LatchMessage(t)
  BY <1>4 DEF LatchMessage, Unlock, Return
<1>5. CASE EnterErrorCallback(t) \/ EnterLogCallback(t)
  <2>1. Return(t)
    BY <1>5 DEF EnterErrorCallback, EnterLogCallback, Enter
  <2> QED
    BY <2>1 DEF Return
<1>6. CASE Log(t)
  BY <1>6 DEF Log, Return
<1>7. CASE LastError(t) \/ LastErrorMessage(t)
  BY <1>7 DEF LastError, LastErrorMessage, Return
<1>8. CASE ClearCode(t) \/ ClearMessage(t)
  BY <1>8 DEF ClearCode, ClearMessage, Lock, Return
<1>9. CASE SetErrorCb(t) \/ SetErrorUser(t)
  BY <1>9 DEF SetErrorCb, SetErrorUser, Lock, Return
<1>10. CASE SetLogCb(t) \/ SetLogUser(t)
  BY <1>10 DEF SetLogCb, SetLogUser, Lock, Return
<1> QED
  BY <1>1, <1>2, <1>3, <1>4, <1>5, <1>6, <1>7, <1>8, <1>9, <1>10, HostStepCases
  DEF LibraryStep

\* The points of a call at which the register depends on its locals.
Visible == {"latch.code", "announceError", "setError.cb"}

\* The notices due depend on the calls at these points only.
LEMMA DueUnmoved ==
  ASSUME NEW t \in Threads, Others(t), UNCHANGED errorHandler,
         pc[t] \notin {"latch.code", "announceError"},
         pc'[t] \notin {"latch.code", "announceError"}
  PROVE  AbstractDue' = AbstractDue
<1>1. InstalledError' = InstalledError /\ errorCb' = errorCb
  BY DEF InstalledError, errorHandler
<1>2. \A u \in Threads : pc[u] \in {"latch.code", "announceError"} \/
                           pc'[u] \in {"latch.code", "announceError"} =>
        /\ pc'[u] = pc[u]
        /\ Announcement(u)' = Announcement(u) /\ Forthcoming(u)' = Forthcoming(u)
  BY <1>1 DEF Others, Announcement, Forthcoming
<1>3. DueMeaning /\ DueMeaning'
  BY DueMeant, PTL
<1>4. \A n : n \in AbstractDue <=> n \in AbstractDue'
  BY <1>1, <1>2, <1>3 DEF DueMeaning
<1>5. ASSUME NEW n PROVE n \in AbstractDue <=> n \in AbstractDue'
  BY <1>4
<1> QED
  BY <1>5 DEF AbstractDue

\* A step at none of these points that writes none of the globals the register
\* consists of, the message of a channel being cleared apart, is not seen.
LEMMA Unmoved ==
  ASSUME IInv, IInv', NEW t \in Threads, Others(t), UNCHANGED <<errorHandler, code, era>>,
         code # None => message' = message,
         pc[t] \notin Visible, pc'[t] \notin Visible
  PROVE  UNCHANGED Abstract!vars
<1>1. ErrMeaning /\ HandlerMeaning /\ ErrMeaning' /\ HandlerMeaning'
  BY ErrMeant, HandlerMeant, MeantNext
<1>2. AbstractErr' = AbstractErr
  <2>1. CASE \E u \in Threads : pc[u] = "latch.code"
    <3>1. PICK u \in Threads : pc[u] = "latch.code"
      BY <2>1
    <3>2. pc'[u] = "latch.code" /\ failure'[u] = failure[u]
      BY <3>1 DEF Visible, Others
    <3> QED
      BY <1>1, <3>1, <3>2 DEF ErrMeaning
  <2>2. CASE \A u \in Threads : pc[u] # "latch.code"
    <3>1. \A u \in Threads : pc'[u] # "latch.code"
      BY <2>2 DEF Visible, Others
    <3> QED
      BY <1>1, <2>2, <3>1 DEF ErrMeaning
  <2> QED
    BY <2>1, <2>2
<1>3. AbstractHandler' = AbstractHandler
  <2>1. CASE \E u \in Threads : pc[u] = "setError.cb"
    <3>1. PICK u \in Threads : pc[u] = "setError.cb"
      BY <2>1
    <3>2. pc'[u] = "setError.cb" /\ local'[u] = local[u]
      BY <3>1 DEF Visible, Others
    <3> QED
      BY <1>1, <3>1, <3>2 DEF HandlerMeaning
  <2>2. CASE \A u \in Threads : pc[u] # "setError.cb"
    <3>1. \A u \in Threads : pc'[u] # "setError.cb"
      BY <2>2 DEF Visible, Others
    <3> QED
      BY <1>1, <2>2, <3>1 DEF HandlerMeaning, InstalledError, errorHandler
  <2> QED
    BY <2>1, <2>2
<1>4. AbstractDue' = AbstractDue
  BY DueUnmoved DEF Visible
<1> QED
  BY <1>2, <1>3, <1>4 DEF Abstract!vars

-----------------------------------------------------------------------------
(* Steps the register sees *)

\* While the mutex is free nobody is inside.
LEMMA NobodyInside ==
  ASSUME IInv, mutex = NoThread
  PROVE  \A u \in Threads : pc[u] # "latch.code" /\ pc[u] # "setError.cb"
BY ThreadAssumption DEF IInv, MutexHeldOnlyInside, Critical

\* Nobody but the thread in a critical section is in one.
LEMMA NobodyElseInside ==
  ASSUME IInv, NEW t \in Threads, pc[t] \in Critical
  PROVE  \A u \in Threads : u # t => pc[u] # "latch.code" /\ pc[u] # "setError.cb"
BY OneInside DEF IInv, Critical

\* Writing g_code latches the error.
LEMMA LatchCodeLatches ==
  ASSUME IInv, IInv', NEW t \in Threads, Others(t), LatchCode(t)
  PROVE  Abstract!Latch(failure[t])
<1>1. /\ pc[t] = "latch" /\ mutex = NoThread /\ code = None /\ code' = failure[t].code
      /\ pc' = [pc EXCEPT ![t] = "latch.code"] /\ failure' = failure /\ local' = local
      /\ latchedIn' = [latchedIn EXCEPT ![t] = era] /\ era' = era
      /\ errorCb' = errorCb /\ errorUser' = errorUser
  BY DEF LatchCode, Lock, errorHandler
<1>2. \A u \in Threads : pc[u] # "latch.code" /\ pc[u] # "setError.cb"
  BY <1>1, NobodyInside
<1>3. /\ pc'[t] = "latch.code" /\ latchedIn'[t] = era
      /\ \A u \in Threads : pc'[u] # "setError.cb"
      /\ \A u \in Threads : pc'[u] = "latch.code" <=> u = t
  BY <1>1, <1>2 DEF Others, IInv, TypeOK
<1>4. ErrMeaning /\ HandlerMeaning /\ ErrMeaning' /\ HandlerMeaning' /\ DueMeaning /\ DueMeaning'
  BY ErrMeant, HandlerMeant, MeantNext, DueMeant
<1>5. InstalledError' = InstalledError /\ InstalledError.cb = errorCb
  BY <1>1 DEF InstalledError
<1>6. AbstractErr = NoError /\ AbstractErr' = failure[t]
  BY <1>1, <1>3, <1>4 DEF ErrMeaning
<1>7. AbstractHandler = InstalledError /\ AbstractHandler' = AbstractHandler
  BY <1>2, <1>3, <1>4, <1>5 DEF HandlerMeaning
<1> DEFINE new == [err |-> failure[t], handler |-> InstalledError, era |-> era]
<1>8. Forthcoming(t)' = new
  BY <1>1, <1>3, <1>5 DEF Forthcoming
<1>9. ASSUME NEW n
      PROVE  n \in AbstractDue' <=>
               n \in AbstractDue \/ (errorCb # NoCallback /\ n = new)
  <2>1. \A u \in Threads : pc'[u] = "announceError" <=> pc[u] = "announceError"
    BY <1>1, <1>3 DEF Others
  <2>2. \A u \in Threads : pc[u] = "announceError" => Announcement(u)' = Announcement(u)
    BY <1>1 DEF Others, Announcement
  <2>3. n \in AbstractDue' <=>
          \/ \E u \in Threads : pc[u] = "announceError" /\ n = Announcement(u)
          \/ errorCb # NoCallback /\ n = new
    BY <1>1, <1>3, <1>4, <1>8, <2>1, <2>2 DEF DueMeaning
  <2>4. n \in AbstractDue <=>
          \E u \in Threads : pc[u] = "announceError" /\ n = Announcement(u)
    BY <1>2, <1>4 DEF DueMeaning
  <2> QED
    BY <2>3, <2>4
<1>10. AbstractDue' = IF InstalledError.cb = NoCallback THEN AbstractDue
                      ELSE AbstractDue \union {new}
  BY <1>5, <1>9 DEF AbstractDue
<1> QED
  BY <1>1, <1>6, <1>7, <1>10 DEF Abstract!Latch

\* Writing g_message is not seen: the error is latched already, and what is due
\* is due before and after.
LEMMA LatchMessageUnseen ==
  ASSUME IInv, IInv', NEW t \in Threads, Others(t), LatchMessage(t)
  PROVE  UNCHANGED Abstract!vars
<1>1. /\ pc[t] = "latch.code" /\ code' = code /\ message' = failure[t].text /\ era' = era
      /\ errorCb' = errorCb /\ errorUser' = errorUser
  BY DEF LatchMessage, Unlock, errorHandler
<1>2. /\ errorCb # NoCallback =>
           /\ pc' = [pc EXCEPT ![t] = "announceError"] /\ local' = [local EXCEPT ![t] = InstalledError]
           /\ failure' = failure /\ latchedIn' = latchedIn
      /\ errorCb = NoCallback => pc' = [pc EXCEPT ![t] = "host"]
  BY DEF LatchMessage, Return
<1>3. /\ errorCb # NoCallback => pc'[t] = "announceError" /\ Announcement(t)' = Forthcoming(t)
      /\ errorCb = NoCallback => pc'[t] = "host"
  BY <1>2 DEF IInv, TypeOK, Announcement, Forthcoming
<1>4. \A u \in Threads : u # t => pc[u] # "latch.code" /\ pc[u] # "setError.cb"
  BY <1>1, NobodyElseInside DEF Critical
<1>5. /\ \A u \in Threads : pc'[u] # "setError.cb" /\ pc'[u] # "latch.code"
      /\ \A u \in Threads : pc[u] # "setError.cb"
  BY <1>1, <1>3, <1>4 DEF Others
<1>6. ErrMeaning /\ HandlerMeaning /\ ErrMeaning' /\ HandlerMeaning' /\ DueMeaning /\ DueMeaning'
  BY ErrMeant, HandlerMeant, MeantNext, DueMeant
<1>7. InstalledError' = InstalledError
  BY <1>1 DEF InstalledError
<1>8. AbstractErr' = AbstractErr
  <2>1. failure[t] \in Errors /\ code = failure[t].code
    BY <1>1 DEF IInv, LatchInProgress
  <2>2. code # None /\ failure[t] = [code |-> code, text |-> failure[t].text]
    BY <2>1, Pairs, ErrorAssumption
  <2>3. AbstractErr = failure[t]
    BY <1>1, <1>6 DEF ErrMeaning
  <2>4. AbstractErr' = [code |-> code', text |-> message']
    BY <1>1, <1>5, <1>6, <2>2 DEF ErrMeaning
  <2> QED
    BY <1>1, <2>2, <2>3, <2>4
<1>9. AbstractHandler' = AbstractHandler
  BY <1>5, <1>6, <1>7 DEF HandlerMeaning
<1>10. ASSUME NEW n PROVE n \in AbstractDue' <=> n \in AbstractDue
  <2>1. \A u \in Threads : u # t =>
          /\ pc'[u] = pc[u] /\ Announcement(u)' = Announcement(u)
    BY DEF Others, Announcement
  <2>2. n \in AbstractDue <=>
          \/ \E u \in Threads : u # t /\ pc[u] = "announceError" /\ n = Announcement(u)
          \/ errorCb # NoCallback /\ n = Forthcoming(t)
    BY <1>1, <1>4, <1>6 DEF DueMeaning
  <2>3. n \in AbstractDue' <=>
          \E u \in Threads : pc'[u] = "announceError" /\ n = Announcement(u)'
    BY <1>5, <1>6 DEF DueMeaning
  <2> QED
    BY <1>3, <2>1, <2>2, <2>3
<1>11. AbstractDue' = AbstractDue
  BY <1>10 DEF AbstractDue
<1> QED
  BY <1>1, <1>8, <1>9, <1>11 DEF Abstract!vars

\* Entering the callback starts a notice that is due, and no other thread owes
\* the same one, since its era is different.
LEMMA EnterStarts ==
  ASSUME IInv, IInv', NEW t \in Threads, Others(t), EnterErrorCallback(t)
  PROVE  Abstract!Start(Announcement(t))
<1>1. /\ pc[t] = "announceError" /\ pc' = [pc EXCEPT ![t] = "host"]
      /\ code' = code /\ message' = message /\ era' = era
      /\ errorCb' = errorCb /\ errorUser' = errorUser
  BY DEF EnterErrorCallback, Enter, Return, channel, errorHandler
<1>2. pc'[t] = "host"
  BY <1>1 DEF IInv, TypeOK
<1>3. ErrMeaning /\ HandlerMeaning /\ ErrMeaning' /\ HandlerMeaning' /\ DueMeaning /\ DueMeaning'
  BY ErrMeant, HandlerMeant, MeantNext, DueMeant
<1>4. \A u \in Threads : u # t =>
        /\ pc'[u] = pc[u] /\ failure'[u] = failure[u] /\ local'[u] = local[u]
        /\ Announcement(u)' = Announcement(u) /\ Forthcoming(u)' = Forthcoming(u)
  BY <1>1 DEF Others, Announcement, Forthcoming, InstalledError
<1>5. \A u \in Threads : u # t /\ pc[u] = "announceError" => Announcement(u) # Announcement(t)
  <2> SUFFICES ASSUME NEW u \in Threads, u # t, pc[u] = "announceError"
               PROVE  latchedIn[u] # latchedIn[t]
    BY DEF Announcement
  <2>1. Len(stack[t]) \in Nat /\ Len(stack[u]) \in Nat
    BY LenProperties DEF IInv, TypeOK
  <2>2. 0 \in Notices(t) /\ 0 \in Notices(u)
    BY <1>1, <2>1 DEF Notices
  <2> QED
    BY <2>2 DEF IInv, OneNoticePerEra, EraOf
<1>6. \A u \in Threads : pc[u] = "latch.code" => Forthcoming(u) # Announcement(t)
  <2> SUFFICES ASSUME NEW u \in Threads, pc[u] = "latch.code"
               PROVE  latchedIn[u] # latchedIn[t]
    BY DEF Announcement, Forthcoming
  <2>1. Len(stack[t]) \in Nat /\ era \in Nat /\ latchedIn[t] \in Nat
    BY LenProperties DEF IInv, TypeOK
  <2>2. 0 \in Notices(t)
    BY <1>1, <2>1 DEF Notices
  <2>3. latchedIn[t] < era
    BY <2>2 DEF IInv, NoticesOfPastEras, EraOf
  <2>4. latchedIn[u] = era
    BY DEF IInv, LatchInProgress
  <2> QED
    BY <2>1, <2>3, <2>4
<1>7. ASSUME NEW n PROVE n \in AbstractDue' <=> n \in AbstractDue /\ n # Announcement(t)
  <2>1. n \in AbstractDue' <=>
          \/ \E u \in Threads : u # t /\ pc[u] = "announceError" /\ n = Announcement(u)
          \/ errorCb # NoCallback /\ \E u \in Threads :
               u # t /\ pc[u] = "latch.code" /\ n = Forthcoming(u)
    BY <1>1, <1>2, <1>3, <1>4 DEF DueMeaning
  <2>2. n \in AbstractDue <=>
          \/ n = Announcement(t)
          \/ \E u \in Threads : u # t /\ pc[u] = "announceError" /\ n = Announcement(u)
          \/ errorCb # NoCallback /\ \E u \in Threads :
               u # t /\ pc[u] = "latch.code" /\ n = Forthcoming(u)
    BY <1>1, <1>3 DEF DueMeaning
  <2> QED
    BY <1>5, <1>6, <2>1, <2>2
<1>8. Announcement(t) \in AbstractDue /\ AbstractDue' = AbstractDue \ {Announcement(t)}
  <2>1. Announcement(t) \in AbstractDue
    BY <1>1, <1>3 DEF DueMeaning
  <2> QED
    BY <1>7, <2>1 DEF AbstractDue
<1>9. AbstractErr' = AbstractErr
  <2>1. CASE \E u \in Threads : pc[u] = "latch.code"
    BY <1>1, <1>3, <1>4, <2>1 DEF ErrMeaning
  <2>2. CASE \A u \in Threads : pc[u] # "latch.code"
    <3>1. \A u \in Threads : pc'[u] # "latch.code"
      BY <1>2, <1>4, <2>2
    <3> QED
      BY <1>1, <1>3, <2>2, <3>1 DEF ErrMeaning
  <2> QED
    BY <2>1, <2>2
<1>10. AbstractHandler' = AbstractHandler
  <2>1. CASE \E u \in Threads : pc[u] = "setError.cb"
    BY <1>1, <1>3, <1>4, <2>1 DEF HandlerMeaning
  <2>2. CASE \A u \in Threads : pc[u] # "setError.cb"
    <3>1. \A u \in Threads : pc'[u] # "setError.cb"
      BY <1>2, <1>4, <2>2
    <3> QED
      BY <1>1, <1>3, <2>2, <3>1 DEF HandlerMeaning, InstalledError
  <2> QED
    BY <2>1, <2>2
<1> QED
  BY <1>1, <1>8, <1>9, <1>10 DEF Abstract!Start

\* Resetting g_code clears a latched register, and is not seen on a clear one.
LEMMA ClearCodeClears ==
  ASSUME IInv, IInv', NEW t \in Threads, Others(t), ClearCode(t)
  PROVE  Abstract!Clear \/ UNCHANGED Abstract!vars
<1>1. /\ pc[t] = "clear" /\ mutex = NoThread /\ code' = None
      /\ pc' = [pc EXCEPT ![t] = "clear.code"]
      /\ era' = IF code = None THEN era ELSE era + 1
      /\ message' = message /\ UNCHANGED errorHandler
  BY DEF ClearCode, Lock
<1>2. pc'[t] = "clear.code"
  BY <1>1 DEF IInv, TypeOK
<1>3. CASE code = None
  BY <1>1, <1>2, <1>3, Unmoved DEF Visible
<1>4. CASE code # None
  <2>1. \A u \in Threads : pc[u] # "setError.cb" /\ pc'[u] # "setError.cb"
    BY <1>1, <1>2, NobodyInside DEF Others
  <2>2. ErrMeaning /\ HandlerMeaning /\ ErrMeaning' /\ HandlerMeaning'
    BY ErrMeant, HandlerMeant, MeantNext
  <2>3. AbstractErr # NoError /\ AbstractErr' = NoError
    BY <1>1, <1>4, <2>2 DEF ErrMeaning
  <2>4. AbstractHandler' = AbstractHandler
    BY <1>1, <2>1, <2>2 DEF HandlerMeaning, InstalledError, errorHandler
  <2>5. AbstractDue' = AbstractDue
    BY <1>1, <1>2, DueUnmoved
  <2> QED
    BY <1>1, <1>4, <2>3, <2>4, <2>5 DEF Abstract!Clear
<1> QED
  BY <1>3, <1>4

\* Writing g_error_cb installs the pair.
LEMMA SetErrorCbInstalls ==
  ASSUME IInv, IInv', NEW t \in Threads, Others(t), SetErrorCb(t)
  PROVE  Abstract!SetHandler(local[t])
<1>1. /\ pc[t] = "setError" /\ mutex = NoThread /\ pc' = [pc EXCEPT ![t] = "setError.cb"]
      /\ failure' = failure /\ local' = local /\ latchedIn' = latchedIn
      /\ code' = code /\ message' = message /\ era' = era
  BY DEF SetErrorCb, Lock, channel
<1>2. pc'[t] = "setError.cb"
  BY <1>1 DEF IInv, TypeOK
<1>3. \A u \in Threads : pc[u] # "latch.code" /\ pc'[u] # "latch.code"
  BY <1>1, <1>2, NobodyInside DEF Others
<1>4. ErrMeaning /\ HandlerMeaning /\ ErrMeaning' /\ HandlerMeaning' /\ DueMeaning /\ DueMeaning'
  BY ErrMeant, HandlerMeant, MeantNext, DueMeant
<1>5. AbstractErr' = AbstractErr
  BY <1>1, <1>3, <1>4 DEF ErrMeaning
<1>6. AbstractHandler' = local[t]
  BY <1>1, <1>2, <1>4 DEF HandlerMeaning
<1>7. ASSUME NEW n PROVE n \in AbstractDue' <=> n \in AbstractDue
  <2>1. \A u \in Threads : /\ pc'[u] = "announceError" <=> pc[u] = "announceError"
                           /\ Announcement(u)' = Announcement(u)
    BY <1>1, <1>2 DEF Others, Announcement
  <2> QED
    BY <1>3, <1>4, <2>1 DEF DueMeaning
<1>8. AbstractDue' = AbstractDue
  BY <1>7 DEF AbstractDue
<1> QED
  BY <1>1, <1>5, <1>6, <1>8 DEF Abstract!SetHandler

\* Writing g_error_user is not seen: the pair is installed already.
LEMMA SetErrorUserUnseen ==
  ASSUME IInv, IInv', NEW t \in Threads, Others(t), SetErrorUser(t)
  PROVE  UNCHANGED Abstract!vars
<1>1. /\ pc[t] = "setError.cb" /\ pc' = [pc EXCEPT ![t] = "host"]
      /\ code' = code /\ message' = message /\ era' = era
      /\ errorCb' = errorCb /\ errorUser' = local[t].user
  BY DEF SetErrorUser, Unlock, Return, channel
<1>2. pc'[t] = "host"
  BY <1>1 DEF IInv, TypeOK
<1>3. \A u \in Threads : u # t => pc[u] # "latch.code" /\ pc[u] # "setError.cb"
  BY <1>1, NobodyElseInside DEF Critical
<1>4. /\ \A u \in Threads : pc'[u] # "latch.code" /\ pc'[u] # "setError.cb"
      /\ \A u \in Threads : pc[u] # "latch.code"
  BY <1>1, <1>2, <1>3 DEF Others
<1>5. ErrMeaning /\ HandlerMeaning /\ ErrMeaning' /\ HandlerMeaning' /\ DueMeaning /\ DueMeaning'
  BY ErrMeant, HandlerMeant, MeantNext, DueMeant
<1>6. AbstractErr' = AbstractErr
  BY <1>1, <1>4, <1>5 DEF ErrMeaning
<1>7. AbstractHandler' = AbstractHandler
  <2>1. local[t] \in Handlers /\ errorCb = local[t].cb
    BY <1>1 DEF IInv, HandlersSettled
  <2>2. local[t] = [cb |-> errorCb, user |-> local[t].user]
    BY <2>1, Pairs
  <2>3. AbstractHandler = local[t]
    BY <1>1, <1>5 DEF HandlerMeaning
  <2>4. AbstractHandler' = [cb |-> errorCb', user |-> errorUser']
    BY <1>4, <1>5 DEF HandlerMeaning, InstalledError
  <2> QED
    BY <1>1, <2>2, <2>3, <2>4
<1>8. ASSUME NEW n PROVE n \in AbstractDue' <=> n \in AbstractDue
  <2>1. \A u \in Threads : /\ pc'[u] = "announceError" <=> pc[u] = "announceError"
                           /\ pc[u] = "announceError" => Announcement(u)' = Announcement(u)
    BY <1>1, <1>2 DEF Others, Announcement
  <2> QED
    BY <1>4, <1>5, <2>1 DEF DueMeaning
<1>9. AbstractDue' = AbstractDue
  BY <1>8 DEF AbstractDue
<1> QED
  BY <1>1, <1>6, <1>7, <1>9 DEF Abstract!vars

-----------------------------------------------------------------------------
(* Every step is a step of the register or none *)

LEMMA InitMaps == Init => Abstract!Init
<1> SUFFICES ASSUME Init PROVE Abstract!Init
  OBVIOUS
<1>1. Latching = {} /\ Installing = {} /\ \A u \in Threads : pc[u] = "host"
  BY DEF Init, Latching, Installing
<1>2. AbstractErr = NoError
  BY DEF Init, AbstractErr
<1>3. AbstractHandler = NoHandler
  BY <1>1 DEF Init, AbstractHandler, InstalledError, NoHandler
<1>4. AbstractDue = {}
  BY <1>1 DEF AbstractDue
<1> QED
  BY <1>2, <1>3, <1>4 DEF Init, Abstract!Init

LEMMA StepMaps ==
  ASSUME IInv, IInv', NEW t \in Threads, HostStep(t) \/ LibraryStep(t)
  PROVE  Abstract!Next \/ UNCHANGED Abstract!vars
<1>0. Others(t) /\ pc \in [Threads -> {"host"} \union Critical \union Waiting \union Announcing]
  BY OthersStay DEF IInv, TypeOK
<1> DEFINE Hidden == /\ UNCHANGED <<errorHandler, code, message, era>>
                     /\ pc[t] \notin Visible /\ pc'[t] \notin Visible
<1>1. Hidden => UNCHANGED Abstract!vars
  BY <1>0, Unmoved
<1>2. ASSUME NEW point \in Waiting, NEW e \in Errors \union {NoError}, NEW h \in Handlers,
             Call(t, point, e, h)
      PROVE  Hidden
  BY <1>0, <1>2 DEF Call, Waiting, Visible, channel
<1>3. CASE LeaveCallback(t)
  BY <1>0, <1>3, <1>1 DEF LeaveCallback, Visible, channel
<1>4. CASE LatchAgain(t)
  BY <1>0, <1>4, <1>1 DEF LatchAgain, Access, Return, Visible, channel
<1>5. CASE LatchCode(t)
  <2>1. failure[t] \in Errors
    BY <1>5 DEF LatchCode, Lock, IInv, LatchInProgress
  <2> QED
    BY <1>0, <1>5, <2>1, LatchCodeLatches DEF Abstract!Next
<1>6. CASE LatchMessage(t)
  BY <1>0, <1>6, LatchMessageUnseen
<1>7. CASE EnterErrorCallback(t)
  <2>1. Abstract!Start(Announcement(t))
    BY <1>0, <1>7, EnterStarts
  <2>2. Announcement(t) \in AbstractDue
    BY <2>1 DEF Abstract!Start
  <2> QED
    BY <2>1, <2>2 DEF Abstract!Next
<1>8. CASE Log(t)
  BY <1>0, <1>8, <1>1 DEF Log, Access, Return, Visible, channel
<1>9. CASE EnterLogCallback(t)
  <2>1. pc[t] = "announceLog" /\ pc' = [pc EXCEPT ![t] = "host"]
        /\ UNCHANGED <<errorHandler, code, message, era>>
    BY <1>9 DEF EnterLogCallback, Enter, Return, channel
  <2> QED
    BY <1>0, <1>1, <2>1 DEF Visible
<1>10. CASE LastError(t)
  BY <1>0, <1>10, <1>1 DEF LastError, Access, Return, Visible, channel
<1>11. CASE LastErrorMessage(t)
  BY <1>0, <1>11, <1>1 DEF LastErrorMessage, Access, Return, Visible, channel
<1>12. CASE ClearCode(t)
  BY <1>0, <1>12, ClearCodeClears DEF Abstract!Next
<1>13. CASE ClearMessage(t)
  <2>1. /\ pc[t] = "clear.code" /\ pc' = [pc EXCEPT ![t] = "host"]
        /\ UNCHANGED <<errorHandler, code, era>>
    BY <1>13 DEF ClearMessage, Unlock, Return
  <2>2. code = None
    BY <2>1 DEF IInv, LatchInProgress
  <2>3. pc'[t] = "host"
    BY <1>0, <2>1
  <2> QED
    BY <1>0, <2>1, <2>2, <2>3, Unmoved DEF Visible
<1>14. CASE SetErrorCb(t)
  <2>1. local[t] \in Handlers
    BY DEF IInv, HandlersSettled
  <2> QED
    BY <1>0, <1>14, <2>1, SetErrorCbInstalls DEF Abstract!Next
<1>15. CASE SetErrorUser(t)
  BY <1>0, <1>15, SetErrorUserUnseen
<1>16. CASE SetLogCb(t)
  BY <1>0, <1>16, <1>1 DEF SetLogCb, Lock, Visible, channel
<1>17. CASE SetLogUser(t)
  BY <1>0, <1>17, <1>1 DEF SetLogUser, Unlock, Return, Visible, channel
<1> QED
  BY <1>1, <1>2, <1>3, <1>4, <1>5, <1>6, <1>7, <1>8, <1>9, <1>10, <1>11, <1>12, <1>13, <1>14,
     <1>15, <1>16, <1>17, HostStepCases DEF LibraryStep

LEMMA NextMaps == IInv /\ IInv' /\ [Next]_vars => [Abstract!Next]_(Abstract!vars)
<1> SUFFICES ASSUME IInv, IInv', [Next]_vars
             PROVE  Abstract!Next \/ UNCHANGED Abstract!vars
  OBVIOUS
<1>1. CASE UNCHANGED vars
  BY <1>1 DEF vars, Abstract!vars, AbstractErr, AbstractHandler, AbstractDue, Latching,
     Installing, InstalledError
<1>2. CASE Next
  BY <1>2, StepMaps DEF Next
<1> QED
  BY <1>1, <1>2

\* Threads, mutex and two-step writes are not to be seen: the channel is the
\* atomic register that keeps the first error since the last clear and starts
\* the callback installed at the latch once.
THEOREM ChannelIsStickyRegister == Spec => StickyRegister
BY InitMaps, NextMaps, NextIInv, Invariance, PTL DEF Spec, StickyRegister
=============================================================================
