--------------------------- MODULE BoundaryProofs ---------------------------
(* Proofs about Boundary, for any threads, callbacks and bounds. *)
EXTENDS Boundary, TLAPS, SequenceTheorems

-----------------------------------------------------------------------------
(* What the proofs use of the exports, of frames and of sequences *)

\* The exports are told apart from the callback, and what each checks.
LEMMA ExportFacts ==
  /\ \A x \in Exports :
       /\ x # Callback
       /\ x.buffer \in {"none", "string", "array", "rows"}
       /\ x.game \in BOOLEAN
       /\ x.handles \in {0, 1, 2}
       /\ x.handles > 0 => x.game
       /\ x.buffer = "rows" => x \in Wrappers /\ ~x.game /\ x.handles = 0
  /\ Callback.buffer = "none" /\ ~Callback.game /\ Callback.handles = 0
  /\ Connect.buffer = "none" /\ ~Connect.game /\ Connect.handles = 0
  /\ Update.buffer = "none" /\ Update.game /\ Update.handles = 0
  /\ Disconnect.buffer = "none" /\ ~Disconnect.game /\ Disconnect.handles = 0
  /\ Update # Connect /\ Disconnect # Connect /\ Update # Disconnect
BY DEF Exports, Wrappers, PlayerName, PlayerUnits, PlayerAlly, PlayerValue, TypeName, TypeIds,
   TypeTable, TypeValue, Connect, Update, Disconnect, Callback, Export

LEMMA WrapperFacts ==
  /\ Connect \notin Wrappers /\ Update \notin Wrappers /\ Disconnect \notin Wrappers
  /\ Wrappers \subseteq Exports
  /\ Connect \in Exports /\ Update \in Exports /\ Disconnect \in Exports
BY DEF Exports, Wrappers, PlayerName, PlayerUnits, PlayerAlly, PlayerValue, TypeName, TypeIds,
   TypeTable, TypeValue, Connect, Update, Disconnect, Callback, Export

\* BWAPI_ERR_NONE is none of the codes a failure has.
LEMMA NoneIsNoCode == None \notin Codes
BY DEF None, Codes

\* Replacing the frame on top leaves those below it.
LEMMA ReplaceTop ==
  ASSUME NEW s \in Seq(Frame), s # <<>>, NEW f \in Frame
  PROVE  LET r == [s EXCEPT ![Len(s)] = f]
         IN  /\ Len(s) \in Nat /\ Len(s) > 0
             /\ s[Len(s)] \in Frame
             /\ r \in Seq(Frame) /\ r # <<>>
             /\ Len(r) = Len(s)
             /\ r[Len(s)] = f
             /\ \A i \in 1..Len(s) : i # Len(s) => r[i] = s[i]
<1>1. Len(s) \in Nat /\ Len(s) > 0
  BY EmptySeq, LenProperties
<1>2. Len(s) \in 1..Len(s)
  BY <1>1
<1> DEFINE r == [s EXCEPT ![Len(s)] = f]
<1>3. /\ r \in Seq(Frame) /\ Len(r) = Len(s)
      /\ \A j \in 1..Len(s) : r[j] = IF j = Len(s) THEN f ELSE s[j]
  BY <1>2, ExceptSeq
<1>4. r # <<>>
  BY <1>1, <1>3, EmptySeq
<1>5. s[Len(s)] \in Frame
  BY <1>2, ElementOfSeq
<1> HIDE DEF r
<1>6. r[Len(s)] = f /\ \A i \in 1..Len(s) : i # Len(s) => r[i] = s[i]
  BY <1>2, <1>3
<1> QED
  BY <1>1, <1>3, <1>4, <1>5, <1>6 DEF r

\* What popping a stack leaves.
LEMMA PopTop ==
  ASSUME NEW s \in Seq(Frame), s # <<>>
  PROVE  LET p == SubSeq(s, 1, Len(s) - 1)
         IN  /\ p \in Seq(Frame)
             /\ Len(s) \in Nat /\ Len(s) > 0
             /\ Len(p) = Len(s) - 1
             /\ \A i \in 1..Len(p) : p[i] = s[i]
             /\ p = <<>> <=> Len(s) = 1
<1>1. Len(s) \in Nat /\ Len(s) > 0
  BY EmptySeq, LenProperties
<1>2. \A i \in 1..(Len(s) - 1) : s[i] \in Frame
  BY <1>1, ElementOfSeq
<1> DEFINE n == Len(s) - 1
<1>3. 1 \in Int /\ n \in Int /\ n \geq 0 /\ \A i \in 1..n : s[i] \in Frame
  BY <1>1, <1>2
<1> HIDE DEF n
<1>4. /\ SubSeq(s, 1, n) \in Seq(Frame)
      /\ Len(SubSeq(s, 1, n)) = IF 1 \leq n THEN n - 1 + 1 ELSE 0
      /\ \A i \in 1..(n - 1 + 1) : SubSeq(s, 1, n)[i] = s[1 + i - 1]
  BY <1>3
<1>5. Len(SubSeq(s, 1, n)) = n /\ \A i \in 1..n : SubSeq(s, 1, n)[i] = s[i]
  BY <1>3, <1>4
<1>6. SubSeq(s, 1, n) = <<>> <=> n = 0
  BY <1>4, <1>5, EmptySeq
<1> QED
  BY <1>1, <1>4, <1>5, <1>6 DEF n

\* What pushing a frame adds.
LEMMA PushTop ==
  ASSUME NEW s \in Seq(Frame), NEW f \in Frame
  PROVE  LET r == Append(s, f)
         IN  /\ Len(s) \in Nat
             /\ r \in Seq(Frame) /\ r # <<>>
             /\ Len(r) = Len(s) + 1
             /\ r[Len(r)] = f
             /\ \A i \in 1..Len(s) : r[i] = s[i]
<1>1. Len(s) \in Nat
  BY LenProperties
<1> DEFINE r == Append(s, f)
<1>2. /\ r \in Seq(Frame) /\ Len(r) = Len(s) + 1
      /\ r[Len(s) + 1] = f /\ \A i \in 1..Len(s) : r[i] = s[i]
  BY AppendProperties
<1>3. r # <<>>
  BY <1>1, <1>2, EmptySeq
<1> QED
  BY <1>1, <1>2, <1>3

\* The frame on top is a frame.
LEMMA TopIsFrame ==
  ASSUME TypeOK, stack # <<>>
  PROVE  Top \in Frame /\ Len(stack) \in 1..Len(stack)
<1>1. stack \in Seq(Frame)
  BY DEF TypeOK
<1>2. Len(stack) \in Nat \ {0}
  BY <1>1, EmptySeq
<1>3. Len(stack) \in 1..Len(stack)
  BY <1>2
<1> QED
  BY <1>1, <1>3, ElementOfSeq DEF Top

-----------------------------------------------------------------------------
(* Frames *)

\* A suspended call, or callback, stays what it is whatever the steps above it
\* do, as long as an error is only reset by a clear, which opens an era.
LEMMA StillOK ==
  ASSUME NEW f \in Frame, f.at \in {"host", "return"}, FrameOK(f),
         era \in Nat, era' \in Nat,
         era < era' \/ (era' = era /\ (err # None => err' # None))
  PROVE  FrameOK(f)'
<1>1. Progress(f)'
  BY DEF FrameOK, Progress, Frame
<1>2. LiveTouch(f)'
  BY DEF LiveTouch, Touching
<1>3. Reported(f)'
  BY DEF FrameOK, Reported, Progress, Frame
<1>4. Neutral(f)'
  BY DEF FrameOK, Neutral
<1> QED
  BY <1>1, <1>2, <1>3, <1>4 DEF FrameOK

\* A step of the running call: it replaces the frame on top, and what it does to
\* the rest keeps the types and the channel's promise.
LEMMA RunningStep ==
  ASSUME IInv, stack # <<>>, Top.at # "host", Top.at # "return",
         NEW f \in Frame, f.export = Top.export, Replace(f), thread' = thread,
         Channel!TypeOK', game' \in Nat, games' \in Nat,
         abiThread' \in Threads \union {NoThread},
         era' = era, err # None => err' # None,
         BoundWhileConnected', FrameOK(f)',
         \A n \in due' : err' # None /\ f.at = "return" /\ n.err = f.failed
                          /\ n.era \leq era /\ due' = {n}
  PROVE  IInv'
<1>1. stack \in Seq(Frame)
  BY DEF IInv, TypeOK
<1>2. /\ Len(stack) \in Nat /\ Len(stack) > 0
      /\ stack' \in Seq(Frame) /\ stack' # <<>>
      /\ Len(stack') = Len(stack)
      /\ stack'[Len(stack)] = f
      /\ \A i \in 1..Len(stack) : i # Len(stack) => stack'[i] = stack[i]
  BY <1>1, ReplaceTop DEF Replace
<1>3. TypeOK'
  BY <1>2 DEF IInv, TypeOK
<1>4. ThreadIffCalls'
  BY <1>2 DEF IInv, ThreadIffCalls
<1>5. Suspended'
  BY <1>2 DEF IInv, Suspended
<1>6. DueAtTheTop'
  BY <1>2 DEF DueAtTheTop, Top
<1>7. RaisesAtTheCall'
  <2>1. f.export # Callback
    <3>1. FrameOK(stack[Len(stack)])
      BY <1>2 DEF IInv
    <3> QED
      BY <3>1 DEF FrameOK, Progress, Top
  <2> SUFFICES ASSUME NEW i \in 1..Len(stack), stack'[i].export = Callback
               PROVE  i > 1 /\ stack'[i - 1].at = "return"
                      /\ stack'[i - 1].failed = stack'[i].failed
    BY <1>2 DEF RaisesAtTheCall
  <2>2. i < Len(stack) /\ stack'[i] = stack[i]
    BY <1>2, <2>1
  <2>3. i > 1 /\ stack[i - 1].at = "return" /\ stack[i - 1].failed = stack[i].failed
    BY <2>2 DEF IInv, RaisesAtTheCall
  <2>4. stack'[i - 1] = stack[i - 1]
    BY <1>2, <2>2, <2>3
  <2> QED
    BY <2>2, <2>3, <2>4
<1>8. ASSUME NEW i \in 1..Len(stack) PROVE FrameOK(stack[i])'
  <2>1. CASE i = Len(stack)
    BY <1>2, <2>1
  <2>2. CASE i # Len(stack)
    <3>1. stack'[i] = stack[i] /\ i < Len(stack)
      BY <1>2, <2>2
    <3>2. stack[i] \in Frame /\ stack[i].at \in {"host", "return"} /\ FrameOK(stack[i])
      BY <1>1, <3>1, ElementOfSeq DEF IInv, Suspended
    <3>3. PICK g \in Frame : g = stack[i]
      BY <3>2
    <3>4. FrameOK(g)'
      BY <3>2, <3>3, StillOK DEF IInv, TypeOK, Channel!TypeOK
    <3> QED
      BY <3>1, <3>3, <3>4
  <2> QED
    BY <2>1, <2>2
<1> QED
  BY <1>2, <1>3, <1>4, <1>5, <1>6, <1>7, <1>8 DEF IInv

\* A step that only moves the running call.
LEMMA QuietStep ==
  ASSUME IInv, stack # <<>>, Top.at # "host", Top.at # "return", due = {},
         NEW f \in Frame, f.export = Top.export, Replace(f), FrameOK(f),
         UNCHANGED <<channel, connection, thread>>
  PROVE  IInv'
<1>1. FrameOK(f)'
  BY DEF FrameOK, Progress, LiveTouch, Reported, Neutral, Touching, OnAbiThread, channel,
     connection
<1>2. Channel!TypeOK' /\ BoundWhileConnected'
  BY DEF IInv, TypeOK, Channel!TypeOK, BoundWhileConnected, channel, connection
<1>3. due' = {} /\ era' = era /\ err' = err
  BY DEF channel
<1>4. game' \in Nat /\ games' \in Nat /\ abiThread' \in Threads \union {NoThread}
  BY DEF IInv, TypeOK, connection
<1> QED
  BY <1>1, <1>2, <1>3, <1>4, RunningStep

\* What latching a code does to the channel.
LEMMA LatchStep ==
  ASSUME TypeOK, due = {}, NEW c \in Codes, LatchError(c)
  PROVE  /\ Channel!TypeOK'
         /\ err' # None /\ era' = era
         /\ \A n \in due' : n.err = c /\ n.era = era /\ due' = {n}
<1>1. CASE err = None
  <2>1. Channel!Latch(c)
    BY <1>1 DEF LatchError
  <2>2. [err |-> c, handler |-> handler, era |-> era] \in Channel!Notice
    BY DEF TypeOK, Channel!TypeOK, Channel!Notice
  <2> QED
    BY <2>1, <2>2, NoneIsNoCode DEF Channel!Latch, TypeOK, Channel!TypeOK
<1>2. CASE err # None
  BY <1>2 DEF LatchError, channel, TypeOK, Channel!TypeOK
<1> QED
  BY <1>1, <1>2

\* A call that latches and leaves with its neutral value, whatever has become of
\* the connection.
LEMMA FailedStep ==
  ASSUME IInv, stack # <<>>, Top.at # "host", Top.at # "return", due = {},
         NEW c \in Codes, LatchError(c), Replace(Failed(c)), thread' = thread,
         Top.at = "buffer" => Top.arg = "malformed",
         game' \in Nat, games' \in Nat, abiThread' \in Threads \union {NoThread},
         BoundWhileConnected'
  PROVE  IInv'
<1>1. TypeOK /\ Top \in Frame /\ FrameOK(Top)
  BY TopIsFrame DEF IInv, Top
<1>2. PICK f \in Frame : f = Failed(c)
  BY <1>1 DEF Failed, Frame, Points, TypeOK, Channel!TypeOK
<1>3. /\ f.export = Top.export /\ f.at = "return" /\ f.failed = c /\ f.era = era
      /\ f.arg = Top.arg /\ f.text = Top.text
  BY <1>1, <1>2 DEF Failed, Frame
<1>4. Channel!TypeOK' /\ err' # None /\ era' = era
      /\ \A n \in due' : n.err = c /\ n.era = era /\ due' = {n}
  BY <1>1, LatchStep
<1>5. era \in Nat /\ c # None
  BY <1>1, NoneIsNoCode DEF TypeOK, Channel!TypeOK
<1>6. FrameOK(f)'
  <2>1. Progress(f)'
    BY <1>1, <1>3, <1>4, <1>5 DEF FrameOK, Progress
  <2>2. LiveTouch(f)' /\ Reported(f)'
    BY <1>3, <1>4 DEF LiveTouch, Touching, Reported
  <2>3. Neutral(f)'
    BY <1>1, <1>3, <1>5 DEF FrameOK, Progress, Neutral
  <2> QED
    BY <2>1, <2>2, <2>3 DEF FrameOK
<1>7. Replace(f)
  BY <1>2
<1>8. \A n \in due' : err' # None /\ f.at = "return" /\ n.err = f.failed
                       /\ n.era \leq era /\ due' = {n}
  BY <1>3, <1>4, <1>5
<1> QED
  BY <1>3, <1>4, <1>6, <1>7, <1>8, RunningStep

\* A failing check.
LEMMA FailStep ==
  ASSUME IInv, stack # <<>>, Top.at # "host", Top.at # "return", due = {},
         NEW c \in Codes, Fail(c), Top.at = "buffer" => Top.arg = "malformed"
  PROVE  IInv'
<1>1. LatchError(c) /\ Replace(Failed(c)) /\ thread' = thread /\ UNCHANGED connection
  BY DEF Fail
<1>2. BoundWhileConnected'
  BY <1>1 DEF IInv, BoundWhileConnected, connection
<1>3. game' \in Nat /\ games' \in Nat /\ abiThread' \in Threads \union {NoThread}
  BY <1>1 DEF IInv, TypeOK, connection
<1> QED
  BY <1>1, <1>2, <1>3, FailedStep

\* A lifecycle call ends: what it leaves of the connection is bound or not.
LEMMA LifecycleStep ==
  ASSUME IInv, stack # <<>>, Top.at = "body", due = {},
         Top.export.buffer = "none",
         Replace([Top EXCEPT !.at = "return"]), UNCHANGED <<channel, thread>>,
         game' \in Nat, games' \in Nat, abiThread' \in Threads \union {NoThread},
         BoundWhileConnected'
  PROVE  IInv'
<1>1. TypeOK /\ Top \in Frame /\ FrameOK(Top)
  BY TopIsFrame DEF IInv, Top
<1>2. PICK f \in Frame : f = [Top EXCEPT !.at = "return"]
  BY <1>1 DEF Frame, Points
<1>3. /\ f.export = Top.export /\ f.at = "return" /\ f.failed = None
      /\ f.arg = Top.arg /\ f.era = Top.era
  BY <1>1, <1>2 DEF Frame, FrameOK, Progress
<1>4. Channel!TypeOK' /\ due' = {} /\ era' = era /\ err' = err
  BY <1>1 DEF TypeOK, Channel!TypeOK, channel
<1>5. FrameOK(f)'
  BY <1>1, <1>3, <1>4 DEF FrameOK, Progress, LiveTouch, Touching, Reported, Neutral
<1>6. Replace(f) /\ thread' = thread
  BY <1>2
<1> QED
  BY <1>3, <1>4, <1>5, <1>6, RunningStep

\* The stack grows while everything on it is suspended.
LEMMA PushStep ==
  ASSUME IInv, stack # <<>> => Top.at \in {"host", "return"},
         NEW f \in Frame, stack' = Append(stack, f), thread' \in Threads,
         UNCHANGED connection, Channel!TypeOK', err' = err, era' = era, due' = {},
         FrameOK(f)',
         f.export = Callback =>
           stack # <<>> /\ Top.at = "return" /\ Top.failed = f.failed
  PROVE  IInv'
<1>1. stack \in Seq(Frame) /\ era \in Nat /\ era' \in Nat
  BY DEF IInv, TypeOK, Channel!TypeOK
<1>2. /\ Len(stack) \in Nat
      /\ stack' \in Seq(Frame) /\ stack' # <<>>
      /\ Len(stack') = Len(stack) + 1
      /\ stack'[Len(stack) + 1] = f
      /\ \A i \in 1..Len(stack) : stack'[i] = stack[i]
  BY <1>1, PushTop
<1>3. \A i \in 1..Len(stack) : stack[i] \in Frame /\ stack[i].at \in {"host", "return"}
  <2> SUFFICES ASSUME NEW i \in 1..Len(stack)
               PROVE  stack[i] \in Frame /\ stack[i].at \in {"host", "return"}
    OBVIOUS
  <2>1. stack[i] \in Frame
    BY <1>1, ElementOfSeq
  <2>2. CASE i < Len(stack)
    BY <2>1, <2>2 DEF IInv, Suspended
  <2>3. CASE i = Len(stack)
    <3>1. stack # <<>>
      BY <1>1, <2>3, EmptySeq
    <3> QED
      BY <2>1, <2>3, <3>1 DEF Top
  <2> QED
    BY <1>2, <2>2, <2>3
<1>4. TypeOK' /\ BoundWhileConnected' /\ DueAtTheTop'
  BY <1>2 DEF IInv, TypeOK, BoundWhileConnected, DueAtTheTop, connection
<1>5. ThreadIffCalls'
  BY <1>2, ThreadAssumption DEF ThreadIffCalls
<1>6. Suspended'
  BY <1>2, <1>3 DEF Suspended
<1>7. RaisesAtTheCall'
  <2> SUFFICES ASSUME NEW i \in 1..(Len(stack) + 1), stack'[i].export = Callback
               PROVE  i > 1 /\ stack'[i - 1].at = "return"
                      /\ stack'[i - 1].failed = stack'[i].failed
    BY <1>2 DEF RaisesAtTheCall
  <2>1. CASE i = Len(stack) + 1
    <3>1. stack # <<>> /\ Top.at = "return" /\ Top.failed = f.failed
      BY <1>2, <2>1
    <3>2. Len(stack) > 0
      BY <1>1, <3>1, EmptySeq
    <3>3. stack'[i - 1] = Top
      BY <1>2, <2>1, <3>2 DEF Top
    <3> QED
      BY <1>2, <2>1, <3>1, <3>2, <3>3
  <2>2. CASE i \in 1..Len(stack)
    <3>1. stack'[i] = stack[i]
      BY <1>2, <2>2
    <3>2. i > 1 /\ stack[i - 1].at = "return" /\ stack[i - 1].failed = stack[i].failed
      BY <2>2, <3>1 DEF IInv, RaisesAtTheCall
    <3>3. stack'[i - 1] = stack[i - 1]
      BY <1>2, <2>2, <3>2
    <3> QED
      BY <3>1, <3>2, <3>3
  <2> QED
    BY <1>2, <2>1, <2>2
<1>8. ASSUME NEW i \in 1..(Len(stack) + 1) PROVE FrameOK(stack[i])'
  <2>1. CASE i = Len(stack) + 1
    BY <1>2, <2>1
  <2>2. CASE i \in 1..Len(stack)
    <3>1. stack'[i] = stack[i]
      BY <1>2, <2>2
    <3>2. PICK g \in Frame : g = stack[i]
      BY <1>3, <2>2
    <3>3. g.at \in {"host", "return"} /\ FrameOK(g)
      BY <1>3, <2>2, <3>2 DEF IInv
    <3>4. FrameOK(g)'
      BY <1>1, <3>3, StillOK
    <3> QED
      BY <3>1, <3>2, <3>4
  <2> QED
    BY <1>2, <2>1, <2>2
<1> QED
  BY <1>2, <1>4, <1>5, <1>6, <1>7, <1>8 DEF IInv

\* The call or callback on top is gone, and nothing else has changed.
LEMMA PopStep ==
  ASSUME IInv, stack # <<>>, due = {}, Pop, UNCHANGED <<channel, connection>>
  PROVE  IInv'
<1>1. stack \in Seq(Frame) /\ era \in Nat
  BY DEF IInv, TypeOK, Channel!TypeOK
<1>2. /\ stack' \in Seq(Frame)
      /\ Len(stack) \in Nat /\ Len(stack) > 0
      /\ Len(stack') = Len(stack) - 1
      /\ \A i \in 1..Len(stack') : stack'[i] = stack[i]
      /\ stack' = <<>> <=> Len(stack) = 1
  BY <1>1, PopTop DEF Pop
<1>3. thread \in Threads
  BY DEF IInv, TypeOK, ThreadIffCalls
<1>4. TypeOK' /\ BoundWhileConnected' /\ DueAtTheTop'
  BY <1>2, <1>3 DEF IInv, TypeOK, Channel!TypeOK, BoundWhileConnected, DueAtTheTop, Pop, channel,
     connection
<1>5. ThreadIffCalls'
  BY <1>2, <1>3, ThreadAssumption DEF ThreadIffCalls, Pop
<1>6. Suspended'
  BY <1>2 DEF IInv, Suspended
<1>7. RaisesAtTheCall'
  <2> SUFFICES ASSUME NEW i \in 1..(Len(stack) - 1), stack'[i].export = Callback
               PROVE  i > 1 /\ stack'[i - 1].at = "return"
                      /\ stack'[i - 1].failed = stack'[i].failed
    BY <1>2 DEF RaisesAtTheCall
  <2>1. i \in 1..Len(stack) /\ stack'[i] = stack[i]
    BY <1>2
  <2>2. i > 1 /\ stack[i - 1].at = "return" /\ stack[i - 1].failed = stack[i].failed
    BY <2>1 DEF IInv, RaisesAtTheCall
  <2>3. stack'[i - 1] = stack[i - 1]
    BY <1>2, <2>2
  <2> QED
    BY <2>1, <2>2, <2>3
<1>8. ASSUME NEW i \in 1..(Len(stack) - 1) PROVE FrameOK(stack[i])'
  <2>1. stack'[i] = stack[i] /\ i \in 1..Len(stack) /\ i < Len(stack)
    BY <1>2
  <2>2. stack[i] \in Frame
    BY <1>1, <2>1, ElementOfSeq
  <2>3. PICK g \in Frame : g = stack[i]
    BY <2>2
  <2>4. g.at \in {"host", "return"} /\ FrameOK(g)
    BY <2>1, <2>3 DEF IInv, Suspended
  <2>5. FrameOK(g)'
    BY <1>1, <2>4, StillOK DEF channel
  <2> QED
    BY <2>1, <2>3, <2>5
<1> QED
  BY <1>2, <1>4, <1>5, <1>6, <1>7, <1>8 DEF IInv

\* The host clears the channel, or installs a callback, from outside all calls
\* or from a callback.
LEMMA ChannelStep ==
  ASSUME IInv, HostRuns, UNCHANGED <<connection, thread, stack>>,
         Channel!Clear \/ (\E h \in Handlers : Channel!SetHandler(h))
  PROVE  IInv'
<1>1. stack \in Seq(Frame) /\ era \in Nat /\ due = {}
  BY DEF IInv, TypeOK, Channel!TypeOK, HostRuns
<1>2. /\ Channel!TypeOK' /\ due' = {} /\ era' \in Nat
      /\ era < era' \/ (era' = era /\ (err # None => err' # None))
  BY <1>1 DEF IInv, TypeOK, Channel!TypeOK, Channel!Clear, Channel!SetHandler
<1>3. /\ TypeOK' /\ BoundWhileConnected' /\ ThreadIffCalls' /\ Suspended' /\ DueAtTheTop'
      /\ RaisesAtTheCall'
  BY <1>2 DEF IInv, TypeOK, BoundWhileConnected, ThreadIffCalls, Suspended, DueAtTheTop,
     RaisesAtTheCall, connection
<1>4. ASSUME NEW i \in 1..Len(stack) PROVE FrameOK(stack[i])'
  <2>1. stack[i] \in Frame /\ Len(stack) \in Nat
    BY <1>1, ElementOfSeq, LenProperties
  <2>2. PICK g \in Frame : g = stack[i]
    BY <2>1
  <2>3. stack # <<>>
    BY <1>1, EmptySeq
  <2>4. g.at \in {"host", "return"}
    <3>1. CASE i = Len(stack)
      BY <2>2, <2>3, <3>1 DEF HostRuns, Top
    <3>2. CASE i < Len(stack)
      BY <2>2, <3>2 DEF IInv, Suspended
    <3> QED
      BY <2>1, <3>1, <3>2
  <2>5. FrameOK(g)
    BY <2>2 DEF IInv
  <2>6. FrameOK(g)'
    BY <1>1, <1>2, <2>4, <2>5, StillOK
  <2> QED
    BY <2>2, <2>6
<1> QED
  BY <1>3, <1>4 DEF IInv

-----------------------------------------------------------------------------
(* The inductive invariant: one step per action *)

LEMMA InitIInv == Init => IInv
<1> SUFFICES ASSUME Init PROVE IInv
  OBVIOUS
<1>1. stack = <<>> /\ Len(stack) = 0 /\ stack \in Seq(Frame)
  BY EmptySeq DEF Init
<1>2. TypeOK
  BY <1>1, HandlerAssumption DEF Init, Channel!Init, TypeOK, Channel!TypeOK, NoGame
<1>3. BoundWhileConnected /\ ThreadIffCalls /\ DueAtTheTop
  BY DEF Init, Channel!Init, BoundWhileConnected, ThreadIffCalls, DueAtTheTop
<1>4. Suspended /\ RaisesAtTheCall /\ \A i \in 1..Len(stack) : FrameOK(stack[i])
  BY <1>1 DEF Suspended, RaisesAtTheCall
<1> QED
  BY <1>2, <1>3, <1>4 DEF IInv

LEMMA HostStepIInv ==
  ASSUME IInv, HostStep
  PROVE  IInv'
<1>1. ASSUME NEW t \in Threads, NEW x \in Exports, NEW arg \in Arguments(x), Invoke(t, x, arg)
      PROVE  IInv'
  <2>1. era \in Nat /\ Channel!TypeOK
    BY DEF IInv, TypeOK, Channel!TypeOK
  <2>2. x # Callback /\ x.game \in BOOLEAN
        /\ x.buffer \in {"none", "string", "array", "rows"}
        /\ arg \in {"none", "malformed", "null", "room", "stride"}
    BY <1>1, ExportFacts DEF Arguments
  <2>3. PICK f \in Frame : f = NewCall(x, arg)
    <3>1. Entry(x) \in Points
      BY <2>2 DEF Entry, AfterBuffer, Points
    <3>2. NoGame \in Nat /\ 0 \in Nat
      BY DEF NoGame
    <3> QED
      BY <2>2, <3>1, <3>2 DEF NewCall, Frame
  <2>4. /\ f.export = x /\ f.at = Entry(x) /\ f.arg = arg /\ f.failed = None /\ f.era = 0
    BY <2>3 DEF NewCall
  <2>5. FrameOK(f)'
    <3>1. Progress(f)'
      BY <1>1, <2>1, <2>2, <2>4, ExportFacts
      DEF Progress, Entry, AfterBuffer, Arguments, Invoke, channel
    <3>2. LiveTouch(f)' /\ Reported(f)' /\ Neutral(f)'
      BY <2>2, <2>4 DEF LiveTouch, Touching, Reported, Neutral, Entry, AfterBuffer
    <3> QED
      BY <3>1, <3>2 DEF FrameOK
  <2>6. /\ stack' = Append(stack, f) /\ thread' \in Threads /\ UNCHANGED connection
        /\ err' = err /\ era' = era /\ due' = {} /\ Channel!TypeOK'
        /\ (stack # <<>> => Top.at \in {"host", "return"})
    BY <1>1, <2>1, <2>3 DEF Invoke, HostRuns, channel, Channel!TypeOK
  <2> QED
    BY <2>2, <2>4, <2>5, <2>6, PushStep
<1>2. CASE LeaveCallback
  BY <1>2, PopStep DEF LeaveCallback, HostRuns
<1>3. CASE ClearLastError
  BY <1>3, ChannelStep DEF ClearLastError
<1>4. ASSUME NEW h \in Handlers, SetErrorCallback(h) PROVE IInv'
  BY <1>4, ChannelStep DEF SetErrorCallback
<1> QED
  BY <1>1, <1>2, <1>3, <1>4 DEF HostStep

LEMMA StartCallbackIInv ==
  ASSUME IInv, NEW n \in due, StartCallback(n)
  PROVE  IInv'
<1>1. n \in Channel!Notice /\ era \in Nat /\ thread \in Threads \union {NoThread}
  BY DEF IInv, TypeOK, Channel!TypeOK
<1>2. /\ err # None /\ stack # <<>> /\ Top.at = "return"
      /\ n.err = Top.failed /\ n.era \leq era /\ due = {n}
  BY DEF IInv, DueAtTheTop
<1>3. PICK f \in Frame : f = NewCallback(n)
  BY <1>1 DEF NewCallback, Frame, Points, NoGame, Channel!Notice
<1>4. f.export = Callback /\ f.at = "host" /\ f.failed = n.err /\ f.era = n.era
      /\ f.arg = "none"
  BY <1>3 DEF NewCallback
<1>5. /\ err' = err /\ era' = era /\ due' = {} /\ Channel!TypeOK'
  BY <1>2 DEF StartCallback, Channel!Start, IInv, TypeOK, Channel!TypeOK
<1>6. FrameOK(f)'
  BY <1>2, <1>4, <1>5, ExportFacts
  DEF FrameOK, Progress, LiveTouch, Touching, Reported, Neutral, Arguments
<1>7. stack' = Append(stack, f) /\ thread' \in Threads /\ UNCHANGED connection
  BY <1>1, <1>2, <1>3 DEF StartCallback, IInv, ThreadIffCalls
<1> QED
  BY <1>2, <1>4, <1>5, <1>6, <1>7, PushStep

\* The call on top, while it runs.
LEMMA Running ==
  ASSUME IInv, NEW point, At(point)
  PROVE  /\ stack # <<>> /\ due = {} /\ Top.at = point
         /\ Top \in Frame /\ FrameOK(Top) /\ era \in Nat
         /\ point # "host" => Top.export \in Exports
<1>1. stack # <<>> /\ due = {} /\ Top.at = point
  BY DEF At
<1>2. Top \in Frame /\ FrameOK(Top) /\ era \in Nat
  BY <1>1, TopIsFrame DEF IInv, TypeOK, Channel!TypeOK, Top
<1> QED
  BY <1>1, <1>2 DEF Frame, FrameOK, Progress

\* A check that passes, with what is left to establish of the call.
LEMMA PassStep ==
  ASSUME IInv, NEW point, At(point), point # "host", point # "return",
         NEW next \in Points, Pass(next), next # "host",
         FrameOK([Top EXCEPT !.at = next])
  PROVE  IInv'
<1>1. stack # <<>> /\ due = {} /\ Top.at = point /\ Top \in Frame
  BY Running
<1>2. PICK f \in Frame : f = [Top EXCEPT !.at = next]
  BY <1>1 DEF Frame
<1>3. f.export = Top.export
  BY <1>1, <1>2 DEF Frame
<1> QED
  BY <1>1, <1>2, <1>3, QuietStep DEF Pass

LEMMA PrologueIInv ==
  ASSUME IInv, Prologue
  PROVE  IInv'
<1> USE DEF Codes
<1>1. CASE CheckBuffer
  <2>1. /\ stack # <<>> /\ due = {} /\ Top.at = "buffer" /\ Top \in Frame /\ FrameOK(Top)
        /\ Top.export \in Exports
    BY <1>1, Running DEF CheckBuffer
  <2>2. CASE Top.arg = "malformed" /\ Fail("BAD_BUFFER")
    BY <2>1, <2>2, FailStep
  <2>3. CASE Top.arg # "malformed"
    <3> DEFINE text == IF Top.export.buffer = "string" /\ Top.arg = "room" THEN "empty"
                       ELSE Top.text
    <3>1. PICK f \in Frame : f = [Top EXCEPT !.at = AfterBuffer(Top.export), !.text = text]
      BY <2>1 DEF Frame, AfterBuffer, Points
    <3>2. /\ f.export = Top.export /\ f.at = AfterBuffer(Top.export) /\ f.text = text
          /\ f.arg = Top.arg /\ f.failed = Top.failed /\ f.era = Top.era
      BY <2>1, <3>1 DEF Frame
    <3>3. Progress(f)
      BY <2>1, <2>3, <3>2, ExportFacts DEF FrameOK, Progress, AfterBuffer
    <3>4. LiveTouch(f) /\ Reported(f) /\ Neutral(f)
      BY <2>1, <3>2, ExportFacts
      DEF FrameOK, Progress, LiveTouch, Touching, Reported, Neutral, AfterBuffer
    <3>5. Replace(f) /\ UNCHANGED <<channel, connection, thread>>
      BY <1>1, <2>3, <3>1 DEF CheckBuffer
    <3> QED
      BY <2>1, <3>2, <3>3, <3>4, <3>5, QuietStep DEF FrameOK
  <2> QED
    BY <1>1, <2>2, <2>3 DEF CheckBuffer
<1>2. CASE CheckThread
  <2>1. At("thread") /\ stack # <<>> /\ due = {} /\ Top.at = "thread" /\ Top \in Frame
        /\ FrameOK(Top)
    BY <1>2, Running DEF CheckThread
  <2>2. CASE OnAbiThread /\ Pass("game")
    <3>1. FrameOK([Top EXCEPT !.at = "game"])
      BY <2>1, <2>2 DEF Frame, FrameOK, Progress, LiveTouch, Touching, Reported, Neutral
    <3> QED
      BY <2>1, <2>2, <3>1, PassStep DEF Points
  <2> QED
    BY <1>2, <2>1, <2>2, FailStep DEF CheckThread
<1>3. CASE CheckGame
  <2>1. At("game") /\ stack # <<>> /\ due = {} /\ Top.at = "game" /\ Top \in Frame
        /\ FrameOK(Top) /\ Top.export \in Exports
    BY <1>3, Running DEF CheckGame
  <2>2. CASE game # NoGame /\ Pass(AfterGame(Top.export))
    <3>1. abiThread = thread
      BY <2>1, <2>2 DEF IInv, BoundWhileConnected, FrameOK, Progress, OnAbiThread
    <3>2. AfterGame(Top.export) \in {"self", "body"}
      BY DEF AfterGame
    <3>3. FrameOK([Top EXCEPT !.at = AfterGame(Top.export)])
      BY <2>1, <2>2, <3>1, ExportFacts
      DEF Frame, FrameOK, Progress, LiveTouch, Touching, Reported, Neutral, AfterGame
    <3> QED
      BY <2>1, <2>2, <3>2, <3>3, PassStep DEF Points
  <2> QED
    BY <1>3, <2>1, <2>2, FailStep DEF CheckGame
<1>4. CASE ResolveSelf
  <2>1. At("self") /\ stack # <<>> /\ due = {} /\ Top.at = "self" /\ Top \in Frame
        /\ FrameOK(Top) /\ Top.export \in Exports /\ game \in Nat
    BY <1>4, Running DEF ResolveSelf, IInv, TypeOK
  <2>2. CASE ~Fail("INVALID_HANDLE")
    <3>1. PICK f \in Frame : f = [Top EXCEPT !.at = AfterSelf(Top.export), !.holds = game]
      BY <2>1 DEF Frame, AfterSelf, Points
    <3>2. /\ f.export = Top.export /\ f.at = AfterSelf(Top.export) /\ f.text = Top.text
          /\ f.arg = Top.arg /\ f.failed = Top.failed /\ f.era = Top.era /\ f.holds = game
      BY <2>1, <3>1 DEF Frame
    <3>3. FrameOK(f)
      BY <2>1, <3>2
      DEF FrameOK, Progress, LiveTouch, Touching, Reported, Neutral, AfterSelf
    <3>4. Replace(f) /\ UNCHANGED <<channel, connection, thread>>
      BY <1>4, <2>2, <3>1 DEF ResolveSelf
    <3> QED
      BY <2>1, <3>2, <3>3, <3>4, QuietStep
  <2> QED
    BY <2>1, <2>2, FailStep
<1>5. CASE ResolveOther
  <2>1. At("other") /\ stack # <<>> /\ due = {} /\ Top.at = "other" /\ Top \in Frame
        /\ FrameOK(Top)
    BY <1>5, Running DEF ResolveOther
  <2>2. CASE Pass("body")
    <3>1. FrameOK([Top EXCEPT !.at = "body"])
      BY <2>1 DEF Frame, FrameOK, Progress, LiveTouch, Touching, Reported, Neutral
    <3> QED
      BY <2>1, <2>2, <3>1, PassStep DEF Points
  <2> QED
    BY <1>5, <2>1, <2>2, FailStep DEF ResolveOther
<1> QED
  BY <1>1, <1>2, <1>3, <1>4, <1>5 DEF Prologue

LEMMA BodyIInv ==
  ASSUME IInv, Body
  PROVE  IInv'
<1>1. ASSUME At("body")
      PROVE  /\ stack # <<>> /\ due = {} /\ Top.at = "body" /\ Top \in Frame /\ FrameOK(Top)
             /\ Top.export \in Exports
  BY <1>1, Running
<1>2. game \in Nat /\ games \in Nat /\ abiThread \in Threads \union {NoThread}
      /\ thread \in Threads \union {NoThread} /\ NoGame = 0
  BY DEF IInv, TypeOK, NoGame
<1>3. ASSUME At("body"), NEW c \in Codes, Fail(c) PROVE IInv'
  BY <1>1, <1>3, FailStep
<1>4. ASSUME At("body"), Top.export \in {Connect, Update, Disconnect}, Pass("return")
      PROVE  IInv'
  <2>1. Top.export.buffer = "none"
    BY <1>4, ExportFacts
  <2>2. FrameOK([Top EXCEPT !.at = "return"])
    BY <1>1, <1>4, <2>1
    DEF Frame, FrameOK, Progress, LiveTouch, Touching, Reported, Neutral
  <2> QED
    BY <1>4, <2>2, PassStep DEF Points
<1>5. CASE Answer
  <2>1. At("body") /\ Top.export \in Wrappers
    BY <1>5 DEF Answer
  <2> DEFINE text == IF Top.arg = "room" THEN "written" ELSE Top.text
  <2>2. PICK f \in Frame : f = [Top EXCEPT !.at = "return", !.text = text]
    BY <1>1, <2>1 DEF Frame, Points
  <2>3. /\ f.export = Top.export /\ f.at = "return" /\ f.text = text
        /\ f.arg = Top.arg /\ f.failed = Top.failed /\ f.era = Top.era
    BY <1>1, <2>1, <2>2 DEF Frame
  <2>4. FrameOK(f)
    BY <1>1, <2>1, <2>3 DEF FrameOK, Progress, LiveTouch, Touching, Reported, Neutral
  <2>5. Replace(f) /\ UNCHANGED <<channel, connection, thread>>
    BY <1>5, <2>2 DEF Answer
  <2> QED
    BY <1>1, <2>1, <2>3, <2>4, <2>5, QuietStep
<1>6. CASE BadStride
  BY <1>3, <1>6 DEF BadStride, Codes
<1>7. CASE Throw
  BY <1>3, <1>7 DEF Throw, Codes
<1>8. CASE ConnectOpens
  <2>1. At("body") /\ Top.export.buffer = "none"
    BY <1>8, ExportFacts DEF ConnectOpens
  <2>2. thread \in Threads
    BY <1>1, <1>2, <2>1 DEF IInv, ThreadIffCalls
  <2>3. game' \in Nat /\ games' \in Nat /\ game' # NoGame /\ abiThread' \in Threads
    BY <1>2, <1>8, <2>2 DEF ConnectOpens
  <2>4. BoundWhileConnected'
    BY <2>3, ThreadAssumption DEF BoundWhileConnected
  <2> QED
    BY <1>1, <1>8, <2>1, <2>3, <2>4, LifecycleStep DEF ConnectOpens
<1>9. CASE ConnectFails
  BY <1>4, <1>9 DEF ConnectFails
<1>10. CASE ConnectTwice
  BY <1>3, <1>10 DEF ConnectTwice, Codes
<1>11. CASE UpdateFrame
  BY <1>4, <1>11 DEF UpdateFrame
<1>12. CASE UpdateGone
  <2>1. At("body") /\ Top.export.buffer = "none"
    BY <1>12, ExportFacts DEF UpdateGone
  <2> QED
    BY <1>1, <1>2, <1>12, <2>1, LifecycleStep DEF UpdateGone, BoundWhileConnected
<1>13. CASE DisconnectClient
  <2>1. At("body") /\ Top.export.buffer = "none"
    BY <1>13, ExportFacts DEF DisconnectClient
  <2> QED
    BY <1>1, <1>2, <1>13, <2>1, LifecycleStep DEF DisconnectClient, BoundWhileConnected
<1>14. CASE DisconnectElsewhere
  BY <1>3, <1>14 DEF DisconnectElsewhere, Codes
<1>15. CASE ThrowGone
  <2>1. At("body") /\ "EXCEPTION" \in Codes /\ BoundWhileConnected'
    BY <1>15 DEF ThrowGone, Codes, BoundWhileConnected
  <2> QED
    BY <1>1, <1>2, <1>15, <2>1, FailedStep DEF ThrowGone
<1> QED
  BY <1>5, <1>6, <1>7, <1>8, <1>9, <1>10, <1>11, <1>12, <1>13, <1>14, <1>15 DEF Body

LEMMA NextIInv == IInv /\ [Next]_vars => IInv'
<1> SUFFICES ASSUME IInv, [Next]_vars PROVE IInv'
  OBVIOUS
<1>1. CASE UNCHANGED vars
  BY <1>1 DEF vars, channel, connection, IInv, TypeOK, Channel!TypeOK, BoundWhileConnected,
     ThreadIffCalls, Suspended, DueAtTheTop, RaisesAtTheCall, FrameOK, Progress, LiveTouch,
     Touching, Reported, Neutral, OnAbiThread, Top
<1>2. CASE HostStep
  BY <1>2, HostStepIInv
<1>3. ASSUME NEW n \in due, StartCallback(n) PROVE IInv'
  BY <1>3, StartCallbackIInv
<1>4. CASE Prologue
  BY <1>4, PrologueIInv
<1>5. CASE Body
  BY <1>5, BodyIInv
<1>6. CASE Return
  BY <1>6, PopStep DEF Return, At
<1> QED
  BY <1>1, <1>2, <1>3, <1>4, <1>5, <1>6 DEF Next

\* The conjunction the other theorems are read off: what the call that runs has
\* checked, what the suspended ones are waiting for, and what is due.
THEOREM Invariance == Spec => []IInv
BY InitIInv, NextIInv, PTL DEF Spec

-----------------------------------------------------------------------------
(* What follows for every host *)

\* Every variable keeps its type; in particular every code latched is one of the
\* ABI's and every frame a call of an export or the error callback.
THEOREM TypeCorrect == Spec => []TypeOK
<1>1. IInv => TypeOK
  BY DEF IInv
<1> QED
  BY <1>1, Invariance, PTL

\* A call touches the game there is, through an object of that game, on the
\* thread that connected, whatever its callbacks and theirs have called.
THEOREM TouchesOnlyTheLiveGame == Spec => []TouchesLiveGame
<1>1. IInv => TouchesLiveGame
  BY DEF IInv, TouchesLiveGame, FrameOK
<1> QED
  BY <1>1, Invariance, PTL

\* A failed call leaves an error to poll unless the host has cleared it since.
THEOREM NoSilentFailure == Spec => []NeverSilent
<1>1. IInv => NeverSilent
  BY DEF IInv, NeverSilent, FrameOK
<1> QED
  BY <1>1, Invariance, PTL

\* A callback runs inside the call whose failure it announces.
THEOREM CallbackInsideItsCall == Spec => []RaisesAtTheCall
<1>1. IInv => RaisesAtTheCall
  BY DEF IInv
<1> QED
  BY <1>1, Invariance, PTL

\* A string export that fails leaves the empty string where there is room.
THEOREM NeutralStringOnFailure == Spec => []NeutralString
<1>1. IInv => NeutralString
  BY DEF IInv, NeutralString, FrameOK
<1> QED
  BY <1>1, Invariance, PTL

\* The error latched is one the first broken rule allows.
THEOREM ReportsTheFirstRule == Spec => FirstRuleReported
<1> DEFINE A == err = None /\ err' # None => err' \in Diagnosis(Top)
<1>1. ASSUME IInv, Next PROVE A
  <2> SUFFICES ASSUME err = None, err' # None PROVE err' \in Diagnosis(Top)
    OBVIOUS
  <2>1. ASSUME NEW c \in Codes, Fail(c) PROVE err' = c
    BY <2>1 DEF Fail, LatchError, Channel!Latch
  <2>2. ASSUME NEW point, At(point), point # "host"
        PROVE  /\ Top.at = point /\ Top \in Frame /\ FrameOK(Top) /\ Top.export \in Exports
    BY <1>1, <2>2, Running
  <2>3. CASE Prologue
    <3>1. CASE CheckBuffer
      BY <2>1, <3>1 DEF CheckBuffer, Pass, channel, Codes, Diagnosis
    <3>2. CASE CheckThread
      BY <2>1, <2>2, <3>2
      DEF CheckThread, Pass, channel, Codes, Diagnosis, FrameOK, Progress
    <3>3. CASE CheckGame
      BY <2>1, <2>2, <3>3
      DEF CheckGame, Pass, channel, Codes, Diagnosis, FrameOK, Progress
    <3>4. ASSUME At("self") \/ At("other"), Fail("INVALID_HANDLE")
          PROVE  err' \in Diagnosis(Top)
      <4>1. err' = "INVALID_HANDLE"
        BY <2>1, <3>4 DEF Codes
      <4>2. Top.at \in {"self", "other"} /\ FrameOK(Top) /\ Top.export \in Exports
        BY <2>2, <3>4
      <4>3. game # NoGame /\ OnAbiThread /\ Top.arg # "malformed" /\ Top.export.handles > 0
        BY <4>2 DEF FrameOK, Progress, LiveTouch, Touching, OnAbiThread
      <4>4. Top.export # Connect
        BY <4>3, ExportFacts
      <4> QED
        BY <4>1, <4>3, <4>4 DEF Diagnosis
    <3>5. CASE ResolveSelf
      BY <3>4, <3>5 DEF ResolveSelf, channel
    <3>6. CASE ResolveOther
      BY <3>4, <3>6 DEF ResolveOther, Pass, channel
    <3> QED
      BY <2>3, <3>1, <3>2, <3>3, <3>5, <3>6 DEF Prologue
  <2>4. CASE Body
    <3>1. /\ At("body") /\ Top.at = "body" /\ FrameOK(Top) /\ Top.export \in Exports
      BY <2>2, <2>4 DEF Body, Answer, BadStride, Throw, ThrowGone, ConnectOpens, ConnectFails,
         ConnectTwice, UpdateFrame, UpdateGone, DisconnectClient, DisconnectElsewhere
    <3>2. Top.arg # "malformed" /\ Top.arg \in Arguments(Top.export)
      BY <3>1 DEF FrameOK, Progress
    <3>3. Top.export.game => game # NoGame /\ OnAbiThread
      BY <3>1 DEF FrameOK, LiveTouch, Touching, OnAbiThread
    <3>4. CASE BadStride
      <4>1. err' = "BAD_BUFFER" /\ Top.arg = "stride"
        BY <2>1, <3>4 DEF BadStride, Codes
      <4>2. Top.export \in Wrappers /\ ~Top.export.game /\ Top.export.handles = 0
        BY <3>1, <3>2, <4>1, ExportFacts DEF Arguments
      <4> QED
        BY <4>1, <4>2, WrapperFacts DEF Diagnosis
    <3>5. CASE Throw \/ ThrowGone
      <4>1. err' = "EXCEPTION" /\ CallsBwapi
        BY <2>1, <3>5 DEF Throw, ThrowGone, LatchError, Channel!Latch, Codes
      <4>2. /\ Top.export = Connect => game = NoGame
            /\ Top.export = Disconnect => OnAbiThread
        BY <4>1, WrapperFacts, ExportFacts DEF CallsBwapi
      <4> QED
        BY <3>2, <3>3, <4>1, <4>2 DEF Diagnosis
    <3>6. CASE ConnectTwice
      <4>1. err' = "ALREADY_CONNECTED" /\ Top.export = Connect /\ game # NoGame
        BY <2>1, <3>6 DEF ConnectTwice, Codes
      <4> QED
        BY <3>2, <4>1, ExportFacts DEF Diagnosis
    <3>7. CASE DisconnectElsewhere
      <4>1. err' = "WRONG_THREAD" /\ Top.export = Disconnect /\ ~OnAbiThread
        BY <2>1, <3>7 DEF DisconnectElsewhere, Codes
      <4> QED
        BY <3>2, <4>1 DEF Diagnosis
    <3> QED
      BY <2>4, <3>4, <3>5, <3>6, <3>7 DEF Body, Answer, ConnectOpens, ConnectFails, UpdateFrame,
         UpdateGone, DisconnectClient, Pass, channel
  <2>5. CASE HostStep
    BY <2>5 DEF HostStep, Invoke, LeaveCallback, ClearLastError, SetErrorCallback, Channel!Clear,
       Channel!SetHandler, channel
  <2>6. CASE (\E n \in due : StartCallback(n)) \/ Return
    BY <2>6 DEF StartCallback, Channel!Start, Return, channel
  <2> QED
    BY <1>1, <2>3, <2>4, <2>5, <2>6 DEF Next
<1>2. IInv /\ [Next]_vars => [A]_vars
  BY <1>1
<1> QED
  BY <1>2, Invariance, PTL DEF Spec, FirstRuleReported

\* The connection ends on the thread that made it, also when it is a callback of
\* a failing call that ends it.
THEOREM OnlyTheOwnerEnds == Spec => OwnerEndsConnection
<1> DEFINE A == game # NoGame /\ game' # game => thread = abiThread
<1>1. ASSUME IInv, Next PROVE A
  <2>1. CASE Body
    <3>1. CASE ConnectOpens
      BY <3>1 DEF ConnectOpens
    <3>2. CASE UpdateGone
      <4>1. Top.at = "body" /\ Top.export.game /\ FrameOK(Top)
        BY <1>1, <3>2, Running, ExportFacts DEF UpdateGone
      <4> QED
        BY <4>1 DEF FrameOK, LiveTouch, Touching
    <3>3. CASE DisconnectClient
      BY <1>1, <3>3 DEF DisconnectClient, OnAbiThread, IInv, BoundWhileConnected
    <3>4. CASE ThrowGone
      <4>1. Top.at = "body" /\ FrameOK(Top) /\ Top.export \in {Update, Disconnect}
        BY <1>1, <3>4, Running DEF ThrowGone
      <4>2. Top.export = Disconnect => OnAbiThread
        BY <3>4, WrapperFacts, ExportFacts DEF ThrowGone, CallsBwapi
      <4> QED
        BY <1>1, <4>1, <4>2, ExportFacts
        DEF FrameOK, LiveTouch, Touching, OnAbiThread, IInv, BoundWhileConnected
    <3> QED
      BY <2>1, <3>1, <3>2, <3>3, <3>4 DEF Body, Answer, BadStride, Throw, ConnectFails, ConnectTwice,
         UpdateFrame, DisconnectElsewhere, Fail, Pass, connection
  <2>2. CASE Prologue
    BY <2>2 DEF Prologue, CheckBuffer, CheckThread, CheckGame, ResolveSelf, ResolveOther, Fail,
       Pass, connection
  <2>3. CASE HostStep
    BY <2>3 DEF HostStep, Invoke, LeaveCallback, ClearLastError, SetErrorCallback, connection
  <2>4. CASE (\E n \in due : StartCallback(n)) \/ Return
    BY <2>4 DEF StartCallback, Return, connection
  <2> QED
    BY <1>1, <2>1, <2>2, <2>3, <2>4 DEF Next
<1>2. IInv /\ [Next]_vars => [A]_vars
  BY <1>1
<1> QED
  BY <1>2, Invariance, PTL DEF Spec, OwnerEndsConnection
=============================================================================
