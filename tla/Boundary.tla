------------------------------- MODULE Boundary -------------------------------
(***************************************************************************)
(* The boundary every export shares: the prologue tools/abi/emit_source.py *)
(* writes into each wrapper, guard(), and the error callback entered in    *)
(* the middle of a failing call, from which the host may call any export   *)
(* again, the lifecycle's included.                                        *)
(*                                                                         *)
(* The host of this module makes one call at a time, from any thread; what *)
(* overlapping calls do is ErrorChannel's and ClientLifecycle's subject.   *)
(* The error channel is the register ErrorChannel implements, StickyLatch; *)
(* an error is known by its code.                                          *)
(***************************************************************************)
EXTENDS Naturals, Sequences

CONSTANTS
  Threads,     \* the host's threads
  NoThread,    \* std::thread::id{}; also: no call in progress
  Handlers,    \* the error callbacks the host installs
  NoCallback,  \* the NULL function pointer
  NoHandler,   \* no error callback installed
  MaxDepth,    \* bound: frames on the stack, a call and its callback being two
  MaxGames,    \* bound: connections made
  MaxEra       \* bound: clears of a latched error

ASSUME ThreadAssumption == NoThread \notin Threads
ASSUME HandlerAssumption == NoHandler \in Handlers /\ NoHandler.cb = NoCallback
ASSUME BoundAssumption == MaxDepth \in Nat /\ MaxGames \in Nat /\ MaxEra \in Nat

VARIABLES
  err, handler, era, due,  \* the error channel: see StickyLatch
  game,       \* BroodwarPtr: the number of the GameImpl, 0 for null
  games,      \* how many GameImpls have been made
  abiThread,  \* g_abi_thread
  thread,     \* the thread the calls in progress run on
  stack       \* the calls in progress and the callbacks between them

channel == <<err, handler, era, due>>
connection == <<game, games, abiThread>>
vars == <<channel, connection, thread, stack>>

NoGame == 0
None == "NONE"
Codes == {"BAD_BUFFER", "WRONG_THREAD", "NOT_CONNECTED", "INVALID_HANDLE",
          "ALREADY_CONNECTED", "EXCEPTION"}

Channel == INSTANCE StickyLatch WITH Errors <- Codes, NoError <- None

-----------------------------------------------------------------------------
(* The exports, by what their prologue has to check.  They are generated from *)
(* one template, so one of each shape stands for all of that shape.           *)

Export(name, buffer, touches, handles) ==
  [name |-> name, buffer |-> buffer, game |-> touches, handles |-> handles]

PlayerName    == Export("player_get_name", "string", TRUE, 1)
PlayerUnits   == Export("player_get_units", "array", TRUE, 1)
PlayerAlly    == Export("player_is_ally", "none", TRUE, 2)
PlayerValue   == Export("player_minerals", "none", TRUE, 1)
TypeName      == Export("unittype_get_name", "string", FALSE, 0)
TypeIds       == Export("unittype_abilities", "array", FALSE, 0)
TypeTable     == Export("weapontype_table", "rows", FALSE, 0)
TypeValue     == Export("weapontype_damage_amount", "none", FALSE, 0)
Wrappers == {PlayerName, PlayerUnits, PlayerAlly, PlayerValue,
             TypeName, TypeIds, TypeTable, TypeValue}

Connect    == Export("client_connect", "none", FALSE, 0)
Update     == Export("client_update", "none", TRUE, 0)
Disconnect == Export("client_disconnect", "none", FALSE, 0)
Exports == Wrappers \union {Connect, Update, Disconnect}

\* A frame that is not a call: the host's error callback.
Callback == Export("callback", "none", FALSE, 0)

\* What a caller passes: a malformed buffer, NULL of length 0, room for an
\* answer, and, for an array of rows, room with a stride that holds no row.
Arguments(x) ==
  CASE x.buffer = "none" -> {"none"}
    [] x.buffer = "rows" -> {"malformed", "null", "room", "stride"}
    [] OTHER -> {"malformed", "null", "room"}

\* The points of a call, in the order emit_source.py writes the checks.
AfterSelf(x) == IF x.handles = 2 THEN "other" ELSE "body"
AfterGame(x) == IF x.handles > 0 THEN "self" ELSE "body"
AfterBuffer(x) == IF x.game THEN "thread" ELSE "body"

\* Mutant: a wrapper over the game checks its buffer last, that is, not at all.
EntryUnchecked(x) ==
  IF x.buffer # "none" /\ ~x.game THEN "buffer" ELSE AfterBuffer(x)

Entry(x) == IF x.buffer # "none" THEN "buffer" ELSE AfterBuffer(x)

Points == {"buffer", "thread", "game", "self", "other", "body", "return", "host"}

\* A call: which export, where it is, its argument, what the caller's buffer
\* holds, the game its handle was resolved in, and the code it has latched or
\* tried to latch, with the era of the channel at that moment.
Frame == [export : Exports \union {Callback}, at : Points,
          arg : {"none", "malformed", "null", "room", "stride"},
          text : {"stale", "empty", "written"}, holds : Nat,
          failed : Codes \union {None}, era : Nat]

NewCall(x, arg) ==
  [export |-> x, at |-> Entry(x), arg |-> arg, text |-> "stale",
   holds |-> NoGame, failed |-> None, era |-> 0]

\* A callback announces the error of the call it interrupts.
NewCallback(n) ==
  [export |-> Callback, at |-> "host", arg |-> "none", text |-> "stale",
   holds |-> NoGame, failed |-> n.err, era |-> n.era]

Init ==
  /\ Channel!Init
  /\ game = NoGame /\ games = 0
  /\ abiThread = NoThread
  /\ thread = NoThread
  /\ stack = <<>>

-----------------------------------------------------------------------------
(* Movements of the frame on top *)

Top == stack[Len(stack)]

\* The call on top runs, and has nothing to announce.
At(point) == due = {} /\ stack # <<>> /\ Top.at = point

\* The host's own code runs, outside all calls or in a callback.
HostRuns == due = {} /\ (stack # <<>> => Top.at = "host")

Replace(frame) == stack' = [stack EXCEPT ![Len(stack)] = frame]

\* The check passes; the call is at the next point.
Pass(point) ==
  /\ Replace([Top EXCEPT !.at = point])
  /\ UNCHANGED <<channel, connection, thread>>

\* latch(): only on a clear channel, and announced if a callback is installed.
LatchError(c) == IF err = None THEN Channel!Latch(c) ELSE UNCHANGED channel

Failed(c) == [Top EXCEPT !.at = "return", !.failed = c, !.era = era]

\* The check fails: latch, and return the neutral value.
Fail(c) ==
  /\ LatchError(c)
  /\ Replace(Failed(c))
  /\ UNCHANGED <<connection, thread>>

OnAbiThread == abiThread \in {NoThread, thread}

-----------------------------------------------------------------------------
(* The host: calls, the callback's end, and the channel's own exports *)

Invoke(t, x, arg) ==
  /\ HostRuns
  /\ Len(stack) + 2 <= MaxDepth
  /\ thread \in {NoThread, t}
  /\ thread' = t
  /\ stack' = Append(stack, NewCall(x, arg))
  /\ UNCHANGED <<channel, connection>>

Pop ==
  /\ stack' = SubSeq(stack, 1, Len(stack) - 1)
  /\ thread' = IF Len(stack) = 1 THEN NoThread ELSE thread

LeaveCallback ==
  /\ HostRuns /\ stack # <<>>
  /\ Pop
  /\ UNCHANGED <<channel, connection>>

ClearLastError ==
  /\ HostRuns
  /\ era < MaxEra
  /\ Channel!Clear
  /\ UNCHANGED <<connection, thread, stack>>

SetErrorCallback(h) ==
  /\ HostRuns
  /\ Channel!SetHandler(h)
  /\ UNCHANGED <<connection, thread, stack>>

-----------------------------------------------------------------------------
(* latch() enters the error callback before it returns to the call *)

StartCallback(n) ==
  /\ Channel!Start(n)
  /\ stack' = Append(stack, NewCallback(n))
  /\ UNCHANGED <<connection, thread>>

-----------------------------------------------------------------------------
(* The prologue *)

\* Mutant: the string is not emptied before the checks that may fail.
CheckBufferKeepsText ==
  /\ At("buffer")
  /\ \/ Top.arg = "malformed" /\ Fail("BAD_BUFFER")
     \/ Top.arg # "malformed" /\ Pass(AfterBuffer(Top.export))

\* check_string_buffer() and empty_string(), or check_buffer().
CheckBuffer ==
  /\ At("buffer")
  /\ \/ Top.arg = "malformed" /\ Fail("BAD_BUFFER")
     \/ /\ Top.arg # "malformed"
        /\ Replace([Top EXCEPT
             !.at = AfterBuffer(Top.export),
             !.text = IF Top.export.buffer = "string" /\ Top.arg = "room"
                      THEN "empty" ELSE @])
        /\ UNCHANGED <<channel, connection, thread>>

CheckThread ==
  /\ At("thread")
  /\ \/ OnAbiThread /\ Pass("game")
     \/ ~OnAbiThread /\ Fail("WRONG_THREAD")

CheckGame ==
  /\ At("game")
  /\ \/ game # NoGame /\ Pass(AfterGame(Top.export))
     \/ game = NoGame /\ Fail("NOT_CONNECTED")

\* The first handle is in range of the game's table, or never could be.
ResolveSelf ==
  /\ At("self")
  /\ \/ /\ Replace([Top EXCEPT !.at = AfterSelf(Top.export), !.holds = game])
        /\ UNCHANGED <<channel, connection, thread>>
     \/ Fail("INVALID_HANDLE")

\* Mutant: the call goes on with what it has when the second handle is bad.
ResolveOtherGoesOn ==
  /\ At("other")
  /\ \/ Pass("body")
     \/ /\ LatchError("INVALID_HANDLE")
        /\ Replace([Failed("INVALID_HANDLE") EXCEPT !.at = "body"])
        /\ UNCHANGED <<connection, thread>>

ResolveOther ==
  /\ At("other")
  /\ \/ Pass("body")
     \/ Fail("INVALID_HANDLE")

-----------------------------------------------------------------------------
(* The bodies *)

\* Mutant: a call that succeeds resets the channel.
AnswerClears ==
  /\ At("body") /\ Top.export \in Wrappers
  /\ Top.arg # "stride"
  /\ Replace([Top EXCEPT !.at = "return",
                         !.text = IF Top.arg = "room" THEN "written" ELSE @])
  /\ err' = None
  /\ UNCHANGED <<handler, era, due, connection, thread>>

\* BWAPI answers and the answer is converted.
Answer ==
  /\ At("body") /\ Top.export \in Wrappers
  /\ Top.arg # "stride"
  /\ Replace([Top EXCEPT !.at = "return",
                         !.text = IF Top.arg = "room" THEN "written" ELSE @])
  /\ UNCHANGED <<channel, connection, thread>>

\* write_rows() finds a stride that cannot hold its own size.
BadStride == At("body") /\ Top.arg = "stride" /\ Fail("BAD_BUFFER")

\* The bodies that call into BWAPI: all, past their own early returns.
CallsBwapi ==
  \/ Top.export \in Wrappers \union {Update}
  \/ Top.export = Connect /\ game = NoGame
  \/ Top.export = Disconnect /\ OnAbiThread

\* Mutant: the code of an exception nobody classified is BWAPI_ERR_NONE.
ThrowUnclassified == At("body") /\ CallsBwapi /\ Fail(None)

\* BWAPI throws; guard() latches and returns the neutral value.
Throw == At("body") /\ CallsBwapi /\ Fail("EXCEPTION")

\* Client::disconnect(), or Client::update() when it disconnects, throws after the
\* game is gone: nobody unbinds the thread.
ThrowGone ==
  /\ At("body") /\ CallsBwapi
  /\ Top.export \in {Update, Disconnect}
  /\ game' = NoGame
  /\ LatchError("EXCEPTION")
  /\ Replace(Failed("EXCEPTION"))
  /\ UNCHANGED <<games, abiThread, thread>>

ConnectOpens ==
  /\ At("body") /\ Top.export = Connect
  /\ game = NoGame
  /\ games < MaxGames
  /\ games' = games + 1
  /\ game' = games'
  /\ abiThread' = thread
  /\ Replace([Top EXCEPT !.at = "return"])
  /\ UNCHANGED <<channel, thread>>

\* No server is up: 0, and nothing latched.
ConnectFails ==
  /\ At("body") /\ Top.export = Connect
  /\ game = NoGame
  /\ Pass("return")

ConnectTwice ==
  /\ At("body") /\ Top.export = Connect
  /\ game # NoGame
  /\ Fail("ALREADY_CONNECTED")

UpdateFrame == At("body") /\ Top.export = Update /\ Pass("return")

\* The server went away: the game is gone and the thread is unbound.
UpdateGone ==
  /\ At("body") /\ Top.export = Update
  /\ game' = NoGame
  /\ abiThread' = NoThread
  /\ Replace([Top EXCEPT !.at = "return"])
  /\ UNCHANGED <<channel, games, thread>>

\* Mutant: disconnect() is not thread-checked.
DisconnectClientUnchecked ==
  /\ At("body") /\ Top.export = Disconnect
  /\ game' = NoGame
  /\ abiThread' = NoThread
  /\ Replace([Top EXCEPT !.at = "return"])
  /\ UNCHANGED <<channel, games, thread>>

DisconnectClient ==
  /\ At("body") /\ Top.export = Disconnect
  /\ OnAbiThread
  /\ game' = NoGame
  /\ abiThread' = NoThread
  /\ Replace([Top EXCEPT !.at = "return"])
  /\ UNCHANGED <<channel, games, thread>>

DisconnectElsewhere ==
  /\ At("body") /\ Top.export = Disconnect
  /\ ~OnAbiThread
  /\ Fail("WRONG_THREAD")

\* Mutant: the call returns first and the callback is entered some time later.
ReturnEarly ==
  /\ stack # <<>> /\ Top.at = "return"
  /\ Pop
  /\ UNCHANGED <<channel, connection>>

Return ==
  /\ At("return")
  /\ Pop
  /\ UNCHANGED <<channel, connection>>

-----------------------------------------------------------------------------
HostStep ==
  \/ \E t \in Threads, x \in Exports : \E arg \in Arguments(x) : Invoke(t, x, arg)
  \/ LeaveCallback
  \/ ClearLastError
  \/ \E h \in Handlers : SetErrorCallback(h)

Prologue == CheckBuffer \/ CheckThread \/ CheckGame \/ ResolveSelf \/ ResolveOther

Body ==
  \/ Answer \/ BadStride \/ Throw \/ ThrowGone
  \/ ConnectOpens \/ ConnectFails \/ ConnectTwice
  \/ UpdateFrame \/ UpdateGone
  \/ DisconnectClient \/ DisconnectElsewhere

Next ==
  \/ HostStep
  \/ \E n \in due : StartCallback(n)
  \/ Prologue
  \/ Body
  \/ Return

Spec == Init /\ [][Next]_vars

-----------------------------------------------------------------------------
(* Properties *)

TypeOK ==
  /\ Channel!TypeOK
  /\ game \in Nat /\ games \in Nat
  /\ abiThread \in Threads \union {NoThread}
  /\ thread \in Threads \union {NoThread}
  /\ stack \in Seq(Frame)

\* A call about to read or write the game.
Touching(f) == f.at \in {"self", "other"} \/ (f.at = "body" /\ f.export.game)

\* Whatever a callback has called in the meantime, disconnect and connect
\* included, a call touches the game there is, through an object of that game,
\* on the thread that connected. No guard against re-entrant lifecycle calls is
\* needed for this, because a call that has latched goes nowhere but back.
LiveTouch(f) ==
  Touching(f) =>
    /\ game # NoGame /\ abiThread = thread
    /\ f.at # "self" /\ f.export.handles > 0 => f.holds = game

TouchesLiveGame == \A i \in 1..Len(stack) : LiveTouch(stack[i])

\* No failure is silent: from the moment a call fails until it has returned, the
\* channel holds an error, its own or an earlier one, unless the host has
\* cleared it since. Calls the callback makes with success do not clear it.
Reported(f) == f.failed # None => f.era < era \/ err # None

NeverSilent == \A i \in 1..Len(stack) : Reported(stack[i])

\* A callback runs inside the call whose failure it announces, never later and
\* never for another call, so a host may raise from it.
RaisesAtTheCall ==
  \A i \in 1..Len(stack) : stack[i].export = Callback =>
    i > 1 /\ stack[i - 1].at = "return" /\ stack[i - 1].failed = stack[i].failed

\* A string export that returns 0 for a failure has left an empty string in a
\* buffer with room, never what was there before.
Neutral(f) ==
  f.at = "return" /\ f.export.buffer = "string" /\ f.arg = "room" =>
    f.text = IF f.failed = None THEN "written" ELSE "empty"

NeutralString == \A i \in 1..Len(stack) : Neutral(stack[i])

\* The codes the rules of the ABI give a failing call, the first rule that
\* applies: its buffer, its thread, the connection, its handles, what BWAPI does.
\* Any of them may latch what BWAPI throws, connect and disconnect too.
Diagnosis(f) ==
  IF f.arg = "malformed" THEN {"BAD_BUFFER"}
  ELSE IF (f.export.game \/ f.export = Disconnect) /\ ~OnAbiThread THEN {"WRONG_THREAD"}
  ELSE IF f.export.game /\ game = NoGame THEN {"NOT_CONNECTED"}
  ELSE IF f.export = Connect /\ game # NoGame THEN {"ALREADY_CONNECTED"}
  ELSE IF f.export.handles > 0 THEN {"INVALID_HANDLE", "EXCEPTION"}
  ELSE IF f.arg = "stride" THEN {"BAD_BUFFER", "EXCEPTION"}
  ELSE {"EXCEPTION"}

\* What is latched names the first rule the call broke.
FirstRuleReported == [][err = None /\ err' # None => err' \in Diagnosis(Top)]_vars

\* Callbacks or not, nobody but the thread that connected ends the connection.
OwnerEndsConnection == [][game # NoGame /\ game' # game => thread = abiThread]_vars

-----------------------------------------------------------------------------
(* The inductive invariant: what a suspended call and the running one are.   *)

\* The library is bound while connected, and after a throw perhaps longer.
BoundWhileConnected == game # NoGame => abiThread # NoThread

ThreadIffCalls == stack = <<>> <=> thread = NoThread

\* Below the top there are callbacks, and calls about to return.
Suspended == \A i \in 1..Len(stack) : i < Len(stack) => stack[i].at \in {"host", "return"}

\* What is due, one notice at most, is the failure of the call on top.
DueAtTheTop ==
  \A n \in due :
    /\ err # None
    /\ stack # <<>> /\ Top.at = "return"
    /\ n.err = Top.failed
    /\ n.era \leq era
    /\ due = {n}

\* How far the checks a call has passed still hold, and what it has written.
Progress(f) ==
  /\ f.at = "host" <=> f.export = Callback
  /\ f.at = "game" => OnAbiThread
  /\ f.at \in {"thread", "game", "self", "other"} => f.export.game
  /\ f.at = "self" => f.export.handles > 0
  /\ f.at = "other" => f.export.handles = 2
  /\ f.arg \in Arguments(f.export)
  /\ f.at \notin {"buffer", "return"} => f.arg # "malformed"
  /\ f.at \notin {"return", "host"} => f.failed = None
  /\ f.at \notin {"buffer", "return"} /\ f.export.buffer = "string" /\ f.arg = "room"
       => f.text = "empty"
  /\ f.era \leq era

FrameOK(f) == Progress(f) /\ LiveTouch(f) /\ Reported(f) /\ Neutral(f)

IInv ==
  /\ TypeOK
  /\ BoundWhileConnected
  /\ ThreadIffCalls
  /\ Suspended
  /\ DueAtTheTop
  /\ RaisesAtTheCall
  /\ \A i \in 1..Len(stack) : FrameOK(stack[i])
=============================================================================
