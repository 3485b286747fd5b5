--------------------------- MODULE ClientLifecycle ---------------------------
(***************************************************************************)
(* The client lifecycle of src/client.cpp with the thread affinity and the *)
(* prologue every game-touching wrapper shares (src/abi.cpp, handles.cpp), *)
(* step by step: one action for each access to what the host's threads     *)
(* share.  None of it is under a lock.  BWAPI's Client and its server are  *)
(* outside the repository and modelled as this code uses them.             *)
(***************************************************************************)
EXTENDS Naturals

CONSTANTS
  Threads,       \* the host's threads
  NoThread,      \* std::thread::id{}, which means unbound
  ConnectAlone,  \* whether the host keeps its other threads out of the library
                 \* while one of them is in bwapi_client_connect()
  MaxGames,      \* bound: connections made
  MaxFrames      \* bound: frames of one connection

ASSUME ThreadAssumption == NoThread \notin Threads
ASSUME DisciplineAssumption == ConnectAlone \in BOOLEAN
ASSUME BoundAssumption == MaxGames \in Nat /\ MaxFrames \in Nat

VARIABLES
  serverUp,   \* a server is running
  link,       \* the pipe of the present connection works
  connected,  \* BWAPIClient.isConnected()
  game,       \* BroodwarPtr: the number of the GameImpl, 0 for null
  games,      \* how many GameImpls have been made
  frame,      \* the frame the present game is at
  abiThread,  \* g_abi_thread
  leftBound,  \* history: a throw has kept the library from unbinding since the last bind
  events,     \* g_events: of which game and frame; NoEvents when empty
  code,       \* the latched error
  pc,         \* where each thread is
  holds       \* the game whose objects a wrapper has resolved, 0 for none

vars == <<serverUp, link, connected, game, games, frame, abiThread, leftBound, events, code,
          pc, holds>>
server == <<serverUp, link>>
client == <<connected, game, games, frame>>

NoGame == 0
NoEvents == [game |-> 0, frame |-> 0]
None == "NONE"
Codes == {"WRONG_THREAD", "NOT_CONNECTED", "ALREADY_CONNECTED", "INVALID_HANDLE", "EXCEPTION"}

Connecting == {"connect.check", "connect.open", "connect.bind", "connect.clear"}
Updating == {"update.thread", "update.game", "update.clear", "update.wait",
             "update.check", "update.snapshot"}
Disconnecting == {"disconnect.thread", "disconnect.clear", "disconnect.client",
                  "disconnect.unbind"}
Calling == {"call.thread", "call.game", "call.resolve", "call.use"}

Init ==
  /\ serverUp \in BOOLEAN /\ link = FALSE
  /\ connected = FALSE /\ game = NoGame /\ games = 0 /\ frame = 0
  /\ abiThread = NoThread /\ leftBound = FALSE
  /\ events = NoEvents
  /\ code = None
  /\ pc = [t \in Threads |-> "host"]
  /\ holds = [t \in Threads |-> NoGame]

-----------------------------------------------------------------------------
(* The server *)

ServerStart ==
  /\ ~serverUp
  /\ serverUp' = TRUE
  /\ UNCHANGED <<link, client, abiThread, leftBound, events, code, pc, holds>>

\* The server goes away, and the pipe with it; the client does not know yet.
ServerStop ==
  /\ serverUp
  /\ serverUp' = FALSE
  /\ link' = FALSE
  /\ UNCHANGED <<client, abiThread, leftBound, events, code, pc, holds>>

-----------------------------------------------------------------------------
(* Movements of one thread *)

Goto(t, from, to) ==
  /\ pc[t] = from
  /\ pc' = [pc EXCEPT ![t] = to]

\* The first error since the last clear is kept.
Latch(c) == code' = IF code = None THEN c ELSE code

\* on_abi_thread(): an unbound library checks nothing.
OnAbiThread(t) == abiThread \in {NoThread, t}

\* Which calls the host makes together with which others.
MayCall(t, point) ==
  ConnectAlone =>
    /\ point = "connect.check" => \A u \in Threads : pc[u] = "host"
    /\ \A u \in Threads : pc[u] \notin Connecting

Call(t, point) ==
  /\ MayCall(t, point)
  /\ Goto(t, "host", point)
  /\ UNCHANGED <<server, client, abiThread, leftBound, events, code, holds>>

\* The thread check of a call at `from': on to `to', or WRONG_THREAD.
CheckThread(t, from, to) ==
  /\ \/ OnAbiThread(t) /\ Goto(t, from, to) /\ UNCHANGED code
     \/ ~OnAbiThread(t) /\ Goto(t, from, "host") /\ Latch("WRONG_THREAD")
  /\ UNCHANGED <<server, client, abiThread, leftBound, events, holds>>

\* The second half of game_ready(): on to `to', or NOT_CONNECTED.
CheckGame(t, from, to) ==
  /\ \/ game # NoGame /\ Goto(t, from, to) /\ UNCHANGED code
     \/ game = NoGame /\ Goto(t, from, "host") /\ Latch("NOT_CONNECTED")
  /\ UNCHANGED <<server, client, abiThread, leftBound, events, holds>>

ClearLastError ==
  /\ code # None
  /\ code' = None
  /\ UNCHANGED <<server, client, abiThread, leftBound, events, pc, holds>>

-----------------------------------------------------------------------------
(* bwapi_client_connect() *)

ConnectCheck(t) ==
  /\ \/ connected /\ Goto(t, "connect.check", "host") /\ Latch("ALREADY_CONNECTED")
     \/ ~connected /\ Goto(t, "connect.check", "connect.open") /\ UNCHANGED code
  /\ UNCHANGED <<server, client, abiThread, leftBound, events, holds>>

\* Client::connect() fails when no server is up, and may fail when one is.
ConnectFails(t) ==
  /\ ~connected
  /\ Goto(t, "connect.open", "host")
  /\ UNCHANGED <<server, client, abiThread, leftBound, events, code, holds>>

\* Client::connect() throws, as OpenBW's always does, before there is a game.
ConnectThrows(t) ==
  /\ ~connected
  /\ Goto(t, "connect.open", "host")
  /\ Latch("EXCEPTION")
  /\ UNCHANGED <<server, client, abiThread, leftBound, events, holds>>

\* Client::connect() makes a GameImpl and BroodwarPtr points to it; a client
\* another thread has connected meanwhile says yes without doing anything.
ConnectOpens(t) ==
  /\ Goto(t, "connect.open", "connect.bind")
  /\ \/ /\ connected
        /\ UNCHANGED <<client, link>>
     \/ /\ ~connected /\ serverUp
        /\ games < MaxGames
        /\ games' = games + 1
        /\ game' = games'
        /\ connected' = TRUE
        /\ frame' = 0
        /\ link' = TRUE
  /\ UNCHANGED <<serverUp, abiThread, leftBound, events, code, holds>>

\* Mutant: the calling thread is not recorded.
ConnectBindForgotten(t) ==
  /\ Goto(t, "connect.bind", "connect.clear")
  /\ UNCHANGED <<server, client, abiThread, leftBound, events, code, holds>>

ConnectBind(t) ==
  /\ Goto(t, "connect.bind", "connect.clear")
  /\ abiThread' = t
  /\ leftBound' = FALSE
  /\ UNCHANGED <<server, client, events, code, holds>>

ConnectClear(t) ==
  /\ Goto(t, "connect.clear", "host")
  /\ events' = NoEvents
  /\ UNCHANGED <<server, client, abiThread, leftBound, code, holds>>

-----------------------------------------------------------------------------
(* bwapi_client_update() *)

\* Mutant: update() is not thread-checked.
UpdateThreadUnchecked(t) ==
  /\ Goto(t, "update.thread", "update.game")
  /\ UNCHANGED <<server, client, abiThread, leftBound, events, code, holds>>

UpdateThread(t) == CheckThread(t, "update.thread", "update.game")

UpdateGame(t) == CheckGame(t, "update.game", "update.clear")

\* Mutant: the events of the frame that ends are kept until the next snapshot.
UpdateClearForgotten(t) ==
  /\ Goto(t, "update.clear", "update.wait")
  /\ UNCHANGED <<server, client, abiThread, leftBound, events, code, holds>>

UpdateClear(t) ==
  /\ Goto(t, "update.clear", "update.wait")
  /\ events' = NoEvents
  /\ UNCHANGED <<server, client, abiThread, leftBound, code, holds>>

\* Client::update() returns with the next frame.
UpdateFrame(t) ==
  /\ Goto(t, "update.wait", "update.check")
  /\ link
  /\ frame < MaxFrames
  /\ frame' = frame + 1
  /\ UNCHANGED <<server, connected, game, games, abiThread, leftBound, events, code, holds>>

\* Client::disconnect() deletes the GameImpl.
TakenDown ==
  /\ connected' = FALSE
  /\ game' = NoGame
  /\ UNCHANGED <<games, frame>>

\* Client::update() finds the pipe broken, and disconnects.
UpdateGone(t) ==
  /\ Goto(t, "update.wait", "update.check")
  /\ ~link
  /\ TakenDown
  /\ UNCHANGED <<server, abiThread, leftBound, events, code, holds>>

\* Client::update() throws, after it has disconnected perhaps; the boundary
\* latches and returns, and nobody looks whether the game is still there.
UpdateThrows(t) ==
  /\ Goto(t, "update.wait", "host")
  /\ Latch("EXCEPTION")
  /\ UNCHANGED <<client, leftBound>> \/ (~link /\ TakenDown /\ leftBound' = TRUE)
  /\ UNCHANGED <<server, abiThread, events, holds>>

\* Mutant: a lost server leaves the thread bound.
UpdateCheckStaysBound(t) ==
  /\ \/ game = NoGame /\ Goto(t, "update.check", "host")
     \/ game # NoGame /\ Goto(t, "update.check", "update.snapshot")
  /\ UNCHANGED <<server, client, abiThread, leftBound, events, code, holds>>

UpdateCheck(t) ==
  /\ \/ /\ game = NoGame /\ Goto(t, "update.check", "host")
        /\ abiThread' = NoThread /\ leftBound' = FALSE
     \/ /\ game # NoGame /\ Goto(t, "update.check", "update.snapshot")
        /\ UNCHANGED <<abiThread, leftBound>>
  /\ UNCHANGED <<server, client, events, code, holds>>

UpdateSnapshot(t) ==
  /\ Goto(t, "update.snapshot", "host")
  /\ events' = [game |-> game, frame |-> frame]
  /\ UNCHANGED <<server, client, abiThread, leftBound, code, holds>>

\* No memory for the snapshot.
SnapshotThrows(t) ==
  /\ Goto(t, "update.snapshot", "host")
  /\ Latch("EXCEPTION")
  /\ UNCHANGED <<server, client, abiThread, leftBound, events, holds>>

-----------------------------------------------------------------------------
(* bwapi_client_disconnect() *)

\* Mutant: disconnect() is not thread-checked.
DisconnectThreadUnchecked(t) ==
  /\ Goto(t, "disconnect.thread", "disconnect.clear")
  /\ UNCHANGED <<server, client, abiThread, leftBound, events, code, holds>>

DisconnectThread(t) == CheckThread(t, "disconnect.thread", "disconnect.clear")

\* teardown_bwem() has nothing to tear down yet.
DisconnectClear(t) ==
  /\ Goto(t, "disconnect.clear", "disconnect.client")
  /\ events' = NoEvents
  /\ UNCHANGED <<server, client, abiThread, leftBound, code, holds>>

\* Nothing happens when not connected.
DisconnectClient(t) ==
  /\ Goto(t, "disconnect.client", "disconnect.unbind")
  /\ TakenDown
  /\ link' = FALSE
  /\ UNCHANGED <<serverUp, abiThread, leftBound, events, code, holds>>

\* Client::disconnect() throws, with the connection still there or gone: either
\* way the boundary returns without unbinding the thread.
DisconnectThrows(t) ==
  /\ Goto(t, "disconnect.client", "host")
  /\ Latch("EXCEPTION")
  /\ UNCHANGED <<client, link, leftBound>> \/ (TakenDown /\ link' = FALSE /\ leftBound' = TRUE)
  /\ UNCHANGED <<serverUp, abiThread, events, holds>>

\* Mutant: unbinding stores an id that means nothing.
DisconnectUnbindWrong(t) ==
  /\ Goto(t, "disconnect.unbind", "host")
  /\ abiThread' = NoGame
  /\ leftBound' = FALSE
  /\ UNCHANGED <<server, client, events, code, holds>>

DisconnectUnbind(t) ==
  /\ Goto(t, "disconnect.unbind", "host")
  /\ abiThread' = NoThread
  /\ leftBound' = FALSE
  /\ UNCHANGED <<server, client, events, code, holds>>

-----------------------------------------------------------------------------
(* A wrapper over a game object: prologue, handle, the call into BWAPI *)

CallThread(t) == CheckThread(t, "call.thread", "call.game")

CallGame(t) == CheckGame(t, "call.game", "call.resolve")

\* The handle is resolved through BroodwarPtr, or could never have been valid.
CallResolve(t) ==
  /\ \/ /\ Goto(t, "call.resolve", "call.use")
        /\ holds' = [holds EXCEPT ![t] = game]
        /\ UNCHANGED code
     \/ /\ Goto(t, "call.resolve", "host")
        /\ Latch("INVALID_HANDLE")
        /\ UNCHANGED holds
  /\ UNCHANGED <<server, client, abiThread, leftBound, events>>

\* BWAPI answers from the object resolved, or throws.
CallUse(t) ==
  /\ Goto(t, "call.use", "host")
  /\ UNCHANGED code \/ Latch("EXCEPTION")
  /\ holds' = [holds EXCEPT ![t] = NoGame]
  /\ UNCHANGED <<server, client, abiThread, leftBound, events>>

-----------------------------------------------------------------------------
HostStep(t) ==
  \E point \in {"connect.check", "update.thread", "disconnect.thread", "call.thread"} :
    Call(t, point)

LibraryStep(t) ==
  \/ ConnectCheck(t) \/ ConnectFails(t) \/ ConnectThrows(t) \/ ConnectOpens(t)
  \/ ConnectBind(t) \/ ConnectClear(t)
  \/ UpdateThread(t) \/ UpdateGame(t) \/ UpdateClear(t) \/ UpdateFrame(t) \/ UpdateGone(t)
  \/ UpdateThrows(t) \/ UpdateCheck(t) \/ UpdateSnapshot(t) \/ SnapshotThrows(t)
  \/ DisconnectThread(t) \/ DisconnectClear(t) \/ DisconnectClient(t) \/ DisconnectThrows(t)
  \/ DisconnectUnbind(t)
  \/ CallThread(t) \/ CallGame(t) \/ CallResolve(t) \/ CallUse(t)

Next ==
  \/ ServerStart \/ ServerStop
  \/ ClearLastError
  \/ \E t \in Threads : HostStep(t) \/ LibraryStep(t)

Spec == Init /\ [][Next]_vars

-----------------------------------------------------------------------------
(* Properties *)

Points == {"host"} \union Connecting \union Updating \union Disconnecting \union Calling

TypeOK ==
  /\ serverUp \in BOOLEAN /\ link \in BOOLEAN /\ connected \in BOOLEAN
  /\ game \in Nat /\ games \in Nat /\ frame \in Nat
  /\ abiThread \in Threads \union {NoThread} /\ leftBound \in BOOLEAN
  /\ events \in [game : Nat, frame : Nat]
  /\ code \in Codes \union {None}
  /\ pc \in [Threads -> Points]
  /\ holds \in [Threads -> Nat]

\* A thread about to read or write the game: it waits on the pipe, copies its
\* events, resolves a handle or calls through one.
Touching == {"update.wait", "update.snapshot", "call.resolve", "call.use"}

\* No thread goes on with a game that is not there, or uses an object of a game
\* that has been deleted.
NoDanglingGame ==
  \A t \in Threads :
    /\ pc[t] \in Touching => game # NoGame
    /\ pc[t] = "call.use" => holds[t] = game

\* Only the thread that connected touches the game.
OwnerTouches == \A t \in Threads : pc[t] \in Touching => abiThread = t

\* The events a host can index are those of the present frame of the present
\* game: they never outlive a frame, a disconnect or the server.
SnapshotFresh == events # NoEvents => events = [game |-> game, frame |-> frame]

\* When no call is in progress the library is bound exactly while connected. The
\* exception is a throw out of Client::disconnect(), or of an update that has lost
\* the server, after the end of the connection: the thread then stays bound until
\* it disconnects or some thread connects. A connection always has a bound thread.
BoundIffConnected ==
  (\A t \in Threads : pc[t] = "host") =>
    /\ connected <=> game # NoGame
    /\ connected => abiThread # NoThread
    /\ abiThread # NoThread => connected \/ leftBound

\* A connect that is about to return 1 leaves its caller connected and bound.
ConnectTruthful ==
  [][\A t \in Threads : ConnectClear(t) => connected' /\ abiThread' = t]_vars

\* Whose the present connection is: its thread's who has made it and is about to
\* be recorded, then the recorded one's.
AbstractOwner ==
  IF ~connected THEN NoThread
  ELSE IF \E t \in Threads : pc[t] = "connect.bind"
       THEN CHOOSE t \in Threads : pc[t] = "connect.bind"
       ELSE abiThread

\* The game a thread is inside of: about to touch it, or to take it down.
AbstractInside ==
  [t \in Threads |->
    IF pc[t] = "call.use" THEN holds[t]
    ELSE IF pc[t] \in Touching \union {"disconnect.client"} THEN game
    ELSE NoGame]

Abstract == INSTANCE Connection WITH owner <- AbstractOwner, inside <- AbstractInside

\* Whatever calls overlap, the connection goes from thread to thread as one
\* thing: its owner alone moves it on, reads its events and takes it down, with
\* nobody else inside, and a call in another thread never shows in it.
ImplementsConnection == Abstract!Spec

\* The rule as src/abi_internal.h and the conventions of bwapi_c2_types.h state
\* it: while bound, no other thread touches the game.
BoundThreadTouches ==
  \A t \in Threads : pc[t] \in Touching /\ abiThread # NoThread => abiThread = t

-----------------------------------------------------------------------------
(* The inductive invariant, of a host that connects alone *)

GameIffConnected == connected <=> game # NoGame

\* A connect in progress is the only call in progress.
ConnectsAlone ==
  \A t, u \in Threads : pc[t] \in Connecting /\ u # t => pc[u] = "host"

ConnectProgress ==
  \A t \in Threads :
    /\ pc[t] = "connect.open" => ~connected
    /\ pc[t] = "connect.bind" => connected
    /\ pc[t] = "connect.clear" => connected /\ abiThread = t

\* The binding follows the connection, with these calls in between.
BindingFollows ==
  /\ connected => abiThread # NoThread \/ \E t \in Threads : pc[t] = "connect.bind"
  /\ ~connected /\ abiThread # NoThread =>
       leftBound \/ pc[abiThread] \in {"update.check", "disconnect.unbind"}

\* Points past the thread check, and those of them past the check of the game.
PastThread == (Updating \union Disconnecting \union Calling)
                \ {"update.thread", "disconnect.thread", "call.thread"}
PastGame == {"update.clear", "update.wait", "update.snapshot", "call.resolve", "call.use"}

\* A thread other than the one bound has passed the check only while there was
\* no connection, and none has been made since.
ChecksStillHold ==
  \A t \in Threads :
    /\ pc[t] \in PastThread => abiThread = t \/ (abiThread = NoThread /\ ~connected)
    /\ pc[t] \in PastGame => abiThread = t /\ connected
    /\ pc[t] = "update.check" => abiThread = t
    /\ pc[t] = "disconnect.unbind" => ~connected
    /\ pc[t] = "call.use" => holds[t] = game

EventsCleared ==
  /\ ~connected => events = NoEvents
  /\ \A t \in Threads :
       pc[t] \in {"connect.bind", "connect.clear", "update.wait", "update.check",
                 "update.snapshot", "disconnect.client"} =>
         events = NoEvents

IInv ==
  /\ TypeOK
  /\ GameIffConnected
  /\ ConnectsAlone
  /\ ConnectProgress
  /\ BindingFollows
  /\ ChecksStillHold
  /\ EventsCleared
  /\ SnapshotFresh
=============================================================================
