----------------------------- MODULE Connection -----------------------------
(***************************************************************************)
(* What the client lifecycle promises a host that connects alone, without  *)
(* the steps of a call, the pipe or the thread check: one connection at a  *)
(* time, which belongs to the thread that made it.  That thread alone goes *)
(* inside the game, and a frame, a snapshot of its events and the end of   *)
(* the connection come from inside it.                                     *)
(***************************************************************************)
EXTENDS Naturals

CONSTANTS
  Threads,  \* the host's threads
  NoThread  \* the owner while there is no connection

VARIABLES
  owner,   \* the thread the connection belongs to
  game,    \* the number of its GameImpl
  games,   \* how many there have been
  frame,   \* the frame it is at
  events,  \* of which game and frame the events at hand are
  inside   \* the game each thread is inside of

vars == <<owner, game, games, frame, events, inside>>

NoGame == 0
NoEvents == [game |-> 0, frame |-> 0]

Init ==
  /\ owner = NoThread
  /\ game = NoGame /\ games = 0 /\ frame = 0
  /\ events = NoEvents
  /\ inside = [t \in Threads |-> NoGame]

\* A new game, at its start.
Connect(t) ==
  /\ owner = NoThread
  /\ owner' = t
  /\ games' = games + 1 /\ game' = games' /\ frame' = 0
  /\ UNCHANGED <<events, inside>>

\* The owner goes inside, and may give up the events at hand.
Enter(t) ==
  /\ owner = t
  /\ inside' = [inside EXCEPT ![t] = game]
  /\ events' \in {events, NoEvents}
  /\ UNCHANGED <<owner, game, games, frame>>

Leaves(t) ==
  /\ inside[t] # NoGame
  /\ inside' = [inside EXCEPT ![t] = NoGame]

Leave(t) ==
  /\ Leaves(t)
  /\ UNCHANGED <<owner, game, games, frame, events>>

\* The next frame comes when no events of this one are at hand any more.
Frame(t) ==
  /\ Leaves(t)
  /\ events = NoEvents
  /\ frame' = frame + 1
  /\ UNCHANGED <<owner, game, games, events>>

Snapshot(t) ==
  /\ Leaves(t)
  /\ events' = [game |-> inside[t], frame |-> frame]
  /\ UNCHANGED <<owner, game, games, frame>>

\* The server is lost or the owner disconnects: nobody else is inside, and
\* no events are left behind.
End(t) ==
  /\ Leaves(t)
  /\ \A u \in Threads \ {t} : inside[u] = NoGame
  /\ events = NoEvents
  /\ owner' = NoThread /\ game' = NoGame
  /\ UNCHANGED <<games, frame, events>>

Next ==
  \E t \in Threads :
    Connect(t) \/ Enter(t) \/ Leave(t) \/ Frame(t) \/ Snapshot(t) \/ End(t)

Spec == Init /\ [][Next]_vars

-----------------------------------------------------------------------------
\* What follows for the host: only the owner is ever inside, in the game there
\* is, and the events at hand are those of the present frame of that game.
Exclusive ==
  \A t \in Threads : inside[t] # NoGame => owner = t /\ inside[t] = game

Current == events # NoEvents => events = [game |-> game, frame |-> frame]

Promise ==
  /\ owner \in Threads \union {NoThread} /\ game \in Nat /\ games \in Nat
  /\ inside \in [Threads -> Nat]
  /\ owner = NoThread <=> game = NoGame
  /\ owner = NoThread => events = NoEvents
  /\ Exclusive /\ Current
=============================================================================
