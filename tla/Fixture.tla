------------------------------ MODULE Fixture ------------------------------
(***************************************************************************)
(* The synthetic GameData builder of the tests: units and neutrals, the    *)
(* footprints it keeps of the neutrals, the event buffer, and start() and  *)
(* frame(), which hand the buffer to the client's GameImpl.                *)
(*                                                                         *)
(* Each call either returns or throws FixtureError; a call that throws     *)
(* leaves behind what it wrote before.  Unit ids count from 1 here.  What  *)
(* GameImpl does with a batch of events is external.                       *)
(***************************************************************************)
EXTENDS Integers, Sequences, SequencesExt

CONSTANTS
    Owners,      \* players other than the neutral one
    Types,       \* types of neutrals
    Width,       \* tileWidth() and tileHeight() of a type
    Height,
    Tiles,       \* the tiles <<tx, ty>> a scenario puts a neutral at
    Strays,      \* the <<type, tile>> it gives to unit(11, ...), the neutral player
    TableSize,   \* the slots of GameData::unitArray
    MAX_EVENTS,  \* the slots of GameData::events
    MaxAccepted, \* bound: events queued over a run
    MaxNeutrals  \* bound: footprints recorded over a run

Neutral == "neutral"
Players == Owners \cup {Neutral}
NoPlayer == "12"

ASSUME SizesAssumption ==
    /\ NoPlayer \notin Players
    /\ TableSize \in Nat /\ MAX_EVENTS \in Nat \ {0} /\ MaxAccepted \in Nat
    /\ MaxNeutrals \in Nat /\ Tiles \subseteq Int \X Int /\ Strays \subseteq Types \X Tiles
    /\ \A t \in Types : Width[t] \in Nat \ {0} /\ Height[t] \in Nat \ {0}

VARIABLES
    game,       \* game_ is set: start() has run
    units,      \* data->units below unit_count_: the owner, the footprint a neutral
                \* stands on, and whether unit() or neutral() has placed it
    footprints, \* neutral_footprints_
    events,     \* data->events below eventCount
    consumed,   \* pending_consumed_
    known,      \* GameImpl: the units that are in their player's set
    accepted,   \* history: the events whose event() returned
    delivered,  \* history: the events GameImpl was handed, but the MatchFrames
    threw       \* history: whether the last call threw

vars == <<game, units, footprints, events, consumed, known, accepted, delivered, threw>>

Init ==
    /\ game = FALSE /\ units = <<>> /\ footprints = <<>>
    /\ events = <<>> /\ consumed = 0 /\ known = {}
    /\ accepted = <<>> /\ delivered = <<>> /\ threw = FALSE

MatchFrame == <<"MatchFrame", 0>>
UnitDiscover(id) == <<"UnitDiscover", id>>
Other(k) == <<"Other", k>>

----------------------------------------------------------------------------
(* The footprint rule.  right and bottom are exclusive.                    *)

Footprint(type, tx, ty) ==
    [left |-> tx, top |-> ty, right |-> tx + Width[type], bottom |-> ty + Height[type],
     type |-> type]

\* The code writes the test twice, in neutral() and in partially_overlaps().
\* Mutant: right and bottom are taken for the last tile, on one axis only.
LastColumnIsEdge(a, b) ==
    /\ a.left < b.right - 1 /\ b.left < a.right - 1
    /\ a.top < b.bottom /\ b.top < a.bottom
Intersects(a, b) ==
    /\ a.left < b.right /\ b.left < a.right
    /\ a.top < b.bottom /\ b.top < a.bottom

partially_overlaps(a, b) == Intersects(a, b) /\ a # b

Refused(fp, stacked) ==
    \E k \in DOMAIN footprints :
        /\ Intersects(fp, footprints[k])
        /\ partially_overlaps(fp, footprints[k]) \/ ~stacked

----------------------------------------------------------------------------
(* Building the world.                                                     *)

\* event(), from a test or from the builder.
event(e) ==
    IF Len(events) < MAX_EVENTS
    THEN /\ events' = Append(events, e)
         /\ accepted' = Append(accepted, e)
         /\ threw' = FALSE
    ELSE threw' = TRUE /\ UNCHANGED <<events, accepted>>

\* Mutant: the slot after the last one is used as well.
OnePastTable == Len(units) > TableSize
TableFull == Len(units) >= TableSize

\* The part of unit() and neutral() that follows their checks.
Allocate(u) ==
    \/ /\ TableFull
       /\ threw' = TRUE
       /\ UNCHANGED <<units, events, accepted>>
    \/ /\ ~TableFull
       /\ units' = Append(units, u)
       /\ event(UnitDiscover(Len(units) + 1))

\* A unit of a player; of the neutral one with the footprint it stands on.
Placed(owner, footprint, by) == [owner |-> owner, footprint |-> footprint, by |-> by]

\* Mutant: the unit is left for onMatchStart() to find.
UnitWithoutEvent(owner, footprint) ==
    /\ ~game /\ owner \in Players /\ ~TableFull
    /\ units' = Append(units, Placed(owner, footprint, "unit"))
    /\ UNCHANGED <<game, events, accepted, threw, footprints, consumed, known, delivered>>
\* The neutral player is an owner like any other: no footprint is looked at, and
\* none recorded.
unit(owner, footprint) ==
    /\ ~game
    /\ UNCHANGED <<game, footprints, consumed, known, delivered>>
    /\ \/ /\ owner \notin Players
          /\ threw' = TRUE
          /\ UNCHANGED <<units, events, accepted>>
       \/ /\ owner \in Players
          /\ Allocate(Placed(owner, footprint, "unit"))

\* Mutant: the footprint is recorded when all the rest has been done.
NeutralRecordsLast(type, tile, stacked) ==
    LET fp == Footprint(type, tile[1], tile[2]) IN
    /\ ~game /\ ~Refused(fp, stacked)
    /\ Allocate(Placed(Neutral, fp, "neutral"))
    /\ footprints' = IF threw' THEN footprints ELSE Append(footprints, fp)
    /\ UNCHANGED <<game, consumed, known, delivered>>
neutral(type, tile, stacked) ==
    LET fp == Footprint(type, tile[1], tile[2]) IN
    /\ ~game
    /\ UNCHANGED <<game, consumed, known, delivered>>
    /\ \/ /\ Refused(fp, stacked)
          /\ threw' = TRUE
          /\ UNCHANGED <<units, footprints, events, accepted>>
       \/ /\ ~Refused(fp, stacked)
          /\ footprints' = Append(footprints, fp)
          /\ Allocate(Placed(Neutral, fp, "neutral"))

\* A test queues an event, before start() or between frames.
TestEvent ==
    /\ event(Other(Len(accepted)))
    /\ UNCHANGED <<game, units, footprints, consumed, known, delivered>>

\* unit(), neutral() and start() after start().
require_not_started ==
    /\ game
    /\ threw' = TRUE
    /\ UNCHANGED <<game, units, footprints, events, consumed, known, accepted, delivered>>

----------------------------------------------------------------------------
(* Running.                                                                *)

\* The units that a batch of events announces.
Announced(batch) ==
    {u \in DOMAIN units : \E k \in DOMAIN batch : batch[k] = UnitDiscover(u)}

\* GameImpl goes through the buffer, here without its MatchFrame: a
\* UnitDiscover puts the unit in its player's set.
Pump(batch) ==
    /\ known' = known \cup Announced(batch)
    /\ delivered' = delivered \o batch
    /\ threw' = FALSE

start ==
    /\ ~game
    /\ game' = TRUE
    /\ Pump(events)
    /\ consumed' = Len(events)
    /\ UNCHANGED <<units, footprints, events, accepted>>

\* Mutant: last frame's events are queued again.
KeepsAll == events
Kept == SubSeq(events, consumed + 1, Len(events))

\* MatchFrame leads and the kept events follow, one event() each: the first
\* that finds the buffer full throws, and the frame ends there.
frame ==
    LET queue == <<MatchFrame>> \o Kept IN
    /\ game
    /\ \/ /\ Len(queue) <= MAX_EVENTS
          /\ events' = queue
          /\ Pump(Kept)
          /\ consumed' = Len(queue)
       \/ /\ Len(queue) > MAX_EVENTS
          /\ events' = SubSeq(queue, 1, MAX_EVENTS)
          /\ threw' = TRUE
          /\ UNCHANGED <<consumed, known, delivered>>
    /\ UNCHANGED <<game, units, footprints, accepted>>

Next ==
    \/ /\ Len(accepted) < MaxAccepted
       /\ \/ \E o \in Owners \cup {NoPlayer} : unit(o, <<>>)
          \/ \E s \in Strays : unit(Neutral, Footprint(s[1], s[2][1], s[2][2]))
          \/ /\ Len(footprints) < MaxNeutrals
             /\ \E type \in Types, tile \in Tiles, stacked \in BOOLEAN :
                    neutral(type, tile, stacked)
          \/ TestEvent
    \/ require_not_started
    \/ start
    \/ frame

Spec == Init /\ [][Next]_vars

----------------------------------------------------------------------------
(* Properties.                                                             *)

UnitRecords == [owner : Players, by : {"unit", "neutral"},
                footprint : {<<>>} \cup {Footprint(t, p[1], p[2]) : t \in Types, p \in Tiles}]

\* The tables hold what fits them: no unit without an index (the 1701st), no
\* event past the buffer, and the consumed events are in the buffer.
TypeOK ==
    /\ game \in BOOLEAN
    /\ units \in Seq(UnitRecords) /\ Len(units) <= TableSize
    /\ Len(events) <= MAX_EVENTS
    /\ consumed \in 0 .. Len(events)
    /\ known \subseteq DOMAIN units

Covered(fp) == (fp.left .. fp.right - 1) \X (fp.top .. fp.bottom - 1)

\* The units neutral() has placed.
Neutrals == {k \in DOMAIN units : units[k].by = "neutral"}

\* Invariant 5 of fixture.h, in terms of the map: whatever the calls and
\* whichever of them threw, two neutrals placed by neutral() that share a tile
\* have the same tiles and the same type. Where BWEM would build a misaligned
\* stack, one of the two was placed by unit(11, ...), which the rule does not reach.
NoMisalignedStack ==
    \A j, k \in Neutrals :
        LET a == units[j].footprint
            b == units[k].footprint IN
        Covered(a) \cap Covered(b) # {} => a = b

\* A neutral() that throws half way keeps the books right: the footprint of every
\* unit neutral() has placed is on record, and a footprint without such a unit,
\* which would refuse a later neutral for one that is not there, is left behind
\* only when the unit table is full, where no later neutral can succeed.
PhantomsAreHarmless ==
    LET standing == {units[k].footprint : k \in Neutrals} IN
    /\ standing \subseteq Range(footprints)
    /\ Range(footprints) # standing => TableFull

\* Invariant 4 of fixture.h: once the game runs, every unit is in its
\* player's set.  The only units that may miss are the last ones, and only
\* when the events queued before start() had filled the buffer: their
\* unit() or neutral() threw after the unit was in the table.
EveryUnitDiscovered ==
    game => \E k \in 0 .. Len(units) :
                /\ known = 1 .. k
                /\ k < Len(units) => Len(delivered) >= MAX_EVENTS

\* The events of the buffer that no batch has contained yet.
Waiting == SubSeq(events, consumed + 1, Len(events))

\* An event whose event() returned is handed to GameImpl once, in the order
\* of the calls, by the next start() or frame(): what has been delivered and
\* what the buffer still holds are together what was queued.  The exception, which
\* the comment in frame() does not make, is a game started with nothing
\* queued: its first frame, when it finds the buffer full, drops the last event.
DeliveredOnceInOrder ==
    (consumed > 0 \/ ~game \/ Len(events) < MAX_EVENTS) =>
        delivered \o Waiting = accepted

\* Once a batch has been pumped the buffer has room for a MatchFrame and the
\* events queued behind it: frame() throws only in a game that has been
\* handed nothing at all.
FrameFitsOncePumped ==
    [][frame /\ threw' => delivered = <<>>]_vars

=============================================================================
