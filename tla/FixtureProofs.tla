--------------------------- MODULE FixtureProofs ---------------------------
(***************************************************************************)
(* What a test may rely on for every scenario, whatever the sizes of the   *)
(* tables and the footprints of the types, and whichever of its calls      *)
(* threw: no misaligned stack of neutrals, books that agree with the       *)
(* units, and every event and every unit handed to GameImpl once.          *)
(***************************************************************************)
EXTENDS Fixture, SequenceTheorems, TLAPS

USE SizesAssumption

Prints == {Footprint(t, p[1], p[2]) : t \in Types, p \in Tiles}

EventRecords == {"MatchFrame", "UnitDiscover", "Other"} \X Nat

----------------------------------------------------------------------------
(* The inductive invariant.                                                *)

Tables ==
    /\ game \in BOOLEAN
    /\ footprints \in Seq(Prints)
    /\ units \in Seq(UnitRecords) /\ Len(units) <= TableSize
    /\ known \subseteq DOMAIN units

Buffer ==
    /\ events \in Seq(EventRecords) /\ Len(events) <= MAX_EVENTS
    /\ accepted \in Seq(EventRecords) /\ delivered \in Seq(EventRecords)
    /\ consumed \in 0 .. Len(events)
    /\ consumed = 0 => delivered = <<>>
    /\ ~game => consumed = 0

\* The footprints agree with each other, so the neutrals recorded on them do.
Apart == \A j, k \in DOMAIN footprints : ~partially_overlaps(footprints[j], footprints[k])

Recorded ==
    \A j \in Neutrals :
        \E k \in DOMAIN footprints : footprints[k] = units[j].footprint

Occupied ==
    ~TableFull => \A k \in DOMAIN footprints :
                      \E j \in Neutrals : units[j].footprint = footprints[k]

\* Only units that exist are announced; before start() the buffer announces
\* all of them up to the first that found it full, afterwards it announces
\* none that is not known.
Announces ==
    /\ \A k \in DOMAIN events, u \in Nat : events[k] = UnitDiscover(u) => u \in DOMAIN units
    /\ ~game => /\ known = {}
                /\ \E k \in 0 .. Len(units) :
                       /\ Announced(events) = 1 .. k
                       /\ k < Len(units) => Len(events) >= MAX_EVENTS
    /\ game => Announced(events) \subseteq known

IInv ==
    /\ Tables /\ Buffer /\ Apart /\ Recorded /\ Occupied /\ Announces
    /\ DeliveredOnceInOrder /\ EveryUnitDiscovered

----------------------------------------------------------------------------
(* Footprints.                                                             *)

\* A footprint is a rectangle of at least one tile.
LEMMA PrintShape ==
    ASSUME NEW fp \in Prints
    PROVE  /\ fp.left \in Int /\ fp.right \in Int /\ fp.left < fp.right
           /\ fp.top \in Int /\ fp.bottom \in Int /\ fp.top < fp.bottom
           /\ fp # <<>>
  <1>1. PICK t \in Types, p \in Tiles : fp = Footprint(t, p[1], p[2])
    BY DEF Prints
  <1>2. p[1] \in Int /\ p[2] \in Int /\ Width[t] \in Nat \ {0} /\ Height[t] \in Nat \ {0}
    OBVIOUS
  <1>3. /\ fp.left = p[1] /\ fp.right = p[1] + Width[t]
        /\ fp.top = p[2] /\ fp.bottom = p[2] + Height[t]
    BY <1>1 DEF Footprint
  <1>4. fp # <<>>
    <2>1. "left" \in DOMAIN fp
      BY <1>1 DEF Footprint
    <2>2. DOMAIN <<>> = {}
      OBVIOUS
    <2> QED BY <2>1, <2>2
  <1> QED BY <1>2, <1>3, <1>4

\* Rectangles that share a tile pass the code's test of four comparisons.
LEMMA SharedTileIntersects ==
    ASSUME NEW a \in Prints, NEW b \in Prints, Covered(a) \cap Covered(b) # {}
    PROVE  Intersects(a, b)
  <1>1. PICK c \in Covered(a) : c \in Covered(b)
    OBVIOUS
  <1>2. /\ c[1] \in a.left .. a.right - 1 /\ c[2] \in a.top .. a.bottom - 1
        /\ c[1] \in b.left .. b.right - 1 /\ c[2] \in b.top .. b.bottom - 1
    BY <1>1 DEF Covered
  <1>3. /\ a.left \in Int /\ a.right \in Int /\ a.top \in Int /\ a.bottom \in Int
        /\ b.left \in Int /\ b.right \in Int /\ b.top \in Int /\ b.bottom \in Int
    BY PrintShape
  <1>4. a.left < b.right /\ b.left < a.right
    BY ONLY <1>2, <1>3
  <1>5. a.top < b.bottom /\ b.top < a.bottom
    BY ONLY <1>2, <1>3
  <1> QED BY <1>4, <1>5 DEF Intersects

LEMMA IntersectsBothWays ==
    ASSUME NEW a \in Prints, NEW b \in Prints
    PROVE  Intersects(a, b) <=> Intersects(b, a)
  BY DEF Intersects

----------------------------------------------------------------------------
(* What the invariant says, conjunct by conjunct.                          *)

\* The neutrals that share a tile are on footprints that intersect, and of
\* the recorded footprints only equal ones do.
LEMMA ApartImplies == IInv => NoMisalignedStack
  <1> SUFFICES ASSUME IInv, NEW j \in Neutrals, NEW k \in Neutrals,
                      Covered(units[j].footprint) \cap Covered(units[k].footprint) # {}
               PROVE  units[j].footprint = units[k].footprint
    BY DEF NoMisalignedStack
  <1>1. PICK m \in DOMAIN footprints : footprints[m] = units[j].footprint
    BY DEF IInv, Recorded
  <1>2. PICK n \in DOMAIN footprints : footprints[n] = units[k].footprint
    BY DEF IInv, Recorded
  <1>3. footprints[m] \in Prints /\ footprints[n] \in Prints
    BY DEF IInv, Tables
  <1>4. Intersects(footprints[m], footprints[n])
    BY <1>1, <1>2, <1>3, SharedTileIntersects
  <1> QED BY <1>1, <1>2, <1>4 DEF IInv, Apart, partially_overlaps

LEMMA BooksImply == IInv => PhantomsAreHarmless
  <1> SUFFICES ASSUME IInv PROVE PhantomsAreHarmless
    OBVIOUS
  <1> DEFINE standing == {units[k].footprint : k \in Neutrals}
  <1>1. standing \subseteq Range(footprints)
    BY DEF IInv, Recorded, Range
  <1>2. ASSUME ~TableFull PROVE Range(footprints) \subseteq standing
    <2> SUFFICES ASSUME NEW k \in DOMAIN footprints PROVE footprints[k] \in standing
      BY DEF Range
    <2> QED BY <1>2 DEF IInv, Occupied
  <1> QED BY <1>1, <1>2 DEF PhantomsAreHarmless

LEMMA TablesImply == IInv => TypeOK
  BY DEF IInv, Tables, Buffer, TypeOK

----------------------------------------------------------------------------
(* The invariant holds initially and is kept by every call.                *)

LEMMA InitHolds == Init => IInv
  <1> SUFFICES ASSUME Init PROVE IInv
    OBVIOUS
  <1> USE DEF Init
  <1>1. Tables
    <2>1. footprints \in Seq(Prints) /\ units \in Seq(UnitRecords) /\ Len(units) = 0
      OBVIOUS
    <2>2. game \in BOOLEAN /\ known \subseteq DOMAIN units
      OBVIOUS
    <2> QED BY <2>1, <2>2 DEF Tables
  <1>5. Buffer
    <2>1. events \in Seq(EventRecords) /\ accepted \in Seq(EventRecords)
          /\ delivered \in Seq(EventRecords)
      OBVIOUS
    <2>2. Len(events) = 0 /\ consumed = 0
      OBVIOUS
    <2> QED BY <2>1, <2>2 DEF Buffer
  <1>2. Apart /\ Recorded /\ Occupied
    BY DEF Apart, Recorded, Occupied, Neutrals
  <1>3. Announces
    <2>1. Announced(events) = 1 .. 0
      BY DEF Announced
    <2>2. Len(units) = 0 /\ DOMAIN events = {} /\ ~game /\ known = {}
      OBVIOUS
    <2>3. \E k \in 0 .. Len(units) :
              Announced(events) = 1 .. k /\ (k < Len(units) => Len(events) >= MAX_EVENTS)
      <3>1. 0 \in 0 .. Len(units) /\ ~(0 < Len(units))
        BY <2>2
      <3> QED BY <2>1, <3>1
    <2>4. \A k \in DOMAIN events, u \in Nat : events[k] = UnitDiscover(u) => u \in DOMAIN units
      BY <2>2
    <2>5. ~game /\ known = {}
      BY <2>2
    <2> HIDE DEF Init
    <2> QED BY <2>3, <2>4, <2>5 DEF Announces
  <1>4. DeliveredOnceInOrder /\ EveryUnitDiscovered
    BY DEF DeliveredOnceInOrder, Waiting, EveryUnitDiscovered
  <1> QED BY <1>1, <1>2, <1>3, <1>4, <1>5 DEF IInv

\* The end of a longer sequence.
LEMMA SubSeqAppend ==
    ASSUME NEW S, NEW s \in Seq(S), NEW e \in S, NEW m \in 1 .. Len(s) + 1
    PROVE  SubSeq(Append(s, e), m, Len(Append(s, e))) = Append(SubSeq(s, m, Len(s)), e)
  <1> DEFINE t == SubSeq(Append(s, e), m, Len(Append(s, e)))
             u == Append(SubSeq(s, m, Len(s)), e)
  <1>1. Append(s, e) \in Seq(S) /\ Len(Append(s, e)) = Len(s) + 1
    OBVIOUS
  <1>2. /\ t \in Seq(S) /\ Len(t) = Len(s) + 2 - m
        /\ \A i \in 1 .. Len(t) : t[i] = Append(s, e)[m + i - 1]
    BY <1>1
  <1>3. /\ u \in Seq(S) /\ Len(u) = Len(s) + 2 - m
        /\ \A i \in 1 .. Len(s) + 1 - m : u[i] = s[m + i - 1]
        /\ u[Len(s) + 2 - m] = e
    OBVIOUS
  <1>4. \A i \in 1 .. Len(t) : t[i] = u[i]
    BY <1>2, <1>3
  <1> QED BY <1>2, <1>3, <1>4, SeqEqual

\* event() appends to the buffer and to what was accepted, or does neither.
LEMMA EventKeeps ==
    ASSUME Buffer, DeliveredOnceInOrder, NEW e \in EventRecords, event(e),
           UNCHANGED <<game, consumed, delivered>>
    PROVE  /\ Buffer' /\ DeliveredOnceInOrder'
           /\ \/ events' = events /\ Len(events) = MAX_EVENTS
              \/ events' = Append(events, e) /\ Len(events) < MAX_EVENTS
  <1>1. CASE Len(events) < MAX_EVENTS
    <2>1. events' = Append(events, e) /\ accepted' = Append(accepted, e)
      BY <1>1 DEF event
    <2>2. Buffer'
      BY <1>1, <2>1 DEF Buffer
    <2>3. delivered \o Waiting = accepted
      BY <1>1 DEF DeliveredOnceInOrder, Buffer
    <2>4. Waiting' = Append(Waiting, e)
      <3>1. /\ events \in Seq(EventRecords) /\ consumed + 1 \in 1 .. Len(events) + 1
            /\ consumed' = consumed
        BY DEF Buffer
      <3>2. SubSeq(Append(events, e), consumed + 1, Len(Append(events, e)))
                = Append(SubSeq(events, consumed + 1, Len(events)), e)
        BY <3>1, SubSeqAppend
      <3> QED BY <2>1, <3>1, <3>2 DEF Waiting
    <2>5. Waiting \in Seq(EventRecords)
      BY DEF Waiting, Buffer
    <2>6. delivered \o Append(Waiting, e) = Append(delivered \o Waiting, e)
      BY <2>5 DEF Buffer
    <2> QED BY <1>1, <2>1, <2>2, <2>3, <2>4, <2>6 DEF DeliveredOnceInOrder
  <1>2. CASE ~(Len(events) < MAX_EVENTS)
    <2>1. events' = events /\ accepted' = accepted
      BY <1>2 DEF event
    <2>2. Buffer' /\ Len(events) = MAX_EVENTS
      BY <1>2, <2>1 DEF Buffer
    <2> QED BY <2>1, <2>2 DEF DeliveredOnceInOrder, Waiting
  <1> QED BY <1>1, <1>2

\* The announcements after a call that queued an event about no unit.
LEMMA OtherEventAnnounces ==
    ASSUME IInv, TestEvent
    PROVE  Announces' /\ EveryUnitDiscovered'
  <1> DEFINE e == Other(Len(accepted))
  <1>0. events \in Seq(EventRecords) /\ DOMAIN events = 1 .. Len(events) /\ Len(events) \in Nat
    BY DEF IInv, Buffer
  <1>1. e \in EventRecords
    BY DEF Other, EventRecords, IInv, Buffer
  <1>2. \/ events' = events /\ Len(events) = MAX_EVENTS
        \/ events' = Append(events, e) /\ Len(events) < MAX_EVENTS
    BY <1>1, EventKeeps DEF TestEvent, IInv
  <1>3. \A u \in Nat : e # UnitDiscover(u)
    BY DEF Other, UnitDiscover
  <1>4. \A k \in DOMAIN events', u \in Nat :
            events'[k] = UnitDiscover(u) => k \in DOMAIN events /\ events[k] = UnitDiscover(u)
    <2>1. CASE events' = events
      BY ONLY <2>1
    <2>2. CASE events' = Append(events, e)
      <3>1. DOMAIN events' = 1 .. Len(events) + 1
        BY ONLY <1>0, <2>2
      <3>2. \A k \in 1 .. Len(events) : events'[k] = events[k]
        BY ONLY <1>0, <2>2
      <3>3. events'[Len(events) + 1] = e
        BY ONLY <1>0, <2>2
      <3>4. TAKE k \in DOMAIN events', u \in Nat
      <3>5. k \in 1 .. Len(events) \/ k = Len(events) + 1
        BY ONLY <1>0, <3>1, k \in DOMAIN events'
      <3> HIDE DEF e
      <3> QED BY ONLY <1>0, <1>3, <3>2, <3>3, <3>5, u \in Nat
    <2> QED BY ONLY <1>2, <2>1, <2>2
  <1>5. \A k \in DOMAIN events : k \in DOMAIN events' /\ events'[k] = events[k]
    BY ONLY <1>0, <1>1, <1>2
  <1>6. units' = units /\ game' = game /\ known' = known /\ delivered' = delivered
        /\ DOMAIN units \subseteq Nat
    BY DEF TestEvent, IInv, Tables
  <1>7. Announced(events)' = Announced(events)
    BY <1>4, <1>5, <1>6 DEF Announced
  <1>8. Len(events') >= Len(events)
    BY <1>2 DEF IInv, Buffer
  <1>9. Announces'
    <2>1. (\A k \in DOMAIN events, u \in Nat : events[k] = UnitDiscover(u) => u \in DOMAIN units)'
      BY <1>4, <1>6 DEF IInv, Announces
    <2>2. ASSUME ~game
          PROVE  /\ known' = {}
                 /\ \E k \in 0 .. Len(units) :
                        Announced(events)' = 1 .. k /\ (k < Len(units) => Len(events') >= MAX_EVENTS)
      BY <1>6, <1>7, <1>8, <2>2 DEF IInv, Announces, Buffer
    <2> QED BY <1>6, <1>7, <2>1, <2>2 DEF IInv, Announces
  <1> QED BY <1>6, <1>9 DEF EveryUnitDiscovered, IInv

LEMMA TestEventKeeps == ASSUME IInv, TestEvent PROVE IInv'
  <1>1. Other(Len(accepted)) \in EventRecords
    BY DEF Other, EventRecords, IInv, Buffer
  <1>2. Buffer' /\ DeliveredOnceInOrder'
    BY <1>1, EventKeeps DEF TestEvent, IInv
  <1>3. Tables' /\ Apart' /\ Recorded' /\ Occupied'
    BY DEF TestEvent, IInv, Tables, Apart, Recorded, Occupied, Neutrals, TableFull
  <1> QED BY <1>2, <1>3, OtherEventAnnounces DEF IInv

\* A call that has thrown before it wrote anything.
LEMMA LateCallKeeps == ASSUME IInv, UNCHANGED <<game, units, footprints, events, consumed, known,
                                               accepted, delivered>>
                       PROVE  IInv'
  BY DEF IInv, Tables, Buffer, Apart, Recorded, Occupied, Neutrals, TableFull,
         DeliveredOnceInOrder, Waiting, Announces, Announced, EveryUnitDiscovered

\* A unit gets a slot and its announcement, or its announcement is the first
\* that found the buffer full, or a later one.
LEMMA AllocateKeeps ==
    ASSUME IInv, ~game, NEW rec \in UnitRecords,
           Allocate(rec), UNCHANGED <<game, consumed, known, delivered>>
    PROVE  /\ Buffer' /\ DeliveredOnceInOrder' /\ Announces' /\ EveryUnitDiscovered'
           /\ units' \in Seq(UnitRecords) /\ Len(units') <= TableSize
           /\ known' \subseteq DOMAIN units'
           /\ \/ TableFull /\ units' = units
              \/ ~TableFull /\ units' = Append(units, rec)
  <1> DEFINE n == Len(units) + 1
             e == UnitDiscover(n)
  <1>1. EveryUnitDiscovered'
    BY DEF EveryUnitDiscovered
  <1>2. CASE TableFull /\ UNCHANGED <<units, events, accepted>>
    BY <1>1, <1>2 DEF IInv, Tables, Buffer, DeliveredOnceInOrder, Waiting, Announces, Announced
  <1>3. CASE ~TableFull /\ units' = Append(units, rec) /\ event(e)
    <2>1. Len(units) \in Nat /\ DOMAIN units = 1 .. Len(units) /\ DOMAIN events = 1 .. Len(events)
          /\ events \in Seq(EventRecords) /\ Len(events) \in Nat
      BY DEF IInv, Tables, Buffer
    <2>2. /\ units' \in Seq(UnitRecords) /\ Len(units') = n /\ Len(units') <= TableSize
          /\ DOMAIN units' = 1 .. n
      BY <1>3, <2>1 DEF IInv, Tables, TableFull
    <2>3. e \in EventRecords
      BY <2>1 DEF UnitDiscover, EventRecords
    <2>4. /\ Buffer' /\ DeliveredOnceInOrder'
          /\ \/ events' = events /\ Len(events) = MAX_EVENTS
             \/ events' = Append(events, e) /\ Len(events) < MAX_EVENTS
      BY <1>3, <2>3, EventKeeps DEF IInv
    <2>5. \A k \in DOMAIN events, u \in Nat : events[k] = UnitDiscover(u) => u \in 1 .. Len(units)
      BY <2>1 DEF IInv, Announces
    <2>6. PICK k \in 0 .. Len(units) :
              Announced(events) = 1 .. k /\ (k < Len(units) => Len(events) >= MAX_EVENTS)
      BY DEF IInv, Announces
    <2>7. \A u \in Nat : e = UnitDiscover(u) <=> u = n
      BY DEF UnitDiscover
    <2>8. CASE events' = events /\ Len(events) = MAX_EVENTS
      <3>1. Announced(events)' = 1 .. k
        <4>1. Announced(events)' = {u \in 1 .. n : \E i \in DOMAIN events : events[i] = UnitDiscover(u)}
          BY <2>2, <2>8 DEF Announced
        <4>2. Announced(events)
                  = {u \in 1 .. Len(units) : \E i \in DOMAIN events : events[i] = UnitDiscover(u)}
          BY <2>1 DEF Announced
        <4> QED BY <2>1, <2>5, <2>6, <4>1, <4>2
      <3>2. \A i \in DOMAIN events', u \in Nat : events'[i] = UnitDiscover(u) => u \in DOMAIN units'
        BY <2>1, <2>2, <2>5, <2>8
      <3>3. k \in 0 .. Len(units') /\ Len(events') >= MAX_EVENTS /\ known' = {} /\ ~game'
        BY <2>1, <2>2, <2>6, <2>8 DEF IInv, Announces
      <3> QED BY <1>1, <1>3, <2>2, <2>4, <3>1, <3>2, <3>3 DEF Announces
    <2>9. CASE events' = Append(events, e) /\ Len(events) < MAX_EVENTS
      <3>1. k = Len(units)
        BY <2>1, <2>6, <2>9
      <3>2. /\ DOMAIN events' = 1 .. Len(events) + 1 /\ events'[Len(events) + 1] = e
            /\ \A i \in 1 .. Len(events) : events'[i] = events[i]
        BY <2>1, <2>3, <2>9
      <3>3. Announced(events)' = 1 .. n
        <4>1. Announced(events)' = {u \in 1 .. n : \E i \in DOMAIN events' : events'[i] = UnitDiscover(u)}
          BY <2>2 DEF Announced
        <4>2. Announced(events)
                  = {u \in 1 .. Len(units) : \E i \in DOMAIN events : events[i] = UnitDiscover(u)}
          BY <2>1 DEF Announced
        <4>3. \A u \in 1 .. Len(units) : \E i \in DOMAIN events' : events'[i] = UnitDiscover(u)
          <5> TAKE u \in 1 .. Len(units)
          <5>1. u \in Announced(events)
            BY ONLY <2>6, <3>1, u \in 1 .. Len(units)
          <5>2. PICK i \in DOMAIN events : events[i] = UnitDiscover(u)
            BY ONLY <4>2, <5>1
          <5>3. i \in DOMAIN events' /\ events'[i] = events[i]
            BY ONLY <2>1, <3>2, <5>2, i \in DOMAIN events
          <5> QED BY ONLY <5>2, <5>3
        <4>4. \E i \in DOMAIN events' : events'[i] = UnitDiscover(n)
          BY <2>1, <3>2
        <4> QED BY <2>1, <4>1, <4>3, <4>4
      <3>4. \A i \in DOMAIN events', u \in Nat : events'[i] = UnitDiscover(u) => u \in DOMAIN units'
        BY <2>1, <2>2, <2>5, <2>7, <3>2
      <3>5. n \in 0 .. Len(units') /\ ~(n < Len(units')) /\ known' = {} /\ ~game'
        BY <2>1, <2>2 DEF IInv, Announces
      <3> QED BY <1>1, <1>3, <2>2, <2>4, <3>3, <3>4, <3>5 DEF Announces
    <2> QED BY <2>4, <2>8, <2>9
  <1> QED BY <1>2, <1>3 DEF Allocate

\* unit() leaves the footprints alone, whoever the owner is.
LEMMA UnitKeeps ==
    ASSUME IInv, NEW o, NEW fp \in {<<>>} \cup Prints, unit(o, fp)
    PROVE  IInv'
  <1> DEFINE rec == Placed(o, fp, "unit")
  <1>0. CASE o \notin Players
    BY <1>0, LateCallKeeps DEF unit
  <1> SUFFICES ASSUME o \in Players PROVE IInv'
    BY <1>0
  <1>1. rec \in UnitRecords /\ rec.by = "unit"
    BY DEF UnitRecords, Placed, Prints
  <1>2. ~game /\ Allocate(rec) /\ UNCHANGED <<game, footprints, consumed, known, delivered>>
    BY DEF unit
  <1> HIDE DEF rec
  <1>3. /\ Buffer' /\ DeliveredOnceInOrder' /\ Announces' /\ EveryUnitDiscovered'
        /\ units' \in Seq(UnitRecords) /\ Len(units') <= TableSize
        /\ known' \subseteq DOMAIN units'
        /\ \/ TableFull /\ units' = units
           \/ ~TableFull /\ units' = Append(units, rec)
    BY <1>1, <1>2, AllocateKeeps
  <1>4. Tables' /\ Apart'
    BY <1>2, <1>3 DEF IInv, Tables, Apart
  <1>5. Recorded' /\ Occupied'
    <2>1. CASE TableFull /\ units' = units
      BY <1>2, <2>1 DEF IInv, Recorded, Occupied, Neutrals, TableFull
    <2>2. CASE ~TableFull /\ units' = Append(units, rec)
      <3>1. /\ DOMAIN units = 1 .. Len(units) /\ Len(units) \in Nat
            /\ DOMAIN units' = 1 .. Len(units) + 1
            /\ \A j \in 1 .. Len(units) : units'[j] = units[j]
            /\ units'[Len(units) + 1].by = "unit"
        BY <1>1, <2>2 DEF IInv, Tables
      <3>2. Neutrals' = Neutrals /\ \A j \in Neutrals : units'[j] = units[j]
        BY <3>1 DEF Neutrals
      <3>3. Recorded'
        BY <1>2, <3>2 DEF IInv, Recorded
      <3>4. Occupied'
        BY <1>2, <2>2, <3>2 DEF IInv, Occupied
      <3> QED BY <3>3, <3>4
    <2> QED BY <1>3, <2>1, <2>2
  <1> QED BY <1>3, <1>4, <1>5 DEF IInv

LEMMA NeutralKeeps ==
    ASSUME IInv, NEW type \in Types, NEW tile \in Tiles, NEW stacked \in BOOLEAN,
           neutral(type, tile, stacked)
    PROVE  IInv'
  <1> DEFINE fp == Footprint(type, tile[1], tile[2])
             rec == Placed(Neutral, fp, "neutral")
  <1>1. ~game /\ UNCHANGED <<game, consumed, known, delivered>>
    BY DEF neutral
  <1>2. fp \in Prints /\ rec \in UnitRecords /\ rec.footprint = fp /\ rec.by = "neutral"
    BY DEF Prints, UnitRecords, Placed, Players
  <1>3. CASE Refused(fp, stacked) /\ UNCHANGED <<units, footprints, events, accepted>>
    BY <1>1, <1>3, LateCallKeeps
  <1>4. CASE ~Refused(fp, stacked) /\ footprints' = Append(footprints, fp) /\ Allocate(rec)
    <2>1. /\ Buffer' /\ DeliveredOnceInOrder' /\ Announces' /\ EveryUnitDiscovered'
          /\ units' \in Seq(UnitRecords) /\ Len(units') <= TableSize
          /\ known' \subseteq DOMAIN units'
          /\ \/ TableFull /\ units' = units
             \/ ~TableFull /\ units' = Append(units, rec)
      BY <1>1, <1>2, <1>4, AllocateKeeps
    <2>2. /\ footprints \in Seq(Prints) /\ Len(footprints) \in Nat
          /\ DOMAIN footprints = 1 .. Len(footprints)
          /\ footprints' \in Seq(Prints) /\ DOMAIN footprints' = 1 .. Len(footprints) + 1
          /\ \A k \in 1 .. Len(footprints) : footprints'[k] = footprints[k]
          /\ footprints'[Len(footprints) + 1] = fp
      BY <1>2, <1>4 DEF IInv, Tables
    <2>3. Tables'
      BY <1>1, <2>1, <2>2 DEF Tables, IInv
    <2>4. Apart'
      <3>1. \A k \in DOMAIN footprints : ~partially_overlaps(fp, footprints[k])
        BY <1>4 DEF Refused, partially_overlaps
      <3>2. \A k \in DOMAIN footprints : ~partially_overlaps(footprints[k], fp)
        <4> SUFFICES ASSUME NEW k \in DOMAIN footprints
                     PROVE  ~partially_overlaps(footprints[k], fp)
          OBVIOUS
        <4>1. footprints[k] \in Prints
          BY <2>2
        <4> HIDE DEF fp
        <4> QED BY <1>2, <3>1, <4>1, IntersectsBothWays DEF partially_overlaps
      <3>3. ~partially_overlaps(fp, fp)
        BY DEF partially_overlaps
      <3>4. ASSUME NEW j \in DOMAIN footprints', NEW k \in DOMAIN footprints'
            PROVE  ~partially_overlaps(footprints'[j], footprints'[k])
        <4> HIDE DEF fp
        <4>1. CASE j \in DOMAIN footprints /\ k \in DOMAIN footprints
          BY <2>2, <4>1 DEF IInv, Apart
        <4>2. CASE j \in DOMAIN footprints /\ k = Len(footprints) + 1
          BY <2>2, <3>2, <4>2
        <4>3. CASE j = Len(footprints) + 1 /\ k \in DOMAIN footprints
          BY <2>2, <3>1, <4>3
        <4>4. CASE j = Len(footprints) + 1 /\ k = Len(footprints) + 1
          BY <2>2, <3>3, <4>4
        <4> QED BY <2>2, <4>1, <4>2, <4>3, <4>4
      <3> QED BY <3>4 DEF Apart, partially_overlaps, Intersects
    <2>5. Recorded' /\ Occupied'
      <3>1. CASE TableFull /\ units' = units
        <4>1. Recorded'
          BY <2>2, <3>1 DEF IInv, Recorded, Neutrals
        <4>2. TableFull'
          BY <3>1 DEF TableFull
        <4> QED BY <4>1, <4>2 DEF Occupied
      <3>2. CASE ~TableFull /\ units' = Append(units, rec)
        <4>1. /\ DOMAIN units = 1 .. Len(units) /\ Len(units) \in Nat
              /\ DOMAIN units' = 1 .. Len(units) + 1
              /\ \A j \in 1 .. Len(units) : units'[j] = units[j]
              /\ units'[Len(units) + 1] = rec
          BY <1>2, <3>2 DEF IInv, Tables
        <4>6. Neutrals' = Neutrals \cup {Len(units) + 1}
          BY <1>2, <4>1 DEF Neutrals
        <4>7. Neutrals \subseteq DOMAIN units
          BY DEF Neutrals
        <4> HIDE DEF fp, rec
        <4>2. Recorded'
          <5> SUFFICES ASSUME NEW j \in Neutrals'
                       PROVE  \E k \in DOMAIN footprints' : footprints'[k] = units'[j].footprint
            BY DEF Recorded
          <5>1. CASE j \in Neutrals
            <6>1. units'[j] = units[j]
              BY <4>1, <4>7, <5>1
            <6>2. PICK k \in DOMAIN footprints : footprints[k] = units[j].footprint
              BY <5>1, <6>1 DEF IInv, Recorded
            <6>3. k \in DOMAIN footprints' /\ footprints'[k] = footprints[k]
              BY <2>2
            <6> QED BY <6>1, <6>2, <6>3
          <5>2. CASE j = Len(units) + 1
            BY <1>2, <2>2, <4>1, <5>2
          <5> QED BY <4>6, <5>1, <5>2
        <4>3. \A k \in DOMAIN footprints : \E j \in Neutrals : units[j].footprint = footprints[k]
          BY <3>2 DEF IInv, Occupied
        <4>4. \A k \in DOMAIN footprints' : \E j \in Neutrals' : units'[j].footprint = footprints'[k]
          <5> SUFFICES ASSUME NEW k \in DOMAIN footprints'
                       PROVE  \E j \in Neutrals' : units'[j].footprint = footprints'[k]
            OBVIOUS
          <5>1. CASE k \in DOMAIN footprints
            <6>1. PICK j \in Neutrals : units[j].footprint = footprints[k]
              BY <4>3, <5>1
            <6>2. j \in Neutrals' /\ units'[j] = units[j] /\ footprints'[k] = footprints[k]
              BY <2>2, <4>1, <4>6, <4>7, <5>1
            <6> QED BY <6>1, <6>2
          <5>2. CASE k = Len(footprints) + 1
            BY <1>2, <2>2, <4>1, <4>6, <5>2
          <5> QED BY <2>2, <5>1, <5>2
        <4>5. Occupied'
          BY <4>4 DEF Occupied
        <4> QED BY <4>2, <4>5
      <3> QED BY <2>1, <3>1, <3>2
    <2> QED BY <2>1, <2>3, <2>4, <2>5 DEF IInv
  <1> QED BY <1>3, <1>4 DEF neutral

\* start() hands over the whole buffer: all that was accepted, and the
\* announcements up to the first unit that found the buffer full.
LEMMA StartKeeps == ASSUME IInv, start PROVE IInv'
  <1>1. /\ ~game /\ game' = TRUE /\ consumed' = Len(events)
        /\ UNCHANGED <<units, footprints, events, accepted>>
        /\ known' = known \cup Announced(events) /\ delivered' = delivered \o events
    BY DEF start, Pump
  <1>2. /\ consumed = 0 /\ delivered = <<>> /\ events \in Seq(EventRecords)
        /\ Len(events) \in Nat /\ accepted \in Seq(EventRecords)
    BY <1>1 DEF IInv, Buffer
  <1>3. delivered' = events
    BY <1>1, <1>2
  <1>4. Buffer'
    <2>1. Len(events) = 0 => events = <<>>
      BY <1>2
    <2> QED BY <1>1, <1>2, <1>3, <2>1 DEF IInv, Buffer
  <1>5. DeliveredOnceInOrder'
    <2>1. delivered \o Waiting = accepted
      BY <1>1 DEF IInv, DeliveredOnceInOrder
    <2>2. Waiting = SubSeq(events, 1, Len(events))
      BY <1>2 DEF Waiting
    <2>3. SubSeq(events, 1, Len(events)) = events
      BY <1>2, SubSeqFull
    <2>4. accepted = events
      BY <1>2, <2>1, <2>2, <2>3
    <2>5. Waiting' = SubSeq(events, Len(events) + 1, Len(events))
      BY <1>1 DEF Waiting
    <2>6. SubSeq(events, Len(events) + 1, Len(events)) = <<>>
      BY <1>2, SubSeqEmpty
    <2>7. events \o <<>> = events
      BY <1>2
    <2> QED BY <1>1, <1>3, <2>4, <2>5, <2>6, <2>7 DEF DeliveredOnceInOrder
  <1>6. PICK k \in 0 .. Len(units) :
            Announced(events) = 1 .. k /\ (k < Len(units) => Len(events) >= MAX_EVENTS)
    BY <1>1 DEF IInv, Announces
  <1>7. known' = 1 .. k
    BY <1>1, <1>6 DEF IInv, Announces
  <1>8. EveryUnitDiscovered'
    BY <1>1, <1>3, <1>6, <1>7 DEF EveryUnitDiscovered
  <1>9. Announced(events)' = Announced(events)
    BY <1>1 DEF Announced
  <1>10. Announces'
    BY <1>1, <1>9 DEF IInv, Announces
  <1>11. Tables' /\ Apart' /\ Recorded' /\ Occupied'
    BY <1>1, <1>6, <1>7 DEF IInv, Tables, Apart, Recorded, Occupied, Neutrals, TableFull
  <1> QED BY <1>4, <1>5, <1>8, <1>10, <1>11 DEF IInv

\* The queue of a frame has one event more than is waiting, so it is too long
\* only when nothing in the buffer had been consumed.
LEMMA QueueLength ==
    ASSUME Buffer
    PROVE  /\ Kept \in Seq(EventRecords) /\ Len(Kept) = Len(events) - consumed
           /\ <<MatchFrame>> \o Kept \in Seq(EventRecords)
           /\ Len(<<MatchFrame>> \o Kept) = 1 + Len(events) - consumed
           /\ Len(<<MatchFrame>> \o Kept) > MAX_EVENTS =>
                  consumed = 0 /\ Len(events) = MAX_EVENTS
  <1>1. events \in Seq(EventRecords) /\ Len(events) \in Nat /\ consumed \in 0 .. Len(events)
        /\ Len(events) <= MAX_EVENTS
    BY DEF Buffer
  <1>2. \A i \in consumed + 1 .. Len(events) : events[i] \in EventRecords
    BY <1>1
  <1>3. Kept \in Seq(EventRecords) /\ Len(Kept) = Len(events) - consumed
    BY <1>1, <1>2, SubSeqProperties DEF Kept
  <1>4. <<MatchFrame>> \in Seq(EventRecords) /\ Len(<<MatchFrame>>) = 1
    BY DEF MatchFrame, EventRecords
  <1>5. /\ <<MatchFrame>> \o Kept \in Seq(EventRecords)
        /\ Len(<<MatchFrame>> \o Kept) = 1 + Len(events) - consumed
    BY <1>1, <1>3, <1>4, ConcatProperties
  <1> QED BY <1>1, <1>3, <1>5

\* What a frame queues was in the buffer, but for the MatchFrame.
LEMMA QueueFromBuffer ==
    ASSUME Buffer, NEW k \in DOMAIN (<<MatchFrame>> \o Kept), NEW u \in Nat,
           (<<MatchFrame>> \o Kept)[k] = UnitDiscover(u)
    PROVE  \E i \in DOMAIN events : events[i] = UnitDiscover(u)
  <1>1. events \in Seq(EventRecords) /\ Len(events) \in Nat /\ consumed \in 0 .. Len(events)
    BY DEF Buffer
  <1>2. Kept \in Seq(EventRecords) /\ Len(Kept) = Len(events) - consumed
        /\ Len(<<MatchFrame>> \o Kept) = 1 + Len(events) - consumed
        /\ <<MatchFrame>> \o Kept \in Seq(EventRecords)
    BY QueueLength
  <1>3. k \in 1 .. 1 + Len(Kept)
    BY <1>1, <1>2
  <1>4. MatchFrame # UnitDiscover(u)
    BY DEF MatchFrame, UnitDiscover
  <1>5. <<MatchFrame>> \in Seq(EventRecords) /\ Len(<<MatchFrame>>) = 1
    BY DEF MatchFrame, EventRecords
  <1>6. (<<MatchFrame>> \o Kept)[k] = IF k <= 1 THEN <<MatchFrame>>[k] ELSE Kept[k - 1]
    BY <1>2, <1>3, <1>5, ConcatProperties
  <1>7. k > 1
    BY <1>3, <1>4, <1>6
  <1>8. Kept[k - 1] = events[consumed + k - 1]
    <2>1. \A i \in consumed + 1 .. Len(events) : events[i] \in EventRecords
      BY <1>1
    <2>2. k - 1 \in 1 .. Len(events) - (consumed + 1) + 1
      BY <1>1, <1>2, <1>3, <1>7
    <2>3. Kept[k - 1] = events[(consumed + 1) + (k - 1) - 1]
      BY <1>1, <2>1, <2>2, SubSeqProperties DEF Kept
    <2> QED BY <1>1, <1>3, <2>3
  <1>9. consumed + k - 1 \in DOMAIN events
    BY <1>1, <1>2, <1>3, <1>7
  <1> QED BY <1>6, <1>7, <1>8, <1>9

LEMMA FrameKeeps == ASSUME IInv, frame PROVE IInv'
  <1> DEFINE queue == <<MatchFrame>> \o Kept
  <1>1. game /\ UNCHANGED <<game, units, footprints, accepted>>
    BY DEF frame
  <1>2. Buffer
    BY DEF IInv
  <1>3. /\ events \in Seq(EventRecords) /\ Len(events) \in Nat /\ consumed \in 0 .. Len(events)
        /\ accepted \in Seq(EventRecords) /\ delivered \in Seq(EventRecords)
        /\ DOMAIN units \subseteq Nat
    BY DEF IInv, Buffer, Tables
  <1>4. /\ Kept \in Seq(EventRecords) /\ Len(Kept) = Len(events) - consumed
        /\ queue \in Seq(EventRecords) /\ Len(queue) = 1 + Len(events) - consumed
        /\ Len(queue) > MAX_EVENTS => consumed = 0 /\ Len(events) = MAX_EVENTS
    BY <1>2, QueueLength
  <1>5. \A k \in DOMAIN queue, u \in Nat :
            queue[k] = UnitDiscover(u) => \E i \in DOMAIN events : events[i] = UnitDiscover(u)
    BY <1>2, QueueFromBuffer
  <1> HIDE DEF queue
  <1>6. ASSUME NEW k \in DOMAIN queue, NEW u \in Nat, queue[k] = UnitDiscover(u)
        PROVE  u \in known
    <2>1. PICK i \in DOMAIN events : events[i] = UnitDiscover(u)
      BY <1>5, <1>6
    <2>2. u \in DOMAIN units
      BY <2>1 DEF IInv, Announces
    <2>3. u \in Announced(events)
      BY <2>1, <2>2 DEF Announced
    <2> QED BY <1>1, <2>3 DEF IInv, Announces
  <1>7. CASE Len(queue) <= MAX_EVENTS /\ events' = queue /\ Pump(Kept) /\ consumed' = Len(queue)
    <2>1. Announced(Kept) \subseteq known
      <3> SUFFICES ASSUME NEW u \in DOMAIN units, NEW k \in DOMAIN Kept, Kept[k] = UnitDiscover(u)
                   PROVE  u \in known
        BY DEF Announced
      <3>1. k + 1 \in DOMAIN queue /\ queue[k + 1] = Kept[k]
        <4>1. <<MatchFrame>> \in Seq(EventRecords) /\ Len(<<MatchFrame>>) = 1
          BY DEF MatchFrame, EventRecords
        <4>2. k \in 1 .. Len(Kept)
          BY <1>4
        <4>3. k + 1 \in 1 .. Len(<<MatchFrame>>) + Len(Kept) /\ ~(k + 1 <= 1)
          BY <1>4, <4>1, <4>2
        <4>4. (<<MatchFrame>> \o Kept)[k + 1] = Kept[k + 1 - Len(<<MatchFrame>>)]
          BY <1>4, <4>1, <4>3, ConcatProperties
        <4>5. k + 1 - 1 = k
          BY <4>2
        <4> QED BY <1>3, <1>4, <4>1, <4>3, <4>4, <4>5 DEF queue
      <3> QED BY <1>3, <1>6, <3>1
    <2>2. known' = known /\ delivered' = delivered \o Kept
      BY <1>7, <2>1 DEF Pump
    <2>3. Buffer'
      BY <1>1, <1>3, <1>4, <1>7, <2>2 DEF Buffer
    <2>4. ~(consumed = 0 /\ Len(events) = MAX_EVENTS)
      BY <1>3, <1>4, <1>7
    <2>5. delivered \o Waiting = accepted
      <3>1. consumed > 0 \/ Len(events) < MAX_EVENTS
        BY <1>2, <1>3, <2>4 DEF Buffer
      <3> QED BY <3>1 DEF IInv, DeliveredOnceInOrder
    <2>6. Waiting = Kept
      BY DEF Waiting, Kept
    <2>7. Waiting' = SubSeq(queue, Len(queue) + 1, Len(queue))
      BY <1>7 DEF Waiting
    <2>8. SubSeq(queue, Len(queue) + 1, Len(queue)) = <<>>
      BY <1>4, SubSeqEmpty
    <2>9. accepted \o <<>> = accepted
      BY <1>3
    <2>10. DeliveredOnceInOrder'
      BY <1>1, <2>2, <2>5, <2>6, <2>7, <2>8, <2>9 DEF DeliveredOnceInOrder
    <2>11. Len(delivered') >= Len(delivered)
      BY <1>3, <1>4, <2>2
    <2>12. EveryUnitDiscovered'
      <3>1. PICK k \in 0 .. Len(units) :
                known = 1 .. k /\ (k < Len(units) => Len(delivered) >= MAX_EVENTS)
        BY <1>1 DEF IInv, EveryUnitDiscovered
      <3>2. k < Len(units) => Len(delivered') >= MAX_EVENTS
        BY <1>3, <2>2, <2>11, <3>1, <1>4
      <3> QED BY <1>1, <2>2, <3>1, <3>2 DEF EveryUnitDiscovered
    <2>13. Announces'
      <3>1. Announced(events)' \subseteq known'
        BY <1>1, <1>3, <1>6, <1>7, <2>2 DEF Announced
      <3>2. \A k \in DOMAIN events', u \in Nat : events'[k] = UnitDiscover(u) => u \in DOMAIN units'
        BY <1>1, <1>6, <1>7 DEF IInv, Tables
      <3> QED BY <1>1, <3>1, <3>2 DEF Announces
    <2>14. Tables' /\ Apart' /\ Recorded' /\ Occupied'
      BY <1>1, <2>2 DEF IInv, Tables, Apart, Recorded, Occupied, Neutrals, TableFull
    <2> QED BY <2>3, <2>10, <2>12, <2>13, <2>14 DEF IInv
  <1>8. CASE /\ Len(queue) > MAX_EVENTS /\ events' = SubSeq(queue, 1, MAX_EVENTS)
             /\ UNCHANGED <<consumed, known, delivered>>
    <2>1. consumed = 0 /\ Len(events) = MAX_EVENTS
      BY <1>4, <1>8
    <2>2. \A i \in 1 .. MAX_EVENTS : queue[i] \in EventRecords
      BY <1>4, <1>8
    <2>3. /\ events' \in Seq(EventRecords) /\ Len(events') = MAX_EVENTS
          /\ \A i \in 1 .. MAX_EVENTS : events'[i] = queue[i]
      <3>1. /\ SubSeq(queue, 1, MAX_EVENTS) \in Seq(EventRecords)
            /\ Len(SubSeq(queue, 1, MAX_EVENTS)) = IF 1 <= MAX_EVENTS THEN MAX_EVENTS - 1 + 1 ELSE 0
            /\ \A i \in 1 .. MAX_EVENTS - 1 + 1 : SubSeq(queue, 1, MAX_EVENTS)[i] = queue[1 + i - 1]
        BY <2>2, SubSeqProperties
      <3> QED BY <1>8, <3>1
    <2>4. Buffer'
      BY <1>1, <1>2, <1>8, <2>1, <2>3 DEF Buffer
    <2>5. DeliveredOnceInOrder'
      BY <1>1, <1>8, <2>1, <2>3 DEF DeliveredOnceInOrder
    <2>6. EveryUnitDiscovered'
      BY <1>1, <1>8 DEF IInv, EveryUnitDiscovered
    <2>7. \A k \in DOMAIN events', u \in Nat : events'[k] = UnitDiscover(u) => u \in known
      <3> SUFFICES ASSUME NEW k \in DOMAIN events', NEW u \in Nat, events'[k] = UnitDiscover(u)
                   PROVE  u \in known
        OBVIOUS
      <3>1. k \in 1 .. MAX_EVENTS /\ events'[k] = queue[k]
        BY <2>3
      <3>2. k \in DOMAIN queue
        BY <1>4, <1>8, <3>1
      <3> QED BY <1>6, <3>1, <3>2
    <2>8. Announces'
      <3>1. Announced(events)' \subseteq known'
        BY <1>1, <1>3, <1>8, <2>7 DEF Announced
      <3> QED BY <1>1, <1>8, <2>7, <3>1 DEF Announces, IInv, Tables
    <2>9. Tables' /\ Apart' /\ Recorded' /\ Occupied'
      BY <1>1, <1>8 DEF IInv, Tables, Apart, Recorded, Occupied, Neutrals, TableFull
    <2> QED BY <2>4, <2>5, <2>6, <2>8, <2>9 DEF IInv
  <1> QED BY <1>7, <1>8 DEF frame, queue

LEMMA StepKeeps == ASSUME IInv, [Next]_vars PROVE IInv'
  <1>1. CASE Next
    <2>1. ASSUME NEW o, unit(o, <<>>) PROVE IInv'
      BY <2>1, UnitKeeps
    <2>7. ASSUME NEW s \in Strays, unit(Neutral, Footprint(s[1], s[2][1], s[2][2])) PROVE IInv'
      <3>1. s[1] \in Types /\ s[2] \in Tiles
        OBVIOUS
      <3> QED BY <2>7, <3>1, UnitKeeps DEF Prints
    <2>2. ASSUME NEW type \in Types, NEW tile \in Tiles, NEW stacked \in BOOLEAN,
                 neutral(type, tile, stacked)
          PROVE  IInv'
      BY <2>2, NeutralKeeps
    <2>3. ASSUME TestEvent PROVE IInv'
      BY <2>3, TestEventKeeps
    <2>4. ASSUME require_not_started PROVE IInv'
      BY <2>4, LateCallKeeps DEF require_not_started
    <2>5. ASSUME start PROVE IInv'
      BY <2>5, StartKeeps
    <2>6. ASSUME frame PROVE IInv'
      BY <2>6, FrameKeeps
    <2> QED BY <1>1, <2>1, <2>2, <2>3, <2>4, <2>5, <2>6, <2>7 DEF Next
  <1>2. CASE UNCHANGED vars
    BY <1>2, LateCallKeeps DEF vars
  <1> QED BY <1>1, <1>2

----------------------------------------------------------------------------
(* The theorems.                                                           *)

THEOREM Invariance == Spec => []IInv
  <1>1. Init => IInv
    BY InitHolds
  <1>2. IInv /\ [Next]_vars => IInv'
    BY StepKeeps
  <1> QED BY <1>1, <1>2, PTL DEF Spec

\* No scenario writes past a table of GameData.
THEOREM TypeCorrect == Spec => []TypeOK
  BY Invariance, TablesImply, PTL

\* The neutrals a scenario places with neutral() never make a misaligned stack,
\* whatever the types' sizes and whatever unit() has placed among them.
THEOREM NeverMisaligned == Spec => []NoMisalignedStack
  BY Invariance, ApartImplies, PTL

\* A neutral() that throws leaves no footprint that could matter later, and every
\* unit it has placed has one.
THEOREM BooksAgree == Spec => []PhantomsAreHarmless
  BY Invariance, BooksImply, PTL

\* Every unit of a running game is in its player's set, but for those whose
\* announcement found the buffer full.
THEOREM UnitsAreDiscovered == Spec => []EveryUnitDiscovered
  <1>1. IInv => EveryUnitDiscovered
    BY DEF IInv
  <1> QED BY <1>1, Invariance, PTL

\* Every accepted event is delivered once and in order.
THEOREM EventsAreDelivered == Spec => []DeliveredOnceInOrder
  <1>1. IInv => DeliveredOnceInOrder
    BY DEF IInv
  <1> QED BY <1>1, Invariance, PTL

\* frame() throws only in a game that was never handed an event.
THEOREM FramesFit == Spec => FrameFitsOncePumped
  <1>1. ASSUME IInv, frame, threw' PROVE delivered = <<>>
    <2>1. Buffer
      BY <1>1 DEF IInv
    <2>2. Len(<<MatchFrame>> \o Kept) > MAX_EVENTS
      BY <1>1 DEF frame, Pump
    <2>3. consumed = 0
      BY <2>1, <2>2, QueueLength
    <2> QED BY <2>1, <2>3 DEF Buffer
  <1>2. IInv => [frame /\ threw' => delivered = <<>>]_vars
    BY <1>1
  <1> QED BY <1>2, Invariance, PTL DEF FrameFitsOncePumped

=============================================================================
