--------------------------- MODULE PinBumpProofs ---------------------------
(***************************************************************************)
(* What a merged change of the pin says of the header, for every family of *)
(* the header (TLC leaves the four largest out) and any number of changes  *)
(* of upstream and edits by hand between two merges.                       *)
(***************************************************************************)
EXTENDS PinBump, TLAPS

USE DEF MaxName, NoMax

\* Values that fill no more than 0 .. MAX, MAX itself included.
Bounded(f) ==
    MaxName \in DOMAIN f =>
        f[MaxName] \in Int /\ \A n \in DOMAIN f : f[n] \in 0 .. f[MaxName]

\* The strengthening: upstream's enumerators lie below its MAX, now and when
\* a change was merged last, whatever upstream adds, moves or removes.
UpstreamBounded == changes \in Nat /\ Bounded(upstream) /\ Bounded(merged.upstream)

\* A function restricted to some of its domain.
LEMMA RestrictedValues ==
    ASSUME NEW f, NEW S
    PROVE  /\ DOMAIN Restricted(f, S) = DOMAIN f \cap S
           /\ \A n \in DOMAIN Restricted(f, S) : Restricted(f, S)[n] = f[n]
  BY DEF Restricted

\* Every id of an enumeration is a natural number, below the MAX if there is
\* one.
IdsInRange(F) ==
    /\ F.max \in Nat \cup {NoMax}
    /\ \A v \in F.ids : v \in Nat /\ (F.max # NoMax => v < F.max)

LEMMA IdsBelowMax ==
    ASSUME NEW f \in DOMAIN Asserted
    PROVE  IdsInRange(Defined[f])
  <1>1. IdsInRange(unit_type)
    BY DEF IdsInRange, Family, unit_type
  <1>2. IdsInRange(weapon_type)
    BY DEF IdsInRange, Family, weapon_type
  <1>3. IdsInRange(tech_type)
    BY DEF IdsInRange, Family, tech_type
  <1>4. IdsInRange(upgrade_type)
    BY DEF IdsInRange, Family, upgrade_type
  <1>5. IdsInRange(race)
    BY DEF IdsInRange, Family, race
  <1>6. IdsInRange(unit_size_type)
    BY DEF IdsInRange, Family, unit_size_type
  <1>7. IdsInRange(damage_type)
    BY DEF IdsInRange, Family, damage_type
  <1>8. IdsInRange(explosion_type)
    BY DEF IdsInRange, Family, explosion_type
  <1>9. IdsInRange(bullet_type)
    BY DEF IdsInRange, Family, bullet_type
  <1>10. IdsInRange(order)
    BY DEF IdsInRange, Family, order
  <1>11. IdsInRange(player_type)
    BY DEF IdsInRange, Family, player_type
  <1>12. IdsInRange(game_type)
    BY DEF IdsInRange, Family, game_type
  <1>13. IdsInRange(unit_command_type)
    BY DEF IdsInRange, Family, unit_command_type
  <1>14. IdsInRange(error_code)
    BY DEF IdsInRange, Family, error_code
  <1>15. IdsInRange(color)
    BY DEF IdsInRange, Family, color
  <1>16. IdsInRange(event_type)
    BY DEF IdsInRange, Family, event_type
  <1>17. IdsInRange(flag)
    BY DEF IdsInRange, Family, flag
  <1>18. IdsInRange(coordinate_type)
    BY DEF IdsInRange, Family, coordinate_type
  <1>19. IdsInRange(text)
    BY DEF IdsInRange, Family, text
  <1>20. IdsInRange(text_size)
    BY DEF IdsInRange, Family, text_size
  <1>21. IdsInRange(key)
    BY DEF IdsInRange, Family, key
  <1>22. IdsInRange(mouse_button)
    BY DEF IdsInRange, Family, mouse_button
  <1>23. IdsInRange(latency)
    BY DEF IdsInRange, Family, latency
  <1>24. DOMAIN Asserted =
          {"unit_type", "weapon_type", "tech_type", "upgrade_type", "race",
           "unit_size_type", "damage_type", "explosion_type", "bullet_type",
           "order", "player_type", "game_type", "unit_command_type",
           "error_code", "color", "event_type", "flag", "coordinate_type",
           "text", "text_size", "key", "mouse_button", "latency"}
    BY DEF Asserted
  <1> QED
    BY <1>1, <1>2, <1>3, <1>4, <1>5, <1>6, <1>7, <1>8, <1>9, <1>10, <1>11,
       <1>12, <1>13, <1>14, <1>15, <1>16, <1>17, <1>18, <1>19, <1>20, <1>21,
       <1>22, <1>23, <1>24
    DEF Defined

\* The present pin is within its MAX.
LEMMA PresentBounded ==
    ASSUME NEW f \in DOMAIN Asserted
    PROVE  Bounded(Present(f))
  <1> DEFINE names == Defined[f].ids \cup (IF Defined[f].max = NoMax THEN {} ELSE {MaxName})
  <1>1. /\ DOMAIN Present(f) = names
        /\ \A n \in names : Present(f)[n] = IF n = MaxName THEN Defined[f].max ELSE n
    BY DEF Present
  <1>2. ASSUME MaxName \in names
        PROVE  Defined[f].max \in Nat /\ \A n \in names \ {MaxName} : n \in 0 .. Defined[f].max
    BY <1>2, IdsBelowMax DEF IdsInRange
  <1> QED BY <1>1, <1>2 DEF Bounded

----------------------------------------------------------------------------

\* Upstream's own changes, as modelled, keep its enumerators below its MAX.
LEMMA AddInHoleBounded ==
    ASSUME NEW n \in Fresh, NEW v, UpstreamBounded, AddInHole(n, v)
    PROVE  Bounded(upstream')
  <1>1. n # MaxName
    BY DEF Fresh, NewName, Reserved, UpstreamBounded
  <1>2. /\ DOMAIN upstream' = DOMAIN upstream \cup {n}
        /\ \A m \in DOMAIN upstream' : upstream'[m] = IF m = n THEN v ELSE upstream[m]
        /\ v \in 0 .. Last
    BY DEF AddInHole, Change
  <1>3. MaxName \in DOMAIN upstream => Last = upstream[MaxName] - 1
    BY DEF Last
  <1> QED BY <1>1, <1>2, <1>3 DEF UpstreamBounded, Bounded

LEMMA InsertBounded ==
    ASSUME NEW n \in Fresh, NEW v \in 0 .. Last, UpstreamBounded, Insert(n, v)
    PROVE  Bounded(upstream')
  <1>1. n # MaxName
    BY DEF Fresh, NewName, Reserved, UpstreamBounded
  <1>2. /\ DOMAIN upstream' = DOMAIN upstream \cup {n}
        /\ \A m \in DOMAIN upstream' :
              upstream'[m] = IF m = n THEN v
                             ELSE IF upstream[m] >= v THEN upstream[m] + 1
                             ELSE upstream[m]
        /\ v <= Last
    BY DEF Insert, Change
  <1>3. MaxName \in DOMAIN upstream => Last = upstream[MaxName] - 1
    BY DEF Last
  <1> QED BY <1>1, <1>2, <1>3 DEF UpstreamBounded, Bounded

LEMMA RemoveBounded ==
    ASSUME NEW n, UpstreamBounded, Remove(n)
    PROVE  Bounded(upstream')
  <1>1. upstream' = Restricted(upstream, DOMAIN upstream \ {n})
    BY DEF Remove, Change
  <1>2. /\ DOMAIN upstream' \subseteq DOMAIN upstream
        /\ \A m \in DOMAIN upstream' : upstream'[m] = upstream[m]
    BY <1>1, RestrictedValues
  <1> QED BY <1>2 DEF UpstreamBounded, Bounded

LEMMA UpstreamBoundedInit == Init => UpstreamBounded
  <1> SUFFICES ASSUME Init PROVE UpstreamBounded
    OBVIOUS
  <1>1. Bounded(upstream)
    BY PresentBounded, FamilyAssumption DEF Init
  <1>2. DOMAIN merged.upstream = {}
    BY DEF Init, Nothing
  <1> QED BY <1>1, <1>2 DEF UpstreamBounded, Bounded, Init

LEMMA UpstreamBoundedNext == UpstreamBounded /\ [Next]_vars => UpstreamBounded'
  <1> SUFFICES ASSUME UpstreamBounded, [Next]_vars PROVE UpstreamBounded'
    OBVIOUS
  <1>1. ASSUME NEW n \in Fresh, NEW v \in 0 .. Last, AddInHole(n, v)
        PROVE  UpstreamBounded'
    <2>1. Bounded(upstream')
      BY <1>1, AddInHoleBounded
    <2>2. changes' \in Nat /\ merged' = merged
      BY <1>1 DEF UpstreamBounded, AddInHole, Change
    <2> QED BY <2>1, <2>2 DEF UpstreamBounded, Bounded
  <1>2. ASSUME NEW n \in Fresh, NEW v \in 0 .. Last, Insert(n, v)
        PROVE  UpstreamBounded'
    <2>1. Bounded(upstream')
      BY <1>2, InsertBounded
    <2>2. changes' \in Nat /\ merged' = merged
      BY <1>2 DEF UpstreamBounded, Insert, Change
    <2> QED BY <2>1, <2>2 DEF UpstreamBounded, Bounded
  <1>3. ASSUME NEW n, Remove(n) PROVE UpstreamBounded'
    <2>1. Bounded(upstream')
      BY <1>3, RemoveBounded
    <2>2. changes' \in Nat /\ merged' = merged
      BY <1>3 DEF UpstreamBounded, Remove, Change
    <2> QED BY <2>1, <2>2 DEF UpstreamBounded, Bounded
  <1>4. CASE UpdateConstants
    BY <1>4 DEF UpdateConstants, UpstreamBounded, Bounded
  <1>5. CASE Regen
    BY <1>5 DEF Regen, UpstreamBounded, Bounded
  <1>6. CASE Merge
    BY <1>6 DEF Merge, UpstreamBounded, Bounded
  <1>7. ASSUME NEW n, NEW v, EditHeader(n, v) PROVE UpstreamBounded'
    BY <1>7 DEF EditHeader, UpstreamBounded, Bounded
  <1>8. CASE UNCHANGED vars
    BY <1>8 DEF vars, UpstreamBounded, Bounded
  <1> QED BY <1>1, <1>2, <1>3, <1>4, <1>5, <1>6, <1>7, <1>8 DEF Next

LEMMA UpstreamIsBounded == Spec => []UpstreamBounded
  BY UpstreamBoundedInit, UpstreamBoundedNext, PTL DEF Spec

----------------------------------------------------------------------------

\* Every constant of a merged header is upstream's enumerator of that name: what
\* the asserts and the regeneration check say of the moment of the merge.
MergedIsTrue ==
    \A n \in DOMAIN merged.header :
        n \in DOMAIN merged.upstream /\ merged.header[n] = merged.upstream[n]

LEMMA MergedIsTrueNext == MergedIsTrue /\ [Next]_vars => MergedIsTrue'
  <1> SUFFICES ASSUME MergedIsTrue, [Next]_vars PROVE MergedIsTrue'
    OBVIOUS
  <1>1. CASE Merge
    <2>1. merged'.header = header /\ merged'.upstream = upstream
      BY <1>1 DEF Merge
    <2>2. DOMAIN header = asserted
      BY <1>1, RestrictedValues DEF Merge, RegenClean, Emitted
    <2> QED BY <1>1, <2>1, <2>2 DEF Merge, Builds, MergedIsTrue
  <1>2. CASE ~ Merge
    <2>1. merged' = merged
      BY <1>2 DEF Next, vars, AddInHole, Insert, Remove, Change, UpdateConstants, Regen,
                  EditHeader
    <2> QED BY <2>1 DEF MergedIsTrue
  <1> QED BY <1>1, <1>2

LEMMA MergedHeaderIsTrue == Spec => []MergedIsTrue
  <1>1. Init => MergedIsTrue
    BY DEF Init, Nothing, MergedIsTrue
  <1> QED BY <1>1, MergedIsTrueNext, PTL DEF Spec

\* A merged header that fills 0 .. MAX has upstream's MAX, and no enumerator
\* of upstream lies past it: each has the value of a constant.
THEOREM DenseHeaderIsComplete == Spec => []DenseIsComplete
  <1>1. UpstreamBounded /\ MergedIsTrue => DenseIsComplete
    <2> SUFFICES ASSUME UpstreamBounded, MergedIsTrue, Dense(merged.header)
                 PROVE  ValuesOf(merged.upstream) \subseteq ValuesOf(merged.header)
      BY DEF DenseIsComplete
    <2>1. /\ MaxName \in DOMAIN merged.upstream
          /\ merged.header[MaxName] = merged.upstream[MaxName]
          /\ ValuesOf(merged.header) = 0 .. merged.upstream[MaxName]
      BY DEF Dense, MergedIsTrue
    <2>2. ValuesOf(merged.upstream) \subseteq 0 .. merged.upstream[MaxName]
      BY <2>1 DEF UpstreamBounded, Bounded, ValuesOf
    <2> QED BY <2>1, <2>2
  <1> QED BY <1>1, UpstreamIsBounded, MergedHeaderIsTrue, PTL

=============================================================================
