--------------------------- MODULE TypeWalkProofs ---------------------------
(***************************************************************************)
(* A host's walk through the type data, whatever ids it makes up; and the  *)
(* packing of a position into one word, for halves of any width: that of   *)
(* bwapi_position is W = 2^32, which no run could go through.              *)
(***************************************************************************)
EXTENDS TypeWalk, TLAPS

\* The last id of every class is its Unknown, the MAX constant, where there
\* is one, is one more, and both come out of the exports that compute them.
LEMMA ClassEnds ==
    ASSUME NEW c \in ClassNames
    PROVE  /\ UnknownId(c) \in Nat /\ UnknownId(c) >= 2
           /\ unknown_id(c) = UnknownId(c)
           /\ id_count(c) = UnknownId(c) + 1
           /\ Classes[c].max \in {NoMax, UnknownId(c) + 1}
  <1>1. UnknownId(c) \in Nat /\ UnknownId(c) >= 2
    <2>1. c # "Color" => Classes[c].max \in Nat /\ Classes[c].max >= 3
      BY DEF ClassNames, Classes, Family, unit_type, weapon_type, tech_type, upgrade_type,
             race, unit_size_type, damage_type, explosion_type, bullet_type, order,
             player_type, game_type, unit_command_type, error_code
    <2> QED BY <2>1 DEF UnknownId
  <1>2. unknown_id(c) = UnknownId(c)
    BY <1>1 DEF unknown_id, Type
  <1>3. Classes[c].max \in {NoMax, UnknownId(c) + 1}
    <2>1. c # "Color" => Classes[c].max \in Int
      BY DEF ClassNames, Classes, Family, unit_type, weapon_type, tech_type, upgrade_type,
             race, unit_size_type, damage_type, explosion_type, bullet_type, order,
             player_type, game_type, unit_command_type, error_code
    <2>2. Classes["Color"].max = NoMax
      BY DEF Classes, Family, color
    <2> QED BY <2>1, <2>2 DEF UnknownId
  <1> QED BY <1>1, <1>2, <1>3 DEF id_count

\* The classes that have a table are classes.
LEMMA TablesAreOfClasses == DOMAIN Tables \subseteq ClassNames /\ "UnitType" \in DOMAIN Tables
  BY DEF Tables, ClassNames, Classes

\* What an accessor answers, and what a column holds, is an id of its class.
LEMMA HeldAreIds ==
    ASSUME NEW c \in ClassNames
    PROVE  Held(c) \subseteq 0 .. UnknownId(c) /\ Neutral(c) \in 0 .. UnknownId(c)
  <1>1. UnknownId(c) \in Nat /\ unknown_id(c) = UnknownId(c)
    BY ClassEnds
  <1>2. Ids \subseteq Int
    BY IdsAssumption
  <1>3. Held(c) \subseteq 0 .. UnknownId(c)
    <2> SUFFICES ASSUME NEW v \in Held(c) PROVE v \in 0 .. UnknownId(c)
      OBVIOUS
    <2>1. v \in {0, UnknownId(c)} \/ (v \in Int /\ 0 <= v /\ v <= UnknownId(c))
      BY <1>2 DEF Held
    <2> QED BY <1>1, <2>1
  <1> QED BY <1>1, <1>3 DEF Neutral

----------------------------------------------------------------------------

\* The strengthening: an id the library handed out is one its class has, and
\* a table the host has read has all its rows, or the one there was room for,
\* so that no host can have all the rows but the last, which is Unknown's.
HandedOut == how # "guess" => cls \in ClassNames /\ id \in 0 .. UnknownId(cls)

WholeOrOne ==
    table \in DOMAIN Tables /\ rows \in {0, 1, id_count(table)}

WalkInvariant == HandedOut /\ WholeOrOne

LEMMA AnswerHandsOut ==
    ASSUME NEW e, WalkInvariant, Answer(e)
    PROVE  WalkInvariant'
  <1>1. cls' \in ClassNames /\ id' \in 0 .. UnknownId(cls')
    BY HeldAreIds DEF Answer
  <1> QED BY <1>1 DEF Answer, WalkInvariant, HandedOut, WholeOrOne

LEMMA WalkInvariantInit == Init => WalkInvariant
  BY TablesAreOfClasses DEF Init, WalkInvariant, HandedOut, WholeOrOne

LEMMA WalkInvariantNext == WalkInvariant /\ [Next]_vars => WalkInvariant'
  <1> SUFFICES ASSUME WalkInvariant, [Next]_vars PROVE WalkInvariant'
    OBVIOUS
  <1>1. ASSUME NEW c \in Start, NEW v \in Ids, Guess(c, v) PROVE WalkInvariant'
    BY <1>1 DEF Guess, WalkInvariant, HandedOut, WholeOrOne
  <1>2. ASSUME NEW e, Ask(e) PROVE WalkInvariant'
    BY <1>2, AnswerHandsOut DEF Ask
  <1>3. ASSUME NEW e, AskPlayer(e) PROVE WalkInvariant'
    BY <1>3, AnswerHandsOut DEF AskPlayer
  <1>4. ASSUME NEW c \in DOMAIN Tables, NEW n \in Sizes(c), ReadTable(c, n)
        PROVE  WalkInvariant'
    <2>1. id_count(c) \in Nat /\ id_count(c) >= 3 /\ n \in {1, id_count(c)}
      BY ClassEnds, TablesAreOfClasses DEF Sizes
    <2>2. WholeOrOne'
      BY <1>4, <2>1 DEF ReadTable, WholeOrOne
    <2>3. HandedOut'
      BY <1>4 DEF ReadTable, WalkInvariant, HandedOut
    <2> QED BY <2>2, <2>3 DEF WalkInvariant
  <1>5. ASSUME NEW f, LookUp(f) PROVE WalkInvariant'
    <2>1. cls' \in ClassNames /\ id' \in 0 .. UnknownId(cls')
      BY <1>5, HeldAreIds DEF LookUp
    <2> QED BY <1>5, <2>1 DEF LookUp, WalkInvariant, HandedOut, WholeOrOne
  <1>6. CASE UNCHANGED vars
    BY <1>6 DEF vars, WalkInvariant, HandedOut, WholeOrOne
  <1> QED BY <1>1, <1>2, <1>3, <1>4, <1>5, <1>6 DEF Next

THEOREM WalkIsInvariant == Spec => []WalkInvariant
  BY WalkInvariantInit, WalkInvariantNext, PTL DEF Spec

\* An id the library handed out, as an answer, a neutral value or a column,
\* resolves: its class takes it, the MAX constant bounds it, and the class's
\* table, read with an array of that size, has its row.  A host may make up
\* any integers for ids and start anywhere.
THEOREM EveryLinkResolves == Spec => []LinkResolves
  <1>1. WalkInvariant => LinkResolves
    <2> SUFFICES ASSUME WalkInvariant, how # "guess"
                 PROVE  /\ IsValid(cls, id)
                        /\ Classes[cls].max # NoMax => id < Classes[cls].max
                        /\ cls = table /\ rows >= UnknownId(cls) => id < rows
      BY DEF LinkResolves
    <2>1. cls \in ClassNames /\ id \in 0 .. UnknownId(cls)
      BY DEF WalkInvariant, HandedOut
    <2>2. IsValid(cls, id)
      BY <2>1, ClassEnds DEF IsValid
    <2>3. Classes[cls].max # NoMax => id < Classes[cls].max
      BY <2>1, ClassEnds
    <2>4. ASSUME cls = table, rows >= UnknownId(cls) PROVE id < rows
      <3>1. rows \in {0, 1, UnknownId(cls) + 1} /\ UnknownId(cls) \in Nat /\ UnknownId(cls) >= 2
        BY <2>1, <2>4, ClassEnds DEF WalkInvariant, WholeOrOne
      <3> QED BY <2>1, <2>4, <3>1
    <2> QED BY <2>2, <2>3, <2>4
  <1> QED BY <1>1, WalkIsInvariant, PTL

----------------------------------------------------------------------------
(***************************************************************************)
(* The rows, column by column against the accessors.  Scalars distributes  *)
(* over the parts a class's exports are written in, which leaves for each  *)
(* class an equality of two sets of names.                                 *)
(***************************************************************************)

\* The names of the scalar accessors in a part of a class.
Scalars(part) == {e.name : e \in {a \in part : Scalar(a)}}

LEMMA ScalarsOf ==
    ASSUME NEW kind, NEW names
    PROVE  /\ kind \notin {"string", "position"} => Scalars(Of(kind, names)) = names
           /\ kind \in {"string", "position"} => Scalars(Of(kind, names)) = {}
           /\ Scalars(With(kind, names)) = {} /\ Scalars(Many(kind, names)) = {}
  <1>1. ASSUME kind \notin {"string", "position"} PROVE Scalars(Of(kind, names)) = names
    <2> DEFINE R(n) == [name |-> n, kind |-> kind, many |-> FALSE, extra |-> FALSE]
    <2>1. \A n : R(n).name = n /\ Scalar(R(n))
      BY <1>1 DEF Scalar
    <2>2. Of(kind, names) = {R(n) : n \in names}
      BY DEF Of, Answers
    <2> HIDE DEF R
    <2>3. \A n : n \in Scalars(Of(kind, names)) <=> n \in names
      BY <2>1, <2>2 DEF Scalars
    <2> QED BY <2>3
  <1>2. ASSUME kind \in {"string", "position"} PROVE Scalars(Of(kind, names)) = {}
    <2>1. \A e \in Of(kind, names) : ~ Scalar(e)
      BY <1>2 DEF Of, Answers, Scalar
    <2> QED BY <2>1 DEF Scalars
  <1>3. Scalars(With(kind, names)) = {}
    <2>1. \A e \in With(kind, names) : ~ Scalar(e)
      BY DEF With, Answers, Scalar
    <2> QED BY <2>1 DEF Scalars
  <1>4. Scalars(Many(kind, names)) = {}
    <2>1. \A e \in Many(kind, names) : ~ Scalar(e)
      BY DEF Many, Answers, Scalar
    <2> QED BY <2>1 DEF Scalars
  <1> QED BY <1>1, <1>2, <1>3, <1>4

LEMMA NamedScalars == Scalars(Named) = {}
  <1>1. Scalars(Named) =
        Scalars(Of("string", {"get_name"})) \cup Scalars(With("bool", {"is_valid"}))
    BY DEF Named, Scalars
  <1> QED BY <1>1, ScalarsOf

LEMMA RaceScalars == Scalars(RaceExports) = FieldsOf(RaceRow) \ {"size", "id"}
  <1>1. Scalars(RaceExports) =
        Scalars(Named) \cup
        Scalars(Of("UnitType", {
              "get_worker", "get_resource_depot", "get_refinery",
              "get_transport", "get_supply_provider"}))
    BY DEF RaceExports, Scalars
  <1> QED BY <1>1, NamedScalars, ScalarsOf DEF FieldsOf, RaceRow

LEMMA ColorScalars == Scalars(ColorExports) = FieldsOf(ColorRow) \ {"size", "id"}
  <1>1. Scalars(ColorExports) =
        Scalars(Named) \cup
        Scalars(Of("int", {"red", "green", "blue"}))
    BY DEF ColorExports, Scalars
  <1> QED BY <1>1, NamedScalars, ScalarsOf DEF FieldsOf, ColorRow

LEMMA PlayerTypeScalars == Scalars(PlayerTypeExports) = FieldsOf(PlayerTypeRow) \ {"size", "id"}
  <1>1. Scalars(PlayerTypeExports) =
        Scalars(Named) \cup
        Scalars(Of("bool", {"is_lobby_type", "is_game_type"}))
    BY DEF PlayerTypeExports, Scalars
  <1> QED BY <1>1, NamedScalars, ScalarsOf DEF FieldsOf, PlayerTypeRow

LEMMA TechScalars == Scalars(TechExports) = FieldsOf(TechRow) \ {"size", "id"}
  <1>1. Scalars(TechExports) =
        Scalars(Named) \cup
        Scalars(Of("bool", {"targets_unit", "targets_position"})) \cup
        Scalars(Of("Race", {"get_race"})) \cup
        Scalars(Of("int", {
              "mineral_price", "gas_price", "research_time", "energy_cost"})) \cup
        Scalars(Of("UnitType", {"what_researches", "required_unit"})) \cup
        Scalars(Of("WeaponType", {"get_weapon"})) \cup
        Scalars(Many("UnitType", {"what_uses"})) \cup
        Scalars(Of("Order", {"get_order"}))
    BY DEF TechExports, Scalars
  <1> QED BY <1>1, NamedScalars, ScalarsOf DEF FieldsOf, TechRow

LEMMA UpgradeScalars == Scalars(UpgradeExports) = FieldsOf(UpgradeRow) \ {"size", "id"}
  <1>1. Scalars(UpgradeExports) =
        Scalars(Named) \cup
        Scalars(Of("Race", {"get_race"})) \cup
        Scalars(Of("int", {
              "mineral_price_factor", "gas_price_factor",
              "upgrade_time_factor", "max_repeats"})) \cup
        Scalars(With("int", {"mineral_price", "gas_price", "upgrade_time"})) \cup
        Scalars(Of("UnitType", {"what_upgrades"})) \cup
        Scalars(With("UnitType", {"whats_required"})) \cup
        Scalars(Many("UnitType", {"what_uses"}))
    BY DEF UpgradeExports, Scalars
  <1> QED BY <1>1, NamedScalars, ScalarsOf DEF FieldsOf, UpgradeRow

LEMMA WeaponScalars == Scalars(WeaponExports) = FieldsOf(WeaponRow) \ {"size", "id"}
  <1>1. Scalars(WeaponExports) =
        Scalars(Named) \cup
        Scalars(Of("bool", {
              "targets_air", "targets_ground", "targets_mechanical",
              "targets_organic", "targets_non_building",
              "targets_non_robotic", "targets_terrain", "targets_org_or_mech",
              "targets_own"})) \cup
        Scalars(Of("TechType", {"get_tech"})) \cup
        Scalars(Of("UnitType", {"what_uses"})) \cup
        Scalars(Of("int", {
              "damage_amount", "damage_bonus", "damage_cooldown",
              "damage_factor", "min_range", "max_range",
              "inner_splash_radius", "median_splash_radius",
              "outer_splash_radius"})) \cup
        Scalars(Of("UpgradeType", {"upgrade_type"})) \cup
        Scalars(Of("DamageType", {"damage_type"})) \cup
        Scalars(Of("ExplosionType", {"explosion_type"}))
    BY DEF WeaponExports, Scalars
  <1> QED BY <1>1, NamedScalars, ScalarsOf DEF FieldsOf, WeaponRow

LEMMA UnitNeedsScalars ==
    Scalars(UnitNeeds) =
        {"get_race", "required_tech", "cloaking_tech", "armor_upgrade",
         "max_hit_points", "max_shields", "max_energy", "armor",
         "mineral_price", "gas_price", "build_time", "supply_required",
         "supply_provided", "space_required", "space_provided"}
  <1>1. Scalars(UnitNeeds) =
        Scalars(Named) \cup
        Scalars(Of("Race", {"get_race"})) \cup
        Scalars(With("UnitType", {"what_builds"})) \cup
        Scalars(Many("UnitType", {"required_units"})) \cup
        Scalars(Many("TechType", {"abilities"})) \cup
        Scalars(Many("UpgradeType", {"upgrades"})) \cup
        Scalars(Of("TechType", {"required_tech", "cloaking_tech"})) \cup
        Scalars(Of("UpgradeType", {"armor_upgrade"})) \cup
        Scalars(Of("int", {
              "max_hit_points", "max_shields", "max_energy", "armor",
              "mineral_price", "gas_price", "build_time", "supply_required",
              "supply_provided", "space_required", "space_provided"}))
    BY DEF UnitNeeds, Scalars
  <1> QED BY <1>1, NamedScalars, ScalarsOf

LEMMA UnitMeasuresScalars ==
    Scalars(UnitMeasures) =
        {"build_score", "destroy_score", "tile_width", "tile_height",
         "dimension_left", "dimension_up", "dimension_right",
         "dimension_down", "width", "height", "seek_range", "sight_range",
         "max_ground_hits", "max_air_hits", "acceleration", "halt_distance",
         "turn_radius", "size", "ground_weapon", "air_weapon", "top_speed",
         "can_produce", "can_attack", "can_move"}
  <1>1. Scalars(UnitMeasures) =
        Scalars(Of("int", {
              "build_score", "destroy_score", "tile_width", "tile_height",
              "dimension_left", "dimension_up", "dimension_right",
              "dimension_down", "width", "height", "seek_range",
              "sight_range", "max_ground_hits", "max_air_hits",
              "acceleration", "halt_distance", "turn_radius"})) \cup
        Scalars(Of("UnitSizeType", {"size"})) \cup
        Scalars(Of("position", {"tile_size"})) \cup
        Scalars(Of("WeaponType", {"ground_weapon", "air_weapon"})) \cup
        Scalars(Of("double", {"top_speed"})) \cup
        Scalars(Of("bool", {"can_produce", "can_attack", "can_move"}))
    BY DEF UnitMeasures, Scalars
  <1> QED BY <1>1, NamedScalars, ScalarsOf

LEMMA UnitTraitsScalars ==
    Scalars(UnitTraits) =
        {"is_flyer", "regenerates_hp", "is_spellcaster",
         "has_permanent_cloak", "is_invincible", "is_organic",
         "is_mechanical", "is_robotic", "is_detector",
         "is_resource_container", "is_resource_depot", "is_refinery",
         "is_worker", "requires_psi", "requires_creep",
         "is_two_units_in_one_egg", "is_burrowable", "is_cloakable",
         "is_building", "is_addon", "is_flying_building", "is_neutral",
         "is_hero", "is_powerup", "is_beacon"}
  <1>1. Scalars(UnitTraits) =
        Scalars(Of("bool", {
              "is_flyer", "regenerates_hp", "is_spellcaster",
              "has_permanent_cloak", "is_invincible", "is_organic",
              "is_mechanical", "is_robotic", "is_detector",
              "is_resource_container", "is_resource_depot", "is_refinery",
              "is_worker", "requires_psi", "requires_creep",
              "is_two_units_in_one_egg", "is_burrowable", "is_cloakable",
              "is_building", "is_addon", "is_flying_building", "is_neutral",
              "is_hero", "is_powerup", "is_beacon"}))
    BY DEF UnitTraits, Scalars
  <1> QED BY <1>1, NamedScalars, ScalarsOf

LEMMA UnitRolesScalars ==
    Scalars(UnitRoles) =
        {"is_flag_beacon", "is_special_building", "is_spell",
         "produces_creep", "produces_larva", "is_mineral_field", "is_critter",
         "can_build_addon"}
  <1>1. Scalars(UnitRoles) =
        Scalars(Of("bool", {
              "is_flag_beacon", "is_special_building", "is_spell",
              "produces_creep", "produces_larva", "is_mineral_field",
              "is_critter", "can_build_addon"})) \cup
        Scalars(With("bool", {"is_successor_of"})) \cup
        Scalars(Many("UnitType", {"builds_what"})) \cup
        Scalars(Many("TechType", {"researches_what"})) \cup
        Scalars(Many("UpgradeType", {"upgrades_what"}))
    BY DEF UnitRoles, Scalars
  <1> QED BY <1>1, NamedScalars, ScalarsOf

UnitExports == UnitNeeds \cup UnitMeasures \cup UnitTraits \cup UnitRoles

\* The one column whose accessor has another name: size_type, since size is
\* the row's own.
LEMMA UnitScalars ==
    Scalars(UnitExports) = (FieldsOf(UnitRow) \ {"size", "id", "size_type"}) \cup {"size"}
  <1> DEFINE all == Scalars(UnitNeeds) \cup Scalars(UnitMeasures) \cup
                    Scalars(UnitTraits) \cup Scalars(UnitRoles)
  <1>1. Scalars(UnitExports) = all
    BY DEF UnitExports, Scalars
  <1>2. FieldsOf(UnitRow) \subseteq all \cup {"id", "size_type"}
    BY UnitNeedsScalars, UnitMeasuresScalars, UnitTraitsScalars, UnitRolesScalars
    DEF FieldsOf, UnitRow
  <1>3. Scalars(UnitNeeds) \subseteq FieldsOf(UnitRow)
    BY UnitNeedsScalars DEF FieldsOf, UnitRow
  <1>4. Scalars(UnitMeasures) \subseteq FieldsOf(UnitRow)
    BY UnitMeasuresScalars DEF FieldsOf, UnitRow
  <1>5. Scalars(UnitTraits) \subseteq FieldsOf(UnitRow)
    BY UnitTraitsScalars DEF FieldsOf, UnitRow
  <1>6. Scalars(UnitRoles) \subseteq FieldsOf(UnitRow)
    BY UnitRolesScalars DEF FieldsOf, UnitRow
  <1>7. "size" \in all /\ "id" \notin all /\ "size_type" \notin all
    BY UnitNeedsScalars, UnitMeasuresScalars, UnitTraitsScalars, UnitRolesScalars
  <1> QED BY <1>1, <1>2, <1>3, <1>4, <1>5, <1>6, <1>7

\* What a table fills from what, against the scalar accessors of its class.
Faithful(fill, scalars) ==
    /\ {fill[f] : f \in DOMAIN fill \ {"id"}} = scalars
    /\ \A f, g \in DOMAIN fill \ {"id"} : f # g => fill[f] # fill[g]

LEMMA MirrorsAreFaithful ==
    ASSUME NEW row
    PROVE  Faithful(Mirrors(row), FieldsOf(row) \ {"size", "id"})
  BY DEF Mirrors, Faithful

LEMMA UnitFillIsFaithful == Faithful(UnitFill, Scalars(UnitExports))
  <1> DEFINE fields == FieldsOf(UnitRow) \ {"size"}
  <1>1. "size_type" \in fields
    BY DEF FieldsOf, UnitRow
  <1>2. /\ DOMAIN UnitFill = fields /\ UnitFill["size_type"] = "size"
        /\ \A f \in fields \ {"size_type"} : UnitFill[f] = f
    BY <1>1 DEF UnitFill, Mirrors
  <1>3. "size" \notin fields
    OBVIOUS
  <1> HIDE DEF fields
  <1>4. \A f, g \in fields \ {"id"} : f # g => UnitFill[f] # UnitFill[g]
    BY <1>2, <1>3
  <1>5. {UnitFill[f] : f \in fields \ {"id"}} = (fields \ {"id", "size_type"}) \cup {"size"}
    BY <1>1, <1>2
  <1>6. Scalars(UnitExports) = (fields \ {"id", "size_type"}) \cup {"size"}
    BY UnitScalars DEF fields
  <1> QED BY <1>2, <1>4, <1>5, <1>6 DEF Faithful

LEMMA TablesAreFaithful ==
    ASSUME NEW c \in DOMAIN Tables
    PROVE  Faithful(Tables[c], Scalars(Exports[c]))
  <1>1. CASE c = "UnitType"
    BY <1>1, TablesAreOfClasses, UnitFillIsFaithful DEF Tables, Exports, UnitExports
  <1>2. CASE c = "WeaponType"
    BY <1>2, TablesAreOfClasses, MirrorsAreFaithful, WeaponScalars DEF Tables, Exports, WeaponFill
  <1>3. CASE c = "TechType"
    BY <1>3, TablesAreOfClasses, MirrorsAreFaithful, TechScalars DEF Tables, Exports, TechFill
  <1>4. CASE c = "UpgradeType"
    BY <1>4, TablesAreOfClasses, MirrorsAreFaithful, UpgradeScalars DEF Tables, Exports, UpgradeFill
  <1>5. CASE c = "Race"
    BY <1>5, TablesAreOfClasses, MirrorsAreFaithful, RaceScalars DEF Tables, Exports, RaceFill
  <1>6. CASE c = "PlayerType"
    BY <1>6, TablesAreOfClasses, MirrorsAreFaithful, PlayerTypeScalars
    DEF Tables, Exports, PlayerTypeFill
  <1>7. CASE c = "Color"
    BY <1>7, TablesAreOfClasses, MirrorsAreFaithful, ColorScalars DEF Tables, Exports, ColorFill
  <1> QED BY <1>1, <1>2, <1>3, <1>4, <1>5, <1>6, <1>7 DEF Tables

\* Each row has the scalar accessors of its class, every one in one column:
\* the tables are the code's own, so that this is about the hundred and
\* twenty columns there are, whatever class the host's walk is at.
THEOREM RowsMirrorAccessors == Spec => []RowsMirror
  <1>1. RowsMirror
    BY TablesAreFaithful DEF RowsMirror, Faithful, Scalars
  <1> QED BY <1>1, PTL

----------------------------------------------------------------------------
(* Positions.                                                              *)


\* The values of a two's complement half.
Half(W) == {v \in Int : -W <= 2 * v /\ 2 * v < W}

\* Consecutive multiples of W are W apart.
LEMMA MultiplesApart ==
    ASSUME NEW W \in Nat, NEW a \in Int, NEW b \in Int, a < b
    PROVE  a * W + W <= b * W
  <1>1. PICK d \in Nat : b = a + 1 + d
    BY b - a - 1 \in Nat, a + 1 + (b - a - 1) = b
  <1>2. b * W = a * W + W + d * W /\ d * W >= 0
    BY <1>1
  <1> QED BY <1>2

\* A number has one quotient and one remainder.
LEMMA OneQuotient ==
    ASSUME NEW W \in Nat \ {0}, NEW q \in Int, NEW r \in 0 .. W - 1
    PROVE  (q * W + r) \div W = q /\ (q * W + r) % W = r
  <1> DEFINE n == q * W + r
             d == n \div W
             m == n % W
  <1>1. n \in Int /\ q * W \in Int
    OBVIOUS
  <1>2. d \in Int /\ m \in 0 .. W - 1 /\ n = W * d + m
    BY <1>1
  <1>3. W * d = d * W /\ d * W \in Int
    BY <1>2
  <1>4. ~(d < q)
    <2>1. d < q => d * W + W <= q * W
      BY <1>2, MultiplesApart
    <2> QED BY <1>1, <1>2, <1>3, <2>1
  <1>5. ~(q < d)
    <2>1. q < d => q * W + W <= d * W
      BY <1>2, MultiplesApart
    <2> QED BY <1>1, <1>2, <1>3, <2>1
  <1>6. d = q
    BY <1>2, <1>4, <1>5
  <1> QED BY <1>1, <1>2, <1>3, <1>6

\* A half comes back from its unsigned form.
LEMMA HalfRoundTrip ==
    ASSUME NEW W \in Nat \ {0}, NEW v \in Half(W)
    PROVE  ToUnsigned(v, W) \in 0 .. W - 1 /\ ToSigned(ToUnsigned(v, W), W) = v
  <1>1. v \in Int /\ -W <= 2 * v /\ 2 * v < W
    BY DEF Half
  <1>2. CASE v >= 0
    <2>1. (0 * W + v) % W = v
      BY <1>1, <1>2, OneQuotient
    <2>2. 0 * W + v = v
      BY <1>1
    <2>3. ToUnsigned(v, W) = v
      BY <2>1, <2>2 DEF ToUnsigned
    <2> QED BY <1>1, <1>2, <2>3 DEF ToSigned
  <1>3. CASE v < 0
    <2>1. ((-1) * W + (v + W)) % W = v + W
      <3>1. ASSUME NEW q \in Int, NEW r \in 0 .. W - 1 PROVE (q * W + r) % W = r
        BY OneQuotient
      <3>2. -1 \in Int /\ v + W \in 0 .. W - 1
        BY <1>1, <1>3
      <3> QED BY <3>1, <3>2
    <2>2. (-1) * W + (v + W) = v
      BY <1>1
    <2>3. ToUnsigned(v, W) = v + W
      BY <2>1, <2>2 DEF ToUnsigned
    <2> QED BY <1>1, <1>3, <2>3 DEF ToSigned
  <1> QED BY <1>1, <1>2, <1>3

\* BWAPI_POS_X and BWAPI_POS_Y undo BWAPI_POS_MAKE for every position that
\* two halves can hold: "Packing is lossless", and no sign of x reaches y.
THEOREM PositionRoundTrip ==
    ASSUME NEW W \in Nat \ {0}, NEW x \in Half(W), NEW y \in Half(W)
    PROVE  PosX(PosMake(x, y, W), W) = x /\ PosY(PosMake(x, y, W), W) = y
  <1>1. ToUnsigned(x, W) \in 0 .. W - 1 /\ ToSigned(ToUnsigned(x, W), W) = x
    BY HalfRoundTrip
  <1>2. ToUnsigned(y, W) \in 0 .. W - 1 /\ ToSigned(ToUnsigned(y, W), W) = y
    BY HalfRoundTrip
  <1>3. /\ PosMake(x, y, W) % W = ToUnsigned(x, W)
        /\ PosMake(x, y, W) \div W = ToUnsigned(y, W)
    <2>1. ASSUME NEW q \in Int, NEW r \in 0 .. W - 1
          PROVE  (q * W + r) \div W = q /\ (q * W + r) % W = r
      BY OneQuotient
    <2>2. ToUnsigned(y, W) \in Int
      BY <1>2
    <2> QED BY <1>1, <2>1, <2>2, ZenonT(30) DEF PosMake
  <1> QED BY <1>1, <1>2, <1>3 DEF PosX, PosY

=============================================================================
