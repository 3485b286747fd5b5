----------------------------- MODULE TypeTables -----------------------------
(***************************************************************************)
(* The shape of the generated data exports: what every accessor of a type  *)
(* class and of a player answers with, the columns of the row structs, and *)
(* the accessor each column of bwapi_<class>_table() is filled from.       *)
(*                                                                         *)
(* The values themselves are upstream's.  What matters to a host is which  *)
(* class an answer is an id of, because it goes on from there.             *)
(***************************************************************************)
EXTENDS TypeIds, Sequences, FiniteSets

\* An accessor answers with: "int", "bool", "double", "string", "position",
\* "handle", or the name of a type class.  many: an array of them.  extra: it
\* has a parameter besides the id, or an out-parameter.
Answers(kind, names, many, extra) ==
    {[name |-> n, kind |-> kind, many |-> many, extra |-> extra] : n \in names}
Of(kind, names) == Answers(kind, names, FALSE, FALSE)
With(kind, names) == Answers(kind, names, FALSE, TRUE)
Many(kind, names) == Answers(kind, names, TRUE, FALSE)

\* Every class has these two; is_valid is the library's own.
Named == Of("string", {"get_name"}) \cup With("bool", {"is_valid"})

----------------------------------------------------------------------------
(* types.gen.cpp.                                                          *)

UnitNeeds ==
    Named \cup
    Of("Race", {"get_race"}) \cup
    With("UnitType", {"what_builds"}) \cup
    Many("UnitType", {"required_units"}) \cup
    Many("TechType", {"abilities"}) \cup
    Many("UpgradeType", {"upgrades"}) \cup
    Of("TechType", {"required_tech", "cloaking_tech"}) \cup
    Of("UpgradeType", {"armor_upgrade"}) \cup
    Of("int", {"max_hit_points", "max_shields", "max_energy", "armor",
        "mineral_price", "gas_price", "build_time", "supply_required",
        "supply_provided", "space_required", "space_provided"})

UnitMeasures ==
    Of("int", {"build_score", "destroy_score", "tile_width", "tile_height",
        "dimension_left", "dimension_up", "dimension_right",
        "dimension_down", "width", "height", "seek_range", "sight_range",
        "max_ground_hits", "max_air_hits", "acceleration", "halt_distance",
        "turn_radius"}) \cup
    Of("UnitSizeType", {"size"}) \cup
    Of("position", {"tile_size"}) \cup
    Of("WeaponType", {"ground_weapon", "air_weapon"}) \cup
    Of("double", {"top_speed"}) \cup
    Of("bool", {"can_produce", "can_attack", "can_move"})

UnitTraits ==
    Of("bool", {"is_flyer", "regenerates_hp", "is_spellcaster",
        "has_permanent_cloak", "is_invincible", "is_organic",
        "is_mechanical", "is_robotic", "is_detector",
        "is_resource_container", "is_resource_depot", "is_refinery",
        "is_worker", "requires_psi", "requires_creep",
        "is_two_units_in_one_egg", "is_burrowable", "is_cloakable",
        "is_building", "is_addon", "is_flying_building", "is_neutral",
        "is_hero", "is_powerup", "is_beacon"})

UnitRoles ==
    Of("bool", {"is_flag_beacon", "is_special_building", "is_spell",
        "produces_creep", "produces_larva", "is_mineral_field",
        "is_critter", "can_build_addon"}) \cup
    With("bool", {"is_successor_of"}) \cup
    Many("UnitType", {"builds_what"}) \cup
    Many("TechType", {"researches_what"}) \cup
    Many("UpgradeType", {"upgrades_what"})

WeaponExports ==
    Named \cup
    Of("bool", {"targets_air", "targets_ground",
        "targets_mechanical", "targets_organic", "targets_non_building",
        "targets_non_robotic", "targets_terrain", "targets_org_or_mech",
        "targets_own"}) \cup
    Of("TechType", {"get_tech"}) \cup
    Of("UnitType", {"what_uses"}) \cup
    Of("int", {"damage_amount", "damage_bonus", "damage_cooldown",
        "damage_factor", "min_range", "max_range", "inner_splash_radius",
        "median_splash_radius", "outer_splash_radius"}) \cup
    Of("UpgradeType", {"upgrade_type"}) \cup
    Of("DamageType", {"damage_type"}) \cup
    Of("ExplosionType", {"explosion_type"})

TechExports ==
    Named \cup
    Of("bool", {"targets_unit", "targets_position"}) \cup
    Of("Race", {"get_race"}) \cup
    Of("int", {"mineral_price", "gas_price", "research_time", "energy_cost"}) \cup
    Of("UnitType", {"what_researches", "required_unit"}) \cup
    Of("WeaponType", {"get_weapon"}) \cup
    Many("UnitType", {"what_uses"}) \cup
    Of("Order", {"get_order"})

UpgradeExports ==
    Named \cup
    Of("Race", {"get_race"}) \cup
    Of("int", {"mineral_price_factor", "gas_price_factor",
        "upgrade_time_factor", "max_repeats"}) \cup
    With("int", {"mineral_price", "gas_price", "upgrade_time"}) \cup
    Of("UnitType", {"what_upgrades"}) \cup
    With("UnitType", {"whats_required"}) \cup
    Many("UnitType", {"what_uses"})

RaceExports ==
    Named \cup
    Of("UnitType", {"get_worker", "get_resource_depot", "get_refinery",
        "get_transport", "get_supply_provider"})

ColorExports ==
    Named \cup
    Of("int", {"red", "green", "blue"})

PlayerTypeExports ==
    Named \cup
    Of("bool", {"is_lobby_type", "is_game_type"})

\* The classes with no accessor but the two.
PlainExports == Named

Exports ==
    [c \in ClassNames |->
        CASE c = "UnitType" -> UnitNeeds \cup UnitMeasures \cup UnitTraits \cup UnitRoles
          [] c = "WeaponType" -> WeaponExports
          [] c = "TechType" -> TechExports
          [] c = "UpgradeType" -> UpgradeExports
          [] c = "Race" -> RaceExports
          [] c = "Color" -> ColorExports
          [] c = "PlayerType" -> PlayerTypeExports
          [] OTHER -> PlainExports]

\* The neutral value of an export that answers with a type.
\* Mutant: BWAPI_NONE, as for a handle.
NoneForTypes(kind) == NoMax
Neutral(kind) == unknown_id(kind)

----------------------------------------------------------------------------
(* player.gen.cpp.                                                         *)

PlayerState ==
    Of("string", {"get_name"}) \cup
    Many("handle", {"get_units"}) \cup
    Of("Race", {"get_race"}) \cup
    Of("PlayerType", {"get_type"}) \cup
    Of("handle", {"get_force"}) \cup
    With("bool", {"is_ally", "is_enemy"}) \cup
    Of("bool", {"is_neutral", "is_victorious", "is_defeated", "left_game"}) \cup
    Of("position", {"get_start_location"}) \cup
    Of("int", {"minerals", "gas", "gathered_minerals", "gathered_gas"})

PlayerCounts ==
    Of("int", {"repaired_minerals", "repaired_gas", "refunded_minerals",
        "refunded_gas", "spent_minerals", "spent_gas"}) \cup
    With("int", {"supply_total", "supply_used", "all_unit_count",
        "visible_unit_count", "completed_unit_count", "incomplete_unit_count",
        "dead_unit_count", "killed_unit_count", "get_upgrade_level"}) \cup
    With("bool", {"has_researched"})

PlayerAbilities ==
    With("bool", {"is_researching", "is_upgrading", "is_research_available",
        "is_unit_available", "has_unit_type_requirement"}) \cup
    Of("bool", {"is_observer"}) \cup
    Of("Color", {"get_color"}) \cup
    Of("int", {"get_text_color", "get_unit_score", "get_kill_score",
        "get_building_score", "get_razing_score", "get_custom_score"}) \cup
    With("int", {"max_energy", "weapon_max_range", "sight_range",
        "weapon_damage_cooldown", "armor", "damage", "get_max_upgrade_level"}) \cup
    With("double", {"top_speed"})

PlayerExports == PlayerState \cup PlayerCounts \cup PlayerAbilities

----------------------------------------------------------------------------
(* The row structs, in field order, and what fills them.                   *)

UnitRow ==
    <<"size", "id", "get_race", "required_tech", "cloaking_tech",
      "armor_upgrade", "max_hit_points", "max_shields", "max_energy",
      "armor", "mineral_price", "gas_price", "build_time", "supply_required",
      "supply_provided", "space_required", "space_provided", "build_score",
      "destroy_score", "size_type", "tile_width", "tile_height",
      "dimension_left", "dimension_up", "dimension_right", "dimension_down",
      "width", "height", "seek_range", "sight_range", "ground_weapon",
      "max_ground_hits", "air_weapon", "max_air_hits", "top_speed",
      "acceleration", "halt_distance", "turn_radius", "can_produce",
      "can_attack", "can_move", "is_flyer", "regenerates_hp",
      "is_spellcaster", "has_permanent_cloak", "is_invincible", "is_organic",
      "is_mechanical", "is_robotic", "is_detector", "is_resource_container",
      "is_resource_depot", "is_refinery", "is_worker", "requires_psi",
      "requires_creep", "is_two_units_in_one_egg", "is_burrowable",
      "is_cloakable", "is_building", "is_addon", "is_flying_building",
      "is_neutral", "is_hero", "is_powerup", "is_beacon", "is_flag_beacon",
      "is_special_building", "is_spell", "produces_creep", "produces_larva",
      "is_mineral_field", "is_critter", "can_build_addon">>

WeaponRow ==
    <<"size", "id", "get_tech", "what_uses", "damage_amount", "damage_bonus",
      "damage_cooldown", "damage_factor", "upgrade_type", "damage_type",
      "explosion_type", "min_range", "max_range", "inner_splash_radius",
      "median_splash_radius", "outer_splash_radius", "targets_air",
      "targets_ground", "targets_mechanical", "targets_organic",
      "targets_non_building", "targets_non_robotic", "targets_terrain",
      "targets_org_or_mech", "targets_own">>

TechRow ==
    <<"size", "id", "get_race", "mineral_price", "gas_price",
      "research_time", "energy_cost", "what_researches", "get_weapon",
      "targets_unit", "targets_position", "get_order", "required_unit">>

UpgradeRow ==
    <<"size", "id", "get_race", "mineral_price_factor", "gas_price_factor",
      "upgrade_time_factor", "max_repeats", "what_upgrades">>

RaceRow ==
    <<"size", "id", "get_worker", "get_resource_depot", "get_refinery",
      "get_transport", "get_supply_provider">>

PlayerTypeRow ==
    <<"size", "id", "is_lobby_type", "is_game_type">>

ColorRow ==
    <<"size", "id", "red", "green", "blue">>

FieldsOf(row) == {row[k] : k \in DOMAIN row}

\* Each field from the accessor of its name; id is the row's index and
\* write_rows() sets size.
Mirrors(row) == [f \in FieldsOf(row) \ {"size"} |-> f]

UnitFill == [Mirrors(UnitRow) EXCEPT !["size_type"] = "size"]
WeaponFill == Mirrors(WeaponRow)
TechFill == Mirrors(TechRow)
\* Mutant: the price of a level in the column of the price factor.
UpgradeFillsPrice == [Mirrors(UpgradeRow) EXCEPT !["gas_price_factor"] = "gas_price"]
UpgradeFill == Mirrors(UpgradeRow)
RaceFill == Mirrors(RaceRow)
PlayerTypeFill == Mirrors(PlayerTypeRow)
ColorFill == Mirrors(ColorRow)

Tables ==
    [UnitType |-> UnitFill, WeaponType |-> WeaponFill, TechType |-> TechFill,
     UpgradeType |-> UpgradeFill, Race |-> RaceFill,
     PlayerType |-> PlayerTypeFill, Color |-> ColorFill]

\* An accessor with a single value for an id alone.
Scalar(e) == ~ e.many /\ ~ e.extra /\ e.kind \notin {"string", "position"}

=============================================================================
