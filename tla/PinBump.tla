------------------------------- MODULE PinBump -------------------------------
(***************************************************************************)
(* The constants across a change of the BWAPI pin: upstream's enumerators, *)
(* the values in spec/constants.yaml, the generated header, the generated  *)
(* static_asserts, and the two checks a change passes before it is merged: *)
(* the build and tests/regen_check.sh.                                     *)
(*                                                                         *)
(* A name is the value it has at the present pin; the MAX enumerator and   *)
(* the names upstream adds have names of their own.  Upstream is external: *)
(* enumerators are added, removed and renumbered, and the MAX of a type    *)
(* class stays one above its Unknown.                                      *)
(***************************************************************************)
EXTENDS TypeIds, Sequences, FiniteSets

CONSTANTS
    Family0,     \* the enumeration looked at, a member of DOMAIN Asserted
    MaxChanges   \* bound: changes of upstream and edits by hand, for each

MaxName == -1
NewName(k) == 1000 + k
Reserved(k) == 2000 + k         \* begins with two underscores

\* constants.gen.cpp: the names each section asserts.
asserts_unit_type == 0 .. 233 \cup {MaxName}
asserts_weapon_type == 0 .. 13 \cup 15 .. 43 \cup 46 .. 49 \cup 52 .. 62 \cup 64 .. 67
    \cup 69 .. 71 \cup 73 .. 86 \cup {92, 93} \cup 96 .. 109 \cup 111 .. 116
    \cup {130, 131, MaxName}
asserts_tech_type == 0 .. 34 \cup 44 .. 46 \cup {MaxName}
asserts_upgrade_type == 0 .. 17 \cup 19 .. 44 \cup {47, 49} \cup 51 .. 54
    \cup 60 .. 62 \cup {MaxName}
asserts_race == 0 .. 8 \cup {MaxName}
asserts_unit_size_type == 0 .. 5 \cup {MaxName}
asserts_damage_type == 0 .. 6 \cup {MaxName}
asserts_explosion_type == 0 .. 25 \cup {MaxName}
asserts_bullet_type == {0} \cup 141 .. 172 \cup 201 .. 206 \cup {209, 210, MaxName}
asserts_order == 0 .. 190 \cup {MaxName}
asserts_player_type == 0 .. 12 \cup {MaxName}
asserts_game_type == 0 .. 16 \cup {32, 33, MaxName}
asserts_unit_command_type == 0 .. 45 \cup {MaxName}
asserts_error_code == 0 .. 27 \cup {MaxName}
asserts_color == {0, 19, 74, 111, 117, 128, 135, 156, 159, 164, 165, 255}
asserts_event_type == 0 .. 18
asserts_flag == {0, 1, MaxName}
asserts_coordinate_type == 0 .. 3
asserts_text == 1 .. 8 \cup {11} \cup 14 .. 31
asserts_text_size == 0 .. 3
asserts_key == 1 .. 6 \cup {8, 9, 12, 13} \cup 16 .. 25 \cup 27 .. 57 \cup 65 .. 93
    \cup 95 .. 135 \cup 144 .. 150 \cup 160 .. 183 \cup 186 .. 192 \cup 219 .. 223
    \cup 225 .. 231 \cup 233 .. 254 \cup {MaxName}
asserts_mouse_button == {0, 1, 2, MaxName}
asserts_latency == {2, 5, 7, 9, 14, 19, 24}

Asserted ==
    [unit_type |-> asserts_unit_type, weapon_type |-> asserts_weapon_type,
     tech_type |-> asserts_tech_type, upgrade_type |-> asserts_upgrade_type,
     race |-> asserts_race, unit_size_type |-> asserts_unit_size_type,
     damage_type |-> asserts_damage_type, explosion_type |-> asserts_explosion_type,
     bullet_type |-> asserts_bullet_type, order |-> asserts_order,
     player_type |-> asserts_player_type, game_type |-> asserts_game_type,
     unit_command_type |-> asserts_unit_command_type, error_code |-> asserts_error_code,
     color |-> asserts_color, event_type |-> asserts_event_type, flag |-> asserts_flag,
     coordinate_type |-> asserts_coordinate_type, text |-> asserts_text,
     text_size |-> asserts_text_size, key |-> asserts_key,
     mouse_button |-> asserts_mouse_button, latency |-> asserts_latency]

Defined ==
    [unit_type |-> unit_type, weapon_type |-> weapon_type, tech_type |-> tech_type,
     upgrade_type |-> upgrade_type, race |-> race, unit_size_type |-> unit_size_type,
     damage_type |-> damage_type, explosion_type |-> explosion_type,
     bullet_type |-> bullet_type, order |-> order, player_type |-> player_type,
     game_type |-> game_type, unit_command_type |-> unit_command_type,
     error_code |-> error_code, color |-> color, event_type |-> event_type, flag |-> flag,
     coordinate_type |-> coordinate_type, text |-> text, text_size |-> text_size,
     key |-> key, mouse_button |-> mouse_button, latency |-> latency]

ASSUME FamilyAssumption ==
    Family0 \subseteq DOMAIN Asserted /\ \A f \in Family0 : MaxChanges[f] \in Nat

VARIABLES
    family,
    upstream,   \* the C++ enumerators: name -> value
    spec,       \* the values of constants.yaml
    header,     \* the #defines
    asserted,   \* the names constants.gen.cpp asserts
    merged,     \* what was merged last, with the upstream it was built against
    changes

vars == <<family, upstream, spec, header, asserted, merged, changes>>

Exportable(n) == n < Reserved(0)

Restricted(f, S) == [n \in DOMAIN f \cap S |-> f[n]]

\* The header's constants at the present pin.
Present(f) ==
    LET names == Defined[f].ids \cup (IF Defined[f].max = NoMax THEN {} ELSE {MaxName})
    IN  [n \in names |-> IF n = MaxName THEN Defined[f].max ELSE n]

Nothing == [header |-> [n \in {} |-> 0], upstream |-> [n \in {} |-> 0]]

Init ==
    /\ family \in Family0
    /\ upstream = Present(family) /\ spec = upstream /\ header = upstream
    /\ asserted = Asserted[family]
    /\ merged = Nothing
    /\ changes = 0

----------------------------------------------------------------------------
(* Upstream.                                                               *)

Change(f) ==
    /\ changes < MaxChanges[family] /\ changes' = changes + 1
    /\ upstream' = f
    /\ UNCHANGED <<family, spec, header, asserted, merged>>

Used == {upstream[n] : n \in DOMAIN upstream}
Fresh == {NewName(changes), Reserved(changes)}
Last == IF MaxName \in DOMAIN upstream THEN upstream[MaxName] - 1
        ELSE CHOOSE v \in Used : \A w \in Used : w <= v

\* A new enumerator with a value of its own: one no other has, below the last.
AddInHole(n, v) ==
    /\ v \in 0 .. Last \ Used
    /\ Change([m \in DOMAIN upstream \cup {n} |-> IF m = n THEN v ELSE upstream[m]])

\* A new enumerator among the others: those from v on move up by one.
Insert(n, v) ==
    /\ v \in Used /\ v <= Last
    /\ Change([m \in DOMAIN upstream \cup {n} |->
                  IF m = n THEN v
                  ELSE IF upstream[m] >= v THEN upstream[m] + 1 ELSE upstream[m]])

Remove(n) ==
    /\ n \in DOMAIN upstream /\ n # MaxName /\ upstream[n] < Last
    /\ Change(Restricted(upstream, DOMAIN upstream \ {n}))

----------------------------------------------------------------------------
(* This repository.                                                        *)

\* draft_spec.py --update-constants.
UpdateConstants ==
    /\ spec' = upstream
    /\ UNCHANGED <<family, upstream, header, asserted, merged, changes>>

\* What the emitters write for a spec.
Emitted(s) == Restricted(s, {n \in DOMAIN s : Exportable(n)})

\* regen.py: emit_header.py and emit_source.py.
Regen ==
    /\ header' = Emitted(spec)
    /\ asserted' = DOMAIN Emitted(spec)
    /\ UNCHANGED <<family, upstream, spec, merged, changes>>

\* Somebody edits a generated #define.
EditHeader(n, v) ==
    /\ n \in DOMAIN header /\ header[n] # v
    /\ changes < MaxChanges[family] /\ changes' = changes + 1
    /\ header' = [header EXCEPT ![n] = v]
    /\ UNCHANGED <<family, upstream, spec, asserted, merged>>

\* Mutant: the markers at the end, Unknown and MAX, are not asserted.
EndNotAsserted ==
    \A n \in asserted \ {MaxName, Defined[family].max - 1} :
        n \in DOMAIN header /\ n \in DOMAIN upstream /\ header[n] = upstream[n]
\* The static_asserts: each asserted name exists on both sides and is equal.
Builds ==
    \A n \in asserted :
        n \in DOMAIN header /\ n \in DOMAIN upstream /\ header[n] = upstream[n]

\* tests/regen_check.sh: emitting again changes nothing.
RegenClean == header = Emitted(spec) /\ asserted = DOMAIN Emitted(spec)

Merge ==
    /\ Builds /\ RegenClean
    /\ merged' = [header |-> header, upstream |-> upstream]
    /\ UNCHANGED <<family, upstream, spec, header, asserted, changes>>

Next ==
    \/ \E n \in Fresh, v \in 0 .. Last : AddInHole(n, v) \/ Insert(n, v)
    \/ \E n \in DOMAIN upstream : Remove(n)
    \/ UpdateConstants \/ Regen \/ Merge
    \/ \E n \in DOMAIN header : EditHeader(n, Last + 2)

Spec == Init /\ [][Next]_vars

----------------------------------------------------------------------------

ValuesOf(f) == {f[n] : n \in {m \in DOMAIN f : Exportable(m)}}

\* A header whose constants fill 0 .. MAX.
Dense(h) == MaxName \in DOMAIN h /\ ValuesOf(h) = 0 .. h[MaxName]

\* Where a merged header has a MAX and no hole below it, the asserts that are
\* there leave no room for an enumerator that has no constant: an addition
\* that nobody took over does not build, wherever it was made.
DenseIsComplete ==
    Dense(merged.header) => ValuesOf(merged.upstream) \subseteq ValuesOf(merged.header)

=============================================================================
