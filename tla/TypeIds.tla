------------------------------- MODULE TypeIds -------------------------------
(***************************************************************************)
(* The ids of the header: for every enumeration a signature refers to, the *)
(* values that have a constant in bwapi_c2_types.h, and its MAX constant.  *)
(* The names of the constants are left out: an id stands for its name.     *)
(*                                                                         *)
(* Two facts about upstream's Type<> are external: the last id of a class  *)
(* is its Unknown, and the constructor turns any id outside 0 .. Unknown   *)
(* into Unknown.                                                           *)
(***************************************************************************)
EXTENDS Integers

NoMax == -1
Family(ids, max) == [ids |-> ids, max |-> max]

unit_type == Family(0 .. 233, 234)
weapon_type == Family((0 .. 131) \ ({14, 44, 45, 50, 51, 63, 68, 72, 94, 95, 110}
                                        \cup 87 .. 91 \cup 117 .. 129), 132)
tech_type == Family((0 .. 46) \ (35 .. 43), 47)
upgrade_type == Family((0 .. 62) \ ({18, 45, 46, 48, 50} \cup 55 .. 59), 63)
race == Family(0 .. 8, 9)
unit_size_type == Family(0 .. 5, 6)
damage_type == Family(0 .. 6, 7)
explosion_type == Family(0 .. 25, 26)
bullet_type == Family({0} \cup 141 .. 172 \cup 201 .. 206 \cup {209, 210}, 211)
order == Family(0 .. 190, 191)
player_type == Family(0 .. 12, 13)
game_type == Family((0 .. 33) \ (17 .. 31), 34)
unit_command_type == Family(0 .. 45, 46)
error_code == Family(0 .. 27, 28)
color == Family({0, 19, 74, 111, 117, 128, 135, 156, 159, 164, 165, 255}, NoMax)
event_type == Family(0 .. 18, NoMax)
flag == Family(0 .. 1, 2)
coordinate_type == Family(0 .. 3, NoMax)
text == Family((1 .. 31) \ {9, 10, 12, 13}, NoMax)
text_size == Family(0 .. 3, NoMax)
key == Family((1 .. 254) \ ({7, 10, 11, 14, 15, 26, 58, 94, 224, 232} \cup 59 .. 64
                               \cup 136 .. 143 \cup 151 .. 159 \cup 184 .. 185
                               \cup 193 .. 218), 255)
mouse_button == Family(0 .. 2, 3)
latency == Family({2, 5, 7, 9, 14, 19, 24}, NoMax)

\* The enumerations that are type classes: BWAPI::Type<> with ids.
Classes ==
    [UnitType |-> unit_type, WeaponType |-> weapon_type, TechType |-> tech_type,
     UpgradeType |-> upgrade_type, Race |-> race, UnitSizeType |-> unit_size_type,
     DamageType |-> damage_type, ExplosionType |-> explosion_type,
     BulletType |-> bullet_type, Order |-> order, PlayerType |-> player_type,
     GameType |-> game_type, UnitCommandType |-> unit_command_type,
     Error |-> error_code, Color |-> color]

ClassNames == DOMAIN Classes

\* The UnknownId template argument of Type<>: the enumerator before MAX.
UnknownId(c) == IF c = "Color" THEN 255 ELSE Classes[c].max - 1

\* Type<>'s constructor.
Type(c, v) == IF v \in 0 .. UnknownId(c) THEN v ELSE UnknownId(c)

unknown_id(c) == Type(c, -1)

id_count(c) == unknown_id(c) + 1

\* The isValid bodies: bwapi_<class>_is_valid.
IsValid(c, v) == v >= 0 /\ v <= unknown_id(c)

----------------------------------------------------------------------------
(* Positions: two's complement halves of width W = 2^w in one word.        *)

ToUnsigned(v, W) == v % W
ToSigned(v, W) == IF 2 * v >= W THEN v - W ELSE v

\* BWAPI_POS_MAKE.
PosMake(x, y, W) == ToUnsigned(y, W) * W + ToUnsigned(x, W)

\* BWAPI_POS_X and BWAPI_POS_Y.
PosX(p, W) == ToSigned(p % W, W)
PosY(p, W) == ToSigned(p \div W, W)

\* The sentinels of the three scales; a position function's neutral value is
\* the None of its own scale.
Sentinels ==
    [position |-> [Invalid |-> <<32000, 32000>>, None |-> <<32000, 32032>>,
                   Unknown |-> <<32000, 32064>>, Origin |-> <<0, 0>>],
     walkposition |-> [Invalid |-> <<4000, 4000>>, None |-> <<4000, 4004>>,
                       Unknown |-> <<4000, 4008>>, Origin |-> <<0, 0>>],
     tileposition |-> [Invalid |-> <<1000, 1000>>, None |-> <<1000, 1001>>,
                       Unknown |-> <<1000, 1002>>, Origin |-> <<0, 0>>]]

=============================================================================
