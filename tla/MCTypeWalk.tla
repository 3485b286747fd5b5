----------------------------- MODULE MCTypeWalk -----------------------------
(***************************************************************************)
(* The real ids and tables, with ids at the edges of every class.          *)
(***************************************************************************)
EXTENDS TypeWalk

EdgeIds == {-2, -1, 0, 46, 47, 62, 63, 131, 132, 233, 234, 255, 256}

StartClasses == {"UnitType", "WeaponType", "Race"}

=============================================================================
