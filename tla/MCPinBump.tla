----------------------------- MODULE MCPinBump -----------------------------
(***************************************************************************)
(* Every enumeration of the header but the four largest; a dense one       *)
(* with a MAX and one without are changed twice, the smallest three times  *)
(* (an addition, its removal, and one more into the hole that leaves), the *)
(* others once.                                                            *)
(***************************************************************************)
EXTENDS PinBump

Families == DOMAIN Asserted \ {"unit_type", "order", "key", "weapon_type"}

Changes == [f \in Families |->
    IF f = "flag" THEN 3 ELSE IF f \in {"mouse_button", "text_size"} THEN 2 ELSE 1]

=============================================================================
