----------------------------- MODULE MCFixture -----------------------------
(***************************************************************************)
(* Instances of Fixture: a mineral field of two tiles and a building of    *)
(* two by two on a corner of the map, and tables of a few slots.           *)
(***************************************************************************)
EXTENDS Fixture

TwoTypes == {"mineral", "building"}
Wide == [mineral |-> 2, building |-> 2]
High == [mineral |-> 1, building |-> 2]
Corner == {<<0, 0>>, <<1, 0>>, <<2, 0>>, <<1, 1>>}

\* Half on the mineral field at <<0, 0>>, half on the one at <<2, 0>>.
OneStray == {<<"mineral", <<1, 0>>>>}

=============================================================================
