----------------------------- MODULE MCRowTable -----------------------------
(***************************************************************************)
(* Instances of RowTable: a row of three int32_t of two bytes, a table of  *)
(* three rows, hosts with every row size from a negative one to two fields *)
(* more than the DLL's row has.                                            *)
(***************************************************************************)
EXTENDS RowTable

HostStrides == -1 .. 10

HostCaps == -1 .. 4

HeaderStrides == {4, 8, 12}

=============================================================================
