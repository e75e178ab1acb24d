------------------------------ MODULE MCMemory ------------------------------
(***************************************************************************)
(* A memory of five bytes: words that fit at two addresses, accesses that  *)
(* overlap in every way, and accesses past the end.                        *)
(***************************************************************************)
EXTENDS Memory

MCValues == {<<1>>, <<0, 1>>, <<0, 0, 1, 0>>}
MCAddresses == 0 .. Size + 1
=============================================================================
