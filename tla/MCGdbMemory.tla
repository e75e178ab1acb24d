---------------------------- MODULE MCGdbMemory ----------------------------
(***************************************************************************)
(* Packets of up to five bytes, escaped or not, inside a memory of five    *)
(* bytes, across its end and beyond it, between byte and half word stores. *)
(* The answer to 'm' has room for one byte; two bytes overwrite the table, *)
(* three the pointer too, with four the frame and with five the digits     *)
(* leave the structure.                                                    *)
(***************************************************************************)
EXTENDS GdbMemory

MCValues == {<<125>>, <<0, 93>>}
MCAddresses == 0 .. Size
MCContents == {<<>>, <<125>>, <<93, 125>>, <<125, 125, 0>>}
=============================================================================
