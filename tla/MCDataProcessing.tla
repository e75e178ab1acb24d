-------------------------- MODULE MCDataProcessing --------------------------
(***************************************************************************)
(* Every instruction, every operand and every status on words of four      *)
(* bits, with shifts of up to nine places: less than, equal to and more    *)
(* than the width, and more than twice the width.                          *)
(***************************************************************************)
EXTENDS DataProcessing
=============================================================================
