--------------------------- MODULE MCBreakpoints ---------------------------
(***************************************************************************)
(* Breakpoints with three entries and four addresses: a full table, an     *)
(* address below, between and above the entries, and every order of        *)
(* insertion and removal.                                                  *)
(***************************************************************************)
EXTENDS Breakpoints
=============================================================================
