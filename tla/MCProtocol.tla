----------------------------- MODULE MCProtocol -----------------------------
(***************************************************************************)
(* The protocol with few requests, packets damaged in both directions and  *)
(* bytes that are no token, enough of them to fill the error buffer.       *)
(***************************************************************************)
EXTENDS Protocol
=============================================================================
