------------------------------ MODULE MCNdInfo ------------------------------
(***************************************************************************)
(* Instance of module NdInfo: one server at a well-known port, one whose   *)
(* protocol a pattern may tell.                                            *)
(***************************************************************************)
EXTENDS NdInfo, TLC

CONSTANTS c1, c2, web, peer

OneWellKnown == web :> "http" @@ peer :> None
=============================================================================
