----------------------------- MODULE MCPortTree -----------------------------
(***************************************************************************)
(* Instances of module PortTree: every tree of up to five ports.           *)
(***************************************************************************)
EXTENDS PortTree
=============================================================================
