----------------------------- MODULE MCCounters -----------------------------
(***************************************************************************)
(* Instances of module Counters: two connections, a protocol with a *)
(* row from the start and one without.                                     *)
(***************************************************************************)
EXTENDS Counters, TLC

CONSTANTS x, y

(* two registrations and no reuse, or one reuse and no registration *)
SomeTurnover == {<<0, 0>>, <<1, 0>>, <<2, 0>>, <<0, 1>>}

ConnSymmetry == Permutations({x, y})
=============================================================================
