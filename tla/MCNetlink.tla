----------------------------- MODULE MCNetlink -----------------------------
(***************************************************************************)
(* Instances of module Netlink: three runs of the program, two that ask    *)
(* for the counts and one whose last option is another one.                *)
(***************************************************************************)
EXTENDS Netlink, TLC

CONSTANTS p, q, r

AllAllHttp == p :> <<"ALL">> @@ q :> <<"HTTP", "ALL", "COUNT">> @@ r :> <<"ALL", "HTTP">>
=============================================================================
