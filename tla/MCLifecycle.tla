---------------------------- MODULE MCLifecycle ----------------------------
(***************************************************************************)
(* Instances of module Lifecycle: configuration files with two entries, a  *)
(* comment, a duplicate port and a port that is no number.                 *)
(***************************************************************************)
EXTENDS Lifecycle, TLC

CONSTANTS c1, c2

Entry(port, name) == [kind |-> "entry", port |-> port, name |-> name]
Other(kind) == [kind |-> kind]

SomeFiles == {<<>>,
              <<Other("skip"), Entry(21, "ftp"), Entry(53, "dns")>>,
              <<Entry(21, "ftp"), Entry(21, "dns")>>,
              <<Entry(53, "dns"), Other("bad")>>}
=============================================================================
