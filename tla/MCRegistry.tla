----------------------------- MODULE MCRegistry -----------------------------
(***************************************************************************)
(* Instances of module Registry: a and b have configuration files that name *)
(* one protocol, c another one, d a file that names a protocol and has no  *)
(* pattern ("qq:"), so that it gets a row and fails, e one without a ':',  *)
(* which fails without a row.                                              *)
(***************************************************************************)
EXTENDS Registry, TLC

CONSTANTS a, b, c, d, e

Good(name) == [name |-> name, row |-> TRUE, parses |-> TRUE, compiles |-> TRUE]
NoPattern(name) == [name |-> name, row |-> TRUE, parses |-> FALSE, compiles |-> FALSE]

NoColon == [name |-> NoName, row |-> FALSE, parses |-> FALSE, compiles |-> TRUE]

AllConfs == {Good("qq"), Good("mqq"), NoPattern("qq"), NoColon}

ConfOf ==
  a :> Good("qq") @@ b :> Good("qq") @@ c :> Good("mqq") @@ d :> NoPattern("qq") @@ e :> NoColon
=============================================================================
