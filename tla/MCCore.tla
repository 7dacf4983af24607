------------------------------- MODULE MCCore -------------------------------
(***************************************************************************)
(* Instances of module Core: connection m is a master with a child k (an   *)
(* FTP control and data connection, say), connection w goes to a           *)
(* well-known port, connection u does, too, but has no accounting.         *)
(***************************************************************************)
EXTENDS Core, TLC

CONSTANTS m, k, w, u, c1, c2, n1, n2

RootMW == m :> m @@ w :> w
RootMKU == m :> m @@ k :> m @@ u :> u
RootM == m :> m

PortMW == m :> NoProto @@ w :> "ftp"
PortMKU == m :> NoProto @@ k :> "ftp" @@ u :> "ftp"
PortM == m :> NoProto

NodeNames == n1 :> "qq" @@ n2 :> "mqq"
OneNode == n1 :> "qq"
=============================================================================
