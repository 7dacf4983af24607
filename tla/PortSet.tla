------------------------------- MODULE PortSet -------------------------------
(***************************************************************************)
(* What the table of well-known ports promises its callers: a set of ports. *)
(* Adding a port that is in the set is refused, a search finds exactly what *)
(* is in the set, and when the table is emptied the entries go one by one,  *)
(* each once.                                                              *)
(***************************************************************************)
CONSTANT Ports

VARIABLES
  ports,   \* the ports of the table
  answer   \* what the last call returned

NoAnswer == [call |-> "none", port |-> 0, ok |-> FALSE]

Call(call, p, ok) == answer' = [call |-> call, port |-> p, ok |-> ok]

SetInit ==
  /\ ports = {}
  /\ answer = NoAnswer

SetAdd(p) ==
  /\ ports' = ports \cup {p}
  /\ Call("add", p, p \notin ports)

SetFind(p) ==
  /\ Call("find", p, p \in ports)
  /\ UNCHANGED ports

SetFree(p) ==
  /\ p \in ports
  /\ ports' = ports \ {p}
  /\ Call("free", p, TRUE)

SetNext == \E p \in Ports : SetAdd(p) \/ SetFind(p) \/ SetFree(p)

SetSpec == SetInit /\ [][SetNext]_<<ports, answer>>
=============================================================================
