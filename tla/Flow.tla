-------------------------------- MODULE Flow --------------------------------
(***************************************************************************)
(* What flow identification promises, without locks, buffers or CPUs:      *)
(* a connection is labelled at most once; a connection without a master is *)
(* labelled with the protocol of its well-known port, with a protocol      *)
(* some pattern stands for, or "unknown" when more than NumPackets packets *)
(* went by without an answer; and an expected (child) connection is only   *)
(* ever labelled with the label of its master.                             *)
(***************************************************************************)
EXTENDS Naturals

CONSTANTS
  Conns,       \* the connections conntrack knows
  Root,        \* Root[ct]: the master at the end of ct's chain of masters
  Names,       \* protocol names
  Unknown,     \* the label "unknown"
  NoProto,     \* app_proto == NULL
  WellKnown,   \* WellKnown[ct]: protocol of ct's well-known port, or NoProto
  DpiNames,    \* the protocols that have a pattern
  NumPackets   \* packets examined before giving up

VARIABLES
  pkts,        \* pkts[ct]: packets of ct that conntrack has counted
  proto        \* proto[ct]: ct's label, or NoProto

flowVars == <<pkts, proto>>

FlowInit ==
  /\ pkts = [ct \in Conns |-> 0]
  /\ proto = [ct \in Conns |-> NoProto]

(* conntrack counts a packet *)
Count(ct) ==
  /\ pkts' = [pkts EXCEPT ![ct] = @ + 1]
  /\ UNCHANGED proto

(* a connection that is its own master gets its label *)
Identify(m) ==
  /\ Root[m] = m
  /\ proto[m] = NoProto
  /\ \E p \in Names \cup {Unknown} :
       /\ \/ p = WellKnown[m]
          \/ p \in DpiNames
          \/ p = Unknown /\ pkts[m] > NumPackets
       /\ proto' = [proto EXCEPT ![m] = p]
  /\ UNCHANGED pkts

(* a child takes over the label its master has *)
Follow(ct) ==
  /\ proto[ct] = NoProto
  /\ proto[Root[ct]] # NoProto
  /\ proto' = [proto EXCEPT ![ct] = proto[Root[ct]]]
  /\ UNCHANGED pkts

FlowNext == \E ct \in Conns : Count(ct) \/ Identify(ct) \/ Follow(ct)

FlowSpec == FlowInit /\ [][FlowNext]_flowVars
=============================================================================
