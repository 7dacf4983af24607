----------------------------- MODULE CoreProofs -----------------------------
(***************************************************************************)
(* Proofs about module Core, for any number of CPUs, connections, patterns *)
(* and packets, and for any sizes.                                         *)
(***************************************************************************)
EXTENDS Core, TLAPS

(* Which packets can be where in core().                                   *)
Placed ==
  \A c \in CPUs :
    /\ pc[c] = "idle" <=> skb[c].ct = NoPacket
    /\ pc[c] = "classify" => skb[c].ct # Alien
    /\ pc[c] \notin {"idle", "hook", "classify", "unlock"} => skb[c].ct \in Conns

(* What a CPU knows about the label it is going to set.                    *)
JobFits ==
  \A c \in CPUs :
    /\ pc[c] \in {"idle", "hook", "classify"} => job[c].src = "none"
    /\ pc[c] \in {"free", "freed"} => job[c].src \in {"master", "unknown"}
    /\ pc[c] = "inherit" => job[c].src = "master"
    /\ pc[c] \in {"label", "alloc", "copy"} => job[c].src # "none"
    /\ job[c].src # "none" => skb[c].ct \in Conns
    /\ job[c].src = "wellknown" => WellKnown[M(c)] # NoProto
    /\ job[c].src = "unknown" => pkts[M(c)] > NumPackets
    /\ job[c].src = "dpi" => job[c].node \in Nodes

(* The part of the invariant that does not depend on the lock.             *)
TypeInv == TypeOK /\ Placed /\ JobFits

(* The part that does.                                                     *)
Taken == \A c \in CPUs : Inside(c) => lock = "held"

FreedBriefly ==
  \A ct \in Conns :
    data[ct] = "freed" => \E c \in CPUs : pc[c] = "freed" /\ M(c) = ct

DataLives ==
  \A c \in CPUs : pc[c] \in {"write", "find"} => data[M(c)] = "live"

LabelSlot ==
  \A c \in CPUs :
    /\ pc[c] = "alloc" => proto[Target(c)] = NoProto
    /\ pc[c] = "copy" => proto[Target(c)] = Uninit

UninitOwned ==
  \A ct \in Conns :
    proto[ct] = Uninit =>
      \E c \in CPUs : \/ pc[c] = "oops"
                      \/ pc[c] = "copy" /\ Target(c) = ct

MasterLabelled ==
  \A c \in CPUs : job[c].src = "master" => proto[M(c)] \in Labels

Harmless == faults \subseteq {"stale_node", "null_deref"}

Locked ==
  /\ MutualExclusion
  /\ Taken
  /\ FreedBriefly
  /\ DataLives
  /\ LabelSlot
  /\ UninitOwned
  /\ MasterLabelled
  /\ Harmless

IndInv == TypeInv /\ (stray \/ Locked)

-----------------------------------------------------------------------------
(* Type correctness *)

USE DEF M, flows, vars, Goto, PCs, Labels

(* Facts about single packets and jobs that every action needs.            *)
LEMMA PacketFields ==
  ASSUME TypeInv, NEW c \in CPUs
  PROVE  /\ pc[c] \in PCs
         /\ skb[c] \in Packets
         /\ job[c] \in Jobs
         /\ skb[c].ct \in Conns => M(c) \in Conns
BY RootAssumption DEF TypeInv, TypeOK, Packets

(* The label about to be set is one that nf_ct_appflid_add can be given.   *)
LEMMA LabelType ==
  ASSUME TypeInv, NEW c \in CPUs, pc[c] \in {"label", "alloc", "copy"}
  PROVE  /\ Target(c) \in Conns
         /\ LabelOf(c) \in Labels \cup {NoProto, Uninit}
<1>1. skb[c].ct \in Conns /\ M(c) \in Conns
  BY PacketFields DEF TypeInv, Placed
<1>2. Target(c) \in Conns
  BY <1>1 DEF Target
<1>3. LabelOf(c) \in Labels \cup {NoProto, Uninit}
  <2>1. CASE job[c].src = "dpi"
    BY <2>1, NameAssumption DEF LabelOf, TypeInv, JobFits
  <2>2. CASE job[c].src = "master"
    BY <2>2, <1>1 DEF LabelOf, TypeInv, TypeOK
  <2>3. CASE job[c].src = "wellknown"
    BY <2>3, <1>1, NameAssumption DEF LabelOf
  <2>4. CASE job[c].src \notin {"dpi", "master", "wellknown"}
    BY <2>4 DEF LabelOf
  <2>5. QED BY <2>1, <2>2, <2>3, <2>4
<1>4. QED BY <1>2, <1>3

LEMMA InitType == Init => TypeInv
<1> SUFFICES ASSUME Init PROVE TypeInv
  OBVIOUS
<1>1. IdleSkb \in Packets /\ NoJob \in Jobs
  BY DEF Packets, Jobs, IdleSkb, NoJob
<1>2. TypeOK
  <2>1. 0 \in 0..(MaxDataLen - 1)
    BY BoundAssumption
  <2>2. dlen \in [Conns -> 0..(MaxDataLen - 1)]
    BY <2>1 DEF Init
  <2>3. QED BY <1>1, <2>2 DEF Init, TypeOK, LockStates
<1>3. Placed /\ JobFits
  BY PacketAssumption DEF Init, Placed, JobFits, IdleSkb, NoJob
<1>4. QED BY <1>2, <1>3 DEF TypeInv

(* Steps that only move a CPU along, with its packet and its job as they   *)
(* are and no new promise attached to the new place.                       *)
LEMMA MoveType ==
  ASSUME TypeInv, NEW c \in CPUs, NEW to \in PCs,
         pc[c] # "idle", to \notin {"idle", "hook"},
         skb[c].ct \in Conns \/ to = "unlock" \/ (to = "classify" /\ skb[c].ct # Alien),
         to = "classify" => job[c].src = "none",
         to \in {"free", "freed"} => job[c].src \in {"master", "unknown"},
         to = "inherit" => job[c].src = "master",
         to \in {"label", "alloc", "copy"} => job[c].src # "none",
         pc' = [pc EXCEPT ![c] = to],
         UNCHANGED <<pkts, skb, job>>
  PROVE  /\ pc' \in [CPUs -> PCs]
         /\ Placed'
         /\ JobFits'
<1>1. pc' \in [CPUs -> PCs]
  BY DEF TypeInv, TypeOK
<1>2. \A d \in CPUs : pc'[d] = IF d = c THEN to ELSE pc[d]
  BY DEF TypeInv, TypeOK
<1>3. skb[c].ct # NoPacket
  BY DEF TypeInv, Placed
<1>4. Placed'
  BY <1>2, <1>3, PacketAssumption DEF TypeInv, Placed
<1>5. JobFits'
  BY <1>2 DEF TypeInv, JobFits
<1>6. QED BY <1>1, <1>4, <1>5

(* Arrivals: the CPU is idle or at the hook and gets a packet or loses it. *)
LEMMA ArriveType ==
  ASSUME TypeInv, NEW c \in CPUs, Arrive(c)
  PROVE  TypeInv'
<1>1. IdleSkb \in Packets
  BY DEF IdleSkb, Packets
<1>2. \A packet \in Packets, h \in Traversals :
        /\ [packet EXCEPT !.hooks = h] \in Packets
        /\ [packet EXCEPT !.hooks = h].ct = packet.ct
  BY DEF Packets, Traversals
<1>3. ASSUME NEW packet \in Packets, packet.ct # NoPacket, Receive(c, packet),
             pkts' \in [Conns -> Nat],
             \A ct \in Conns : pkts'[ct] >= pkts[ct]
      PROVE  TypeInv'
  <2>1. PICK h \in Traversals : skb' = [skb EXCEPT ![c] = [packet EXCEPT !.hooks = h]]
    BY <1>3 DEF Receive
  <2>2. skb' \in [CPUs -> Packets] /\ skb'[c].ct = packet.ct
    BY <2>1, <1>2 DEF TypeInv, TypeOK
  <2>3. TypeOK'
    BY <1>3, <2>2 DEF TypeInv, TypeOK, Receive
  <2>4. pc[c] = "idle" /\ skb[c].ct = NoPacket
    BY <1>3 DEF Receive, TypeInv, Placed
  <2>5. job[c].src = "none"
    BY <2>4, PacketAssumption, PacketFields DEF TypeInv, JobFits, Jobs
  <2>6. \A d \in CPUs : d # c => pc'[d] = pc[d] /\ skb'[d] = skb[d]
    BY <1>3, <2>1 DEF Receive, TypeInv, TypeOK
  <2>7. pc'[c] = "hook" /\ job' = job
    BY <1>3 DEF Receive, TypeInv, TypeOK
  <2>8. Placed'
    BY <1>3, <2>2, <2>6, <2>7, PacketAssumption DEF TypeInv, Placed
  <2>9. JobFits'
    <3>1. \A d \in CPUs : skb[d].ct \in Conns => pkts'[M(d)] >= pkts[M(d)]
      BY <1>3, RootAssumption
    <3>2. \A d \in CPUs : skb[d].ct \in Conns => pkts[M(d)] \in Nat /\ pkts'[M(d)] \in Nat
      BY <1>3, RootAssumption DEF TypeInv, TypeOK
    <3>3. SUFFICES ASSUME NEW d \in CPUs
                   PROVE  JobFits!(d)'
      BY DEF JobFits
    <3>4. QED
      BY <2>5, <2>6, <2>7, <3>1, <3>2, BoundAssumption DEF TypeInv, JobFits
  <2>10. QED BY <2>3, <2>8, <2>9 DEF TypeInv
<1>4. ASSUME NEW ct \in Conns, Deliver(c, ct) PROVE TypeInv'
  <2>1. pkts' \in [Conns -> Nat] /\ \A x \in Conns : pkts'[x] >= pkts[x]
    BY <1>4 DEF Deliver, TypeInv, TypeOK
  <2>2. [IdleSkb EXCEPT !.ct = ct, !.first = (pkts[ct] = 0)] \in Packets
    BY <1>1 DEF Packets
  <2>3. [IdleSkb EXCEPT !.ct = ct, !.first = (pkts[ct] = 0)].ct # NoPacket
    BY PacketAssumption DEF IdleSkb
  <2>4. QED BY <1>3, <1>4, <2>1, <2>2, <2>3 DEF Deliver
<1>9. ASSUME NEW ct \in Conns, DeliverUncounted(c, ct) PROVE TypeInv'
  <2>1. pkts' \in [Conns -> Nat] /\ \A x \in Conns : pkts'[x] >= pkts[x]
    BY <1>9 DEF DeliverUncounted, TypeInv, TypeOK
  <2>2. [IdleSkb EXCEPT !.ct = ct] \in Packets
    BY <1>1 DEF Packets
  <2>3. [IdleSkb EXCEPT !.ct = ct].ct # NoPacket
    BY PacketAssumption DEF IdleSkb
  <2>4. QED BY <1>3, <1>9, <2>1, <2>2, <2>3 DEF DeliverUncounted
<1>5. CASE DeliverUntracked(c)
  <2>1. /\ [IdleSkb EXCEPT !.ct = Untracked] \in Packets
        /\ [IdleSkb EXCEPT !.ct = Untracked].ct # NoPacket
    BY <1>1, PacketAssumption DEF Packets, IdleSkb
  <2>2. pkts' \in [Conns -> Nat] /\ \A x \in Conns : pkts'[x] >= pkts[x]
    BY <1>5 DEF DeliverUntracked, TypeInv, TypeOK
  <2>3. QED BY <1>3, <1>5, <2>1, <2>2 DEF DeliverUntracked
<1>6. CASE DeliverAlien(c)
  <2>1. /\ [IdleSkb EXCEPT !.ct = Alien] \in Packets
        /\ [IdleSkb EXCEPT !.ct = Alien].ct # NoPacket
    BY <1>1, PacketAssumption DEF Packets, IdleSkb
  <2>2. pkts' \in [Conns -> Nat] /\ \A x \in Conns : pkts'[x] >= pkts[x]
    BY <1>6 DEF DeliverAlien, TypeInv, TypeOK
  <2>3. QED BY <1>3, <1>6, <2>1, <2>2 DEF DeliverAlien
<1>7. CASE DropBeforeHook(c)
  <2>1. TypeOK'
    BY <1>1, <1>7 DEF DropBeforeHook, TypeInv, TypeOK
  <2>2. job[c].src = "none"
    BY <1>7 DEF DropBeforeHook, TypeInv, JobFits
  <2>3. QED
    BY <2>1, <2>2, <1>7 DEF DropBeforeHook, TypeInv, TypeOK, Placed, JobFits, IdleSkb
<1>8. QED BY <1>4, <1>5, <1>6, <1>7, <1>9 DEF Arrive

(* Steps that change nothing but the place of a CPU, the lock and history. *)
LEMMA QuietType ==
  ASSUME TypeInv, NEW c \in CPUs,
         \/ Refuse(c) \/ Lock(c) \/ NoConntrack(c) \/ LookCloser(c) \/ Collecting(c)
         \/ NotCollecting(c) \/ LeaveNoData(c) \/ NothingToFree(c) \/ Inherit(c)
         \/ HasLabel(c) \/ NeedsLabel(c) \/ NoMemoryForLabel(c)
         \/ AppendNothing(c) \/ AppendCheck(c) \/ NoMatch(c) \/ CallHandler(c)
  PROVE  TypeInv'
<1> USE DEF AfterFree, AfterLabel, Unlabelled, FirstPacket
<1>1. /\ pc[c] # "idle"
      /\ UNCHANGED <<pkts, skb, job, proto, data, dlen, node, faults, stray>>
      /\ lock' \in LockStates
      /\ seen' \subseteq Conns
  BY DEF Refuse, Lock, NoConntrack, LookCloser, Collecting, NotCollecting, LeaveNoData,
         NothingToFree, Inherit, HasLabel, NeedsLabel, NoMemoryForLabel,
         AppendNothing, AppendCheck, NoMatch, CallHandler, Look,
         Acquire, LockStates, TypeInv, TypeOK
<1>2. ASSUME NEW to \in PCs \ {"idle", "hook"},
             skb[c].ct \in Conns \/ to = "unlock" \/ (to = "classify" /\ skb[c].ct # Alien),
             to = "classify" => job[c].src = "none",
             to \in {"free", "freed"} => job[c].src \in {"master", "unknown"},
             to = "inherit" => job[c].src = "master",
             to \in {"label", "alloc", "copy"} => job[c].src # "none",
             pc' = [pc EXCEPT ![c] = to]
      PROVE  TypeInv'
  <2>1. to \in PCs /\ to \notin {"idle", "hook"}
    BY <1>2
  <2>. HIDE DEF PCs
  <2>2. pc' \in [CPUs -> PCs] /\ Placed' /\ JobFits'
    BY <1>1, <1>2, <2>1, MoveType
  <2>3. TypeOK'
    BY <1>1, <2>2 DEF TypeInv, TypeOK
  <2>4. QED BY <2>2, <2>3 DEF TypeInv
<1> HIDE DEF PCs
<1>p. {"unlock", "classify", "first", "append", "nodata", "label", "alloc", "inherit",
       "handler", "write"} \subseteq PCs \ {"idle", "hook"}
  BY DEF PCs
<1>3. CASE Refuse(c) \/ NoConntrack(c) \/ LeaveNoData(c) \/ AppendNothing(c)
           \/ NoMatch(c) \/ CallHandler(c)
  <2>1. pc' = [pc EXCEPT ![c] = "unlock"]
    BY <1>3 DEF Refuse, NoConntrack, LeaveNoData, AppendNothing, NoMatch, CallHandler
  <2>2. QED BY <1>2, <1>p, <2>1
<1>4. CASE Lock(c)
  <2>1. /\ pc' = [pc EXCEPT ![c] = "classify"]
        /\ skb[c].ct # Alien
        /\ job[c].src = "none"
    BY <1>4 DEF Lock, TypeInv, JobFits
  <2>2. QED BY <1>2, <1>p, <2>1
<1>5. CASE LookCloser(c) \/ Collecting(c) \/ NotCollecting(c)
  <2>1. /\ \/ pc' = [pc EXCEPT ![c] = "first"]
           \/ pc' = [pc EXCEPT ![c] = "append"]
           \/ pc' = [pc EXCEPT ![c] = "nodata"]
        /\ skb[c].ct \in Conns
    BY <1>5 DEF LookCloser, Collecting, NotCollecting, TypeInv, Placed
  <2>2. QED BY <1>2, <1>p, <2>1
<1>6. CASE NothingToFree(c)
  <2>1. /\ pc' = [pc EXCEPT ![c] = IF job[c].src = "master" THEN "inherit" ELSE "label"]
        /\ skb[c].ct \in Conns
        /\ job[c].src \in {"master", "unknown"}
    BY <1>6 DEF NothingToFree, TypeInv, Placed, JobFits
  <2>2. QED BY <1>2, <1>p, <2>1
<1>7. CASE Inherit(c)
  <2>1. /\ \/ pc' = [pc EXCEPT ![c] = "label"]
           \/ pc' = [pc EXCEPT ![c] = "unlock"]
        /\ skb[c].ct \in Conns
        /\ job[c].src = "master"
    BY <1>7 DEF Inherit, TypeInv, Placed, JobFits
  <2>2. QED BY <1>2, <1>p, <2>1
<1>8. CASE HasLabel(c) \/ NeedsLabel(c) \/ NoMemoryForLabel(c)
  <2>1. /\ \E to \in {"handler", "unlock", "alloc"} : pc' = [pc EXCEPT ![c] = to]
        /\ skb[c].ct \in Conns
        /\ job[c].src # "none"
    BY <1>8 DEF HasLabel, NeedsLabel, NoMemoryForLabel, TypeInv, Placed, JobFits
  <2>2. QED BY <1>2, <1>p, <2>1
<1>9. CASE AppendCheck(c)
  <2>1. pc' = [pc EXCEPT ![c] = "write"] /\ skb[c].ct \in Conns
    BY <1>9 DEF AppendCheck, TypeInv, Placed
  <2>2. QED BY <1>2, <1>p, <2>1
<1>10. QED BY <1>3, <1>4, <1>5, <1>6, <1>7, <1>8, <1>9

(* Unlock: the packet leaves, or comes back to the second hook.            *)
LEMMA UnlockType ==
  ASSUME TypeInv, NEW c \in CPUs, Unlock(c)
  PROVE  TypeInv'
<1>1. IdleSkb \in Packets /\ NoJob \in Jobs /\ NoJob.src = "none"
  BY DEF IdleSkb, Packets, NoJob, Jobs
<1>2. skb[c] \in Packets
  BY DEF TypeInv, TypeOK
<1>3. [skb[c] EXCEPT !.hooks = 1] \in Packets /\ [skb[c] EXCEPT !.hooks = 1].ct = skb[c].ct
  BY <1>2 DEF Packets
<1>4. \A d \in CPUs : job'[d] = IF d = c THEN NoJob ELSE job[d]
  BY DEF Unlock, TypeInv, TypeOK
<1>5. /\ lock' \in LockStates
      /\ stray' \in BOOLEAN
      /\ job' \in [CPUs -> Jobs]
      /\ UNCHANGED <<flows, node, seen, faults>>
  BY <1>1 DEF Unlock, Release, LockStates, TypeInv, TypeOK
<1>6. ASSUME NEW packet \in Packets, NEW to \in {"idle", "hook"},
             to = "idle" <=> packet.ct = NoPacket,
             pc' = [pc EXCEPT ![c] = to], skb' = [skb EXCEPT ![c] = packet]
      PROVE  TypeInv'
  <2>1. TypeOK'
    BY <1>5, <1>6 DEF TypeInv, TypeOK
  <2>2. /\ \A d \in CPUs : pc'[d] = IF d = c THEN to ELSE pc[d]
        /\ \A d \in CPUs : skb'[d] = IF d = c THEN packet ELSE skb[d]
    BY <1>6 DEF TypeInv, TypeOK
  <2>3. Placed'
    BY <1>6, <2>2 DEF TypeInv, Placed
  <2>4. JobFits'
    BY <1>1, <1>4, <1>5, <2>2 DEF TypeInv, JobFits
  <2>5. QED BY <2>1, <2>3, <2>4 DEF TypeInv
<1>7. CASE skb[c].hooks = 2
  <2>1. pc' = [pc EXCEPT ![c] = "hook"] /\ skb' = [skb EXCEPT ![c] = [skb[c] EXCEPT !.hooks = 1]]
    BY <1>7 DEF Unlock
  <2>2. skb[c].ct # NoPacket
    BY DEF Unlock, TypeInv, Placed
  <2>3. QED BY <1>3, <1>6, <2>1, <2>2
<1>8. CASE skb[c].hooks # 2
  <2>1. pc' = [pc EXCEPT ![c] = "idle"] /\ skb' = [skb EXCEPT ![c] = IdleSkb]
    BY <1>8 DEF Unlock
  <2>2. IdleSkb.ct = NoPacket
    BY DEF IdleSkb
  <2>3. QED BY <1>1, <1>6, <2>1, <2>2
<1>9. QED BY <1>7, <1>8

(* The classifying steps that set a job, and the match of a pattern.       *)
LEMMA JobType ==
  ASSUME TypeInv, NEW c \in CPUs,
         Identified(c) \/ GiveUp(c) \/ PortKnown(c) \/ Match(c)
  PROVE  TypeInv'
<1>1. skb[c].ct \in Conns /\ M(c) \in Conns
  BY PacketFields DEF Identified, GiveUp, PortKnown, Match, Unlabelled, TypeInv, Placed
<1>0. Counted(M(c)) > NumPackets => pkts[M(c)] > NumPackets
  BY BoundAssumption DEF Counted
<1>2. ASSUME NEW to \in {"free", "label"}, NEW j \in Jobs,
             pc' = [pc EXCEPT ![c] = to], job' = [job EXCEPT ![c] = j],
             to = "free" => j.src \in {"master", "unknown"},
             j.src # "none",
             j.src = "wellknown" => WellKnown[M(c)] # NoProto,
             j.src = "unknown" => pkts[M(c)] > NumPackets,
             j.src = "dpi" => j.node \in Nodes,
             UNCHANGED <<lock, flows, node, skb, stray, faults>>,
             seen' \subseteq Conns
      PROVE  TypeInv'
  <2>1. TypeOK'
    BY <1>2 DEF TypeInv, TypeOK
  <2>2. \A d \in CPUs : /\ pc'[d] = IF d = c THEN to ELSE pc[d]
                        /\ job'[d] = IF d = c THEN j ELSE job[d]
    BY <1>2 DEF TypeInv, TypeOK
  <2>3. Placed'
    BY <1>1, <1>2, <2>2, PacketAssumption DEF TypeInv, Placed
  <2>4. JobFits'
    BY <1>1, <1>2, <2>2 DEF TypeInv, JobFits
  <2>5. QED BY <2>1, <2>3, <2>4 DEF TypeInv
<1>3. ASSUME NEW s \in {"unknown", "wellknown", "master"}
      PROVE  /\ [job[c] EXCEPT !.src = s] \in Jobs
             /\ [job[c] EXCEPT !.src = s].src = s
             /\ [job EXCEPT ![c].src = s] = [job EXCEPT ![c] = [job[c] EXCEPT !.src = s]]
  <2>1. job[c] \in Jobs
    BY DEF TypeInv, TypeOK
  <2>2. QED BY <2>1 DEF Jobs
<1>4. CASE Identified(c) \/ GiveUp(c) \/ PortKnown(c)
  <2>1. /\ UNCHANGED <<lock, flows, node, skb, stray, faults>>
        /\ seen' \subseteq Conns
    BY <1>1, <1>4 DEF Identified, GiveUp, PortKnown, Look, TypeInv, TypeOK
  <2>2. CASE Identified(c)
    <3>1. pc' = [pc EXCEPT ![c] = "free"] /\ job' = [job EXCEPT ![c].src = "master"]
      BY <2>2 DEF Identified
    <3>2. QED BY <1>2, <1>3, <2>1, <3>1
  <2>3. CASE GiveUp(c)
    <3>1. /\ pc' = [pc EXCEPT ![c] = "free"]
          /\ job' = [job EXCEPT ![c].src = "unknown"]
          /\ pkts[M(c)] > NumPackets
      BY <1>0, <2>3 DEF GiveUp
    <3>2. QED BY <1>2, <1>3, <2>1, <3>1
  <2>4. CASE PortKnown(c)
    <3>1. /\ pc' = [pc EXCEPT ![c] = "label"]
          /\ job' = [job EXCEPT ![c].src = "wellknown"]
          /\ WellKnown[M(c)] # NoProto
      BY <2>4 DEF PortKnown
    <3>2. QED BY <1>2, <1>3, <2>1, <3>1
  <2>5. QED BY <1>4, <2>2, <2>3, <2>4
<1>5. CASE Match(c)
  <2>1. PICK n \in Nodes : job' = [job EXCEPT ![c] = [src |-> "dpi", node |-> n]]
    BY <1>5 DEF Match
  <2>2. [src |-> "dpi", node |-> n] \in Jobs
    BY DEF Jobs
  <2>3. /\ pc' = [pc EXCEPT ![c] = "label"]
        /\ UNCHANGED <<lock, flows, node, skb, seen, stray, faults>>
        /\ seen' \subseteq Conns
    BY <1>5 DEF Match, TypeInv, TypeOK
  <2>4. QED BY <1>2, <2>1, <2>2, <2>3
<1>6. QED BY <1>4, <1>5

(* Steps that change the payload buffer.                                   *)
LEMMA BufferType ==
  ASSUME TypeInv, NEW c \in CPUs,
         Allocate(c) \/ FreeData(c) \/ ClearPointer(c) \/ Write(c)
  PROVE  TypeInv'
<1>1. M(c) \in Conns /\ skb[c].ct \in Conns
  BY PacketFields
  DEF Allocate, FreeData, ClearPointer, Write, TypeInv, Placed
<1>2. \E to \in {"append", "unlock", "freed", "find", "inherit", "label"} :
        /\ pc' = [pc EXCEPT ![c] = to]
        /\ to = "inherit" => job[c].src = "master"
        /\ to = "label" => job[c].src # "none"
        /\ to = "freed" => job[c].src \in {"master", "unknown"}
  BY DEF Allocate, FreeData, ClearPointer, Write, AfterFree, TypeInv, JobFits
<1>3. UNCHANGED <<lock, pkts, proto, node, skb, job, stray, faults>> /\ pc[c] # "idle"
  BY DEF Allocate, FreeData, ClearPointer, Write
<1>4. pc' \in [CPUs -> PCs] /\ Placed' /\ JobFits'
  BY <1>1, <1>2, <1>3, MoveType
<1>5. data' \in [Conns -> {"null", "live", "freed"}]
  BY <1>1 DEF Allocate, FreeData, ClearPointer, Write, TypeInv, TypeOK
<1>6. dlen' \in [Conns -> 0..(MaxDataLen - 1)]
  <2>1. CASE Write(c)
    <3>1. dlen[M(c)] \in 0..(MaxDataLen - 1)
      BY <1>1 DEF TypeInv, TypeOK
    <3>2. PICK n \in Room(dlen[M(c)]) : dlen' = [dlen EXCEPT ![M(c)] = @ + n]
      BY <2>1 DEF Write
    <3>3. dlen[M(c)] + n \in 0..(MaxDataLen - 1)
      BY <3>1, <3>2, BoundAssumption DEF Room
    <3>4. QED BY <3>2, <3>3 DEF TypeInv, TypeOK
  <2>2. CASE ~Write(c)
    BY <2>2 DEF Allocate, FreeData, ClearPointer, TypeInv, TypeOK
  <2>3. QED BY <2>1, <2>2
<1>7. seen' \subseteq Conns
  BY <1>1 DEF Allocate, FreeData, ClearPointer, Write, TypeInv, TypeOK
<1>8. TypeOK'
  BY <1>3, <1>4, <1>5, <1>6, <1>7 DEF TypeInv, TypeOK
<1>9. QED BY <1>4, <1>8 DEF TypeInv

(* Steps of nf_ct_appflid_add that change a label.                         *)
LEMMA SetLabelType ==
  ASSUME TypeInv, NEW c \in CPUs, NewLabel(c) \/ CopyLabel(c)
  PROVE  TypeInv'
<1>1. pc[c] \in {"alloc", "copy"}
  BY DEF NewLabel, CopyLabel
<1>2. skb[c].ct \in Conns /\ job[c].src # "none"
  BY <1>1 DEF TypeInv, Placed, JobFits
<1>3. \E to \in {"copy", "handler", "unlock"} : pc' = [pc EXCEPT ![c] = to]
  BY DEF NewLabel, CopyLabel, AfterLabel
<1>4. UNCHANGED <<lock, pkts, data, dlen, node, skb, job, seen, stray, faults>>
  BY DEF NewLabel, CopyLabel
<1>5. pc' \in [CPUs -> PCs] /\ Placed' /\ JobFits'
  BY <1>1, <1>2, <1>3, <1>4, MoveType
<1>6. proto' \in [Conns -> Labels \cup {NoProto, Uninit}]
  <2>1. \E p \in Labels \cup {NoProto, Uninit} :
          proto' = [proto EXCEPT ![Target(c)] = p]
    BY <1>1, LabelType DEF NewLabel, CopyLabel
  <2>2. QED BY <2>1 DEF TypeInv, TypeOK
<1>7. TypeOK'
  BY <1>4, <1>5, <1>6 DEF TypeInv, TypeOK
<1>8. QED BY <1>5, <1>7 DEF TypeInv

(* A CPU that goes wrong stays where it is and keeps its packet.           *)
LEMMA OopsType ==
  ASSUME TypeInv, NEW c \in CPUs,
         \/ FreeTwice(c) \/ NoMemoryNoMessage(c)
         \/ UseStaleNode(c) \/ UseFreedData(c)
  PROVE  TypeInv'
<1>1. pc[c] \in {"free", "alloc", "copy", "handler", "write", "find"}
  BY DEF FreeTwice, NoMemoryNoMessage, UseStaleNode, UseFreedData
<1>2. pc' = [pc EXCEPT ![c] = "oops"]
  BY DEF FreeTwice, NoMemoryNoMessage, UseStaleNode, UseFreedData, Oops
<1>3. UNCHANGED <<lock, flows, node, skb, job, seen, stray>>
  BY DEF FreeTwice, NoMemoryNoMessage, UseStaleNode, UseFreedData
<1>4. pc' \in [CPUs -> PCs] /\ Placed' /\ JobFits'
  BY <1>1, <1>2, <1>3, MoveType DEF TypeInv, Placed
<1>5. faults' \subseteq {"double_free", "use_after_free", "stale_node", "null_deref"}
  BY DEF FreeTwice, NoMemoryNoMessage, UseStaleNode, UseFreedData, Oops, TypeInv, TypeOK
<1>6. TypeOK'
  BY <1>3, <1>4, <1>5 DEF TypeInv, TypeOK
<1>7. QED BY <1>4, <1>6 DEF TypeInv

(* Every step keeps the types.                                             *)
LEMMA NextType == TypeInv /\ [Next]_vars => TypeInv'
<1> SUFFICES ASSUME TypeInv, [Next]_vars PROVE TypeInv'
  OBVIOUS
<1>1. ASSUME NEW c \in CPUs, Arrive(c) PROVE TypeInv'
  BY <1>1, ArriveType
<1>2. ASSUME NEW c \in CPUs, Lock(c) PROVE TypeInv'
  BY <1>2, QuietType
<1>3. ASSUME NEW c \in CPUs, Run(c) PROVE TypeInv'
  BY <1>3, QuietType, UnlockType, JobType, BufferType, SetLabelType, OopsType
  DEF Run, Classify, FreeAppdata, AddLabel, AddData, Inspect
<1>4. ASSUME NEW n \in Nodes, RemoveNode(n) PROVE TypeInv'
  BY <1>4 DEF RemoveNode, TypeInv, TypeOK, Placed, JobFits
<1>5. CASE UNCHANGED vars
  BY <1>5 DEF TypeInv, TypeOK, Placed, JobFits
<1>6. QED BY <1>1, <1>2, <1>3, <1>4, <1>5 DEF Next

(* The hook never leaves its types.  In particular the length kept in      *)
(* app_data_len stays below maxdatalen, so the NUL that add_data writes at *)
(* the end always fits the buffer.                                         *)
THEOREM TypeCorrect == Spec => []TypeOK
<1>1. TypeInv => TypeOK
  BY DEF TypeInv
<1>2. QED BY <1>1, InitType, NextType, PTL DEF Spec

-----------------------------------------------------------------------------
(* What the lock protects, as long as nobody gave it back for another CPU  *)

(* While c is in the critical section the others wait, idle, or are about  *)
(* to leave with a packet core() refuses; none of them owns anything.      *)
LEMMA Occupant ==
  ASSUME TypeInv, Locked, NEW c \in CPUs, Inside(c)
  PROVE  /\ lock = "held"
         /\ \A d \in CPUs : d # c => /\ pc[d] \in {"idle", "hook", "unlock"}
                                    /\ ~Inside(d)
                                    /\ job[d].src = "none"
         /\ pc[c] # "freed" => \A ct \in Conns : data[ct] # "freed"
         /\ pc[c] \notin {"copy", "oops"} => \A ct \in Conns : proto[ct] # Uninit
<1>1. lock = "held"
  BY DEF Locked, Taken
<1>2. ASSUME NEW d \in CPUs, d # c
      PROVE  /\ pc[d] \in {"idle", "hook", "unlock"}
             /\ ~Inside(d)
             /\ job[d].src = "none"
  <2>1. ~Inside(d)
    BY <1>2 DEF Locked, MutualExclusion
  <2>2. pc[d] \in {"idle", "hook"} \/ skb[d].ct = Alien
    BY <2>1 DEF Inside
  <2>3. pc[d] \in {"idle", "hook", "unlock"}
    BY <2>2, PacketAssumption DEF TypeInv, Placed
  <2>4. job[d].src = "none"
    BY <2>2, PacketAssumption DEF TypeInv, JobFits
  <2>5. QED BY <2>1, <2>3, <2>4
<1>3. pc[c] # "freed" => \A ct \in Conns : data[ct] # "freed"
  BY <1>2 DEF Locked, FreedBriefly
<1>4. pc[c] \notin {"copy", "oops"} => \A ct \in Conns : proto[ct] # Uninit
  BY <1>2 DEF Locked, UninitOwned
<1>5. QED BY <1>1, <1>2, <1>3, <1>4

(* What a step inside the critical section has to see to.                  *)
LEMMA InsideStep ==
  ASSUME TypeInv, Locked, NEW c \in CPUs, Inside(c),
         NEW to \in PCs \ {"idle", "hook"}, pc' = [pc EXCEPT ![c] = to],
         UNCHANGED <<lock, skb>>,
         \A d \in CPUs : d # c => job'[d] = job[d],
         \A ct \in Conns : data'[ct] = "freed" => to = "freed" /\ M(c) = ct,
         to \in {"write", "find"} => data'[M(c)] = "live",
         to = "alloc" => proto'[Target(c)'] = NoProto,
         to = "copy" => proto'[Target(c)'] = Uninit,
         \A ct \in Conns :
           proto'[ct] = Uninit => to = "oops" \/ (to = "copy" /\ Target(c)' = ct),
         job'[c].src = "master" => proto'[M(c)] \in Labels,
         faults' \subseteq {"stale_node", "null_deref"}
  PROVE  Locked'
<1>1. \A d \in CPUs : pc'[d] = IF d = c THEN to ELSE pc[d]
  BY DEF TypeInv, TypeOK
<1>2. pc'[c] = to
  BY <1>1
<1>3. ASSUME NEW d \in CPUs, d # c
      PROVE  /\ pc'[d] \in {"idle", "hook", "unlock"}
             /\ ~Inside(d)'
             /\ job'[d].src = "none"
  BY <1>1, <1>3, Occupant DEF Inside
<1>4. MutualExclusion'
  BY <1>3 DEF MutualExclusion
<1>5. Taken'
  BY <1>3, Occupant DEF Taken
<1>6. FreedBriefly'
  BY <1>2 DEF FreedBriefly
<1>7. DataLives'
  BY <1>2, <1>3 DEF DataLives
<1>8. LabelSlot'
  BY <1>2, <1>3 DEF LabelSlot
<1>9. UninitOwned'
  BY <1>2 DEF UninitOwned
<1>10. MasterLabelled'
  BY <1>3 DEF MasterLabelled
<1>11. Harmless'
  BY DEF Harmless
<1>12. QED
  BY <1>4, <1>5, <1>6, <1>7, <1>8, <1>9, <1>10, <1>11 DEF Locked

(* Steps that move on without writing anything the lock protects.          *)
LEMMA QuietLocked ==
  ASSUME TypeInv, Locked, NEW c \in CPUs,
         \/ NoConntrack(c) \/ LookCloser(c) \/ Collecting(c) \/ NotCollecting(c)
         \/ LeaveNoData(c) \/ NothingToFree(c) \/ Inherit(c)
         \/ HasLabel(c) \/ NeedsLabel(c) \/ NoMemoryForLabel(c)
         \/ AppendNothing(c) \/ AppendCheck(c) \/ NoMatch(c) \/ CallHandler(c)
  PROVE  Locked'
<1> USE DEF AfterFree, AfterLabel, Unlabelled
<1>1. /\ pc[c] \in {"classify", "first", "nodata", "free", "inherit", "label", "alloc",
                   "append", "find", "handler"}
      /\ UNCHANGED <<lock, flows, skb, job, faults>>
  BY DEF NoConntrack, LookCloser, Collecting, NotCollecting, LeaveNoData, NothingToFree,
         Inherit, HasLabel, NeedsLabel, NoMemoryForLabel, AppendNothing,
         AppendCheck, NoMatch, CallHandler
<1>2. Inside(c)
  BY <1>1, PacketAssumption DEF Inside, TypeInv, Placed
<1>3. /\ \A ct \in Conns : data[ct] # "freed"
      /\ \A ct \in Conns : proto[ct] # Uninit
  BY <1>1, <1>2, Occupant
<1>4. /\ job[c].src = "master" => proto[M(c)] \in Labels
      /\ faults \subseteq {"stale_node", "null_deref"}
  BY DEF Locked, MasterLabelled, Harmless
<1>5. ASSUME NEW to \in PCs \ {"idle", "hook", "copy"}, pc' = [pc EXCEPT ![c] = to],
             to \in {"write", "find"} => data[M(c)] = "live",
             to = "alloc" => proto[Target(c)] = NoProto
      PROVE  Locked'
  <2>1. Target(c)' = Target(c)
    BY <1>1 DEF Target
  <2>2. QED BY <1>1, <1>2, <1>3, <1>4, <1>5, <2>1, InsideStep
<1>p. {"unlock", "first", "append", "nodata", "label", "alloc", "inherit", "handler", "write"}
        \subseteq PCs \ {"idle", "hook", "copy"}
  OBVIOUS
<1> HIDE DEF PCs
<1>6. CASE AppendCheck(c)
  <2>1. pc' = [pc EXCEPT ![c] = "write"]
    BY <1>6 DEF AppendCheck
  <2>2. data[M(c)] = "live"
    BY <1>3, <1>6, PacketFields DEF AppendCheck, TypeInv, TypeOK, Placed
  <2>3. QED BY <1>5, <1>p, <2>1, <2>2
<1>7. CASE NeedsLabel(c)
  BY <1>5, <1>7, <1>p DEF NeedsLabel
<1>8. CASE \/ LookCloser(c) \/ Collecting(c) \/ NotCollecting(c) \/ LeaveNoData(c)
           \/ NoConntrack(c)
  BY <1>5, <1>8, <1>p DEF LookCloser, Collecting, NotCollecting, LeaveNoData, NoConntrack
<1>9. CASE NothingToFree(c) \/ Inherit(c)
  BY <1>5, <1>9, <1>p DEF NothingToFree, Inherit
<1>10. CASE HasLabel(c) \/ NoMemoryForLabel(c)
  BY <1>5, <1>10, <1>p DEF HasLabel, NoMemoryForLabel
<1>11. CASE AppendNothing(c) \/ NoMatch(c) \/ CallHandler(c)
  BY <1>5, <1>11, <1>p DEF AppendNothing, NoMatch, CallHandler
<1>12. QED BY <1>6, <1>7, <1>8, <1>9, <1>10, <1>11

(* Steps that decide what is to be done with the connection.               *)
LEMMA JobLocked ==
  ASSUME TypeInv, Locked, NEW c \in CPUs,
         Identified(c) \/ GiveUp(c) \/ PortKnown(c) \/ Match(c)
  PROVE  Locked'
<1>1. /\ pc[c] \in {"classify", "first", "find"}
      /\ UNCHANGED <<lock, flows, skb, faults>>
  BY DEF Identified, GiveUp, PortKnown, Match, Unlabelled
<1>2. Inside(c)
  BY <1>1, PacketAssumption DEF Inside, TypeInv, Placed
<1>3. /\ \A ct \in Conns : data[ct] # "freed"
      /\ \A ct \in Conns : proto[ct] # Uninit
  BY <1>1, <1>2, Occupant
<1>4. faults \subseteq {"stale_node", "null_deref"}
  BY DEF Locked, Harmless
<1>5. \A d \in CPUs : d # c => job'[d] = job[d]
  BY DEF Identified, GiveUp, PortKnown, Match, TypeInv, TypeOK
<1>6. job'[c].src = "master" => proto[M(c)] \in Labels
  <2>1. CASE Identified(c)
    <3>1. skb[c].ct \in Conns /\ M(c) \in Conns /\ proto[M(c)] # NoProto
      BY <2>1, PacketFields DEF Identified
    <3>2. QED BY <1>3, <3>1 DEF TypeInv, TypeOK
  <2>2. CASE GiveUp(c) \/ PortKnown(c) \/ Match(c)
    <3>1. job[c] \in Jobs
      BY DEF TypeInv, TypeOK
    <3>2. job'[c].src \in {"unknown", "wellknown", "dpi"}
      BY <2>2, <3>1 DEF GiveUp, PortKnown, Match, TypeInv, TypeOK, Jobs
    <3>3. QED BY <3>2
  <2>3. QED BY <2>1, <2>2
<1>7. \E to \in {"free", "label"} : pc' = [pc EXCEPT ![c] = to]
  BY DEF Identified, GiveUp, PortKnown, Match
<1>8. QED BY <1>1, <1>2, <1>3, <1>4, <1>5, <1>6, <1>7, InsideStep, ZenonT(60)

(* Steps that change the payload buffer.                                   *)
LEMMA BufferLocked ==
  ASSUME TypeInv, Locked, NEW c \in CPUs,
         Allocate(c) \/ FreeData(c) \/ ClearPointer(c) \/ Write(c)
  PROVE  Locked'
<1>1. /\ pc[c] \in {"first", "free", "freed", "write"}
      /\ UNCHANGED <<lock, pkts, proto, skb, job, faults>>
  BY DEF Allocate, FreeData, ClearPointer, Write
<1>2. M(c) \in Conns /\ skb[c].ct \in Conns
  BY PacketFields
  DEF Allocate, FreeData, ClearPointer, Write, TypeInv, Placed
<1>3. Inside(c)
  BY <1>1, <1>2, PacketAssumption DEF Inside
<1>4. /\ \A ct \in Conns : proto[ct] # Uninit
      /\ job[c].src = "master" => proto[M(c)] \in Labels
      /\ faults \subseteq {"stale_node", "null_deref"}
  BY <1>1, <1>3, Occupant DEF Locked, MasterLabelled, Harmless
<1>5. \A d \in CPUs : d # c => pc[d] # "freed"
  BY <1>3, Occupant
<1>6. \A ct \in Conns : data[ct] = "freed" => pc[c] = "freed" /\ M(c) = ct
  BY <1>5 DEF Locked, FreedBriefly
<1>7. \E to \in {"append", "unlock", "freed", "inherit", "label", "find"} :
        /\ pc' = [pc EXCEPT ![c] = to]
        /\ \A ct \in Conns : data'[ct] = "freed" => to = "freed" /\ M(c) = ct
        /\ to = "find" => data'[M(c)] = "live"
  <2>1. CASE Allocate(c)
    BY <1>1, <1>2, <1>6, <2>1 DEF Allocate, TypeInv, TypeOK
  <2>2. CASE FreeData(c)
    BY <1>1, <1>2, <1>6, <2>2 DEF FreeData, TypeInv, TypeOK
  <2>3. CASE ClearPointer(c)
    <3>1. /\ \/ pc' = [pc EXCEPT ![c] = "inherit"]
             \/ pc' = [pc EXCEPT ![c] = "label"]
          /\ data' = [data EXCEPT ![M(c)] = "null"]
      BY <2>3 DEF ClearPointer, AfterFree
    <3>2. \A ct \in Conns : data'[ct] # "freed"
      BY <1>2, <1>6, <3>1 DEF TypeInv, TypeOK
    <3>3. QED BY <3>1, <3>2
  <2>4. CASE Write(c)
    <3>1. /\ \/ pc' = [pc EXCEPT ![c] = "unlock"]
             \/ pc' = [pc EXCEPT ![c] = "find"]
          /\ pc[c] = "write"
          /\ data' = data
          /\ data[M(c)] = "live"
      BY <2>4 DEF Write
    <3>2. QED BY <1>6, <3>1
  <2>5. QED BY <2>1, <2>2, <2>3, <2>4
<1>8. QED BY <1>1, <1>3, <1>4, <1>7, InsideStep, ZenonT(60)

(* The two writes of nf_ct_appflid_add.                                    *)
LEMMA SetLabelLocked ==
  ASSUME TypeInv, Locked, NEW c \in CPUs, NewLabel(c) \/ CopyLabel(c)
  PROVE  Locked'
<1>1. /\ pc[c] \in {"alloc", "copy"}
      /\ UNCHANGED <<lock, pkts, data, skb, job, faults>>
  BY DEF NewLabel, CopyLabel
<1>2. /\ skb[c].ct \in Conns
      /\ M(c) \in Conns
      /\ Target(c) \in Conns
      /\ LabelOf(c) \in Labels \cup {NoProto, Uninit}
      /\ job[c].src # "none"
  BY <1>1, PacketFields, LabelType DEF TypeInv, Placed, JobFits
<1>3. Inside(c)
  BY <1>1, <1>2, PacketAssumption DEF Inside
<1>4. /\ \A ct \in Conns : data[ct] # "freed"
      /\ job[c].src = "master" => proto[M(c)] \in Labels
      /\ faults \subseteq {"stale_node", "null_deref"}
      /\ \A d \in CPUs : d # c => pc[d] \notin {"copy", "oops"}
  BY <1>1, <1>3, Occupant DEF Locked, MasterLabelled, Harmless
<1>5. Target(c)' = Target(c) /\ M(c)' = M(c)
  BY <1>1 DEF Target
<1>6. CASE NewLabel(c)
  <2>1. /\ pc' = [pc EXCEPT ![c] = "copy"]
        /\ proto' = [proto EXCEPT ![Target(c)] = Uninit]
        /\ proto[Target(c)] = NoProto
        /\ \A ct \in Conns : proto[ct] # Uninit
    BY <1>3, <1>6, Occupant DEF NewLabel, Locked, LabelSlot
  <2>2. \A ct \in Conns : proto'[ct] = IF ct = Target(c) THEN Uninit ELSE proto[ct]
    BY <2>1 DEF TypeInv, TypeOK
  <2>3. job[c].src = "master" => M(c) # Target(c)
    BY <1>4, <2>1, NameAssumption
  <2>4. job[c].src = "master" => proto'[M(c)] \in Labels
    BY <1>2, <1>4, <2>2, <2>3
  <2>5. proto'[Target(c)'] = Uninit
    BY <1>2, <1>5, <2>2
  <2>6. \A ct \in Conns : proto'[ct] = Uninit => Target(c)' = ct
    BY <1>5, <2>1, <2>2
  <2>7. QED
    BY <1>1, <1>3, <1>4, <2>1, <2>4, <2>5, <2>6, InsideStep
<1>7. CASE CopyLabel(c)
  <2>1. /\ pc[c] = "copy"
        /\ \E to \in {"handler", "unlock"} : pc' = [pc EXCEPT ![c] = to]
        /\ proto' = [proto EXCEPT ![Target(c)] = LabelOf(c)]
    BY <1>7 DEF CopyLabel, AfterLabel
  <2>2. \A ct \in Conns : proto'[ct] = IF ct = Target(c) THEN LabelOf(c) ELSE proto[ct]
    BY <2>1 DEF TypeInv, TypeOK
  <2>3. LabelOf(c) \in Labels
    <3>1. CASE job[c].src = "master"
      BY <1>4, <3>1 DEF LabelOf
    <3>2. CASE job[c].src = "dpi"
      BY <3>2, NameAssumption DEF LabelOf, TypeInv, JobFits
    <3>3. CASE job[c].src = "wellknown"
      BY <1>2, <3>3, NameAssumption DEF LabelOf, TypeInv, JobFits
    <3>4. CASE job[c].src \notin {"master", "dpi", "wellknown"}
      BY <3>4 DEF LabelOf
    <3>5. QED BY <3>1, <3>2, <3>3, <3>4
  <2>4. \A ct \in Conns : proto[ct] = Uninit => ct = Target(c)
    BY <1>4, <2>1 DEF Locked, UninitOwned
  <2>5. \A ct \in Conns : proto'[ct] # Uninit
    BY <2>2, <2>3, <2>4, NameAssumption
  <2>6. job[c].src = "master" => proto'[M(c)] \in Labels
    BY <1>2, <1>4, <2>2, <2>3
  <2>7. PICK to \in {"handler", "unlock"} : pc' = [pc EXCEPT ![c] = to]
    BY <2>1
  <2>8. UNCHANGED <<lock, skb, job>> /\ faults' = faults /\ data' = data
    BY <1>1
  <2>9. QED
    BY <1>3, <1>4, <2>5, <2>6, <2>7, <2>8, InsideStep
<1>8. QED BY <1>6, <1>7

(* A step into undefined behaviour: with the lock taken it is neither a    *)
(* second kfree nor a use of a freed buffer.                               *)
LEMMA OopsLocked ==
  ASSUME TypeInv, Locked, NEW c \in CPUs,
         \/ FreeTwice(c) \/ NoMemoryNoMessage(c)
         \/ UseStaleNode(c) \/ UseFreedData(c)
  PROVE  Locked'
<1>1. /\ pc[c] \in {"free", "alloc", "copy", "handler", "write", "find"}
      /\ pc' = [pc EXCEPT ![c] = "oops"]
      /\ UNCHANGED <<lock, flows, skb, job>>
  BY DEF FreeTwice, NoMemoryNoMessage, UseStaleNode, UseFreedData, Oops
<1>2. skb[c].ct \in Conns /\ M(c) \in Conns
  BY <1>1, PacketFields DEF TypeInv, Placed
<1>3. Inside(c)
  BY <1>1, <1>2, PacketAssumption DEF Inside
<1>4. \A ct \in Conns : data[ct] # "freed"
  BY <1>1, <1>3, Occupant
<1>5. job[c].src = "master" => proto[M(c)] \in Labels
  BY DEF Locked, MasterLabelled
<1>6. ~FreeTwice(c) /\ ~UseFreedData(c)
  BY <1>2, <1>4 DEF FreeTwice, UseFreedData, Locked, DataLives
<1>7. faults' \subseteq {"stale_node", "null_deref"}
  BY <1>6 DEF NoMemoryNoMessage, UseStaleNode, Oops, Locked, Harmless
<1>8. QED BY <1>1, <1>3, <1>4, <1>5, <1>7, InsideStep

(* Outside the critical section: c comes, waits, goes, or is refused.      *)
LEMMA OutsideLocked ==
  ASSUME TypeInv, TypeInv', Locked, NEW c \in CPUs, Arrive(c) \/ Refuse(c)
  PROVE  Locked'
<1>1. /\ UNCHANGED <<lock, proto, data, dlen, node, job, faults>>
      /\ ~Inside(c) /\ ~Inside(c)'
      /\ pc[c] \in {"idle", "hook"}
      /\ pc'[c] \in {"idle", "hook", "unlock"}
      /\ \A d \in CPUs : d # c => pc'[d] = pc[d] /\ skb'[d] = skb[d]
  <2>1. CASE Refuse(c)
    BY <2>1 DEF Refuse, Inside, TypeInv, TypeOK
  <2>2. CASE DropBeforeHook(c)
    BY <2>2 DEF DropBeforeHook, Inside, TypeInv, TypeOK
  <2>3. ASSUME NEW packet, Receive(c, packet)
        PROVE  /\ UNCHANGED <<lock, proto, data, dlen, node, job, faults>>
               /\ pc[c] = "idle" /\ pc'[c] = "hook"
               /\ \A d \in CPUs : d # c => pc'[d] = pc[d] /\ skb'[d] = skb[d]
    BY <2>3 DEF Receive, TypeInv, TypeOK
  <2>4. QED
    BY <2>1, <2>2, <2>3
    DEF Arrive, Deliver, DeliverUncounted, DeliverUntracked, DeliverAlien, Inside
<1>2. job[c].src = "none"
  BY <1>1 DEF TypeInv, JobFits
<1>3. \A d \in CPUs : d # c => M(d)' = M(d) /\ Target(d)' = Target(d)
  BY <1>1 DEF Target
<1>4. \A d \in CPUs : Inside(d)' => Inside(d)
  BY <1>1 DEF Inside
<1>5. MutualExclusion' /\ Taken'
  BY <1>1, <1>4 DEF Locked, MutualExclusion, Taken
<1>6. FreedBriefly' /\ UninitOwned'
  BY <1>1, <1>3 DEF Locked, FreedBriefly, UninitOwned
<1>7. DataLives'
  BY <1>1, <1>3 DEF Locked, DataLives
<1>8. LabelSlot'
  <2>1. SUFFICES ASSUME NEW d \in CPUs PROVE LabelSlot!(d)'
    BY DEF LabelSlot
  <2>2. CASE d = c
    BY <1>1, <2>2
  <2>3. CASE d # c
    BY <1>1, <1>3, <2>3 DEF Locked, LabelSlot
  <2>4. QED BY <2>2, <2>3
<1>9. MasterLabelled' /\ Harmless'
  BY <1>1, <1>2, <1>3 DEF Locked, MasterLabelled, Harmless
<1>10. QED
  BY <1>5, <1>6, <1>7, <1>8, <1>9 DEF Locked

(* Taking the lock: it was free, so nobody was inside.                     *)
LEMMA LockLocked ==
  ASSUME TypeInv, Locked, NEW c \in CPUs, Lock(c)
  PROVE  Locked'
<1>1. /\ UNCHANGED <<flows, node, skb, job, seen, stray, faults>>
      /\ lock = "free" /\ lock' = "held"
      /\ pc[c] = "hook"
      /\ pc'[c] = "classify"
      /\ \A d \in CPUs : d # c => pc'[d] = pc[d]
  BY DEF Lock, Acquire, TypeInv, TypeOK
<1>2. \A d \in CPUs : ~Inside(d)
  BY <1>1 DEF Locked, Taken
<1>3. \A d \in CPUs : Inside(d)' => d = c
  BY <1>1, <1>2 DEF Inside
<1>4. MutualExclusion' /\ Taken'
  BY <1>1, <1>3 DEF MutualExclusion, Taken
<1>5. FreedBriefly' /\ UninitOwned'
  BY <1>1 DEF Locked, FreedBriefly, UninitOwned, Target
<1>6. DataLives' /\ LabelSlot'
  BY <1>1 DEF Locked, DataLives, LabelSlot, Target
<1>7. MasterLabelled' /\ Harmless'
  BY <1>1 DEF Locked, MasterLabelled, Harmless
<1>8. QED BY <1>4, <1>5, <1>6, <1>7 DEF Locked

(* Giving the lock back from inside: nobody is left.                       *)
LEMMA UnlockLocked ==
  ASSUME TypeInv, Locked, NEW c \in CPUs, Unlock(c), ~stray'
  PROVE  Locked'
<1>1. /\ UNCHANGED <<flows, node, seen, faults>>
      /\ skb[c].ct # Alien
      /\ pc[c] = "unlock"
  BY DEF Unlock
<1>2. /\ pc'[c] \in {"idle", "hook"}
      /\ job'[c].src = "none"
      /\ \A d \in CPUs : d # c => /\ pc'[d] = pc[d]
                                 /\ skb'[d] = skb[d]
                                 /\ job'[d] = job[d]
  BY DEF Unlock, TypeInv, TypeOK, NoJob
<1>3. Inside(c)
  BY <1>1 DEF Inside
<1>4. /\ \A d \in CPUs : d # c => ~Inside(d) /\ job[d].src = "none"
      /\ \A d \in CPUs : d # c => pc[d] \in {"idle", "hook", "unlock"}
      /\ \A ct \in Conns : data[ct] # "freed"
      /\ \A ct \in Conns : proto[ct] # Uninit
  BY <1>1, <1>3, Occupant
<1>5. \A d \in CPUs : ~Inside(d)'
  BY <1>2, <1>4 DEF Inside
<1>6. MutualExclusion' /\ Taken'
  BY <1>5 DEF MutualExclusion, Taken
<1>7. FreedBriefly' /\ UninitOwned'
  BY <1>1, <1>4 DEF FreedBriefly, UninitOwned
<1>8. DataLives' /\ LabelSlot'
  BY <1>2, <1>4 DEF DataLives, LabelSlot
<1>9. MasterLabelled' /\ Harmless'
  BY <1>1, <1>2, <1>4 DEF Locked, MasterLabelled, Harmless
<1>10. QED BY <1>6, <1>7, <1>8, <1>9 DEF Locked

(* Every step but a stray unlock keeps what the lock protects.             *)
LEMMA NextLocked ==
  ASSUME TypeInv, TypeInv', Locked, [Next]_vars, ~stray'
  PROVE  Locked'
<1>1. ASSUME NEW c \in CPUs, Arrive(c) PROVE Locked'
  BY <1>1, OutsideLocked
<1>2. ASSUME NEW c \in CPUs, Lock(c) PROVE Locked'
  BY <1>2, LockLocked
<1>3. ASSUME NEW c \in CPUs, Run(c) PROVE Locked'
  <2>1. CASE Refuse(c)
    BY <2>1, OutsideLocked
  <2>2. CASE Unlock(c)
    BY <2>2, UnlockLocked
  <2>3. CASE Classify(c)
    BY <2>3, QuietLocked, JobLocked, BufferLocked DEF Classify
  <2>4. CASE FreeAppdata(c)
    BY <2>4, QuietLocked, BufferLocked, OopsLocked DEF FreeAppdata
  <2>5. CASE AddLabel(c)
    BY <2>5, QuietLocked, SetLabelLocked, OopsLocked DEF AddLabel
  <2>6. CASE AddData(c)
    BY <2>6, QuietLocked, BufferLocked, OopsLocked DEF AddData
  <2>7. CASE Inspect(c)
    BY <2>7, QuietLocked, JobLocked DEF Inspect
  <2>8. QED
    BY <1>3, <2>1, <2>2, <2>3, <2>4, <2>5, <2>6, <2>7 DEF Run
<1>4. ASSUME NEW n \in Nodes, RemoveNode(n) PROVE Locked'
  BY <1>4
  DEF RemoveNode, Locked, MutualExclusion, Inside, Taken, FreedBriefly,
      DataLives, LabelSlot, UninitOwned, MasterLabelled, Harmless, Target
<1>5. CASE UNCHANGED vars
  BY <1>5
  DEF Locked, MutualExclusion, Inside, Taken, FreedBriefly, DataLives,
      LabelSlot, UninitOwned, MasterLabelled, Harmless, Target
<1>6. QED BY <1>1, <1>2, <1>3, <1>4, <1>5 DEF Next

LEMMA InitLocked == Init => Locked
BY NameAssumption
DEF Init, Locked, MutualExclusion, Inside, Taken, FreedBriefly, DataLives,
    LabelSlot, UninitOwned, MasterLabelled, Harmless, NoJob

-----------------------------------------------------------------------------
(* Theorems                                                                *)

(* Which steps touch labels, packet counts and the history of the lock.    *)
LEMMA Writers ==
  ASSUME [Next]_vars, stray \in BOOLEAN
  PROVE  /\ UNCHANGED proto \/ \E c \in CPUs : NewLabel(c) \/ CopyLabel(c)
         /\ UNCHANGED pkts \/ \E c \in CPUs, ct \in Conns : Deliver(c, ct)
         /\ stray => stray'
<1>1. ASSUME NEW c \in CPUs, Arrive(c)
      PROVE  /\ UNCHANGED <<proto, stray>>
             /\ UNCHANGED pkts \/ \E ct \in Conns : Deliver(c, ct)
  BY <1>1 DEF Arrive, Deliver, DeliverUncounted, DeliverUntracked, DeliverAlien,
              DropBeforeHook, Receive
<1>2. ASSUME NEW c \in CPUs, Lock(c) PROVE UNCHANGED <<proto, pkts, stray>>
  BY <1>2 DEF Lock
<1>3. ASSUME NEW c \in CPUs, Run(c)
      PROVE  /\ UNCHANGED proto \/ NewLabel(c) \/ CopyLabel(c)
             /\ UNCHANGED pkts
             /\ stray => stray'
  <2>1. CASE Refuse(c) \/ Unlock(c)
    BY <2>1 DEF Refuse, Unlock
  <2>2. CASE Classify(c)
    BY <2>2 DEF Classify, NoConntrack, Identified, GiveUp, LookCloser, PortKnown, Allocate,
                NotCollecting, LeaveNoData, Collecting
  <2>3. CASE FreeAppdata(c)
    BY <2>3 DEF FreeAppdata, FreeData, FreeTwice, NothingToFree, ClearPointer, Inherit
  <2>4. CASE AddLabel(c)
    BY <2>4 DEF AddLabel, HasLabel, NeedsLabel, NewLabel, NoMemoryForLabel,
                NoMemoryNoMessage, CopyLabel, UseStaleNode
  <2>5. CASE AddData(c)
    BY <2>5 DEF AddData, AppendNothing, AppendCheck, Write, UseFreedData
  <2>6. CASE Inspect(c)
    BY <2>6 DEF Inspect, Match, NoMatch, CallHandler
  <2>7. QED BY <1>3, <2>1, <2>2, <2>3, <2>4, <2>5, <2>6 DEF Run
<1>4. ASSUME NEW n \in Nodes, RemoveNode(n) PROVE UNCHANGED <<proto, pkts, stray>>
  BY <1>4 DEF RemoveNode
<1>5. QED BY <1>1, <1>2, <1>3, <1>4 DEF Next

(* What the two writes of a label do, given the lock.                      *)
LEMMA LabelSteps ==
  ASSUME TypeInv, Locked, NEW c \in CPUs, NewLabel(c) \/ CopyLabel(c)
  PROVE  /\ skb[c].ct \in Conns /\ M(c) \in Conns /\ Target(c) \in Conns
         /\ NewLabel(c) => proto[Target(c)] = NoProto
         /\ CopyLabel(c) => /\ proto[Target(c)] = Uninit
                            /\ LabelOf(c) \in Labels
         /\ \A ct \in Conns :
              proto'[ct] = IF ct = Target(c)
                             THEN IF NewLabel(c) THEN Uninit ELSE LabelOf(c)
                             ELSE proto[ct]
<1>1. pc[c] \in {"alloc", "copy"} /\ (NewLabel(c) => ~CopyLabel(c))
  BY DEF NewLabel, CopyLabel
<1>2. /\ skb[c].ct \in Conns /\ M(c) \in Conns /\ Target(c) \in Conns
      /\ job[c].src # "none"
  BY <1>1, PacketFields, LabelType DEF TypeInv, Placed, JobFits
<1>3. /\ NewLabel(c) => proto[Target(c)] = NoProto
      /\ CopyLabel(c) => proto[Target(c)] = Uninit
  BY DEF NewLabel, CopyLabel, Locked, LabelSlot
<1>4. CopyLabel(c) => LabelOf(c) \in Labels
  <2>1. CASE job[c].src = "master"
    BY <2>1 DEF LabelOf, Locked, MasterLabelled
  <2>2. CASE job[c].src = "dpi"
    BY <2>2, NameAssumption DEF LabelOf, TypeInv, JobFits
  <2>3. CASE job[c].src = "wellknown"
    BY <1>2, <2>3, NameAssumption DEF LabelOf, TypeInv, JobFits
  <2>4. CASE job[c].src \notin {"master", "dpi", "wellknown"}
    BY <2>4 DEF LabelOf
  <2>5. QED BY <2>1, <2>2, <2>3, <2>4
<1>5. proto' = [proto EXCEPT ![Target(c)] = IF NewLabel(c) THEN Uninit ELSE LabelOf(c)]
  BY <1>1 DEF NewLabel, CopyLabel
<1>6. QED BY <1>2, <1>3, <1>4, <1>5 DEF TypeInv, TypeOK

LEMMA InitInv == Init => IndInv
BY InitType, InitLocked DEF IndInv

LEMMA NextInv == IndInv /\ [Next]_vars => IndInv'
<1> SUFFICES ASSUME IndInv, [Next]_vars PROVE IndInv'
  OBVIOUS
<1>1. TypeInv' /\ stray \in BOOLEAN /\ stray' \in BOOLEAN
  BY NextType DEF IndInv, TypeInv, TypeOK
<1>2. stray => stray'
  BY <1>1, Writers
<1>3. Locked /\ ~stray' => Locked'
  BY <1>1, NextLocked DEF IndInv
<1>4. QED BY <1>1, <1>2, <1>3 DEF IndInv

(* The invariant the safety theorems rest on.                              *)
LEMMA Invariance == Spec => []IndInv
BY InitInv, NextInv, PTL DEF Spec

(* Whatever the number of CPUs, and although allocations fail and pattern  *)
(* modules come and go: as long as no CPU has left core() through the      *)
(* "some protocol I can't handle" path, at most one CPU is between         *)
(* spin_lock_bh and spin_unlock_bh, and no buffer is freed twice or used   *)
(* after it was freed.                                                     *)
THEOREM OnlyStrayUnlock == Spec => []OnlyStrayUnlockBreaks
<1>1. IndInv => OnlyStrayUnlockBreaks
  BY DEF IndInv, Locked, Harmless, OnlyStrayUnlockBreaks
<1>2. QED BY <1>1, Invariance, PTL

(* Under the same condition a label, once copied, never changes.           *)
THEOREM LabelsAreFinal == Spec => LabelFinal
<1>1. IndInv /\ IndInv' /\ [Next]_vars =>
        [stray' \/ \A ct \in Conns : proto[ct] \in Labels => proto'[ct] = proto[ct]]_vars
  <2> SUFFICES ASSUME IndInv, IndInv', [Next]_vars, ~stray',
                      NEW ct \in Conns, proto[ct] \in Labels
               PROVE  proto'[ct] = proto[ct]
    OBVIOUS
  <2>1. stray \in BOOLEAN /\ ~stray
    BY Writers DEF IndInv, TypeInv, TypeOK
  <2>2. TypeInv /\ Locked
    BY <2>1 DEF IndInv
  <2>3. ASSUME NEW c \in CPUs, NewLabel(c) \/ CopyLabel(c) PROVE proto'[ct] = proto[ct]
    BY <2>2, <2>3, LabelSteps, NameAssumption
  <2>4. QED BY <2>1, <2>3, Writers
<1>2. QED BY <1>1, Invariance, PTL DEF Spec, LabelFinal

-----------------------------------------------------------------------------
(* Traffic that can_handle() accepts: every packet is TCP, UDP or ICMP     *)

NoAlien == ~stray /\ \A c \in CPUs : skb[c].ct # Alien

(* Without foreign packets there is no stray unlock.                       *)
LEMMA NextNoAlien ==
  ASSUME Foreign = FALSE, TypeInv, NoAlien, [Next]_vars
  PROVE  NoAlien'
<1>1. IdleSkb.ct # Alien
  BY PacketAssumption DEF IdleSkb
<1>2. ASSUME NEW c \in CPUs, Arrive(c) PROVE NoAlien'
  <2>1. ASSUME NEW packet \in Packets, packet.ct # Alien, Receive(c, packet)
        PROVE  NoAlien'
    <3>1. PICK h \in Traversals : skb' = [skb EXCEPT ![c] = [packet EXCEPT !.hooks = h]]
      BY <2>1 DEF Receive
    <3>2. [packet EXCEPT !.hooks = h].ct = packet.ct
      BY DEF Packets
    <3>3. QED BY <2>1, <3>1, <3>2 DEF Receive, NoAlien, TypeInv, TypeOK
  <2>2. ASSUME NEW ct \in Conns \cup {Untracked}, NEW b \in BOOLEAN
        PROVE  /\ [IdleSkb EXCEPT !.ct = ct] \in Packets
               /\ [IdleSkb EXCEPT !.ct = ct].ct # Alien
               /\ [IdleSkb EXCEPT !.ct = ct, !.first = b] \in Packets
               /\ [IdleSkb EXCEPT !.ct = ct, !.first = b].ct # Alien
    <3>1. IdleSkb \in Packets
      BY DEF IdleSkb, Packets
    <3>2. ct # Alien
      BY PacketAssumption
    <3>3. QED BY <3>1, <3>2 DEF Packets
  <2>3. CASE \E ct \in Conns : Deliver(c, ct)
    <3>1. PICK ct \in Conns : Deliver(c, ct)
      BY <2>3
    <3>2. (pkts[ct] = 0) \in BOOLEAN
      OBVIOUS
    <3>3. QED BY <2>1, <2>2, <3>1, <3>2 DEF Deliver
  <2>7. ASSUME NEW ct \in Conns, DeliverUncounted(c, ct) PROVE NoAlien'
    BY <2>1, <2>2, <2>7 DEF DeliverUncounted
  <2>4. CASE DeliverUntracked(c)
    BY <2>1, <2>2, <2>4 DEF DeliverUntracked
  <2>5. CASE DropBeforeHook(c)
    BY <1>1, <2>5 DEF DropBeforeHook, NoAlien, TypeInv, TypeOK
  <2>6. QED BY <1>2, <2>3, <2>4, <2>5, <2>7 DEF Arrive, DeliverAlien
<1>3. ASSUME NEW c \in CPUs, Unlock(c) PROVE NoAlien'
  <2>1. skb[c] \in Packets /\ skb[c].ct # Alien /\ ~stray'
    BY <1>3 DEF Unlock, NoAlien, TypeInv, TypeOK
  <2>2. [skb[c] EXCEPT !.hooks = 1].ct = skb[c].ct
    BY <2>1 DEF Packets
  <2>3. \/ skb' = [skb EXCEPT ![c] = [skb[c] EXCEPT !.hooks = 1]]
        \/ skb' = [skb EXCEPT ![c] = IdleSkb]
    BY <1>3 DEF Unlock
  <2>4. QED BY <1>1, <2>1, <2>2, <2>3 DEF NoAlien, TypeInv, TypeOK
<1>4. ASSUME NEW c \in CPUs, Lock(c) \/ (Run(c) /\ ~Unlock(c))
      PROVE  UNCHANGED <<skb, stray>>
  <2>1. CASE Lock(c) \/ Refuse(c)
    BY <2>1 DEF Lock, Refuse
  <2>2. CASE Classify(c)
    BY <2>2 DEF Classify, NoConntrack, Identified, GiveUp, LookCloser, PortKnown, Allocate,
                NotCollecting, LeaveNoData, Collecting
  <2>3. CASE FreeAppdata(c)
    BY <2>3 DEF FreeAppdata, FreeData, FreeTwice, NothingToFree, ClearPointer, Inherit
  <2>4. CASE AddLabel(c)
    BY <2>4 DEF AddLabel, HasLabel, NeedsLabel, NewLabel, NoMemoryForLabel,
                NoMemoryNoMessage, CopyLabel, UseStaleNode
  <2>5. CASE AddData(c)
    BY <2>5 DEF AddData, AppendNothing, AppendCheck, Write, UseFreedData
  <2>6. CASE Inspect(c)
    BY <2>6 DEF Inspect, Match, NoMatch, CallHandler
  <2>7. QED BY <1>4, <2>1, <2>2, <2>3, <2>4, <2>5, <2>6 DEF Run
<1>5. ASSUME NEW n \in Nodes, RemoveNode(n) PROVE UNCHANGED <<skb, stray>>
  BY <1>5 DEF RemoveNode
<1>6. QED
  BY <1>2, <1>3, <1>4, <1>5 DEF Next, NoAlien

(* The invariant of a host whose traffic is all TCP, UDP and ICMP.         *)
LEMMA CleanInvariance ==
  ASSUME Foreign = FALSE
  PROVE  Spec => [](TypeInv /\ Locked /\ NoAlien)
<1>1. Init => NoAlien
  BY PacketAssumption DEF Init, NoAlien, IdleSkb
<1>2. IndInv /\ NoAlien /\ [Next]_vars => NoAlien'
  BY NextNoAlien DEF IndInv
<1>3. IndInv /\ NoAlien => TypeInv /\ Locked /\ NoAlien
  BY DEF IndInv, NoAlien
<1>4. QED BY <1>1, <1>2, <1>3, Invariance, PTL DEF Spec

(* On such a host appflid_lock excludes, on any number of CPUs.            *)
THEOREM Mutex ==
  ASSUME Foreign = FALSE
  PROVE  Spec => []MutualExclusion
<1>1. Locked => MutualExclusion
  BY DEF Locked
<1>2. QED BY <1>1, CleanInvariance, PTL

(* On such a host no payload buffer is freed twice or used after its free: *)
(* the check "fix for a race condition" in add_data has nothing to fix.    *)
THEOREM BuffersSafe ==
  ASSUME Foreign = FALSE
  PROVE  Spec => [](NoDoubleFree /\ NoUseAfterFree)
<1>1. Locked => NoDoubleFree /\ NoUseAfterFree
  BY DEF Locked, Harmless, NoDoubleFree, NoUseAfterFree
<1>2. QED BY <1>1, CleanInvariance, PTL

(* A step that writes a label keeps parent and child in agreement.         *)
LEMMA NextFamily ==
  ASSUME TypeInv, Locked, FamilyAgrees, [Next]_vars
  PROVE  FamilyAgrees'
<1>1. ASSUME NEW c \in CPUs, NewLabel(c) \/ CopyLabel(c), NEW ct \in Conns,
             proto'[ct] \in Labels
      PROVE  proto'[Root[ct]] = proto'[ct]
  <2>1. /\ Root[ct] \in Conns /\ Root[Root[ct]] = Root[ct]
        /\ Root[M(c)] = M(c)
        /\ M(c) \in Conns /\ skb[c].ct \in Conns
    <3>1. M(c) \in Conns /\ skb[c].ct \in Conns
      BY <1>1, LabelSteps
    <3>2. QED BY <3>1, RootAssumption
  <2>2. proto[Target(c)] \notin Labels
    BY <1>1, LabelSteps, NameAssumption
  <2>3. CASE ct # Target(c)
    <3>1. proto'[ct] = proto[ct] /\ proto[Root[ct]] = proto[ct]
      BY <1>1, <2>3, LabelSteps DEF FamilyAgrees
    <3>2. Root[ct] # Target(c)
      BY <1>1, <2>2, <3>1
    <3>3. QED BY <1>1, <2>1, <3>1, <3>2, LabelSteps
  <2>4. CASE ct = Target(c)
    <3>1. CopyLabel(c) /\ ~NewLabel(c) /\ proto'[ct] = LabelOf(c)
      BY <1>1, <2>4, LabelSteps, NameAssumption DEF NewLabel, CopyLabel
    <3>2. CASE job[c].src = "master"
      <4>1. ct = skb[c].ct /\ LabelOf(c) = proto[M(c)] /\ proto[M(c)] \in Labels
        BY <2>4, <3>2 DEF Target, LabelOf, Locked, MasterLabelled
      <4>2. M(c) # Target(c)
        BY <2>2, <4>1
      <4>3. proto'[M(c)] = proto[M(c)]
        BY <1>1, <2>1, <4>2, LabelSteps
      <4>4. QED BY <3>1, <4>1, <4>3
    <3>3. CASE job[c].src # "master"
      BY <2>1, <2>4, <3>3 DEF Target
    <3>4. QED BY <3>2, <3>3
  <2>5. QED BY <2>3, <2>4
<1>2. CASE UNCHANGED proto
  BY <1>2 DEF FamilyAgrees
<1>3. QED
  BY <1>1, <1>2, Writers DEF FamilyAgrees, TypeInv, TypeOK

(* A labelled child has its master's label, whatever CPUs labelled them.   *)
THEOREM FamiliesAgree ==
  ASSUME Foreign = FALSE
  PROVE  Spec => []FamilyAgrees
<1>1. Init => FamilyAgrees
  BY NameAssumption DEF Init, FamilyAgrees
<1>2. TypeInv /\ Locked /\ NoAlien /\ FamilyAgrees /\ [Next]_vars => FamilyAgrees'
  BY NextFamily
<1>3. QED BY <1>1, <1>2, CleanInvariance, PTL DEF Spec

-----------------------------------------------------------------------------
(* The hook implements module Flow                                         *)

FlowProto == [ct \in Conns |-> IF proto[ct] = Uninit THEN NoProto ELSE proto[ct]]

LEMMA FlowInitial == Init => Promise!FlowInit
BY NameAssumption DEF Init, Promise!FlowInit

(* Every step of the hook is a step of Flow, or changes nothing Flow sees. *)
LEMMA FlowStep ==
  ASSUME TypeInv, Locked, [Next]_vars
  PROVE  [Promise!FlowNext]_(Promise!flowVars)
<1>1. ASSUME NEW c \in CPUs, NEW ct \in Conns, Deliver(c, ct)
      PROVE  Promise!FlowNext
  <2>1. pkts' = [pkts EXCEPT ![ct] = @ + 1] /\ proto' = proto
    BY <1>1 DEF Deliver, Receive
  <2>2. Promise!Count(ct)
    BY <2>1 DEF Promise!Count
  <2>3. QED BY <2>2 DEF Promise!FlowNext
<1>2. ASSUME NEW c \in CPUs, NewLabel(c)
      PROVE  UNCHANGED Promise!flowVars
  <2>1. pkts' = pkts
    BY <1>2 DEF NewLabel
  <2>2. ASSUME NEW ct \in Conns PROVE FlowProto'[ct] = FlowProto[ct]
    BY <1>2, LabelSteps DEF FlowProto
  <2>3. FlowProto' = FlowProto
    BY <2>2 DEF FlowProto
  <2>4. QED BY <2>1, <2>3 DEF Promise!flowVars, FlowProto
<1>3. ASSUME NEW c \in CPUs, CopyLabel(c)
      PROVE  Promise!FlowNext
  <2>1. pkts' = pkts /\ pc[c] = "copy" /\ ~NewLabel(c)
    BY <1>3 DEF CopyLabel, NewLabel
  <2>2. /\ Target(c) \in Conns /\ M(c) \in Conns /\ skb[c].ct \in Conns
        /\ LabelOf(c) \in Labels
        /\ LabelOf(c) # Uninit /\ LabelOf(c) # NoProto
        /\ FlowProto[Target(c)] = NoProto
    BY <1>3, LabelSteps, NameAssumption DEF FlowProto
  <2>3. ASSUME NEW ct \in Conns
        PROVE  FlowProto'[ct] = IF ct = Target(c) THEN LabelOf(c) ELSE FlowProto[ct]
    BY <1>3, <2>1, <2>2, LabelSteps DEF FlowProto
  <2>4. FlowProto' = [FlowProto EXCEPT ![Target(c)] = LabelOf(c)]
    BY <2>2, <2>3 DEF FlowProto
  <2>5. CASE job[c].src = "master"
    <3>1. /\ Target(c) = skb[c].ct
          /\ LabelOf(c) = FlowProto[Root[skb[c].ct]]
      BY <2>2, <2>5, NameAssumption DEF Target, LabelOf, FlowProto, Locked, MasterLabelled
    <3>2. PICK ct \in Conns : ct = skb[c].ct
      BY <2>2
    <3>3. Promise!Follow(ct)
      BY <2>1, <2>2, <2>4, <3>1, <3>2 DEF Promise!Follow, FlowProto
    <3>4. QED BY <3>3 DEF Promise!FlowNext
  <2>6. CASE job[c].src # "master"
    <3>1. Target(c) = M(c) /\ Root[M(c)] = M(c)
      BY <2>2, <2>6, RootAssumption DEF Target
    <3>2. \/ LabelOf(c) = WellKnown[M(c)]
          \/ LabelOf(c) \in {NodeName[n] : n \in Nodes}
          \/ LabelOf(c) = Unknown /\ pkts[M(c)] > NumPackets
      BY <2>1, <2>6, PacketFields DEF LabelOf, TypeInv, JobFits, Jobs
    <3>3. PICK m \in Conns : m = M(c)
      BY <2>2
    <3>4. Promise!Identify(m)
      BY <2>1, <2>2, <2>4, <3>1, <3>2, <3>3 DEF Promise!Identify, FlowProto
    <3>5. QED BY <3>4 DEF Promise!FlowNext
  <2>7. QED BY <2>5, <2>6
<1>4. CASE UNCHANGED <<proto, pkts>>
  BY <1>4 DEF Promise!flowVars
<1>5. stray \in BOOLEAN
  BY DEF TypeInv, TypeOK
<1>6. ASSUME ~UNCHANGED proto, ~UNCHANGED pkts PROVE FALSE
  <2>1. PICK c \in CPUs : NewLabel(c) \/ CopyLabel(c)
    BY <1>5, <1>6, Writers
  <2>2. QED BY <1>6, <2>1 DEF NewLabel, CopyLabel
<1>7. QED BY <1>1, <1>2, <1>3, <1>4, <1>5, <1>6, Writers

(* On a host whose traffic is all TCP, UDP and ICMP the hook keeps every   *)
(* promise of module Flow, on any number of CPUs and whatever allocations  *)
(* fail: a label is final, has one of the three reasons the code has for   *)
(* it, and a child only ever takes its master's.                           *)
THEOREM Refinement ==
  ASSUME Foreign = FALSE
  PROVE  Spec => FlowPromise
<1>1. TypeInv /\ Locked /\ NoAlien /\ [Next]_vars
        => [Promise!FlowNext]_(Promise!flowVars)
  BY FlowStep
<1>2. QED
  BY <1>1, FlowInitial, CleanInvariance, PTL DEF Spec, FlowPromise, Promise!FlowSpec
=============================================================================
