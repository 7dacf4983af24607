-------------------------------- MODULE Core --------------------------------
(***************************************************************************)
(* The packet hook, src/mod/core.c: every CPU runs core() on the packets   *)
(* it delivers, under the one spin lock appflid_lock.  Steps between which *)
(* another CPU can look at the shared state are separate actions, so that  *)
(* what the lock is for can be checked and not assumed.                    *)
(***************************************************************************)
EXTENDS Integers, FiniteSets, SpinLock

CONSTANTS
  CPUs,         \* CPUs that deliver packets
  Conns,        \* connections conntrack knows (struct nf_conn)
  Root,         \* Root[ct]: the end of ct's chain of master_ct()
  Names,        \* protocol names of the configuration files
  Unknown,      \* the label "unknown"
  NoProto,      \* app_proto == NULL
  Uninit,       \* app_proto points to memory not written yet
  Acct,         \* connections with an accounting extension (nf_conn_acct)
  WellKnown,    \* WellKnown[ct]: protocol of ct's destination port, or NoProto
  Nodes,        \* nodes of the pattern list (struct aproto_node)
  NodeName,     \* NodeName[n]: n's protocol
  None,         \* no node
  Untracked,    \* a packet conntrack has no connection for
  Alien,        \* a packet that is not TCP, UDP or ICMP
  NoPacket,     \* the CPU has no packet
  NumPackets,   \* num_packets
  MaxDataLen,   \* maxdatalen
  MaxSeg,       \* bound: longest payload of one packet
  MaxPkts,      \* bound: packets counted per connection
  Foreign,      \* environment: packets can_handle() refuses occur
  LowMemory,    \* environment: kmalloc(GFP_ATOMIC) may fail
  Unloads,      \* environment: pattern modules come and go under traffic
  Loopback      \* environment: a packet may cross both hooks

ASSUME RootAssumption ==
  /\ Root \in [Conns -> Conns]
  /\ \A ct \in Conns : Root[Root[ct]] = Root[ct]

ASSUME NameAssumption ==
  /\ Unknown \notin Names
  /\ NoProto \notin Names \cup {Unknown}
  /\ Uninit \notin Names \cup {Unknown, NoProto}
  /\ WellKnown \in [Conns -> Names \cup {NoProto}]
  /\ NodeName \in [Nodes -> Names]
  /\ None \notin Nodes

ASSUME AcctAssumption == Acct \subseteq Conns

ASSUME PacketAssumption ==
  /\ Untracked \notin Conns
  /\ Alien \notin Conns \cup {Untracked}
  /\ NoPacket \notin Conns \cup {Untracked, Alien}

ASSUME BoundAssumption ==
  /\ NumPackets \in Nat \ {0}
  /\ MaxDataLen \in Nat \ {0}
  /\ MaxSeg \in Nat
  /\ MaxPkts \in Nat

ASSUME EnvironmentAssumption ==
  /\ Foreign \in BOOLEAN
  /\ LowMemory \in BOOLEAN
  /\ Unloads \in BOOLEAN
  /\ Loopback \in BOOLEAN

VARIABLES
  lock,    \* appflid_lock
  pkts,    \* pkts[ct]: the packets conntrack has counted for ct
  proto,   \* proto[ct]: ct->appflid.app_proto
  data,    \* data[ct]: ct->appflid.app_data, "null" or what it points to
  dlen,    \* dlen[ct]: ct->appflid.app_data_len
  node,    \* node[n]: is n in the pattern list, or removed and freed?
  pc,      \* pc[c]: where CPU c is in core()
  skb,     \* skb[c]: c's packet
  job,     \* job[c]: the label c is about to set and where it came from
  seen,    \* history: connections whose first packet core() has looked at
  stray,   \* history: appflid_lock was released by a CPU that had not taken it
  faults   \* history: what went wrong with memory

vars == <<lock, pkts, proto, data, dlen, node, pc, skb, job, seen, stray, faults>>

flows == <<pkts, proto, data, dlen>>

Labels == Names \cup {Unknown}

PCs == {"idle", "hook", "classify", "first", "free", "freed", "inherit", "label",
        "alloc", "copy", "append", "write", "find", "handler", "nodata", "unlock",
        "oops"}

Packets == [ct : Conns \cup {Untracked, Alien, NoPacket},
            first : BOOLEAN, hooks : 1..2]

Jobs == [src : {"none", "unknown", "wellknown", "dpi", "master"},
         node : Nodes \cup {None}]

IdleSkb == [ct |-> NoPacket, first |-> FALSE, hooks |-> 1]

NoJob == [src |-> "none", node |-> None]

Traversals == IF Loopback THEN 1..2 ELSE {1}

Init ==
  /\ lock = "free"
  /\ pkts = [ct \in Conns |-> 0]
  /\ proto = [ct \in Conns |-> NoProto]
  /\ data = [ct \in Conns |-> "null"]
  /\ dlen = [ct \in Conns |-> 0]
  /\ node = [n \in Nodes |-> "listed"]
  /\ pc = [c \in CPUs |-> "idle"]
  /\ skb = [c \in CPUs |-> IdleSkb]
  /\ job = [c \in CPUs |-> NoJob]
  /\ seen = {}
  /\ stray = FALSE
  /\ faults = {}

-----------------------------------------------------------------------------
(* Helpers *)

Goto(c, from, to) ==
  /\ pc[c] = from
  /\ pc' = [pc EXCEPT ![c] = to]

(* the connection core() keeps its data in: the last master *)
M(c) == Root[skb[c].ct]

(* CPU c touches memory it must not touch; what it does then is undefined, *)
(* and c is not followed any further                                       *)
Oops(c, fault) ==
  /\ pc' = [pc EXCEPT ![c] = "oops"]
  /\ faults' = faults \cup {fault}

(* total_acct_packets(): what conntrack has counted; nothing is counted for *)
(* a connection that was created while accounting was off                   *)
Counted(ct) == IF ct \in Acct THEN pkts[ct] ELSE 0

(* the packet's connection is known and nobody has named it yet *)
Unlabelled(c) ==
  /\ skb[c].ct \in Conns
  /\ proto[M(c)] = NoProto

(* total_acct_packets(mct) == 1 && !mct->appflid.app_data *)
FirstPacket(c) == Counted(M(c)) = 1 /\ data[M(c)] = "null"

(* history: the packet has been looked at, first or not *)
Look(c) ==
  seen' = IF skb[c].first THEN seen \cup {skb[c].ct} ELSE seen

(* fault: the packet's connection is labelled, not its master *)
TargetOfPacket(c) == skb[c].ct

(* the connection nf_ct_appflid_add() is called for, and the name *)
Target(c) == IF job[c].src = "master" THEN skb[c].ct ELSE M(c)

LabelOf(c) ==
  CASE job[c].src = "master"    -> proto[M(c)]
    [] job[c].src = "wellknown" -> WellKnown[M(c)]
    [] job[c].src = "dpi"       -> NodeName[job[c].node]
    [] OTHER                    -> Unknown

(* where core() goes on after nf_ct_appflid_add() *)
AfterLabel(c) == IF job[c].src = "dpi" THEN "handler" ELSE "unlock"

(* the name nf_ct_appflid_add() reads lies in a node that was freed *)
StaleName(c) == job[c].src = "dpi" /\ node[job[c].node] = "freed"

-----------------------------------------------------------------------------
(* Packets arrive.  Conntrack counts a packet before the hook sees it,     *)
(* outside appflid_lock; untracked and alien packets are not counted, nor  *)
(* are those of a connection that has no counters.                         *)

Receive(c, packet) ==
  /\ Goto(c, "idle", "hook")
  /\ \E h \in Traversals :
       skb' = [skb EXCEPT ![c] = [packet EXCEPT !.hooks = h]]
  /\ UNCHANGED <<lock, proto, data, dlen, node, job, seen, stray, faults>>

Deliver(c, ct) ==
  /\ ct \in Acct
  /\ pkts[ct] < MaxPkts
  /\ pkts' = [pkts EXCEPT ![ct] = @ + 1]
  /\ Receive(c, [IdleSkb EXCEPT !.ct = ct, !.first = (pkts[ct] = 0)])

DeliverUncounted(c, ct) ==
  /\ ct \notin Acct
  /\ Receive(c, [IdleSkb EXCEPT !.ct = ct])
  /\ UNCHANGED pkts

DeliverUntracked(c) ==
  /\ Receive(c, [IdleSkb EXCEPT !.ct = Untracked])
  /\ UNCHANGED pkts

DeliverAlien(c) ==
  /\ Foreign
  /\ Receive(c, [IdleSkb EXCEPT !.ct = Alien])
  /\ UNCHANGED pkts

(* the packet is dropped after conntrack counted it, before the hook *)
DropBeforeHook(c) ==
  /\ Goto(c, "hook", "idle")
  /\ skb' = [skb EXCEPT ![c] = IdleSkb]
  /\ UNCHANGED <<lock, flows, node, job, seen, stray, faults>>

-----------------------------------------------------------------------------
(* Into and out of the critical section *)

(* !can_handle(skb): goto out, although appflid_lock was not taken *)
Refuse(c) ==
  /\ Goto(c, "hook", "unlock")
  /\ skb[c].ct = Alien
  /\ UNCHANGED <<lock, flows, node, skb, job, seen, stray, faults>>

(* fault: a lock that does not exclude *)
LockIgnored(c) ==
  /\ Goto(c, "hook", "classify")
  /\ skb[c].ct # Alien
  /\ UNCHANGED <<lock, flows, node, skb, job, seen, stray, faults>>

Lock(c) ==
  /\ Goto(c, "hook", "classify")
  /\ skb[c].ct # Alien
  /\ Acquire(lock, lock')
  /\ UNCHANGED <<flows, node, skb, job, seen, stray, faults>>

(* the label out: spin_unlock_bh, return NF_ACCEPT; a loopback packet then *)
(* meets the second hook                                                   *)
Unlock(c) ==
  /\ pc[c] = "unlock"
  /\ Release(lock, lock')
  /\ IF skb[c].hooks = 2
       THEN /\ pc' = [pc EXCEPT ![c] = "hook"]
            /\ skb' = [skb EXCEPT ![c].hooks = 1]
       ELSE /\ pc' = [pc EXCEPT ![c] = "idle"]
            /\ skb' = [skb EXCEPT ![c] = IdleSkb]
  /\ job' = [job EXCEPT ![c] = NoJob]
  /\ stray' = (stray \/ skb[c].ct = Alien)
  /\ UNCHANGED <<flows, node, seen, faults>>

-----------------------------------------------------------------------------
(* core(), parts 2 and 3: which case is this packet? *)

(* fault: return from inside the critical section *)
ReturnLocked(c) ==
  /\ Goto(c, "classify", "idle")
  /\ skb[c].ct = Untracked
  /\ skb' = [skb EXCEPT ![c] = IdleSkb]
  /\ UNCHANGED <<lock, flows, node, job, seen, stray, faults>>

(* nf_ct_get() finds no connection: goto out *)
NoConntrack(c) ==
  /\ Goto(c, "classify", "unlock")
  /\ skb[c].ct = Untracked
  /\ UNCHANGED <<lock, flows, node, skb, job, seen, stray, faults>>

(* fault: the buffer is kept *)
IdentifiedKeepsData(c) ==
  /\ Goto(c, "classify", "inherit")
  /\ skb[c].ct \in Conns
  /\ proto[M(c)] # NoProto
  /\ job' = [job EXCEPT ![c].src = "master"]
  /\ Look(c)
  /\ UNCHANGED <<lock, flows, node, skb, stray, faults>>

(* part 2: the master has a label: free the buffer, pass the label on *)
Identified(c) ==
  /\ Goto(c, "classify", "free")
  /\ skb[c].ct \in Conns
  /\ proto[M(c)] # NoProto
  /\ job' = [job EXCEPT ![c].src = "master"]
  /\ Look(c)
  /\ UNCHANGED <<lock, flows, node, skb, stray, faults>>

(* fault: >= for > *)
GiveUpEarly(c) ==
  /\ Goto(c, "classify", "free")
  /\ Unlabelled(c)
  /\ Counted(M(c)) >= NumPackets
  /\ job' = [job EXCEPT ![c].src = "unknown"]
  /\ Look(c)
  /\ UNCHANGED <<lock, flows, node, skb, stray, faults>>

(* fault: out without a label *)
GiveUpSilently(c) ==
  /\ Goto(c, "classify", "unlock")
  /\ Unlabelled(c)
  /\ Counted(M(c)) > NumPackets
  /\ Look(c)
  /\ UNCHANGED <<lock, flows, node, skb, job, stray, faults>>

(* condition 1: enough packets seen, the label is "unknown" *)
GiveUp(c) ==
  /\ Goto(c, "classify", "free")
  /\ Unlabelled(c)
  /\ Counted(M(c)) > NumPackets
  /\ job' = [job EXCEPT ![c].src = "unknown"]
  /\ Look(c)
  /\ UNCHANGED <<lock, flows, node, skb, stray, faults>>

(* ... or not enough: the count is read again for condition 2, and another *)
(* CPU may have counted in between                                         *)
LookCloser(c) ==
  /\ Goto(c, "classify", "first")
  /\ Unlabelled(c)
  /\ Counted(M(c)) <= NumPackets
  /\ Look(c)
  /\ UNCHANGED <<lock, flows, node, skb, job, stray, faults>>

(* condition 2: on the first packet the port may tell *)
PortKnown(c) ==
  /\ Goto(c, "first", "label")
  /\ FirstPacket(c)
  /\ WellKnown[M(c)] # NoProto
  /\ job' = [job EXCEPT ![c].src = "wellknown"]
  /\ UNCHANGED <<lock, flows, node, skb, seen, stray, faults>>

(* condition 2: ... or a buffer is allocated for the payload *)
Allocate(c) ==
  /\ pc[c] = "first"
  /\ FirstPacket(c)
  /\ WellKnown[M(c)] = NoProto
  /\ \/ /\ Goto(c, "first", "append")
        /\ data' = [data EXCEPT ![M(c)] = "live"]
     \/ /\ LowMemory
        /\ Goto(c, "first", "unlock")
        /\ UNCHANGED data
  /\ UNCHANGED <<lock, pkts, proto, dlen, node, skb, job, seen, stray, faults>>

(* no buffer: "the first packet of this connection is not pass here" *)
NotCollecting(c) ==
  /\ Goto(c, "first", "nodata")
  /\ ~FirstPacket(c)
  /\ data[M(c)] = "null"
  /\ UNCHANGED <<lock, flows, node, skb, job, seen, stray, faults>>

Collecting(c) ==
  /\ Goto(c, "first", "append")
  /\ data[M(c)] # "null"
  /\ UNCHANGED <<lock, flows, node, skb, job, seen, stray, faults>>

LeaveNoData(c) ==
  /\ Goto(c, "nodata", "unlock")
  /\ UNCHANGED <<lock, flows, node, skb, job, seen, stray, faults>>

-----------------------------------------------------------------------------
(* free_appdata(mct): kfree, then clear the pointer *)

AfterFree(c) == IF job[c].src = "master" THEN "inherit" ELSE "label"

(* fault: the pointer is not cleared *)
FreeKeepsPointer(c) ==
  /\ Goto(c, "free", AfterFree(c))
  /\ data[M(c)] = "live"
  /\ data' = [data EXCEPT ![M(c)] = "freed"]
  /\ UNCHANGED <<lock, pkts, proto, dlen, node, skb, job, seen, stray, faults>>

FreeData(c) ==
  /\ Goto(c, "free", "freed")
  /\ data[M(c)] = "live"
  /\ data' = [data EXCEPT ![M(c)] = "freed"]
  /\ UNCHANGED <<lock, pkts, proto, dlen, node, skb, job, seen, stray, faults>>

FreeTwice(c) ==
  /\ pc[c] = "free"
  /\ data[M(c)] = "freed"
  /\ Oops(c, "double_free")
  /\ UNCHANGED <<lock, flows, node, skb, job, seen, stray>>

NothingToFree(c) ==
  /\ Goto(c, "free", AfterFree(c))
  /\ data[M(c)] = "null"
  /\ UNCHANGED <<lock, flows, node, skb, job, seen, stray, faults>>

ClearPointer(c) ==
  /\ Goto(c, "freed", AfterFree(c))
  /\ data' = [data EXCEPT ![M(c)] = "null"]
  /\ UNCHANGED <<lock, pkts, proto, dlen, node, skb, job, seen, stray, faults>>

(* if(!ct->appflid.app_proto) nf_ct_appflid_add(ct, mct->appflid.app_proto) *)
Inherit(c) ==
  /\ \/ Goto(c, "inherit", "label") /\ proto[skb[c].ct] = NoProto
     \/ Goto(c, "inherit", "unlock") /\ proto[skb[c].ct] # NoProto
  /\ UNCHANGED <<lock, flows, node, skb, job, seen, stray, faults>>

-----------------------------------------------------------------------------
(* nf_ct_appflid_add(): check, kmalloc and store, then copy the name *)

HasLabel(c) ==
  /\ Goto(c, "label", AfterLabel(c))
  /\ proto[Target(c)] # NoProto
  /\ UNCHANGED <<lock, flows, node, skb, job, seen, stray, faults>>

NeedsLabel(c) ==
  /\ Goto(c, "label", "alloc")
  /\ proto[Target(c)] = NoProto
  /\ UNCHANGED <<lock, flows, node, skb, job, seen, stray, faults>>

NewLabel(c) ==
  /\ Goto(c, "alloc", "copy")
  /\ ~StaleName(c)
  /\ proto' = [proto EXCEPT ![Target(c)] = Uninit]
  /\ UNCHANGED <<lock, pkts, data, dlen, node, skb, job, seen, stray, faults>>

(* kmalloc failed and net_ratelimit() lets the message through: bail *)
NoMemoryForLabel(c) ==
  /\ Goto(c, "alloc", AfterLabel(c))
  /\ LowMemory
  /\ ~StaleName(c)
  /\ UNCHANGED <<lock, flows, node, skb, job, seen, stray, faults>>

(* kmalloc failed and net_ratelimit() holds the message back: memset(NULL) *)
NoMemoryNoMessage(c) ==
  /\ LowMemory
  /\ pc[c] = "alloc"
  /\ ~StaleName(c)
  /\ Oops(c, "null_deref")
  /\ UNCHANGED <<lock, flows, node, skb, job, seen, stray>>

CopyLabel(c) ==
  /\ Goto(c, "copy", AfterLabel(c))
  /\ ~StaleName(c)
  /\ proto' = [proto EXCEPT ![Target(c)] = LabelOf(c)]
  /\ UNCHANGED <<lock, pkts, data, dlen, node, skb, job, seen, stray, faults>>

(* strlen(), strcpy() or the handler call go through a freed node *)
UseStaleNode(c) ==
  /\ pc[c] \in {"alloc", "copy", "handler"}
  /\ StaleName(c)
  /\ Oops(c, "stale_node")
  /\ UNCHANGED <<lock, flows, node, skb, job, seen, stray>>

-----------------------------------------------------------------------------
(* add_data(): the buffer is checked once, then written *)

(* skb_linearize() failed, or !mct->appflid.app_data: nothing is added *)
AppendNothing(c) ==
  /\ Goto(c, "append", "unlock")
  /\ UNCHANGED <<lock, flows, node, skb, job, seen, stray, faults>>

AppendCheck(c) ==
  /\ Goto(c, "append", "write")
  /\ data[M(c)] # "null"
  /\ UNCHANGED <<lock, flows, node, skb, job, seen, stray, faults>>

(* fault: no room left for the closing NUL *)
RoomLong(oldlength) ==
  {n \in 0..MaxSeg : n <= MaxDataLen - oldlength}

(* how many bytes that are not NUL a payload can add to oldlength bytes *)
Room(oldlength) ==
  {n \in 0..MaxSeg : n <= MaxDataLen - oldlength - 1}

Write(c) ==
  /\ pc[c] = "write"
  /\ data[M(c)] = "live"
  /\ \E n \in Room(dlen[M(c)]) :
       /\ dlen' = [dlen EXCEPT ![M(c)] = @ + n]
       /\ Goto(c, "write", IF n = 0 THEN "unlock" ELSE "find")
  /\ UNCHANGED <<lock, pkts, proto, data, node, skb, job, seen, stray, faults>>

(* the buffer went away between the check and the write, or before the     *)
(* pattern search reads it                                                 *)
UseFreedData(c) ==
  /\ pc[c] \in {"write", "find"}
  /\ data[M(c)] # "live"
  /\ Oops(c, "use_after_free")
  /\ UNCHANGED <<lock, flows, node, skb, job, seen, stray>>

-----------------------------------------------------------------------------
(* aproto_find(): the first listed node whose pattern matches, under       *)
(* aproto_lock; the node is used after that lock is gone                   *)

Match(c) ==
  /\ Goto(c, "find", "label")
  /\ data[M(c)] = "live"
  /\ \E n \in {x \in Nodes : node[x] = "listed"} :
       job' = [job EXCEPT ![c] = [src |-> "dpi", node |-> n]]
  /\ UNCHANGED <<lock, flows, node, skb, seen, stray, faults>>

NoMatch(c) ==
  /\ Goto(c, "find", "unlock")
  /\ data[M(c)] = "live"
  /\ UNCHANGED <<lock, flows, node, skb, job, seen, stray, faults>>

(* and->handler(...): the handler reads the packet and keeps nothing *)
CallHandler(c) ==
  /\ Goto(c, "handler", "unlock")
  /\ ~StaleName(c)
  /\ UNCHANGED <<lock, flows, node, skb, job, seen, stray, faults>>

(* aproto_remove(): unlink and kfree, whoever may hold the node *)
RemoveNode(n) ==
  /\ Unloads
  /\ node[n] = "listed"
  /\ node' = [node EXCEPT ![n] = "freed"]
  /\ UNCHANGED <<lock, flows, pc, skb, job, seen, stray, faults>>

-----------------------------------------------------------------------------
(* The specification *)

Arrive(c) ==
  \/ \E ct \in Conns : Deliver(c, ct) \/ DeliverUncounted(c, ct)
  \/ DeliverUntracked(c)
  \/ DeliverAlien(c)
  \/ DropBeforeHook(c)

Classify(c) ==
  \/ NoConntrack(c)
  \/ Identified(c)
  \/ GiveUp(c)
  \/ LookCloser(c)
  \/ PortKnown(c)
  \/ Allocate(c)
  \/ NotCollecting(c)
  \/ LeaveNoData(c)
  \/ Collecting(c)

FreeAppdata(c) ==
  \/ FreeData(c)
  \/ FreeTwice(c)
  \/ NothingToFree(c)
  \/ ClearPointer(c)
  \/ Inherit(c)

AddLabel(c) ==
  \/ HasLabel(c)
  \/ NeedsLabel(c)
  \/ NewLabel(c)
  \/ NoMemoryForLabel(c)
  \/ NoMemoryNoMessage(c)
  \/ CopyLabel(c)
  \/ UseStaleNode(c)

AddData(c) ==
  \/ AppendNothing(c)
  \/ AppendCheck(c)
  \/ Write(c)
  \/ UseFreedData(c)

Inspect(c) ==
  \/ Match(c)
  \/ NoMatch(c)
  \/ CallHandler(c)

(* a step of core() on CPU c other than waiting for the lock *)
Run(c) ==
  \/ Refuse(c)
  \/ Unlock(c)
  \/ Classify(c)
  \/ FreeAppdata(c)
  \/ AddLabel(c)
  \/ AddData(c)
  \/ Inspect(c)

Next ==
  \/ \E c \in CPUs : Arrive(c) \/ Lock(c) \/ Run(c)
  \/ \E n \in Nodes : RemoveNode(n)

Spec == Init /\ [][Next]_vars

(* A CPU inside core() runs with bottom halves disabled and does not       *)
(* sleep; a ticket lock serves the waiting CPUs in turn.                   *)
FairSpec ==
  /\ Spec
  /\ \A c \in CPUs : WF_vars(Run(c)) /\ SF_vars(Lock(c))

-----------------------------------------------------------------------------
(* Properties *)

TypeOK ==
  /\ lock \in LockStates
  /\ pkts \in [Conns -> Nat]
  /\ proto \in [Conns -> Labels \cup {NoProto, Uninit}]
  /\ data \in [Conns -> {"null", "live", "freed"}]
  /\ dlen \in [Conns -> 0..(MaxDataLen - 1)]
  /\ node \in [Nodes -> {"listed", "freed"}]
  /\ pc \in [CPUs -> PCs]
  /\ skb \in [CPUs -> Packets]
  /\ job \in [CPUs -> Jobs]
  /\ seen \subseteq Conns
  /\ stray \in BOOLEAN
  /\ faults \subseteq {"double_free", "use_after_free", "stale_node", "null_deref"}

(* CPU c has taken appflid_lock and not given it back *)
Inside(c) ==
  /\ pc[c] \notin {"idle", "hook"}
  /\ skb[c].ct # Alien

(* appflid_lock does its job: no two CPUs are in the critical section of   *)
(* core() at once.                                                         *)
MutualExclusion ==
  \A c, d \in CPUs : Inside(c) /\ Inside(d) => c = d

(* The one way to break the lock: as long as no CPU has left core() through *)
(* the "some protocol I can't handle" path, at most one CPU is in the       *)
(* critical section, and no buffer is freed twice or used after its free,   *)
(* whatever else happens (failed allocations, pattern modules removed).     *)
OnlyStrayUnlockBreaks ==
  \/ stray
  \/ /\ MutualExclusion
     /\ faults \subseteq {"stale_node", "null_deref"}

(* Without a stray unlock a label never changes, even if allocations fail   *)
(* and patterns are removed.                                                *)
LabelFinal ==
  [][stray' \/ \A ct \in Conns : proto[ct] \in Labels => proto'[ct] = proto[ct]]_vars

(* "don't free again" (free_appdata): no payload buffer is freed twice.    *)
NoDoubleFree == "double_free" \notin faults

(* add_data and aproto_find never touch a payload buffer that was freed    *)
(* under them: the check at the top of add_data is enough, or not needed.  *)
NoUseAfterFree == "use_after_free" \notin faults

(* "the first packet of this connection is not pass here": core() only     *)
(* finds no buffer when the connection's first packet did not come by.     *)
NoDataMeansFirstMissed ==
  \A c \in CPUs : pc[c] = "nodata" => M(c) \notin seen

(* A labelled child has its master's label, although the two are labelled  *)
(* by different packets, on different CPUs.                                *)
FamilyAgrees ==
  \A ct \in Conns : proto[ct] \in Labels => proto[Root[ct]] = proto[ct]

(* Every packet that has reached the hook leaves it: nobody waits for      *)
(* appflid_lock for ever.                                                  *)
PacketReleased ==
  \A c \in CPUs : (pc[c] = "hook") ~> (pc[c] = "idle")

(* Where no allocation fails (LowMemory = FALSE), a connection with         *)
(* accounting and more than NumPackets packets gets a label when core()     *)
(* looks at a packet of it or of one of its children.  One without          *)
(* accounting is counted as 0 (core.c:74): it is never given up, never has  *)
(* a first packet, and stays without a label unless its master has one.     *)
Decided ==
  \A c \in CPUs, ct \in Conns :
    Root[ct] \in Acct =>
      ((pc[c] = "classify" /\ skb[c].ct = ct /\ pkts[Root[ct]] > NumPackets)
         ~> (proto[Root[ct]] \in Labels))

(* The payload buffer of a labelled connection is freed by the next packet *)
(* core() looks at.                                                        *)
BufferReclaimed ==
  \A c \in CPUs, ct \in Conns :
    (pc[c] = "classify" /\ skb[c].ct = ct /\ proto[Root[ct]] \in Labels)
      ~> (data[Root[ct]] = "null")

(* The hook keeps the promises of module Flow: a label is final, comes     *)
(* from the port, a pattern or the packet count, and a child's label is    *)
(* its master's.  A label that is not copied yet counts as none.           *)
Promise ==
  INSTANCE Flow WITH
    proto <- [ct \in Conns |-> IF proto[ct] = Uninit THEN NoProto ELSE proto[ct]],
    DpiNames <- {NodeName[n] : n \in Nodes}

FlowPromise == Promise!FlowSpec
=============================================================================
