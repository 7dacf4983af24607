------------------------------- MODULE NdInfo -------------------------------
(***************************************************************************)
(* Bytes per server: the table of src/mod/ndinfo.c under its one caller,   *)
(* the core() of src/mod/core.nodeinfo.c.  A server is the address and port *)
(* a packet comes from (DOWN) or goes to (UP); a packet on an interface    *)
(* that is neither the users' nor the resources' (OTHER) is let pass.  A   *)
(* CPU looks the server up, drops ndinfo_lock, and takes it again to update *)
(* or to add the entry.                                                    *)
(* Kbuild builds ndinfo.c, with core.c in place of its caller.             *)
(***************************************************************************)
EXTENDS Naturals, FiniteSets, FiniteSetsExt

CONSTANTS
  CPUs,       \* CPUs that deliver packets
  Keys,       \* servers
  WellKnown,  \* WellKnown[k]: wellkn_port_find() for k's port, or None
  Patterns,   \* names pattern_find() may return
  Unknown,    \* "unknown"
  None,       \* NULL
  MaxPackets  \* bound: packets

Names == (Patterns \cup {Unknown} \cup {WellKnown[k] : k \in Keys}) \ {None}

Dirs == {"UP", "DOWN"}

Entry == [name : Names, bytes : [Dirs -> Nat]]

ASSUME NdInfoAssumption ==
  /\ IsFiniteSet(CPUs) /\ IsFiniteSet(Keys) /\ IsFiniteSet(Patterns)
  /\ WellKnown \in [Keys -> Names \cup {None}]
  /\ None \notin Patterns \cup {Unknown} \cup Entry
  /\ MaxPackets \in Nat

VARIABLES
  tree,     \* tree[k]: the entry of server k, or None
  count,    \* ndinfos.count
  lock,     \* ndinfo_lock, between two critical sections: "free" or "kept"
  cpu,      \* cpu[c]: where core() is on CPU c, and with which packet
  came,     \* history: came[d]: packets of direction d that came in
  unbooked, \* history: unbooked[d]: those without payload, or without memory for an entry
  dropped,  \* history: dropped[d]: those whose server was added meanwhile
  turned    \* history: packets down that were booked as up

ndVars == <<tree, count, lock, cpu, came, unbooked, dropped, turned>>

table == <<tree, count>>

books == <<came, unbooked, dropped, turned>>

NdPlaces == {"idle", "other", "find", "update", "wellkn", "pattern", "add"}

Idle == [at |-> "idle", key |-> None, dir |-> "UP", name |-> None]

NdInit ==
  /\ tree = [k \in Keys |-> None]
  /\ count = 0
  /\ lock = "free"
  /\ cpu = [c \in CPUs |-> Idle]
  /\ came = [d \in Dirs |-> 0]
  /\ unbooked = [d \in Dirs |-> 0]
  /\ dropped = [d \in Dirs |-> 0]
  /\ turned = 0

NdGoto(c, from, to) ==
  /\ cpu[c].at = from
  /\ cpu' = [cpu EXCEPT ![c].at = to]

(* c is about to enter a critical section of ndinfo_lock *)
Locks(c, where) ==
  /\ cpu[c].at = where
  /\ lock = "free"

Accept(c, from) ==
  /\ cpu[c].at = from
  /\ cpu' = [cpu EXCEPT ![c] = Idle]

GoAdd(c, from, name) ==
  /\ cpu[c].at = from
  /\ cpu' = [cpu EXCEPT ![c].at = "add", ![c].name = name]

Miss(c) == unbooked' = [unbooked EXCEPT ![cpu[c].dir] = @ + 1]

-----------------------------------------------------------------------------
(* core() of core.nodeinfo.c.  A packet has one byte. *)

Arrive(c, k, d) ==
  /\ cpu[c].at = "idle"
  /\ came["UP"] + came["DOWN"] < MaxPackets
  /\ cpu' = [cpu EXCEPT ![c] = [at |-> "find", key |-> k, dir |-> d, name |-> None]]
  /\ came' = [came EXCEPT ![d] = @ + 1]
  /\ UNCHANGED <<table, lock, unbooked, dropped, turned>>

(* on neither interface: the key is not made, nothing is booked *)
ArriveOther(c) ==
  /\ cpu[c].at = "idle"
  /\ cpu' = [cpu EXCEPT ![c] = [Idle EXCEPT !.at = "other", !.dir = "OTHER"]]
  /\ UNCHANGED <<table, lock, books>>

PassOther(c) ==
  /\ Accept(c, "other")
  /\ UNCHANGED <<table, lock, books>>

(* preprocess_ndinfo(): the entry is there ... *)
NdFind(c) ==
  /\ Locks(c, "find")
  /\ tree[cpu[c].key] # None
  /\ NdGoto(c, "find", "update")
  /\ UNCHANGED <<table, lock, books>>

(* ... or not; what comes down is unknown without a further look *)
NotFound(c) ==
  /\ Locks(c, "find")
  /\ tree[cpu[c].key] = None
  /\ IF cpu[c].dir = "DOWN"
       THEN GoAdd(c, "find", Unknown)
       ELSE NdGoto(c, "find", "wellkn")
  /\ UNCHANGED <<table, lock, books>>

(* wellkn_port_find() *)
FindPort(c) ==
  /\ cpu[c].at = "wellkn"
  /\ IF WellKnown[cpu[c].key] = None
       THEN NdGoto(c, "wellkn", "pattern")
       ELSE GoAdd(c, "wellkn", WellKnown[cpu[c].key])
  /\ UNCHANGED <<table, lock, books>>

(* no payload, or skb_linearize() fails: nothing is added *)
NoPayload(c) ==
  /\ Accept(c, "pattern")
  /\ Miss(c)
  /\ UNCHANGED <<table, lock, came, dropped, turned>>

(* pattern_find() *)
FindPattern(c) ==
  /\ \E name \in Patterns \cup {Unknown} : GoAdd(c, "pattern", name)
  /\ UNCHANGED <<table, lock, books>>

-----------------------------------------------------------------------------
(* ndinfo.c *)

(* fault: the bytes are set, not added *)
UpdateSets(c) ==
  /\ Locks(c, "update")
  /\ Accept(c, "update")
  /\ tree' = [tree EXCEPT ![cpu[c].key].bytes[cpu[c].dir] = 1]
  /\ UNCHANGED <<count, lock, books>>

(* ndinfo_update(): the entry found before, under the lock once more *)
Update(c) ==
  /\ Locks(c, "update")
  /\ Accept(c, "update")
  /\ tree' = [tree EXCEPT ![cpu[c].key].bytes[cpu[c].dir] = @ + 1]
  /\ UNCHANGED <<count, lock, books>>

(* ndinfo_add(): a new entry, whose bytes are UP whatever the direction *)
NdAdd(c) ==
  /\ Locks(c, "add")
  /\ tree[cpu[c].key] = None
  /\ Accept(c, "add")
  /\ tree' = [tree EXCEPT ![cpu[c].key] =
                [name |-> cpu[c].name, bytes |-> [UP |-> 1, DOWN |-> 0]]]
  /\ count' = count + 1
  /\ turned' = IF cpu[c].dir = "DOWN" THEN turned + 1 ELSE turned
  /\ UNCHANGED <<lock, came, unbooked, dropped>>

(* fault: an error with the lock, after every kmem_cache_alloc() *)
NoEntryKeepsLock(c) ==
  /\ Accept(c, "add")
  /\ lock' = "kept"
  /\ Miss(c)
  /\ UNCHANGED <<table, came, dropped, turned>>

(* kmem_cache_alloc() fails *)
NoEntry(c) ==
  /\ Accept(c, "add")
  /\ Miss(c)
  /\ UNCHANGED <<table, lock, came, dropped, turned>>

(* the server is there by now: ndinfo_add() returns an error, which core()  *)
(* does not act on, and with the lock; the packet is not booked            *)
Duplicate(c) ==
  /\ Locks(c, "add")
  /\ tree[cpu[c].key] # None
  /\ Accept(c, "add")
  /\ lock' = "kept"
  /\ dropped' = [dropped EXCEPT ![cpu[c].dir] = @ + 1]
  /\ UNCHANGED <<table, came, unbooked, turned>>

HasName(name) == {k \in Keys : tree[k] # None /\ tree[k].name = name}

(* ndinfo_count(): what is added to *up and *down for a name *)
CountOf(name, d) == SumFunction([k \in HasName(name) |-> tree[k].bytes[d]])

-----------------------------------------------------------------------------
(* The specification *)

Core(c) ==
  \/ PassOther(c)
  \/ NdFind(c)
  \/ NotFound(c)
  \/ FindPort(c)
  \/ NoPayload(c)
  \/ FindPattern(c)
  \/ Update(c)
  \/ NdAdd(c)
  \/ NoEntry(c)
  \/ Duplicate(c)

NdNext ==
  \E c \in CPUs :
    \/ Core(c)
    \/ ArriveOther(c)
    \/ \E k \in Keys, d \in Dirs : Arrive(c, k, d)

NdSpec == NdInit /\ [][NdNext]_ndVars

(* core() runs with bottom halves disabled; its CPU goes on.  The lock is a *)
(* ticket lock: whoever waits gets it.                                     *)
NdFairSpec == NdSpec /\ \A c \in CPUs : WF_ndVars(Core(c))

-----------------------------------------------------------------------------
(* Properties *)

Booked(d) == SumFunction([n \in Names |-> CountOf(n, d)])

InFlight(d) == Cardinality({c \in CPUs : cpu[c].at # "idle" /\ cpu[c].dir = d})

(* What ndinfo_count() finds in a direction, for all names together, are    *)
(* the packets of that direction that came in, but those still in core(),   *)
(* those without payload or memory for an entry, and those dropped because  *)
(* another CPU added their server after it was found missing; and the       *)
(* packets down that made an entry are booked as up.  Using an entry, found *)
(* or found missing, after ndinfo_lock was dropped goes wrong in no other   *)
(* way, and drops no second packet: whoever drops one keeps the lock.       *)
BooksBalance ==
  /\ Booked("UP") + InFlight("UP") + unbooked["UP"] + dropped["UP"] = came["UP"] + turned
  /\ Booked("DOWN") + InFlight("DOWN") + unbooked["DOWN"] + dropped["DOWN"] + turned = came["DOWN"]
  /\ dropped["UP"] + dropped["DOWN"] = IF lock = "free" THEN 0 ELSE 1
  /\ count = Cardinality({k \in Keys : tree[k] # None})

(* Every packet leaves core() again, unless two CPUs have added one server: *)
(* only then is ndinfo_lock kept.                                          *)
PacketsLeave ==
  \A c \in CPUs :
    (cpu[c].at # "idle") ~> (cpu[c].at = "idle" \/ dropped["UP"] + dropped["DOWN"] > 0)
=============================================================================
