------------------------------ MODULE Counters ------------------------------
(***************************************************************************)
(* Counting, src/mod/count.c.  Three kinds of actors meet in one table:    *)
(* count_total() (one at a time, its caller nl_rcv holds a mutex) flushes  *)
(* the active column, walks the connections and prints; the jprobe on      *)
(* destroy_conntrack moves a dying connection's packets to the inactive    *)
(* column; and protocol modules add and remove rows.  count_lock is held   *)
(* for each lookup, but a row found is used after the lock is dropped; and  *)
(* the walk holds no reference to a connection it looks at, whose memory    *)
(* may be given to a new one at any time (SLAB_DESTROY_BY_RCU).             *)
(***************************************************************************)
EXTENDS CountTable, FiniteSets

CONSTANTS
  Conns,       \* connections of the conntrack table
  Names,       \* protocol names; labels are taken from these
  Base,        \* the names with a row from the start
  NoProto,     \* app_proto == NULL
  Uninit,      \* app_proto points to memory not written yet
  MaxPkts,     \* bound: packets of all connections together
  Turnover     \* bound: how often modules are registered and memory is used
               \* again, as pairs

ASSUME CountersAssumption ==
  /\ IsFiniteSet(Conns)
  /\ Base \subseteq Names
  /\ IsFiniteSet(Base)
  /\ Cardinality(Base) <= MaxProto
  /\ NoName \notin Names
  /\ NoProto \notin Names
  /\ Uninit \notin Names \cup {NoProto}
  /\ MaxPkts \in Nat \ {0}
  /\ Turnover \subseteq Nat \X Nat

VARIABLES
  table,    \* active[], inactive[] and count_index
  loaded,   \* the names of the protocol modules that are registered
  loads,    \* how many registrations there were
  acct,     \* connections created while nf_conntrack_acct was on
  label,    \* label[ct]: ct->appflid.app_proto
  pkts,     \* pkts[ct]: packets conntrack has counted for ct, its first included
  life,     \* life[ct]: is ct unconfirmed, in the hash table, on its way out?
  row,      \* row[ct]: the row count_inactive() found for ct
  rpc,      \* where count_total() is
  visited,  \* connections of the hash table count_active() has passed
  must,     \* connections it cannot miss: in the hash table since it began
  at,       \* the connection count_active() stands on, and the row it found
  reuses,   \* how often memory was used again
  hist,     \* history: what has happened that can spoil a count
  credit,   \* history: packets of destroyed connections, per name with a row
  truth     \* history: packets per name that were there to count at the flush,
            \* as long as nothing has disturbed the report

vars == <<table, loaded, loads, acct, label, pkts, life, row, rpc, visited, must, at,
          reuses, hist, truth, credit>>

modVars == <<loaded, loads>>

connVars == <<acct, label, pkts, life, row, reuses>>

walkVars == <<visited, must>>

readVars == <<rpc, walkVars, at, truth>>

(* What has happened that spoils a count.  "misplaced": a row was removed    *)
(* while count_inactive() had found it, or one that moved with it; and of    *)
(* the report being made, "disturbed": a connection was on its way out or    *)
(* took the memory of another, a row was added, a label was read that was    *)
(* not written yet, or the walk ended early or in another chain; "reused":   *)
(* memory the walk may stand on was given to another connection.             *)
Events == {"misplaced", "disturbed", "reused"}

(* What can happen to the row count_active() has found: "moved", the row was *)
(* removed, or one that moved with it; "raced", the label was read before it *)
(* was written; "swapped", the memory was given to another connection.       *)
Races == {"moved", "raced", "swapped"}

Lives == {"new", "hashed", "dying", "destroy", "gone"}

NoRow == [ct |-> NoProto, row |-> 0, races |-> {}]

NoReport == [n \in Names |-> 0]

(* events that spoil counts happen; of a report that is disturbed, nothing   *)
(* is claimed, and what there was to count is forgotten                     *)
Note(events) ==
  /\ hist' = hist \cup events
  /\ truth' = IF "disturbed" \in events THEN NoReport ELSE truth

Disturbed == IF rpc = "idle" THEN {} ELSE {"disturbed"}

(* the table after count_init() and wellkn_port_init() *)
StartTable == TableOf(Base)

Init ==
  /\ table = StartTable
  /\ loaded = {}
  /\ loads = 0
  /\ acct \in SUBSET Conns
  /\ label = [ct \in Conns |-> NoProto]
  /\ pkts = [ct \in Conns |-> 1]
  /\ life = [ct \in Conns |-> "new"]
  /\ row = [ct \in Conns |-> 0]
  /\ rpc = "idle"
  /\ visited = {}
  /\ must = {}
  /\ at = NoRow
  /\ reuses = 0
  /\ hist = {}
  /\ credit = NoReport
  /\ truth = NoReport

-----------------------------------------------------------------------------
(* Sums *)

PacketsOf(S) == SumFunctionOnSet(pkts, S)

(* the connections with a finished label n whose packets can be counted *)
Labelled(n) == {ct \in acct : label[ct] = n}

(* the packets of protocol n, of connections in the hash table or credited *)
TruthOf(n) ==
  credit[n] + PacketsOf({ct \in Labelled(n) : life[ct] \in {"hashed", "dying", "destroy"}})

(* fault: the row after the one that matched *)
RowsAfter(ct) ==
  CASE label[ct] = NoProto -> {0}
    [] label[ct] = Uninit  -> 0..table.n
    [] OTHER               -> {(Lookup(table, label[ct]) + 1) % (table.n + 1)}

(* the rows count_strcmp() may return for ct's label: what it reads of a   *)
(* label that is not written yet may look like any name                    *)
RowsFor(ct) ==
  CASE label[ct] = NoProto -> {0}
    [] label[ct] = Uninit  -> 0..table.n
    [] OTHER               -> {Lookup(table, label[ct])}

-----------------------------------------------------------------------------
(* Connections.  A packet holds a reference to its connection, so it can be *)
(* counted, and core() can label it, after the connection was unhashed; the *)
(* last reference is gone when destroy_conntrack() runs.                    *)

Referenced(ct) == life[ct] \in {"new", "hashed", "dying"}

Packet(ct) ==
  /\ Referenced(ct)
  /\ PacketsOf(Conns) < MaxPkts
  /\ pkts' = [pkts EXCEPT ![ct] = @ + 1]
  /\ UNCHANGED <<table, modVars, acct, label, life, row, reuses, readVars, hist, credit>>

(* nf_ct_appflid_add(): kmalloc and store, then strcpy *)
Identify(ct) ==
  /\ Referenced(ct)
  /\ \/ label[ct] = NoProto /\ label' = [label EXCEPT ![ct] = Uninit]
     \/ label[ct] = Uninit /\ \E n \in Names : label' = [label EXCEPT ![ct] = n]
  /\ UNCHANGED <<table, modVars, acct, pkts, life, row, reuses, readVars, hist, credit>>

(* the first packet has passed all hooks: the connection is in the hash table *)
Confirm(ct) ==
  /\ life[ct] = "new"
  /\ life' = [life EXCEPT ![ct] = "hashed"]
  /\ UNCHANGED <<table, modVars, acct, label, pkts, row, reuses, readVars, hist, credit>>

(* a timeout, a deletion, or the first packet was dropped *)
Leave(ct) ==
  /\ life[ct] \in {"new", "hashed"}
  /\ life' = [life EXCEPT ![ct] = "dying"]
  /\ visited' = visited \ {ct}
  /\ must' = must \ {ct}
  /\ Note(Disturbed)
  /\ UNCHANGED <<table, modVars, acct, label, pkts, row, reuses, rpc, at, credit>>

Free(ct) == life' = [life EXCEPT ![ct] = "gone"]

(* fault: the NULL of count_strcmp() is not looked at *)
DestroyLookupUnchecked(ct) ==
  /\ life[ct] = "dying"
  /\ label[ct] # Uninit
  /\ row' = [row EXCEPT ![ct] = Lookup(table, label[ct])]
  /\ life' = [life EXCEPT ![ct] = "destroy"]
  /\ UNCHANGED <<table, modVars, acct, label, pkts, reuses, readVars, hist, credit>>

(* count_inactive(), first half: the row is looked up under count_lock *)
DestroyLookup(ct) ==
  /\ life[ct] = "dying"
  /\ label[ct] # Uninit
  /\ \E i \in RowsFor(ct) :
       /\ row' = [row EXCEPT ![ct] = i]
       /\ IF i = 0 THEN Free(ct)
                   ELSE life' = [life EXCEPT ![ct] = "destroy"]
  /\ UNCHANGED <<table, modVars, acct, label, pkts, reuses, readVars, hist, credit>>

(* count_inactive(), second half: count_add() without the lock *)
DestroyAdd(ct) ==
  /\ life[ct] = "destroy"
  /\ ct \in acct
  /\ table' = AddInactive(table, row[ct], pkts[ct])
  /\ row' = [row EXCEPT ![ct] = 0]
  /\ credit' = [credit EXCEPT ![label[ct]] = @ + pkts[ct]]
  /\ Free(ct)
  /\ UNCHANGED <<modVars, acct, label, pkts, reuses, readVars, hist>>

(* ... which finds no accounting extension *)
DestroyNoAcct(ct) ==
  /\ life[ct] = "destroy"
  /\ ct \notin acct
  /\ row' = [row EXCEPT ![ct] = 0]
  /\ Free(ct)
  /\ UNCHANGED <<table, modVars, acct, label, pkts, reuses, readVars, hist, credit>>

(* The memory of a connection is given to a new one, without a label and    *)
(* with a packet of its own; who still looks at the old one now sees this.  *)
Reuse(ct) ==
  /\ life[ct] = "gone"
  /\ <<loads, reuses + 1>> \in Turnover
  /\ reuses' = reuses + 1
  /\ life' = [life EXCEPT ![ct] = "new"]
  /\ label' = [label EXCEPT ![ct] = NoProto]
  /\ pkts' = [pkts EXCEPT ![ct] = 1]
  /\ acct' \in {acct \cup {ct}, acct \ {ct}}
  /\ Note(Disturbed \cup IF rpc = "idle" THEN {} ELSE {"reused"})
  /\ at' = IF at.row # 0 /\ at.ct = ct THEN [at EXCEPT !.races = @ \cup {"swapped"}] ELSE at
  /\ UNCHANGED <<table, modVars, row, rpc, walkVars, credit>>

-----------------------------------------------------------------------------
(* count_total() *)

(* flush_counter(active), and count_active() starts *)
Begin ==
  /\ rpc = "idle"
  /\ rpc' = "walk"
  /\ table' = Flush(table)
  /\ visited' = {}
  /\ must' = {ct \in Conns : life[ct] = "hashed"}
  /\ IF \E ct \in Conns : life[ct] \in {"dying", "destroy"}
       THEN Note({"disturbed"})
       ELSE truth' = [n \in Names |-> TruthOf(n)] /\ UNCHANGED hist
  /\ UNCHANGED <<connVars, modVars, at, credit>>

(* the walk takes the next entry of the hash table *)
Visit(ct) ==
  /\ rpc = "walk"
  /\ life[ct] = "hashed"
  /\ ct \notin visited
  /\ visited' = visited \cup {ct}
  /\ at' = [NoRow EXCEPT !.ct = ct]
  /\ rpc' = "look"
  /\ UNCHANGED <<table, modVars, connVars, must, hist, truth, credit>>

(* count_strcmp(): its row is looked up under count_lock, by the label the  *)
(* memory holds now                                                        *)
Look ==
  LET races == IF label[at.ct] = Uninit THEN {"raced"} ELSE {}
  IN /\ rpc = "look"
     /\ Note({"disturbed" : race \in races})
     /\ \E i \in RowsFor(at.ct) :
          IF i = 0
            THEN at' = NoRow /\ rpc' = "walk"
            ELSE at' = [at EXCEPT !.row = i, !.races = races] /\ rpc' = "add"
     /\ UNCHANGED <<table, modVars, connVars, walkVars, credit>>

(* count_add(): the row found is used without the lock, for the packets the *)
(* memory holds now                                                        *)
VisitAdd ==
  /\ rpc = "add"
  /\ at.ct \in acct
  /\ rpc' = "walk"
  /\ table' = AddActive(table, at.row, pkts[at.ct])
  /\ at' = NoRow
  /\ UNCHANGED <<modVars, connVars, walkVars, hist, truth, credit>>

(* count_add() fails on a connection without accounting: the walk is over *)
VisitAbort ==
  /\ rpc = "add"
  /\ at.ct \notin acct
  /\ rpc' = "print"
  /\ at' = NoRow
  /\ Note({"disturbed"})
  /\ UNCHANGED <<table, modVars, connVars, walkVars, credit>>

(* A connection the walk stood on was freed, and its memory is used for one  *)
(* in another chain: the walk does not look at the nulls value the chain    *)
(* ends with, and meets there, and in the buckets it goes on with, what it  *)
(* has met before, or never gets to the rest.  (Bound: once for a reuse.)   *)
GoAstray ==
  /\ rpc = "walk"
  /\ "reused" \in hist
  /\ visited' \in SUBSET {ct \in Conns : life[ct] = "hashed"}
  /\ hist' = hist \ {"reused"}
  /\ UNCHANGED <<table, modVars, connVars, rpc, must, at, truth, credit>>

(* the walk has come to the end of the last bucket *)
WalkEnd ==
  /\ rpc = "walk"
  /\ must \subseteq visited
  /\ rpc' = "print"
  /\ UNCHANGED <<table, modVars, connVars, walkVars, at, hist, truth, credit>>

(* the rows are printed under count_lock; of two rows with one name the    *)
(* reader sees the sum                                                     *)
Printed(n) == SumFunctionOnSet([i \in Slots |-> Total(table, i)], Named(table, n))

Show ==
  /\ rpc = "print"
  /\ rpc' = "idle"
  /\ visited' = {}
  /\ must' = {}
  /\ truth' = NoReport
  /\ hist' = hist \cap {"misplaced"}
  /\ UNCHANGED <<table, modVars, connVars, at, credit>>

-----------------------------------------------------------------------------
(* Protocol modules: register_aproto and unregister_aproto *)

(* The row is added whatever is there already, even another of its name, and *)
(* stays if the registration fails later; a full table refuses it, which     *)
(* does not stop the registration.                                          *)
Load(n) ==
  /\ <<loads + 1, reuses>> \in Turnover
  /\ loads' = loads + 1
  /\ table' = AddProto(table, n)
  /\ loaded' \in {loaded, loaded \cup {n}}
  /\ Note(Disturbed)
  /\ UNCHANGED <<connVars, rpc, walkVars, at, credit>>

(* A row goes, of this name or else the last, and what is counted in it goes *)
(* with it; the rows behind it move.  (Bound: count_index stays at 0 or      *)
(* above; below, the code would write in front of the arrays.)              *)
Unload(n) ==
  LET gone == Leaving(table, n)
      Kept(count) == [m \in Names |-> IF Lookup(table, m) = gone THEN 0 ELSE count[m]]
      moved == at.row >= gone
  IN /\ n \in loaded
     /\ table.n > 0
     /\ table' = RemoveProto(table, n)
     /\ loaded' = loaded \ {n}
     /\ credit' = Kept(credit)
     /\ hist' = hist \cup {"misplaced" : ct \in {o \in Conns : row[o] >= gone}}
                      \cup (IF moved THEN {"disturbed"} ELSE {})
     /\ truth' = IF moved THEN NoReport ELSE Kept(truth)
     /\ at' = IF moved THEN [at EXCEPT !.races = @ \cup {"moved"}] ELSE at
     /\ UNCHANGED <<connVars, loads, rpc, walkVars>>

-----------------------------------------------------------------------------
(* The specification *)

Connection(ct) ==
  \/ Packet(ct)
  \/ Identify(ct)
  \/ Confirm(ct)
  \/ Leave(ct)
  \/ DestroyLookup(ct)
  \/ DestroyAdd(ct)
  \/ DestroyNoAcct(ct)
  \/ Reuse(ct)

CountTotal ==
  \/ Begin
  \/ \E ct \in Conns : Visit(ct)
  \/ Look
  \/ VisitAdd
  \/ VisitAbort
  \/ GoAstray
  \/ WalkEnd
  \/ Show

Next ==
  \/ \E ct \in Conns : Connection(ct)
  \/ CountTotal
  \/ \E n \in Names : Load(n) \/ Unload(n)

Spec == Init /\ [][Next]_vars

-----------------------------------------------------------------------------
(* Properties *)

Rows == [name : Names \cup {NoName}, active : Nat, inactive : Nat]

TypeOK ==
  /\ table.slot \in [Slots -> Rows]
  /\ table.n \in 0..MaxProto
  /\ loaded \subseteq Names
  /\ loads \in Nat
  /\ label \in [Conns -> Names \cup {NoProto, Uninit}]
  /\ acct \subseteq Conns
  /\ pkts \in [Conns -> 1..MaxPkts]
  /\ life \in [Conns -> Lives]
  /\ row \in [Conns -> 0..MaxProto]
  /\ rpc \in {"idle", "walk", "look", "add", "print"}
  /\ visited \subseteq Conns
  /\ must \subseteq Conns
  /\ at \in [ct : Conns \cup {NoProto}, row : 0..MaxProto, races : SUBSET Races]
  /\ \A ct \in Conns : life[ct] = "destroy" => row[ct] # 0
  /\ rpc \in {"look", "add"} => at.ct \in Conns
  /\ rpc = "add" => at.row # 0
  /\ reuses \in Nat
  /\ hist \subseteq Events
  /\ truth \in [Names -> Nat]
  /\ credit \in [Names -> Nat]

(* As long as no row is removed under the jprobe, the inactive column is    *)
(* exact: the row found for n holds the packets of the destroyed connections *)
(* labelled n, each counted once, since the row came, however destruction,   *)
(* labelling, reports and further rows of that name interleave.             *)
InactiveExact ==
  "misplaced" \notin hist =>
    \A n \in Names : Lookup(table, n) # 0 =>
      table.slot[Lookup(table, n)].inactive = credit[n]

(* A report during which no connection was leaving, none took the memory of  *)
(* another, no row was added and no label was read half written lies between *)
(* the packets there were at the flush and the packets there are now.  (Of a *)
(* protocol that lost its row meanwhile only the upper bound is claimed.)    *)
ReportSandwich ==
  [][Show /\ hist = {} =>
       \A n \in Names : Lookup(table, n) # 0 =>
         truth[n] <= Printed(n) /\ Printed(n) <= TruthOf(n)]_vars

(* Three races, and no others, add packets to the row of another protocol:  *)
(* a row was removed after the row to add to had been found ("misplaced" and *)
(* "moved"); and in the active column, the label was read half written       *)
(* ("raced"), or the connection looked up was freed and its memory given to  *)
(* another before its packets were read ("swapped").                        *)
OnlyRacesMisplace ==
  [][/\ \A ct \in Conns :
          DestroyAdd(ct) /\ "misplaced" \notin hist => table.slot[row[ct]].name = label[ct]
     /\ VisitAdd /\ at.races = {} =>
          table.slot[at.row].name = label[at.ct]]_vars
=============================================================================
