------------------------------ MODULE Registry ------------------------------
(***************************************************************************)
(* Protocol modules, src/mod/aproto.c: insmod runs register_aproto(), rmmod *)
(* runs unregister_aproto(), of several modules at the same time.  A module *)
(* ends up with a row of the counter table and a node of the pattern list; *)
(* both are found again by the protocol's name alone.  aproto_lock and     *)
(* count_lock are held for single steps, never from a check to what it is  *)
(* for.                                                                    *)
(***************************************************************************)
EXTENDS CountTable, FiniteSets, SequencesExt

CONSTANTS
  Mods,       \* protocol modules (qq.ko, ...)
  Confs,      \* what a module's configuration file may say
  Conf,       \* Conf[m]: m's configuration file
  BaseNames,  \* names with a row from the start: "unknown", well-known ports
  LowMemory   \* environment: kmalloc(GFP_ATOMIC) may fail

(* name: the protocol named by the first line, NoName if there is none;     *)
(* parses: parse_conf() returns 0; compiles: regcomp() accepts the pattern; *)
(* row: parse_conf() gets as far as count_add_proto() (not with a name that  *)
(* is too long, which the line without a ':' is taken for, too).            *)
ASSUME RegistryAssumption ==
  /\ \A c \in Confs : /\ c.row \in BOOLEAN
                      /\ c.parses \in BOOLEAN
                      /\ c.compiles \in BOOLEAN
                      /\ c.parses => c.row /\ c.name # NoName
  /\ Conf \in [Mods -> Confs]
  /\ IsFiniteSet(BaseNames)
  /\ Cardinality(BaseNames) <= MaxProto
  /\ IsFiniteSet(Mods)
  /\ LowMemory \in BOOLEAN

VARIABLES
  table,    \* the counter table
  aprotos,  \* the pattern list, each node by the module it was made for
  pc,       \* pc[m]: where m's init or exit function is
  overlap,  \* history: two modules registered one name at the same time
  refused   \* history: count_add_proto() found the table full

vars == <<table, aprotos, pc, overlap, refused>>

NameOf(m) == Conf[m].name

PCs == {"out", "read", "parsed", "checked", "compiled", "in", "unlisted"}

(* the rows count_init() and wellkn_port_init() have added, in some order *)
StartTable == TableOf(BaseNames)

Init ==
  /\ table = StartTable
  /\ aprotos = <<>>
  /\ pc = [m \in Mods |-> "out"]
  /\ overlap = FALSE
  /\ refused = FALSE

Goto(m, from, to) ==
  /\ pc[m] = from
  /\ pc' = [pc EXCEPT ![m] = to]

-----------------------------------------------------------------------------
(* register_aproto(); a failure is the module's init failing: it is out, and *)
(* its exit function will not run                                            *)

(* history: m passes is_contains_aproto() while another module with its      *)
(* name is past that check and not in the list                               *)
Overlaps(m) ==
  \E o \in Mods \ {m} :
    pc[o] \in {"checked", "compiled"} /\ NameOf(o) = NameOf(m)

(* read_confile() *)
ReadConf(m) ==
  /\ \/ Goto(m, "out", "read")
     \/ pc[m] = "out" /\ UNCHANGED pc
  /\ UNCHANGED <<table, aprotos, overlap, refused>>

(* parse_conf(): the row is added before anything is known to be right *)
ParseConf(m) ==
  /\ Goto(m, "read", IF Conf[m].parses THEN "parsed" ELSE "out")
  /\ IF Conf[m].row
       THEN /\ table' = AddProto(table, NameOf(m))
            /\ refused' = (refused \/ Full(table))
       ELSE UNCHANGED <<table, refused>>
  /\ UNCHANGED <<aprotos, overlap>>

(* the nodes named name in the list *)
Nodes(name) == {i \in 1..Len(aprotos) : NameOf(aprotos[i]) = name}

(* fault: the list is not searched *)
ContainsNothing(m) ==
  /\ Goto(m, "parsed", "checked")
  /\ overlap' = (overlap \/ Overlaps(m))
  /\ UNCHANGED <<table, aprotos, refused>>

(* is_contains_aproto() *)
IsContained(m) ==
  /\ Goto(m, "parsed", IF Nodes(NameOf(m)) # {} THEN "out" ELSE "checked")
  /\ overlap' = (overlap \/ (Nodes(NameOf(m)) = {} /\ Overlaps(m)))
  /\ UNCHANGED <<table, aprotos, refused>>

(* pre_process() and regcomp() *)
Compile(m) ==
  /\ \/ Goto(m, "checked", "compiled") /\ Conf[m].compiles
     \/ Goto(m, "checked", "out") /\ (~Conf[m].compiles \/ LowMemory)
  /\ UNCHANGED <<table, aprotos, overlap, refused>>

(* aproto_add() *)
AddNode(m) ==
  /\ \/ /\ Goto(m, "compiled", "in")
        /\ aprotos' = Append(aprotos, m)
     \/ /\ LowMemory
        /\ Goto(m, "compiled", "out")
        /\ UNCHANGED aprotos
  /\ UNCHANGED <<table, overlap, refused>>

-----------------------------------------------------------------------------
(* unregister_aproto() *)

(* fault: the node at the head of the list goes *)
RemoveHead(m) ==
  /\ Goto(m, "in", "unlisted")
  /\ aprotos' = IF aprotos = <<>> THEN <<>> ELSE RemoveAt(aprotos, 1)
  /\ UNCHANGED <<table, overlap, refused>>

(* aproto_remove(): the first node with m's name goes, if there is one *)
RemoveNode(m) ==
  /\ Goto(m, "in", "unlisted")
  /\ aprotos' = IF Nodes(NameOf(m)) = {}
                  THEN aprotos
                  ELSE RemoveAt(aprotos, Min(Nodes(NameOf(m))))
  /\ UNCHANGED <<table, overlap, refused>>

(* count_remove_proto() *)
RemoveRow(m) ==
  /\ Goto(m, "unlisted", "out")
  /\ table' = RemoveProto(table, NameOf(m))
  /\ UNCHANGED <<aprotos, overlap, refused>>

-----------------------------------------------------------------------------

Register(m) ==
  \/ ReadConf(m)
  \/ ParseConf(m)
  \/ IsContained(m)
  \/ Compile(m)
  \/ AddNode(m)

Unregister(m) ==
  \/ RemoveNode(m)
  \/ RemoveRow(m)

Next == \E m \in Mods : Register(m) \/ Unregister(m)

Spec == Init /\ [][Next]_vars

-----------------------------------------------------------------------------
(* Properties *)

(* count_index stays at or below MAX_PROTO, and above it the rows are      *)
(* zeroed.  Only after a full table has refused a row can it fall below 0:  *)
(* a removal without a row of its own counts down all the same.  Then the   *)
(* code writes in front of the arrays; those rows are not represented.      *)
TypeOK ==
  /\ table \in [slot : [Slots -> [name : {c.name : c \in Confs} \cup BaseNames \cup {NoName},
                                  active : {0}, inactive : {0}]],
                n : Int]
  /\ table.n <= MaxProto
  /\ refused \/ table.n >= 0
  /\ \A i \in Slots : i > table.n => table.slot[i] = ZeroRow
  /\ aprotos \in Seq(Mods)
  /\ pc \in [Mods -> PCs]
  /\ overlap \in BOOLEAN
  /\ refused \in BOOLEAN

(* the modules that have added a row named n and not taken it back *)
Holders(n) ==
  {m \in Mods : NameOf(m) = n /\ pc[m] \in {"parsed", "checked", "compiled", "in", "unlisted"}}

RowsFor(n) == Cardinality(Holders(n)) + (IF n \in BaseNames THEN 1 ELSE 0)

(* As long as the table has never been full, there are at least as many    *)
(* rows named n as modules, and well-known ports, that count on one: no    *)
(* failed or concurrent registration takes another protocol's row away.    *)
RowsKept ==
  refused \/ \A n \in {NameOf(m) : m \in Mods} \cup BaseNames :
               Cardinality(Named(table, n)) >= RowsFor(n)

(* Unless two modules register one name at the same time, no two nodes of  *)
(* the pattern list have the same name.                                    *)
NamesUnique ==
  overlap \/ \A i, j \in 1..Len(aprotos) :
               NameOf(aprotos[i]) = NameOf(aprotos[j]) => i = j

(* the modules named n that are loaded *)
Loaded(n) == {m \in Mods : pc[m] = "in" /\ NameOf(m) = n}

(* There are as many nodes of a name as modules of that name are loaded;    *)
(* and unless two modules register one name at the same time, they are the  *)
(* nodes of those modules: no node points to the handler of a module that   *)
(* is gone, none is missing.                                               *)
ListExact ==
  /\ \A n \in {NameOf(m) : m \in Mods} : Cardinality(Nodes(n)) = Cardinality(Loaded(n))
  /\ overlap \/ {aprotos[i] : i \in 1..Len(aprotos)} = {m \in Mods : pc[m] = "in"}
=============================================================================
