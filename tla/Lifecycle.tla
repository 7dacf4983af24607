------------------------------ MODULE Lifecycle ------------------------------
(***************************************************************************)
(* insmod and rmmod of appflid.ko, src/mod/nf_hook.c with the init and     *)
(* destroy functions of its parts and the parsing of wellkn_port.conf,     *)
(* while other CPUs deliver packets.  appflid_init() brings the parts up   *)
(* in order and, on a failure, takes down those that came up;              *)
(* appflid_exit() takes all of them down.                                  *)
(***************************************************************************)
EXTENDS Integers, Sequences, FiniteSets

CONSTANTS
  CPUs,        \* CPUs that deliver packets
  Ports,       \* port numbers in the configuration file
  Names,       \* protocol names in the configuration file
  Files,       \* what wellkn_port.conf may hold, each a sequence of Lines
  MaxProto,    \* MAX_PROTO, the size of the counter table
  MaxLoads,    \* bound: insmods
  MayFail      \* environment: allocations and registrations may fail

(* A line is a port with a name, or skipped (a comment, no ':'), or has    *)
(* something else than a 16-bit number for a port.                         *)
Entries == [kind : {"entry"}, port : Ports, name : Names]

Lines == Entries \cup [kind : {"skip", "bad"}]

ASSUME LifecycleAssumption ==
  /\ Files \subseteq Seq(Lines)
  /\ MaxProto \in Nat \ {0}
  /\ MaxLoads \in Nat
  /\ MayFail \in BOOLEAN

VARIABLES
  pc,       \* where appflid_init() or appflid_exit() is
  part,     \* index in Order of the part it is at
  up,       \* parts that are up
  held,     \* what the module has taken from the kernel and not given back
  hooked,   \* hooks of appflid_ops[] packets can enter
  closing,  \* the hook nf_unregister_hook() waits for, or 0
  rest,     \* lines of the configuration file still to be parsed
  rows,     \* names of the counter table's rows, in order
  refused,  \* history: names the full table had no row for
  tree,     \* entries of the well-known port tree
  lock,     \* wellkn_port_lock
  cpu,      \* cpu[c]: the hook CPU c is in, or 0, and where it is in core()
  loads,    \* history: insmods
  misread   \* history: wellkn_port_init() failed after it had its cache

vars == <<pc, part, up, held, hooked, closing, rest, rows, refused, tree, lock,
          cpu, loads, misread>>

parts == <<pc, part, up>>

hooks == <<hooked, closing, cpu>>

table == <<rows, refused>>

tables == <<rest, table, tree, lock>>

(* fault: the counters are set up after the rows are added *)
OrderCountLate == <<"config", "wellkn", "count", "aproto", "nl_log", "hooks">>

(* fault: packets come in before all the parts are up *)
OrderHooksEarly == <<"config", "count", "wellkn", "aproto", "hooks", "nl_log">>

(* the order of appflid_init() *)
Order == <<"config", "count", "wellkn", "aproto", "nl_log", "hooks">>

Parts == {Order[i] : i \in 1..Len(Order)}

Outside == [hook |-> 0, at |-> "out"]

Init ==
  /\ pc = "out"
  /\ part = 1
  /\ up = {}
  /\ held = {}
  /\ hooked = {}
  /\ closing = 0
  /\ rest = <<>>
  /\ rows = <<>>
  /\ refused = {}
  /\ tree = {}
  /\ lock = "free"
  /\ cpu = [c \in CPUs |-> Outside]
  /\ loads = 0
  /\ misread = FALSE

-----------------------------------------------------------------------------
(* appflid_init() *)

At(where, p) == pc = where /\ Order[part] = p

(* this part is up; after the last one the module is live *)
Succeed ==
  /\ up' = up \cup {Order[part]}
  /\ IF part = Len(Order)
       THEN pc' = "live" /\ UNCHANGED part
       ELSE pc' = "init" /\ part' = part + 1

(* fault: the part that failed is taken down, too *)
UnwindTooMuch == pc' = "down" /\ UNCHANGED <<part, up>>

(* fault: one label too far *)
UnwindTooLittle ==
  /\ IF part <= 2 THEN pc' = "out" /\ part' = 1 ELSE pc' = "down" /\ part' = part - 2
  /\ UNCHANGED up

(* goto err_...: the parts before this one are taken down *)
Unwind ==
  /\ IF part = 1 THEN pc' = "out" /\ part' = 1 ELSE pc' = "down" /\ part' = part - 1
  /\ UNCHANGED up

(* the module's static data is new *)
Insmod ==
  /\ pc = "out"
  /\ loads < MaxLoads
  /\ loads' = loads + 1
  /\ pc' = "init"
  /\ rest' = <<>>
  /\ rows' = <<>>
  /\ refused' = {}
  /\ tree' = {}
  /\ lock' = "free"
  /\ UNCHANGED <<part, up, held, hooks, misread>>

(* config_init() and nl_log_init(): one allocation each *)
InitSimple ==
  /\ \/ At("init", "config")
     \/ At("init", "nl_log")
  /\ \/ Succeed /\ held' = held \cup {Order[part]}
     \/ MayFail /\ Unwind /\ UNCHANGED held
  /\ UNCHANGED <<hooks, tables, loads, misread>>

(* count_init(): an empty table, the row "unknown", then the jprobe *)
InitCount ==
  /\ At("init", "count")
  /\ rows' = <<"unknown">>
  /\ refused' = {}
  /\ \/ Succeed /\ held' = held \cup {"jprobe"}
     \/ MayFail /\ Unwind /\ UNCHANGED held
  /\ UNCHANGED <<hooks, rest, tree, lock, loads, misread>>

(* aproto_init() cannot fail *)
InitAproto ==
  /\ At("init", "aproto")
  /\ Succeed
  /\ UNCHANGED <<held, hooks, tables, loads, misread>>

(* nf_register_hooks(): one hook after the other; on a failure it takes     *)
(* the first one back                                                      *)
InitHooks ==
  /\ At("init", "hooks")
  /\ \/ /\ hooked' = hooked \cup {Cardinality(hooked) + 1}
        /\ IF hooked' = {1, 2} THEN Succeed ELSE UNCHANGED parts
     \/ /\ MayFail
        /\ pc' = "down"
        /\ UNCHANGED <<part, up, hooked>>
  /\ UNCHANGED <<held, closing, cpu, tables, loads, misread>>

-----------------------------------------------------------------------------
(* wellkn_port_init() *)

(* kmem_cache_create() fails *)
NoCache ==
  /\ MayFail
  /\ At("init", "wellkn")
  /\ Unwind
  /\ UNCHANGED <<held, hooks, tables, loads, misread>>

(* the file is not there, or cannot be read: err is still -1 *)
NoFile ==
  /\ At("init", "wellkn")
  /\ held' = held \cup {"cache"}
  /\ misread' = TRUE
  /\ Unwind
  /\ UNCHANGED <<hooks, tables, loads>>

(* read_confile() does not end the buffer with a NUL: whatever lies behind *)
(* the file may be parsed as one more line                                 *)
Behind == {<<>>} \cup {<<l>> : l \in Lines}

(* nobody looks at what file_read() returns: it may have read less *)
ReadOf(f) == {SubSeq(f, 1, k) : k \in 0..Len(f)}

OpenFile ==
  /\ At("init", "wellkn")
  /\ pc' = "parse"
  /\ held' = held \cup {"cache"}
  /\ \E f \in Files, g \in Behind : \E r \in ReadOf(f) : rest' = r \o g
  /\ UNCHANGED <<part, up, hooks, table, tree, lock, loads, misread>>

(* parse_conf(): a line without an entry *)
SkipLine ==
  /\ pc = "parse"
  /\ rest # <<>>
  /\ Head(rest).kind = "skip"
  /\ rest' = Tail(rest)
  /\ UNCHANGED <<parts, held, hooks, table, tree, lock, loads, misread>>

BadLine ==
  /\ pc = "parse"
  /\ rest # <<>>
  /\ Head(rest).kind = "bad"
  /\ misread' = TRUE
  /\ Unwind
  /\ UNCHANGED <<held, hooks, tables, loads>>

Taken(l) == \E e \in tree : e.port = l.port

(* count_add_proto(): a full table refuses the row, and parse_conf() does   *)
(* not look                                                                *)
AddRow(name) ==
  IF Len(rows) < MaxProto
    THEN rows' = Append(rows, name) /\ UNCHANGED refused
    ELSE refused' = refused \cup {name} /\ UNCHANGED rows

(* count_add_proto() and wellkn_port_add() *)
AddLine ==
  /\ pc = "parse"
  /\ rest # <<>>
  /\ Head(rest).kind = "entry"
  /\ ~Taken(Head(rest))
  /\ lock = "free"
  /\ AddRow(Head(rest).name)
  /\ tree' = tree \cup {Head(rest)}
  /\ held' = held \cup {"entries"}
  /\ rest' = Tail(rest)
  /\ UNCHANGED <<parts, hooks, lock, loads, misread>>

(* no entry allocated: the row is there *)
NoEntry ==
  /\ MayFail
  /\ pc = "parse"
  /\ rest # <<>>
  /\ Head(rest).kind = "entry"
  /\ AddRow(Head(rest).name)
  /\ misread' = TRUE
  /\ Unwind
  /\ UNCHANGED <<held, hooks, rest, tree, lock, loads>>

(* fault: the error of one line is forgotten *)
DuplicateForgotten ==
  /\ pc = "parse"
  /\ rest # <<>>
  /\ Head(rest).kind = "entry"
  /\ Taken(Head(rest))
  /\ lock = "free"
  /\ AddRow(Head(rest).name)
  /\ held' = held \cup {"entries"}
  /\ lock' = "held"
  /\ rest' = Tail(rest)
  /\ UNCHANGED <<parts, hooks, tree, loads, misread>>

(* the port is in the tree: wellkn_port_add() returns and keeps the lock *)
DuplicateLine ==
  /\ pc = "parse"
  /\ rest # <<>>
  /\ Head(rest).kind = "entry"
  /\ Taken(Head(rest))
  /\ lock = "free"
  /\ AddRow(Head(rest).name)
  /\ held' = held \cup {"entries"}
  /\ lock' = "held"
  /\ misread' = TRUE
  /\ Unwind
  /\ UNCHANGED <<hooks, rest, tree, loads>>

EndOfFile ==
  /\ pc = "parse"
  /\ rest = <<>>
  /\ Succeed
  /\ UNCHANGED <<held, hooks, tables, loads, misread>>

-----------------------------------------------------------------------------
(* appflid_exit(), and what appflid_init() does after a goto *)

Rmmod ==
  /\ pc = "live"
  /\ pc' = "down"
  /\ part' = Len(Order)
  /\ UNCHANGED <<up, held, hooks, tables, loads, misread>>

(* this part is down; before the first one the module is out *)
Down ==
  /\ up' = up \ {Order[part]}
  /\ IF part = 1
       THEN pc' = "out" /\ UNCHANGED part
       ELSE pc' = "down" /\ part' = part - 1

(* nf_unregister_hooks(): unlink the last hook, wait for its readers *)
Unhook ==
  /\ At("down", "hooks")
  /\ closing = 0
  /\ hooked # {}
  /\ closing' = Cardinality(hooked)
  /\ hooked' = hooked \ {closing'}
  /\ UNCHANGED <<parts, held, cpu, tables, loads, misread>>

Synchronize ==
  /\ closing # 0
  /\ \A c \in CPUs : cpu[c].hook # closing
  /\ closing' = 0
  /\ UNCHANGED <<parts, held, hooked, cpu, tables, loads, misread>>

HooksDown ==
  /\ At("down", "hooks")
  /\ closing = 0
  /\ hooked = {}
  /\ Down
  /\ UNCHANGED <<held, hooks, tables, loads, misread>>

(* nl_log_destroy(), aproto_destroy(), count_destroy(), config_destroy() *)
Gives == [config |-> {"config"}, count |-> {"jprobe"}, aproto |-> {},
          nl_log |-> {"nl_log"}]

DownSimple ==
  /\ pc = "down"
  /\ Order[part] \in DOMAIN Gives
  /\ held' = held \ Gives[Order[part]]
  /\ Down
  /\ UNCHANGED <<hooks, tables, loads, misread>>

(* wellkn_port_destroy(): under the lock every entry, then the cache *)
DownWellkn ==
  /\ At("down", "wellkn")
  /\ lock = "free"
  /\ tree' = {}
  /\ held' = held \ {"cache", "entries"}
  /\ Down
  /\ UNCHANGED <<hooks, rest, table, lock, loads, misread>>

-----------------------------------------------------------------------------
(* Packets: hook_v4() calls core(), which may look the port up *)

Enter(c) ==
  /\ cpu[c] = Outside
  /\ \E h \in hooked, at \in {"find", "leave"} :
       cpu' = [cpu EXCEPT ![c] = [hook |-> h, at |-> at]]
  /\ UNCHANGED <<parts, held, hooked, closing, tables, loads, misread>>

(* wellkn_port_find() *)
FindPort(c) ==
  /\ cpu[c].at = "find"
  /\ lock = "free"
  /\ cpu' = [cpu EXCEPT ![c].at = "leave"]
  /\ UNCHANGED <<parts, held, hooked, closing, tables, loads, misread>>

Leave(c) ==
  /\ cpu[c].at = "leave"
  /\ cpu' = [cpu EXCEPT ![c] = Outside]
  /\ UNCHANGED <<parts, held, hooked, closing, tables, loads, misread>>

-----------------------------------------------------------------------------
(* The specification *)

InitWellkn ==
  \/ NoCache
  \/ NoFile
  \/ OpenFile
  \/ SkipLine
  \/ BadLine
  \/ AddLine
  \/ NoEntry
  \/ DuplicateLine
  \/ EndOfFile

BringUp ==
  \/ InitSimple
  \/ InitCount
  \/ InitWellkn
  \/ InitAproto
  \/ InitHooks

TakeDown ==
  \/ Unhook
  \/ Synchronize
  \/ HooksDown
  \/ DownSimple
  \/ DownWellkn

Next ==
  \/ Insmod
  \/ BringUp
  \/ Rmmod
  \/ TakeDown
  \/ \E c \in CPUs : Enter(c) \/ FindPort(c) \/ Leave(c)

Spec == Init /\ [][Next]_vars

(* insmod and rmmod run on; a CPU does not stay in a hook *)
FairSpec ==
  /\ Spec
  /\ WF_vars(BringUp)
  /\ WF_vars(TakeDown)
  /\ \A c \in CPUs : WF_vars(FindPort(c) \/ Leave(c))

-----------------------------------------------------------------------------
(* Properties *)

TypeOK ==
  /\ pc \in {"out", "init", "parse", "live", "down"}
  /\ part \in 1..Len(Order)
  /\ up \subseteq Parts
  /\ held \subseteq {"config", "jprobe", "cache", "entries", "nl_log"}
  /\ hooked \in {{}, {1}, {1, 2}}
  /\ closing \in 0..2
  /\ rest \in Seq(Lines)
  /\ rows \in Seq(Names \cup {"unknown"})
  /\ Len(rows) <= MaxProto
  /\ refused \subseteq Names
  /\ tree \subseteq Entries
  /\ lock \in {"free", "held"}
  /\ cpu \in [CPUs -> [hook : 0..2, at : {"out", "find", "leave"}]]
  /\ loads \in 0..MaxLoads
  /\ misread \in BOOLEAN
  /\ pc = "out" => up = {} /\ hooked = {} /\ closing = 0

(* A packet is in the hook only while every part it can reach is up, at     *)
(* insmod, at rmmod and after any failure.                                 *)
PartsUnderHook ==
  \A c \in CPUs : cpu[c].hook # 0 => Parts \ {"hooks"} \subseteq up

HasRow(name) == \E i \in 1..Len(rows) : rows[i] = name

(* "must init before wellkn_port and aproto" (appflid_init): when the module *)
(* is live "unknown" has a row to be counted in, and so has every           *)
(* well-known protocol that count_add_proto() did not refuse; it refuses    *)
(* one only when the table is full, and parse_conf() drops the result.      *)
RowPerPort ==
  pc = "live" =>
    /\ HasRow("unknown")
    /\ \A e \in tree : e.name \notin refused => HasRow(e.name)
    /\ refused # {} => Len(rows) = MaxProto

(* A module that is out, after an insmod that failed at any point or after *)
(* rmmod, has given everything back, except when wellkn_port_init() failed *)
(* over its file: then the cache and the entries stay.                     *)
NothingLeaks == pc = "out" /\ ~misread => held = {}

(* wellkn_port_lock is free whenever a packet can get to it, although a     *)
(* duplicate port leaves it locked.                                        *)
LockFreeUnderHook == hooked # {} \/ (\E c \in CPUs : cpu[c].hook # 0) => lock = "free"

(* insmod ends, with the module live or out, whatever fails. *)
InsmodEnds == (pc = "init") ~> (pc \in {"live", "out"})

(* rmmod ends while packets keep coming. *)
RmmodEnds == (pc = "down") ~> (pc = "out")
=============================================================================
