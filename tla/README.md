# A verification development for appflid

appflid is a Linux kernel module (`src/mod`) that labels every connection of a
host with the application protocol it carries, counts packets per protocol, and
reports the counts to a program (`src/usr`). Protocol modules (`src/proto`) add
patterns to it. This directory holds TLA+ modules of that code, the
configurations TLC checks them with, and proofs TLAPS checks.

- `PROJECT.json` lists the components, the runs with their properties, for every
  property a fault of the code that breaks it (a mutant), the source lines each
  definition models, the hazards and the theorems.
- Definitions marked `fault:` are those mutants. No specification uses them.
- To repeat a run: `tlc -config core.cfg MCCore`; a proof:
  `tlapm CoreProofs.tla`.

## 1. The parts of the program

| part | source | state | operations |
|---|---|---|---|
| packet hook | `mod/core.c` | per connection `app_proto`, `app_data`, `app_data_len`; `appflid_lock` | `core()` on every packet, `nf_ct_appflid_add`, `add_data`, `free_appdata` |
| counting | `mod/count.c` | `active[]`, `inactive[]`, `count_index`, `count_lock` | `count_add_proto`, `count_remove_proto`, `count_total`, `count_inactive` (a jprobe on `destroy_conntrack`) |
| protocol registry | `mod/aproto.c` | the pattern list, `aproto_lock` | `register_aproto`, `unregister_aproto`, `aproto_find` |
| well-known ports | `mod/wellkn_port.c` | a red-black tree, `wellkn_port_lock`, a slab cache | init from a file, find, add, destroy |
| tree macros | `include/appflid/mod/rbtree.h` | - | find, add, clear |
| regular expressions | `mod/regexp.c` | a compiled program | `regcomp`, `regexec` |
| life cycle | `mod/nf_hook.c` | which parts are up, the two hooks | `appflid_init`, `appflid_exit` |
| configuration files | `mod/read_confile.c`, `kfile.c`, `config.c` | a buffer | read a file |
| netlink, kernel | `mod/nl_kcmd.c`, `mod/nl_log.c` | a mutex; the pid logs go to | input functions, sending |
| netlink, user | `usr/appflid.c`, `usr/nl_ucmd.c` | a socket | one request, one answer |
| QQ | `proto/qq.c` | - | a handler and its registration |
| node information | `mod/ndinfo.c`, `mod/core.nodeinfo.c` | a tree of servers, `ndinfo_lock` | find, update, add, count; the caller is not built |
| numbers | `include/appflid/mod/kstrtox.h` | - | `kstrtou16` |

How they meet:

- The hook runs in softirq context on all CPUs. It asks the port table, then the
  pattern list, each behind its own lock, while it holds `appflid_lock`.
- A connection's label is written by the hook and read, without `appflid_lock`,
  by the counters: by the walk of `count_total` and by the jprobe.
- Rows of the counter table belong to protocol names. `wellkn_port_init` and
  every `register_aproto` add one, `unregister_aproto` removes one.
- A request comes in through `nl_kcmd.c`, which calls `count_total` under `nl_mtx`.
- `appflid_init` brings six parts up in an order in which each may rely on the
  ones before, and takes down what came up if one fails.

What is hard: several CPUs in the hook; locks that cover a lookup but not the
use of what was found; connections that die, or are labelled, while they are
counted; registrations that fail halfway or overlap; insmod failing at any
point and rmmod under traffic; a tree torn down while it is walked; a compiler
in two passes that must agree. `PROJECT.json` lists each hazard at its line.

What makes each part correct, in short:

- hook: the lock excludes; a buffer is freed once and not used afterwards; a
  label is final, comes from the port, a pattern or the packet count, and is
  the same in a family of connections; every packet leaves; a decision is made;
- counting: every destroyed connection is credited exactly once, to its own
  row; a report lies between what was there at its start and at its end;
- registry: a loaded module keeps its row and its node, one that is gone has
  no node;
- life cycle: no packet meets a part that is not up; nothing is left behind;
- tree: a set of ports, each entry freed once, children first;
- regular expressions: exactly the patterns are accepted, and a match is found
  exactly when there is one;
- netlink: one report at a time, which stays in its buffer, answers to who
  asked, nobody is forgotten;
- node information: every packet is booked once, or it is known why not, and
  leaves; of two CPUs that add one server, one loses its packet;
- text and payload: a number is the number that was written, a pattern that is
  not warned of means the bytes it was written for, a verdict comes from the
  payload alone.

## 2. Modules

| module | models | role |
|---|---|---|
| `SpinLock` | `spin_lock_bh`, `spin_unlock_bh` | the lock primitive, external |
| `Core` | `core.c`, `aproto_find` | the hook, step by step |
| `Flow` | - | what the hook promises (abstract); `Core` implements it |
| `CoreProofs` | - | theorems about `Core` |
| `CountTable` | the table functions of `count.c` | operators shared by `Counters` and `Registry` |
| `CountTableProofs` | - | lemmas about tables, for the proofs about those two |
| `Counters` | `count.c` | report, jprobe, coming and going rows |
| `CountersProofs` | - | theorems about `Counters` |
| `Registry` | `aproto.c` | several protocol modules at once |
| `RegistryProofs` | - | theorems about `Registry` |
| `Lifecycle` | `nf_hook.c`, `wellkn_port.c`, `read_confile.c` | insmod, rmmod, packets |
| `LifecycleProofs` | - | theorems about `Lifecycle` |
| `PortTree` | `rbtree.h` | find, add, clear on trees of any shape |
| `PortSet` | - | what the table promises (abstract); `PortTree` implements it |
| `RegexLanguage` | - | which patterns are legal, what they match (abstract) |
| `Regexp` | `regexp.c` | compiler and matcher |
| `RegexpProofs` | - | theorems about `Regexp` |
| `Report` | `count_total` of `count.c` | the text of a report, as operators for `Netlink` |
| `Netlink` | `nl_kcmd.c`, `nl_log.c`, `src/usr` | both ends of the socket |
| `NdInfo` | `ndinfo.c`, `core.nodeinfo.c` | bytes per server, several CPUs |
| `Kstrtox` | `kstrtox.h` | reading a number, with the width of its integers |
| `PreProcess` | `pre_process`, `hex2dec`, `aproto_find` | what a pattern is compared with |
| `QQ` | `proto/qq.c` | what the handler reads of a payload |
| `PartsProofs` | - | theorems about `Netlink`, `Kstrtox`, `PreProcess`, `QQ`, `NdInfo`, `PortTree` |
| `SumProofs` | - | lemmas for the proofs: least counterexamples, repeated functions, sums |
| `MC...` | - | instances for TLC |

The modules meet in these places. `CountTable` is the one table both `Counters`
and `Registry` work on. `Counters` takes for granted that one report is made at
a time: that is `OneReport` of `Netlink`. `Core` takes a port lookup as an
answer: that the tree gives the right one is `TableIsSet` of `PortTree`. What
`Core`'s `Match` compares is what `PreProcess` makes of pattern and payload, and
the comparison is `Regexp`; the handler `CallHandler` calls is `QQ`. `Lifecycle`
takes a line with a bad number as an answer of `Kstrtox`. `Netlink` makes its
reports with `Report`.

### Core

One action per stretch of `core()` between two looks another CPU may take at
shared memory. `pc[c]` is the place in the function. `skb[c]` is the packet,
with the number of hooks it still crosses (`hooks = 2`: a loopback packet meets
`NF_INET_POST_ROUTING` and then `LOCAL_IN`, so its payload is appended twice).
`job[c]` is the label the CPU is about to set and its origin. `Root` is the end
of the chain of `master_ct()`.

| action | code |
|---|---|
| `Deliver`, `DeliverUncounted`, `DeliverUntracked`, `DeliverAlien`, `DropBeforeHook` | conntrack counts a packet; the hook sees it or does not |
| `Refuse`, `Lock`, `Unlock` | `can_handle`, the lock, the label `out` |
| `Identified`, `GiveUp`, `LookCloser`, `PortKnown`, `Allocate`, `NotCollecting`, `Collecting` | parts 2 and 3 of `core()` |
| `FreeData`, `FreeTwice`, `NothingToFree`, `ClearPointer` | `free_appdata`: `kfree`, then the pointer |
| `HasLabel`, `NeedsLabel`, `NewLabel`, `CopyLabel`, `NoMemory...` | `nf_ct_appflid_add`: the pointer is published before the name is copied |
| `AppendNothing`, `AppendCheck`, `Write` | `add_data`: one check, then writes |
| `Match`, `NoMatch`, `CallHandler`, `UseStaleNode`, `RemoveNode` | `aproto_find` and the node it returns |

An undefined access (freed memory, NULL) ends the CPU's run in `oops` and is
noted in `faults`. The constants `Foreign`, `LowMemory`, `Unloads`, `Loopback`
switch parts of the environment on. `Acct` are the connections with an accounting
extension; `total_acct_packets` (`Counted`) is 0 for the others however many
packets they have, and it is called once for each of the two conditions
(`GiveUp` or `LookCloser`, then `PortKnown`, `Allocate` or what follows).

The payload is abstracted to how many of its bytes are not NUL; whether a
pattern matches is a choice. `seen` and `stray` are history variables.

### Counters, CountTable, Registry

A table is a function of slots with a fill count; removing a row moves the rows
behind it up. `Counters` has an action per step of `count_total` (`Begin` with
the flush; for each connection `Visit`, the lookup `Look` and the addition
`VisitAdd`; the printing), of the dying of a connection (`destroy`, lookup,
addition), and of a connection's life (creation, packets, labelling in two
steps, as `Core` does it). `life[ct] = "dying"` is the time between leaving the
hash table and `destroy_conntrack`. Reports are made without end.

The walk holds no reference, and a `struct nf_conn` may be freed and given to a new
connection at any moment (`Reuse`, as of SLAB_DESTROY_BY_RCU). `at` is the
connection the walk stands on with the row found for it; `Look` and `VisitAdd` read
whatever the memory holds by then, a dead connection or a new one. `at.races` notes
what happened to that row meanwhile: it moved, it was found by a label half
written ("raced"), or the memory got another owner ("swapped"). `GoAstray` is a
walk whose connection was given away: it goes on in another chain, and may meet
connections again or never (once for a reuse).

Modules come (`Load`) with whatever there is in the table: a name that has a row
gets another one, a full table refuses it. `Unload` takes the row of the name, or
the last one if the name has none, as `count_remove_proto` does. `hist` notes what
may spoil a count, so that a property can say exactly which events do; `credit`
keeps the packets of the destroyed connections and `truth` what there was to
count at a flush.

`Registry` runs `register_aproto` and `unregister_aproto` of several modules.
A module's configuration file is a record of what its parse yields. Names are
looked up, rows added and nodes inserted in separate steps, as the locks are
held.

### Lifecycle

`part` is how far `appflid_init` has got in `Order`; `up` says what is
initialised, `held` what has been taken from the kernel. `rows` are the rows of
the counter table: it holds `MaxProto`, one more is refused (`AddRow`), and
`parse_conf` goes on without it (`wellkn_port.c:103`), which `refused`
remembers. The parse of `wellkn_port.conf` takes one line at a time. `Behind` is
one more arbitrary line: `read_confile` does not end its buffer with a NUL.
`ReadOf` is what `file_read` may have read of the file: any first part of it, as
nobody looks at its result. `hooked` and `closing` model `nf_register_hooks`,
`nf_unregister_hooks` and the wait for readers.

### PortTree

Pointers are functions from ports to ports. The kernel's rebalancing
(`rb_insert_color`) is external and stands as any sequence of rotations, so
`rbtree_clear` meets every shape. A loop over the tree is its body repeated
(`Repeat`) as often as there can be nodes: the descent of find and add, the way
to the leftmost leaf, and what can be reached from the root.

### Regexp

A pattern is a sequence of tokens; a backslash with its character and a class
in brackets are one token each. Code is a sequence of cells, one per byte; the
relative pointer of a node is kept with its first byte. The compiler is `reg`,
`regbranch`, `regpiece`, `regatom`, each run for either pass on a
`match_globals`. They call each other in a circle, which is cut at `reg`: the
ones below it take what `reg` does with a parenthesis as a parameter, and
`Group[n]` is that for parentheses nested at most `n` deep, more than
`NSUBEXP - 1` of which are never open. A loop is its body repeated (`Iterated`)
as often as there are characters left. `Dig` finds the three shortcuts; the
matcher is the recursive function `regmatch` with `regrepeat` and `regtry`. The
groups' positions (`startp`, `endp`) and `regsub` have no user in appflid.

### Netlink

A client's `sendmsg` runs the kernel's input function in its own context. The
constant `Kernels` says which of the two kernel ends may be linked.
`src/mod/Kbuild` builds `nl_log.c`; `nl_kcmd.c` holds the only caller of
`count_total` and is built by nothing. Both are modelled. `Args` is a program's
command line and `Key` the key `parse_opt` makes of it. The report is written
line by line (`PrintRow`), each line one of `LineLens` long; `text` keeps what
`count_total` measures. An overrun ends in `oops`.

### NdInfo

`cpu[c]` is the packet on CPU `c` and its place between the critical sections
of `ndinfo_lock`: looked up, about to be updated or added. A critical section
that gives the lock back is one action; `ndinfo_add` with a server that is there
already does not, and leaves `lock = "kept"`. A packet has one byte. The books are
kept per direction: `came` in, `unbooked` (no payload, no memory), `dropped` because
another CPU added the server meanwhile, `turned` from down to up. `ArriveOther` and
`PassOther` are a packet on an interface of neither side, which is let pass.

### Kstrtox, PreProcess, QQ

Each is one call of a sequential function, one action per round of its loop or
stretch between two checks, with a history variable for what the result ought to
be: `value`, the number without overflow; `meant`, the bytes a pattern was
written for, and `escapes`, which of them are written `\xHH`; `reads`, how far
into the payload the handler has looked. `warned` is that `pre_process` printed
one of its warnings (`aproto.c:97`) about an escape that will not be a byte for
`regcomp`. Bytes `qq_handler` reads past the end of the payload may have any
value.

## 3. Runs

| run | states | what it asks |
|---|---|---|
| `core` | 82761 | two CPUs, a connection, its child and one without accounting: mutual exclusion, family agreement, `Core` implements `Flow`; every packet leaves, a decision is made about connections with accounting, buffers are given back |
| `core_stress` | 3476188 | refused packets, failing allocations, two patterns removed, packets that cross two hooks: only the stray unlock breaks the lock or a buffer; labels are final |
| `core_double_free` | violation | `NoDoubleFree` |
| `core_first_packet` | violation | `NoDataMeansFirstMissed` |
| `counters` | 2531195 | two connections whose memory may be used again, rows that come and go: inactive column exact, an undisturbed report lies between the packets at its two ends, only removals, half-written labels and memory given away under the walk misplace packets |
| `registry` | 260768 | five modules, three of one name, one of these without a pattern, one without a `:`: rows kept, list exact |
| `life` | 4622 | two insmods with all failures, four files, a table of two rows, two CPUs: parts, rows or a full table, leaks, lock, termination |
| `netlink` | 10832 | three clients, both kernel ends, all failures, reports of up to four lines: one from its flush to its last line at a time, in their buffer, to who asked, and no one waits for ever |
| `tree_set` | 7542 | all trees of up to five ports in all shapes implement `PortSet` |
| `regexp` | 142885 | 4-token patterns and longer ones against all 3-letter texts |
| `ndinfo` | 170693 | two CPUs, two servers, six packets: the books balance in either direction, with one packet lost at most, and packets leave |
| `texts` | 49981 | numbers are exact, patterns without a warning say what they were written for, the handler's verdict comes from the payload |

### Bounds

- Hook: two CPUs suffice for a race over a pair of steps; the proofs (section 5)
  have any number of CPUs, connections and packets, so the runs are there for
  liveness, which is not proved, and to confront the invariants with a fault.
  `core`: `MaxPkts = 3` with `NumPackets = 2` leaves room for a first packet,
  one that collects, and one after the decision, on master and child;
  `MaxDataLen = 3` with segments of up to 2 fills the buffer; a third connection,
  without accounting, stands next to the family. `core_stress` has
  a connection to a well-known port and one without, whose second packet finds
  it given up (`NumPackets = 1`), and two patterns.
- Counters: two connections make a report that has one behind it and one in
  front. Three packets in all tell an addition from an assignment. The number of
  reports has no bound: a report meets what any earlier one left. `Turnover` bounds
  what else comes anew: two registrations (a second row of one name, a full table
  of `MaxProto = 2`) or one use of memory again, not both in one run; the proofs
  have no such bound. The connections are interchangeable (symmetry).
- Registry: two modules of one name to overlap, one to move rows, one to fail
  after its row, one to fail without a row. `MaxProto = 7` has room for all of
  them and one slot more; registrations that fail leave rows behind and fill it
  (`refused`).
- Life cycle: files that are empty, correct, with a duplicate port, with a bad
  port. The table has two rows, so that the second protocol of a file is
  refused. Two insmods, so that the second meets what the first left.
- Netlink: two askers and a third program with another key; each sends once.
  The buffer is scaled down from 1024 bytes to 11, with lines of 3 or 4 bytes:
  three equal lines, four, a longer line first and a longer line last.
- Node information: a server at a well-known port and one without, so that each
  way to a name is taken; six packets are three for each of two CPUs, to add a
  server twice and to update it after.
- Texts: integers of 8 bits (`Wide = 256`) and results of 5 (`Narrow = 32`), so
  that four characters wrap them, several times in base 16; the theorem has all
  widths. Every byte as a pattern, and three of seven: a digit and an `x` to make
  escapes by accident, a backslash, a NUL, a capital, two bytes above ASCII. For
  `qq_handler` payloads from 1 byte to more than it ever needs.
- Tree: five entries have all shapes with a node of two children below another.
- Regexp: up to exchanging the two letters, every sequence of at most four
  tokens, legal or not, over two letters and all nine metacharacters; eleven
  longer ones for nested groups under multipliers. `NSUBEXP = 3` (10 in the
  code) makes "too many ()" happen, `MaxSize = 56` (32767 in the code) "regexp
  too big", for a pattern with one byte of code more than the largest that is
  accepted.

`CHECK_DEADLOCK FALSE` stands where the system may stop: every program has its
answer or waits for none to come, insmods are used up, a pattern, a number or a
payload is dealt with, a tree is emptied, the packets of `ndinfo` are used up,
every CPU of a stressed hook is in `oops`. Everywhere else deadlock is checked:
in `core`, where untracked packets keep coming, in `counters`, where the next
report can always be made, and in `registry`, where modules can be loaded again.

### Fairness

- Hook: inside `core()` bottom halves are off and nothing sleeps: weak fairness
  of a CPU's steps. A ticket lock serves CPUs in turn: strong fairness of `Lock`.
- Life cycle: insmod and rmmod go on while they can; a CPU in the hook leaves it.
  Nothing forces an insmod, an rmmod or a packet.
- Netlink: programs and kernel go on; a blocked `recvmsg` need not fail. Every
  client sends once, so weak fairness for the mutex is enough.
- Node information: `core()` runs in softirq context and does not sleep; its CPU
  goes on, and a bounded number of packets makes weak fairness enough for a lock
  served in turn.
- Tree: a call that has begun runs to its end.

## 4. What was found

Two runs end in a violation and are listed as findings:

1. `core_double_free`. A packet that is not TCP, UDP or ICMP goes to `out`
   (`core.c:172`) and releases `appflid_lock`, which it did not take. A third CPU
   then enters another one's critical section, and two free one buffer.
2. `core_first_packet`. The comment at `core.c:228` concludes from a missing
   buffer that the first packet did not come by. With two CPUs the second
   packet may be counted before the first one has the lock; then neither sees
   a count of 1, no buffer is made and the port is never looked up.

These were seen while modelling; the models take the steps, and the properties
are stated around them:

- A connection dying between the walk and the printing is in both columns
  (`ReportSandwich` excludes it by `hist`).
- A connection without accounting ends the walk; the error is dropped. In the hook
  its packets count as 0 (`core.c:72`), so it is never given up as unknown and its
  port is never looked up; without a master that has a label it stays without
  one. `Decided` is about the others.
- A row found under `count_lock` may have moved when it is added to.
- The connection `count_active` has found a row for may be gone when its packets are
  read, and its memory another connection's, whose packets then go to that row
  (`count.c:154`). `OnlyRacesMisplace` names this race.
- Two overlapping registrations of one name both get in; then `rmmod` of one
  may remove the other's node.
- A full table leaves a protocol uncounted, and its removal takes another row. That
  goes for well-known protocols, too: `parse_conf` does not look at the refusal
  (`wellkn_port.c:103`), so `RowPerPort` has the exception of a full table.
- The node `aproto_find` returns may be freed before it is used.
- A failed `kmalloc` is survived only if `net_ratelimit()` allows the message
  (`core.c:130`).
- `wellkn_port_init` that fails over its file leaks its cache and entries, and a
  duplicate port leaves `wellkn_port_lock` held. `LockFreeUnderHook` and its
  theorem show that no packet ever waits for it: insmod has failed by then.
- `nl_log.c` never answers a request; `nl_kcmd.c` answers only the request for
  all counts, while `usr/appflid.c` waits after every request. `AllAnswered`
  is stated for the combination that answers.
- `count_total` overruns its buffer when a line is longer than the first one by
  more than the room it keeps (`count.c:216`); with no longer line it never does
  (`ReplyFits`, proved).
- `pre_process` puts a byte into lower case with `tolower`, which in the kernel
  knows ISO 8859-1, `aproto_find` only ASCII bytes (`aproto.c:35`): a pattern with
  one of the bytes C0 to DE (but D7), as itself or as an escape, never matches
  that byte. `PatternSays` is stated without them.
- An escape of a character that is an operator for `regcomp` (`\x2e` for a dot), or
  of NUL, does not stand for its byte: the pattern is compiled with the operator, or
  ends. `pre_process` warns of each of these (`aproto.c:97`), and `PatternSays` is
  about patterns it has not warned of.
- `ndinfo_add` returns with `ndinfo_lock` when the server is there already
  (`ndinfo.c:66`), which takes two CPUs that add it at once. The packet of the
  second is lost from the books (`dropped`), as `core()` does nothing about the error.
- A server whose first packet is seen coming down is "unknown" for good
  (`core.nodeinfo.c:79`), and those bytes are counted as going up (`ndinfo.c:56`).
- `qq_handler` looks at bytes behind a payload of one or two bytes; it then
  refuses the payload whatever it has read (`VerdictFromPayload`).

## 5. Proofs

`CoreProofs` is about every number of CPUs, every set of connections and
families, all sizes. The inductive invariant is

    IndInv == TypeInv /\ (stray \/ Locked)

- `TypeInv` is `TypeOK` with where a packet can be (`Placed`) and what a job
  stands for (`JobFits`): without these, that a label has its type is not
  inductive.
- `Locked` holds until the first stray unlock. Next to mutual exclusion it says
  who may see intermediate states: a freed buffer whose pointer still stands
  belongs to the CPU about to clear it (`FreedBriefly`), a label not yet copied
  to the CPU copying it (`UninitOwned`, `LabelSlot`), and a buffer that passed
  the check stays until it is written (`DataLives`).

Every action gets a lemma about the type part and one about `Locked`; actions
that move only `pc` share one. From it follow

| theorem | states |
|---|---|
| `TypeCorrect` | `Spec => []TypeOK`; in it, the length leaves room for the closing NUL |
| `OnlyStrayUnlock` | until a stray unlock the lock excludes, no double free, no use after free |
| `LabelsAreFinal` | until then labels never change |
| `Mutex`, `BuffersSafe`, `FamiliesAgree` | with `Foreign = FALSE` (no such packet arrives) unconditionally |
| `Refinement` | with `Foreign = FALSE`, `Core` implements `Flow` |

`LifecycleProofs` is about every number of CPUs, insmods, ports and files. How
far insmod or rmmod has got decides what is up (`Stage`), packets can be in the
hook only at the last stage (`HookStage`, `Readers`), the lock is left locked
only on the way out (`LockStage`), what is held belongs to a part that is up
(`HeldByParts`) and rows are there before entries, or the table is full
(`RowsFirst`). The table may have any number of rows. Theorems: `TypeCorrect`,
`PartsAreUp`, `RowsThere`, `AllGivenBack`, `LockFree`: all five invariants of
the run `life`.

`RegistryProofs` is about every number of modules with any configuration files
and any table, with more modules than rows as well.
The table's part of the inductive invariant adds to `TypeOK` and `RowsKept` that,
until the full table has refused a row, there are at least as many rows as modules
that will take one back (`RoomKept`), so that until then `count_index` does not go
below 0. The list's part adds to `NamesUnique` and
`ListExact` that a module between its check and its node is the only one of its
name, in the list and on the way there (`Alone`), unless registrations overlap.
Theorems: `TypeCorrect`, `RowsAreKept`, `NamesAreUnique`, `ListIsExact`, the four
invariants of the run `registry`.

`CountersProofs` is about every number of connections, protocols and rows, and
registrations and uses of memory again without bound. The
inductive invariant says, until a row is removed under the jprobe, that

- the row a dying connection has found is the one it would find now (`Found`);
- the inactive count of a name's row is what was credited to the name, and a name
  without a row has no credit (`Exact`);
- a row that is not in use, or that is not found because another one of its name
  comes first (`Spare`), has an inactive count of 0 (`Clear`): `count_add_proto` sets
  only the name, and the second row may become the first.

The walk's row is the one it would find unless one of the three races happened
to it (`Standing`), and each of them disturbs the report. About a report under
way the invariant (`ReportInv`) says that until something in `hist` happens

- no connection is dying, and the ones the walk met or has to meet are in the hash
  table (`Staying`); a use of memory again is such an event (`Wandering`);
- what there was at the flush is at most the credit since, the active count of the
  row and the packets of the connections in front of the walk, and the active
  count is at most the packets of those behind it (`Between`).

Both ends of `ReportSandwich` follow when the walk is over: nothing is in front
of it. Theorems: `TypeCorrect`, `InactiveIsExact`, `ReportsAreRight`,
`OthersDoNotMisplace`, all four properties of the run `counters`.

Both rest on `CountTableProofs`: what adding and dropping a row does to the rows
of a name (`AddNamed`, `DropNamed`, `CountNamed`) and to what a lookup finds
(`LookupAdd`, `LookupDrop`), whether the name has a row or not (`LeavingFacts`).

`PartsProofs` is about the smaller parts.

- `Netlink`, with every number of programs with any options, any buffer length and
  lines. The inductive invariant (`NetlinkInv`) adds to `TypeOK`: a program is
  inside `nl_rcv` only if it holds the mutex (`Held`), whoever prints or has an
  answer was counted (`Counted`), and while lines are printed none is longer than
  the first or the last one is the longer (`Writing`). Theorems:
  `NetlinkTypeCorrect`, `OneAtATime`, `AnswersToAsker`, `RepliesFit`, the four
  invariants of the run `netlink`. `OneAtATime` (from its flush to its
  last line, a report has `count_total` to itself) is what `Counters` takes for granted.
- `Kstrtox`, with every text, base and width. Until a digit would not fit, `res` is
  the number; from then on the number stays too large, whatever `res` has become
  (`Progress`). This rests on the lemma that the check at `kstrtox.h:45` is exact for
  bases of at most 16 (`WrapsExact`). Theorem: `NumbersAreExact`.
- `PreProcess`, with patterns and payloads of any length. The inductive
  invariant (`PatternInv`) gives the places where the bytes the pattern was
  written for end in it, and says that the loop stands at one of them, with
  those bytes behind it in lower case, and every escape among them that `Warned`
  lists warned of. It cannot stand inside an escape, and an escape cannot be
  read out of bytes written as they are (`NoEscape`): the pairs of bytes that
  would make one by accident are not `Writable`. What the payload becomes is the
  induction `NormalIs`. Theorem: `PatternsSay`.
- `QQ`, with payloads of any length and content. How far `qq_handler` has read
  follows from where it is, and the length it asks for covers the number it reads
  (`NeedsEnough`). Theorem: `VerdictIsFromPayload`.
- `NdInfo`, with every number of CPUs, servers and packets. `BooksBalance`, as one
  equation for each direction (`Books`), is inductive with the types (`NdTypes`; in
  them, that a CPU about to update has its server in the tree) and with `LostOnce`:
  a packet is dropped together with the lock, so one at most. Every step takes
  lemmas about sums over names and servers. Theorem: `BooksAlwaysBalance`.
- `PortTree`, with any number of ports and in any shape. The inductive invariant
  (`TreeInv`) says that there are a set of nodes `T` and, for each, the set `below`
  it such that the pointers down and up agree and every node but the root is a
  child (`Linked`); a node's set is itself and the sets of its children, which are
  apart, larger ports to the left as `wellkn_port.c` compares them (`Ordered`);
  while the tree is cleared, nothing is left of any node that `rbtree_clear` will
  come back to (`Clearing`). `T` and `below` are not variables: each action's lemma
  gives the new ones. A left rotation and a right one are one lemma (`Turn`) with
  sides and order exchanged. A descent ends because sets below get smaller
  (`SearchEnds`), and meets a port if and only if it is there (`Search`). Theorems:
  `FreesOnlyLeaves`, and `TreeIsSet`, the refinement: what is reachable from the
  root is `T` (`ReachIs`), so find, add, rotations and clear are steps of `PortSet`
  or stutter.

`RegexpProofs` is about the compiler of `regexp.c`, for every pattern over every
alphabet, and any `NSUBEXP` and `MaxSize`. The memory is right if the two passes,
which take different branches in every function that emits code, are always at
the same point (`Same`): the same rest of the pattern, the same number of groups,
and as many bytes counted by the one as the other has written. The first pass has
no node to return, only the address of `regdummy`, where the second one has a
place in the code, and it sets no pointers; setting them moves nothing, wherever
they lead (`TailSame`). That both passes come to the same end (`SameEnd`,
`SameNode`) is shown for each function of the parser in turn, for its loops
round by round (`LoopSame`), and for groups by how deep they are nested
(`GroupsAlike`). The inductive invariant (`SizeInv`) then only has to remember that
`size` is what the first pass found for this pattern. Theorem: `FillsItsMemory`.

Its second half compares the parser with `RegexLanguage`. They decide in opposite
ways: `WellFormed` and `Nullable` take a pattern apart from the outside, at its
first bar or behind its first atom, with parentheses matched by counting;
`reg` reads it once from left to right, knows only how deep its own calls are, and
finds out whether an operand may be empty from the flag that comes back
(`HASWIDTH`).

- Both definitions recurse over pieces of the pattern, so first of all they have to
  have a solution: a body that depends only on what is smaller has one
  (`Recursion`), and all their pieces are shorter (`NullableIs`, `WellFormedIs`).
- Pieces are then named by their places in one pattern (`Formed`, `Blank`), and
  depth in a piece is depth in the pattern less a constant (`DepthOfPiece`). A piece
  is split at its first bar (`BarSplits`) or behind its first atom (`AtomSplits`);
  a group that does not close (`Unclosed`) or a parenthesis or multiplier out of
  place (`Stray`) spoils it. A run of ordinary characters is one node for the parser
  and as many atoms for `WellFormed` (`RunSplits`).
- Where the first pass is in the pattern and how many groups it has counted is
  `Stands`. Each function of the parser either ends where its piece does, with
  `HASWIDTH` exactly if the piece is not `Blank`, or fails and the piece is
  `Refused`: atoms (`RegatomRead`), pieces (`PieceRead`), branches (`BranchRead`,
  by rounds of its loop), alternatives (`RegionRead`), groups (`GroupRegRead`). What
  is taken for granted about groups further in (`Good`) follows by how many may
  still be opened (`GroupsGood`); for the whole pattern the result is
  `CompileRead`.

With that, `RefusesIllegal` is inductive. Theorem: `RefusesWhatIsIllegal`.

`SumProofs` holds what stands in for induction. The library's theorems for it take
an operator as a parameter, which no backend can instantiate; but the library
also proves that strict inclusion is well-founded on finite subsets, and a
well-founded relation has least elements (`WFMin`), which needs a set and no
operator. So every set of subsets has one without another below (`LeastSubset`),
every set of numbers a least one (`LeastIndex`), and an induction is a least
counterexample. From it come `UpTo`, that a function can be repeated
(`Iterate`), and that `SumFunctionOnSet` is defined, is a number, and does not
depend on the order (`SumExists` to `SumChange`).

The proofs use the named assumptions of the modules they are about and nothing
else; TLC evaluates those in every run.

Only model-checked:

- liveness (`PacketReleased`, `Decided`, `BufferReclaimed`, `InsmodEnds`,
  `RmmodEnds`, `AllAnswered`, `ClearEnds`, `PacketsLeave`): fairness and `ENABLED`
  are out of the prover's reach;
- `VerdictRight` of `Regexp`: that would take a proof that the nodes and pointers the
  second pass leaves mean what the pattern does, and another one that `regmatch`,
  a function over nodes that form loops, is defined and finds every match.

## 6. Not modelled

- `ndinfo_destroy` and `ndinfo_show`; nothing calls the first, the second prints.
- `qq_send`, which nothing calls: the one call is commented out (`qq.c:85`), and
  would take a mutex with bottom halves disabled (`nl_log.c:42`).
- The bytes of a report beyond their number, and what the program prints of it.
- Rows in front of the table. `Registry` lets `count_index` fall below 0, as the code
  does once a full table has refused a row, but not what `count_remove_proto` then
  writes there; in `Counters` it stays at 0 or above.
- The memory of a label while it is freed with its connection and used again: a
  reader of a dead connection finds the old label or the new connection's.
- Names or numbers longer than the arrays they are copied to
  (`wellkn_port.c:98`), malformed classes and a trailing backslash in a pattern,
  and the depth of `regmatch`'s recursion on the kernel stack.
- The two 32-bit halves a packet count is read in on some machines: one read.
- Output for debugging (`total_match`, `wellkn_port_show`), `wkps.count`, which
  only it prints, declarations for other kernel versions, build files.
- `MSG_CONF`, the type of message `nl_log.c` expects, is defined nowhere in the
  repository: in the model a message is taken or dropped.
- `aproto_find` never frees its copy of the payload; memory that is only lost is
  tracked in `Lifecycle` alone.

## 7. Plan

Done, in this order: `Core` with `Flow`; its proofs; `CountTable`, `Counters`;
`Registry`; `Lifecycle` with its proofs; `PortTree` with `PortSet`; `Netlink`;
`Regexp` with `RegexLanguage`; `Report` under `Netlink`, and its proofs; `NdInfo`;
`Kstrtox` with its proof; `PreProcess`; `QQ`; the proofs of `Registry`,
`Counters` and `QQ`; `SumProofs`, and with it the types and reports of `Counters`
and the sums of `NdInfo`; the proof of `PortTree`; that of `PreProcess`; `Regexp`
without `RECURSIVE` operators, and `RegexpProofs`, first about the memory, then
about the patterns that are refused.

Next:

1. Prove more.
   - `Counters`: that a removal under the jprobe spoils only the rows behind it.
   - `Regexp`: what the emitted code means, for a start that following its pointers
     always ends; with that, `VerdictRight`.
2. Extend the models.
   - `Counters` over the same labels as `Core`: the two-step labelling of one
     refined by the other.
