-------------------------- MODULE LifecycleProofs --------------------------
(***************************************************************************)
(* Proofs about module Lifecycle, for any number of CPUs, any              *)
(* configuration file, any size of the table and any number of insmods.    *)
(***************************************************************************)
EXTENDS Lifecycle, FiniteSetTheorems, TLAPS

(* How far insmod or rmmod has got says which parts are up.                *)
Stage ==
  /\ pc \in {"init", "parse"} => \A i \in 1..6 : Order[i] \in up <=> i < part
  /\ pc = "down" => /\ \A i \in 1..5 : Order[i] \in up <=> i <= part
                    /\ Order[6] \in up => part = 6
  /\ pc = "live" => up = Parts /\ part = 6
  /\ pc = "out" => part = 1
  /\ pc = "parse" => part = 3

(* Packets can come in only at the last stage.                             *)
HookStage ==
  /\ hooked # {} \/ closing # 0 => pc = "live" \/ (pc \in {"init", "down"} /\ part = 6)
  /\ pc = "init" => hooked # {1, 2}
  /\ pc \in {"init", "live"} => closing = 0

(* A CPU is in a hook that is registered or being waited for.              *)
Readers == \A c \in CPUs : cpu[c].hook # 0 => cpu[c].hook \in hooked \cup {closing}

(* A duplicate port is on the way out with the lock.                       *)
LockStage == lock = "held" => pc \in {"down", "out"} /\ part <= 2

(* What is held belongs to a part that is up, or that is reading its file. *)
HeldByParts ==
  ~misread =>
    /\ "config" \in held => "config" \in up
    /\ "jprobe" \in held => "count" \in up
    /\ "nl_log" \in held => "nl_log" \in up
    /\ held \cap {"cache", "entries"} # {} => "wellkn" \in up \/ pc = "parse"

(* The rows come after count_init(), one for every entry until the table is *)
(* full.                                                                   *)
RowsFirst ==
  /\ \A e \in tree : HasRow(e.name) \/ e.name \in refused
  /\ refused # {} => Len(rows) = MaxProto
  /\ pc = "init" /\ part <= 3 => tree = {}
  /\ pc \in {"parse", "live"} \/ (pc = "init" /\ part > 2) => HasRow("unknown")

IndInv ==
  /\ TypeOK
  /\ Stage
  /\ HookStage
  /\ Readers
  /\ LockStage
  /\ HeldByParts
  /\ RowsFirst

-----------------------------------------------------------------------------
(* Facts about the constants *)

LEMMA OrderIs ==
  /\ Len(Order) = 6
  /\ Order[1] = "config"
  /\ Order[2] = "count"
  /\ Order[3] = "wellkn"
  /\ Order[4] = "aproto"
  /\ Order[5] = "nl_log"
  /\ Order[6] = "hooks"
  /\ Parts = {"config", "count", "wellkn", "aproto", "nl_log", "hooks"}
<1>1. /\ Len(Order) = 6
      /\ Order[1] = "config"
      /\ Order[2] = "count"
      /\ Order[3] = "wellkn"
      /\ Order[4] = "aproto"
      /\ Order[5] = "nl_log"
      /\ Order[6] = "hooks"
  BY DEF Order
<1>2. Parts = {Order[i] : i \in 1..6}
  BY <1>1 DEF Parts
<1>3. 1..6 = {1, 2, 3, 4, 5, 6}
  OBVIOUS
<1>. QED
  BY <1>1, <1>2, <1>3

LEMMA HookCount ==
  /\ Cardinality({}) = 0
  /\ Cardinality({1}) = 1
  /\ Cardinality({1, 2}) = 2
<1>1. IsFiniteSet({}) /\ Cardinality({}) = 0
  BY FS_EmptySet
<1>2. IsFiniteSet({1}) /\ Cardinality({1}) = 1
  BY FS_Singleton
<1>3. {1, 2} = {1} \cup {2} /\ 2 \notin {1}
  OBVIOUS
<1>4. Cardinality({1, 2}) = 2
  BY <1>2, <1>3, FS_AddElement
<1>. QED
  BY <1>1, <1>2, <1>4

LEMMA EmptyUp ==
  ASSUME NEW U \in SUBSET Parts, \A i \in 1..6 : Order[i] \notin U
  PROVE  U = {}
<1>1. /\ Order[1] \notin U /\ Order[2] \notin U /\ Order[3] \notin U
      /\ Order[4] \notin U /\ Order[5] \notin U /\ Order[6] \notin U
  OBVIOUS
<1>. QED
  BY <1>1, OrderIs

(* What count_add_proto() does to the table. *)

RowNames == Names \cup {"unknown"}

TableOK == rows \in Seq(RowNames) /\ Len(rows) <= MaxProto /\ refused \subseteq Names

LEMMA AddRowFacts ==
  ASSUME TableOK, NEW name \in Names, AddRow(name)
  PROVE  /\ TableOK'
         /\ HasRow(name)' \/ name \in refused'
         /\ refused \subseteq refused'
         /\ \A other : HasRow(other) => HasRow(other)'
         /\ (refused # {} => Len(rows) = MaxProto) => (refused' # {} => Len(rows') = MaxProto)
<1>0. rows \in Seq(RowNames) /\ Len(rows) \in Nat /\ Len(rows) <= MaxProto /\ MaxProto \in Nat
      /\ name \in RowNames
  BY LifecycleAssumption DEF TableOK, RowNames
<1>1. CASE Len(rows) < MaxProto
  <2>1. rows' = Append(rows, name) /\ refused' = refused
    BY <1>1 DEF AddRow
  <2>2. /\ rows' \in Seq(RowNames)
        /\ Len(rows') = Len(rows) + 1
        /\ rows'[Len(rows) + 1] = name
        /\ \A i \in 1..Len(rows) : rows'[i] = rows[i]
    BY <1>0, <2>1
  <2>3. TableOK'
    BY <1>0, <1>1, <2>1, <2>2 DEF TableOK, RowNames
  <2>4. HasRow(name)'
    BY <1>0, <2>2 DEF HasRow
  <2>5. \A other : HasRow(other) => HasRow(other)'
    BY <1>0, <2>2 DEF HasRow
  <2>6. (refused # {} => Len(rows) = MaxProto) => (refused' # {} => Len(rows') = MaxProto)
    BY <1>1, <2>1, <1>0
  <2>. QED
    BY <2>1, <2>3, <2>4, <2>5, <2>6
<1>2. CASE ~(Len(rows) < MaxProto)
  <2>1. rows' = rows /\ refused' = refused \cup {name} /\ Len(rows) = MaxProto
    BY <1>0, <1>2 DEF AddRow
  <2>. QED
    BY <2>1 DEF TableOK, HasRow, RowNames
<1>. QED
  BY <1>1, <1>2

-----------------------------------------------------------------------------
(* The three ways in which appflid_init() and appflid_exit() move on *)

Progress == pc \in {"out", "init", "parse", "live", "down"} /\ part \in 1..6 /\ up \subseteq Parts

LEMMA SucceedMove ==
  ASSUME Progress, Stage, pc \in {"init", "parse"}, Succeed
  PROVE  Progress' /\ Stage'
<1>1. up' = up \cup {Order[part]}
  BY DEF Succeed
<1>2. \A i, j \in 1..6 : Order[i] = Order[j] => i = j
  BY OrderIs
<1>3. Order[part] \in Parts
  BY OrderIs DEF Progress
<1>4. CASE part = 6
  <2>1. pc' = "live" /\ part' = 6
    BY <1>4, OrderIs DEF Succeed
  <2>2. \A i \in 1..6 : Order[i] \in up'
    BY <1>1, <1>4 DEF Stage
  <2>3. Parts \subseteq up'
    <3>1. /\ Order[1] \in up' /\ Order[2] \in up' /\ Order[3] \in up'
          /\ Order[4] \in up' /\ Order[5] \in up' /\ Order[6] \in up'
      BY <2>2
    <3>. QED
      BY <3>1, OrderIs
  <2>4. up' = Parts
    BY <1>1, <1>3, <2>3 DEF Progress
  <2>. QED
    BY <2>1, <2>4 DEF Progress, Stage
<1>5. CASE part # 6
  <2>1. pc' = "init" /\ part' = part + 1 /\ part + 1 \in 1..6
    BY <1>5, OrderIs DEF Succeed, Progress
  <2>2. \A i \in 1..6 : Order[i] \in up' <=> i < part + 1
    BY <1>1, <1>2 DEF Stage, Progress
  <2>3. up' \subseteq Parts
    BY <1>1, <1>3 DEF Progress
  <2>. QED
    BY <2>1, <2>2, <2>3 DEF Progress, Stage
<1>. QED
  BY <1>4, <1>5

LEMMA UnwindMove ==
  ASSUME Progress, Stage, pc \in {"init", "parse"}, Unwind
  PROVE  /\ Progress' /\ Stage'
         /\ up' = up
         /\ pc' \in {"down", "out"}
         /\ part' = IF part = 1 THEN 1 ELSE part - 1
         /\ pc' = "out" => up' = {}
<1>1. CASE part = 1
  <2>1. pc' = "out" /\ part' = 1 /\ up' = up
    BY <1>1 DEF Unwind
  <2>2. \A i \in 1..6 : Order[i] \notin up
    BY <1>1 DEF Stage
  <2>3. up = {}
    BY <2>2, EmptyUp DEF Progress
  <2>. QED
    BY <1>1, <2>1, <2>3 DEF Progress, Stage
<1>2. CASE part # 1
  <2>1. pc' = "down" /\ part' = part - 1 /\ up' = up /\ part - 1 \in 1..6
    BY <1>2 DEF Unwind, Progress
  <2>2. /\ \A i \in 1..5 : Order[i] \in up <=> i <= part - 1
        /\ Order[6] \in up => part - 1 = 6
    BY DEF Stage, Progress
  <2>. QED
    BY <1>2, <2>1, <2>2 DEF Progress, Stage
<1>. QED
  BY <1>1, <1>2

LEMMA DownMove ==
  ASSUME Progress, Stage, pc = "down", Down
  PROVE  /\ Progress' /\ Stage'
         /\ up' = up \ {Order[part]}
         /\ pc' \in {"down", "out"}
         /\ part' = IF part = 1 THEN 1 ELSE part - 1
         /\ pc' = "out" => up' = {}
<1>1. up' = up \ {Order[part]}
  BY DEF Down
<1>2. \A i, j \in 1..6 : Order[i] = Order[j] => i = j
  BY OrderIs
<1>3. CASE part = 1
  <2>1. pc' = "out" /\ part' = 1
    BY <1>3 DEF Down
  <2>2. \A i \in 1..6 : Order[i] \notin up'
    BY <1>1, <1>2, <1>3 DEF Stage
  <2>3. up' = {}
    BY <1>1, <2>2, EmptyUp DEF Progress
  <2>. QED
    BY <1>1, <1>3, <2>1, <2>3 DEF Progress, Stage
<1>4. CASE part # 1
  <2>1. pc' = "down" /\ part' = part - 1 /\ part - 1 \in 1..6
    BY <1>4 DEF Down, Progress
  <2>2. \A i \in 1..5 : Order[i] \in up' <=> i <= part - 1
    BY <1>1, <1>2 DEF Stage, Progress
  <2>3. Order[6] \notin up'
    BY <1>1, <1>2 DEF Stage, Progress
  <2>. QED
    BY <1>1, <1>4, <2>1, <2>2, <2>3 DEF Progress, Stage
<1>. QED
  BY <1>3, <1>4

-----------------------------------------------------------------------------
(* Which part an action is about *)

LEMMA PartAt ==
  ASSUME Progress
  PROVE  /\ Order[part] = "config" <=> part = 1
         /\ Order[part] = "count"  <=> part = 2
         /\ Order[part] = "wellkn" <=> part = 3
         /\ Order[part] = "aproto" <=> part = 4
         /\ Order[part] = "nl_log" <=> part = 5
         /\ Order[part] = "hooks"  <=> part = 6
<1>1. part = 1 \/ part = 2 \/ part = 3 \/ part = 4 \/ part = 5 \/ part = 6
  BY DEF Progress
<1>. QED
  BY <1>1, OrderIs

LEMMA GivesIs ==
  /\ DOMAIN Gives = {"config", "count", "aproto", "nl_log"}
  /\ Gives["config"] = {"config"}
  /\ Gives["count"] = {"jprobe"}
  /\ Gives["aproto"] = {}
  /\ Gives["nl_log"] = {"nl_log"}
BY DEF Gives

LEMMA LineFields ==
  ASSUME rest \in Seq(Lines), rest # <<>>
  PROVE  /\ Tail(rest) \in Seq(Lines)
         /\ Head(rest).kind = "entry" => Head(rest) \in Entries /\ Head(rest).name \in Names
<1>1. Head(rest) \in Lines /\ Tail(rest) \in Seq(Lines)
  OBVIOUS
<1>2. ASSUME Head(rest).kind = "entry"
      PROVE  Head(rest) \in Entries
  BY <1>1, <1>2 DEF Lines
<1>. QED
  BY <1>1, <1>2 DEF Entries

(* Insmod, Rmmod and the actions that stay at their part keep the stage. *)

LEMMA NextStage ==
  ASSUME TypeOK, Stage, HookStage, [Next]_vars
  PROVE  /\ Progress' /\ Stage'
         /\ pc' = "out" => up' = {}
<1>0. Progress
  BY OrderIs DEF TypeOK, Progress
<1>. USE <1>0
<1>1. CASE Insmod
  <2>1. pc' = "init" /\ part' = 1 /\ up' = {}
    BY <1>1 DEF Insmod, TypeOK, Stage
  <2>. QED
    BY <2>1 DEF Progress, Stage
<1>2. CASE InitSimple
  BY <1>2, SucceedMove, UnwindMove, PartAt DEF InitSimple, At, Succeed
<1>3. CASE InitCount
  BY <1>3, SucceedMove, UnwindMove, PartAt DEF InitCount, At, Succeed
<1>4. CASE NoCache \/ NoFile \/ BadLine \/ NoEntry \/ DuplicateLine
  <2>1. pc \in {"init", "parse"} /\ Unwind
    BY <1>4 DEF NoCache, NoFile, BadLine, NoEntry, DuplicateLine, At
  <2>. QED
    BY <2>1, UnwindMove
<1>5. CASE InitAproto
  BY <1>5, SucceedMove, PartAt DEF InitAproto, At, Succeed
<1>6. CASE EndOfFile
  BY <1>6, SucceedMove DEF EndOfFile, Succeed
<1>7. CASE OpenFile
  <2>1. pc = "init" /\ pc' = "parse" /\ part = 3 /\ part' = 3 /\ up' = up
    BY <1>7, PartAt DEF OpenFile, At
  <2>. QED
    BY <2>1 DEF Progress, Stage
<1>8. CASE SkipLine \/ AddLine \/ Unhook \/ Synchronize
             \/ (\E c \in CPUs : Enter(c) \/ FindPort(c) \/ Leave(c)) \/ UNCHANGED vars
  <2>1. pc' = pc /\ part' = part /\ up' = up
    BY <1>8 DEF SkipLine, AddLine, Unhook, Synchronize, Enter, FindPort, Leave, vars, parts
  <2>. QED
    BY <2>1 DEF Progress, Stage, TypeOK
<1>9. CASE InitHooks
  <2>1. pc = "init" /\ part = 6
    BY <1>9, PartAt DEF InitHooks, At
  <2>2. CASE Succeed
    BY <2>1, <2>2, SucceedMove, OrderIs DEF Succeed
  <2>3. CASE UNCHANGED parts
    BY <2>1, <2>3 DEF parts, Progress, Stage
  <2>4. CASE pc' = "down" /\ UNCHANGED <<part, up, hooked>>
    <3>1. \A i \in 1..5 : Order[i] \in up
      BY <2>1 DEF Stage
    <3>. QED
      BY <2>1, <2>4, <3>1 DEF Progress, Stage
  <2>. QED
    BY <1>9, <2>2, <2>3, <2>4 DEF InitHooks
<1>10. CASE Rmmod
  <2>1. pc' = "down" /\ part' = 6 /\ up' = Parts
    BY <1>10, OrderIs DEF Rmmod, Stage
  <2>2. \A i \in 1..6 : Order[i] \in Parts
    BY OrderIs DEF Parts
  <2>. QED
    BY <2>1, <2>2 DEF Progress, Stage
<1>11. CASE HooksDown \/ DownSimple \/ DownWellkn
  <2>1. pc = "down" /\ Down
    BY <1>11 DEF HooksDown, DownSimple, DownWellkn, At
  <2>. QED
    BY <2>1, DownMove
<1>. QED
  BY <1>1, <1>2, <1>3, <1>4, <1>5, <1>6, <1>7, <1>8, <1>9, <1>10, <1>11
     DEF Next, BringUp, InitWellkn, TakeDown
-----------------------------------------------------------------------------
(* The other parts of the invariant.  What follows from an action about the *)
(* stage is in NextStage; a line that names several actions needs nothing   *)
(* else about them.                                                        *)

LEMMA NextType ==
  ASSUME TypeOK, Stage, HookStage, [Next]_vars
  PROVE  TypeOK'
<1>0. Progress /\ Progress' /\ (pc' = "out" => up' = {})
  BY NextStage, OrderIs DEF TypeOK, Progress
<1>1. held' \subseteq {"config", "jprobe", "cache", "entries", "nl_log"}
  <2>1. Progress
    BY <1>0
  <2>2. CASE InitSimple
    BY <2>1, <2>2, PartAt, OrderIs DEF InitSimple, At, TypeOK
  <2>3. CASE ~InitSimple
    BY <2>3 DEF TypeOK, Next, BringUp, TakeDown, InitWellkn, Insmod, InitCount, NoCache,
       NoFile, BadLine, NoEntry, DuplicateLine, InitAproto, EndOfFile, OpenFile, SkipLine,
       AddLine, Unhook, Synchronize, Enter, FindPort, Leave, vars, InitHooks, Rmmod,
       HooksDown, DownSimple, DownWellkn
  <2>. QED
    BY <2>2, <2>3
<1>2. /\ rest' \in Seq(Lines)
      /\ TableOK'
      /\ tree' \subseteq Entries
  <2>0. TableOK
    BY DEF TypeOK, TableOK, RowNames
  <2>1. CASE OpenFile
    <3>1. PICK f \in Files, g \in Behind : \E r \in ReadOf(f) : rest' = r \o g
      BY <2>1 DEF OpenFile
    <3>2. PICK r \in ReadOf(f) : rest' = r \o g
      BY <3>1
    <3>3. r \in Seq(Lines)
      <4>1. f \in Seq(Lines)
        BY LifecycleAssumption
      <4>2. PICK k \in 0..Len(f) : r = SubSeq(f, 1, k)
        BY DEF ReadOf
      <4>. QED
        BY <4>1, <4>2
    <3>4. g = <<>> \/ \E l \in Lines : g = <<l>>
      BY DEF Behind
    <3>5. g \in Seq(Lines)
      <4>1. CASE g = <<>>
        BY <4>1
      <4>2. ASSUME NEW l \in Lines, g = <<l>>
            PROVE  g \in Seq(Lines)
        BY <4>2
      <4>. QED
        BY <3>4, <4>1, <4>2
    <3>6. rest' \in Seq(Lines)
      BY <3>2, <3>3, <3>5
    <3>. QED
      BY <2>0, <2>1, <3>6 DEF OpenFile, TypeOK, TableOK, table
  <2>2. CASE SkipLine \/ AddLine \/ NoEntry \/ DuplicateLine
    <3>1. rest \in Seq(Lines) /\ rest # <<>>
      BY <2>2 DEF SkipLine, AddLine, NoEntry, DuplicateLine, TypeOK
    <3>2. rest' \in Seq(Lines) /\ tree' \subseteq Entries
      BY <2>2, <3>1, LineFields DEF SkipLine, AddLine, NoEntry, DuplicateLine, TypeOK
    <3>3. CASE SkipLine
      BY <2>0, <3>2, <3>3 DEF SkipLine, table, TableOK
    <3>4. CASE AddLine \/ NoEntry \/ DuplicateLine
      <4>1. Head(rest).name \in Names /\ AddRow(Head(rest).name)
        BY <3>1, <3>4, LineFields DEF AddLine, NoEntry, DuplicateLine
      <4>. QED
        BY <2>0, <3>2, <4>1, AddRowFacts
    <3>. QED
      BY <2>2, <3>2, <3>3, <3>4
  <2>3. CASE Insmod \/ InitCount \/ DownWellkn
    <3>1. /\ <<>> \in Seq(Lines) /\ <<>> \in Seq(RowNames) /\ Len(<<>>) = 0
          /\ <<"unknown">> \in Seq(RowNames) /\ Len(<<"unknown">>) = 1
          /\ MaxProto \in Nat /\ MaxProto >= 1
      BY LifecycleAssumption DEF RowNames
    <3>2. rest' \in Seq(Lines) /\ tree' \subseteq Entries
      BY <2>3, <3>1 DEF TypeOK, Insmod, InitCount, DownWellkn
    <3>3. rows' \in Seq(RowNames) /\ Len(rows') <= MaxProto /\ refused' \subseteq Names
      <4>1. CASE Insmod
        BY <3>1, <4>1 DEF Insmod
      <4>2. CASE InitCount
        BY <3>1, <4>2 DEF InitCount
      <4>3. CASE DownWellkn
        <5>1. rows' = rows /\ refused' = refused
          BY <4>3 DEF DownWellkn, table
        <5>. QED
          BY <2>0, <5>1 DEF TableOK
      <4>. QED
        BY <2>3, <4>1, <4>2, <4>3
    <3>4. TableOK'
      BY <3>3 DEF TableOK, RowNames
    <3>. QED
      BY <3>2, <3>4
  <2>4. CASE UNCHANGED tables
    BY <2>0, <2>4 DEF TypeOK, tables, table, TableOK
  <2>. QED
    BY <2>1, <2>2, <2>3, <2>4
       DEF Next, BringUp, TakeDown, InitWellkn, InitSimple,
       NoCache, NoFile, BadLine, InitAproto, EndOfFile, Unhook, Synchronize, Enter, FindPort,
       Leave, vars, tables, table, InitHooks, Rmmod, HooksDown, DownSimple
<1>3. lock' \in {"free", "held"}
  BY DEF TypeOK, Next, BringUp, TakeDown, InitWellkn, Insmod, InitSimple, InitCount,
     NoCache, NoFile, BadLine, NoEntry, DuplicateLine, InitAproto, EndOfFile, OpenFile,
     SkipLine, AddLine, Unhook, Synchronize, Enter, FindPort, Leave, vars, tables, InitHooks,
     Rmmod, HooksDown, DownSimple, DownWellkn
<1>7. loads' \in 0..MaxLoads
  <2>1. CASE Insmod
    BY <2>1, LifecycleAssumption DEF Insmod, TypeOK
  <2>2. CASE ~Insmod
    <3>1. loads' = loads
      BY <2>2 DEF Next, BringUp, TakeDown, InitWellkn, InitSimple, InitCount,
         NoCache, NoFile, BadLine, NoEntry, DuplicateLine, InitAproto, EndOfFile, OpenFile,
         SkipLine, AddLine, Unhook, Synchronize, Enter, FindPort, Leave, vars, InitHooks,
         Rmmod, HooksDown, DownSimple, DownWellkn
    <3>. QED
      BY <3>1 DEF TypeOK
  <2>. QED
    BY <2>1, <2>2
<1>8. misread' \in BOOLEAN
  BY DEF TypeOK, Next, BringUp, TakeDown, InitWellkn, Insmod, InitSimple, InitCount,
     NoCache, NoFile, BadLine, NoEntry, DuplicateLine, InitAproto, EndOfFile, OpenFile,
     SkipLine, AddLine, Unhook, Synchronize, Enter, FindPort, Leave, vars, tables, InitHooks,
     Rmmod, HooksDown, DownSimple, DownWellkn
<1>4. /\ hooked' \in {{}, {1}, {1, 2}}
      /\ closing' \in 0..2
  <2>1. CASE InitHooks
    <3>1. hooked \in {{}, {1}}
      BY <2>1 DEF InitHooks, At, HookStage, TypeOK
    <3>2. hooked \cup {Cardinality(hooked) + 1} \in {{1}, {1, 2}}
      BY <3>1, HookCount
    <3>. QED
      BY <2>1, <3>2 DEF InitHooks, TypeOK
  <2>2. CASE Unhook
    <3>1. hooked \in {{1}, {1, 2}}
      BY <2>2 DEF Unhook, TypeOK
    <3>2. CASE hooked = {1}
      BY <2>2, <3>2, HookCount DEF Unhook
    <3>3. CASE hooked = {1, 2}
      BY <2>2, <3>3, HookCount DEF Unhook
    <3>. QED
      BY <3>1, <3>2, <3>3
  <2>3. CASE ~(InitHooks \/ Unhook)
    BY <2>3 DEF TypeOK, Next, BringUp, TakeDown, InitWellkn, Insmod, InitSimple, InitCount,
       NoCache, NoFile, BadLine, NoEntry, DuplicateLine, InitAproto, EndOfFile, OpenFile,
       SkipLine, AddLine, Synchronize, Enter, FindPort, Leave, vars, hooks, Rmmod,
       HooksDown, DownSimple, DownWellkn
  <2>. QED
    BY <2>1, <2>2, <2>3
<1>5. cpu' \in [CPUs -> [hook : 0..2, at : {"out", "find", "leave"}]]
  <2>1. CASE \E c \in CPUs : Enter(c)
    <3>1. PICK c \in CPUs, h \in hooked, at \in {"find", "leave"} :
            cpu' = [cpu EXCEPT ![c] = [hook |-> h, at |-> at]]
      BY <2>1 DEF Enter
    <3>2. h \in 0..2
      BY DEF TypeOK
    <3>. QED
      BY <3>1, <3>2 DEF TypeOK
  <2>2. CASE \E c \in CPUs : FindPort(c) \/ Leave(c)
    <3>1. cpu \in [CPUs -> [hook : 0..2, at : {"out", "find", "leave"}]]
      BY DEF TypeOK
    <3>. QED
      BY <2>2, <3>1 DEF FindPort, Leave, Outside
  <2>3. CASE ~(\E c \in CPUs : Enter(c) \/ FindPort(c) \/ Leave(c))
    <3>1. cpu' = cpu
      <4>1. CASE BringUp
        BY <4>1 DEF BringUp, InitWellkn, InitSimple, InitCount, NoCache, NoFile, BadLine,
           NoEntry, DuplicateLine, InitAproto, EndOfFile, OpenFile, SkipLine, AddLine, hooks,
           InitHooks
      <4>2. CASE TakeDown \/ Insmod \/ Rmmod \/ UNCHANGED vars
        BY <4>2 DEF TakeDown, Insmod, Unhook, Synchronize, vars, hooks, Rmmod,
           HooksDown, DownSimple, DownWellkn
      <4>. QED
        BY <2>3, <4>1, <4>2 DEF Next
    <3>. QED
      BY <3>1 DEF TypeOK
  <2>. QED
    BY <2>1, <2>2, <2>3
<1>6. pc' = "out" => up' = {} /\ hooked' = {} /\ closing' = 0
  <2>. SUFFICES ASSUME pc' = "out"
                PROVE  hooked' = {} /\ closing' = 0
    BY <1>0
  <2>1. CASE hooked = {} /\ closing = 0
    BY <2>1 DEF TypeOK, Next, BringUp, TakeDown, InitWellkn, Insmod, InitSimple, InitCount,
       NoCache, NoFile, BadLine, NoEntry, DuplicateLine, InitAproto, EndOfFile, OpenFile,
       SkipLine, AddLine, Unhook, Synchronize, Enter, FindPort, Leave, vars, hooks, InitHooks,
       Succeed, parts, Rmmod, HooksDown, DownSimple, DownWellkn, At
  <2>2. CASE ~(hooked = {} /\ closing = 0)
    <3>1. pc = "live" \/ (pc \in {"init", "down"} /\ part = 6)
      BY <2>2 DEF HookStage
    <3>2. Progress
      BY <1>0
    <3>. QED
      BY <2>2, <3>1, <3>2, PartAt, OrderIs
         DEF TypeOK, Next, BringUp, TakeDown, InitWellkn, Insmod, InitSimple, InitCount,
         NoCache, NoFile, BadLine, NoEntry, DuplicateLine, InitAproto, EndOfFile, OpenFile,
         SkipLine, AddLine, Unhook, Synchronize, Enter, FindPort, Leave, vars, hooks, InitHooks,
         Succeed, Unwind, Down, parts, Rmmod, HooksDown, DownSimple, DownWellkn, At
  <2>. QED
    BY <2>1, <2>2
<1>. QED
  BY <1>0, <1>1, <1>2, <1>3, <1>4, <1>5, <1>6, <1>7, <1>8, OrderIs
     DEF TypeOK, Progress, TableOK, RowNames

LEMMA NextHookStage ==
  ASSUME TypeOK, Stage, HookStage, Readers, [Next]_vars
  PROVE  HookStage'
<1>0. Progress
  BY OrderIs DEF TypeOK, Progress
<1>1. CASE InitHooks
  <2>1. pc = "init" /\ part = 6 /\ closing' = closing /\ closing = 0
    BY <1>0, <1>1, PartAt DEF InitHooks, At, HookStage
  <2>2. hooked \in {{}, {1}}
    BY <2>1 DEF HookStage, TypeOK
  <2>3. CASE pc' = "down" /\ UNCHANGED <<part, up, hooked>>
    BY <2>1, <2>3 DEF HookStage
  <2>4. CASE hooked' = {1, 2} /\ Succeed
    <3>1. pc' = "live"
      BY <2>1, <2>4, OrderIs DEF Succeed
    <3>. QED
      BY <2>1, <3>1 DEF HookStage
  <2>5. CASE hooked' # {1, 2} /\ UNCHANGED parts
    BY <2>1, <2>5 DEF HookStage, parts
  <2>. QED
    BY <1>1, <2>3, <2>4, <2>5 DEF InitHooks
<1>2. CASE Unhook
  BY <1>0, <1>2, PartAt DEF Unhook, At, HookStage, parts
<1>3. CASE Synchronize
  BY <1>3 DEF Synchronize, HookStage, parts
<1>4. CASE HooksDown
  <2>1. hooked' = {} /\ closing' = 0 /\ pc' \in {"out", "down"}
    BY <1>4 DEF HooksDown, Down, hooks
  <2>. QED
    BY <2>1 DEF HookStage
<1>5. CASE Rmmod
  BY <1>5, OrderIs DEF Rmmod, HookStage, hooks
<1>6. CASE Insmod
  BY <1>6 DEF Insmod, HookStage, hooks, TypeOK
<1>7. CASE InitSimple \/ InitCount \/ InitWellkn \/ InitAproto \/ DownSimple \/ DownWellkn
  <2>1. pc \in {"init", "parse", "down"} /\ part # 6 /\ hooked' = hooked /\ closing' = closing
    BY <1>0, <1>7, PartAt, GivesIs
       DEF Stage, InitSimple, InitCount, InitWellkn, NoCache, NoFile, OpenFile, SkipLine,
       BadLine, AddLine, NoEntry, DuplicateLine, EndOfFile, InitAproto, DownSimple,
       DownWellkn, At, hooks
  <2>2. hooked = {} /\ closing = 0
    BY <2>1 DEF HookStage
  <2>. QED
    BY <2>1, <2>2 DEF HookStage
<1>8. CASE (\E c \in CPUs : Enter(c) \/ FindPort(c) \/ Leave(c)) \/ UNCHANGED vars
  BY <1>8 DEF Enter, FindPort, Leave, vars, parts, hooks, HookStage
<1>. QED
  BY <1>1, <1>2, <1>3, <1>4, <1>5, <1>6, <1>7, <1>8 DEF Next, BringUp, TakeDown

LEMMA NextReaders ==
  ASSUME TypeOK, Stage, HookStage, Readers, [Next]_vars
  PROVE  Readers'
<1>1. CASE \E c \in CPUs : Enter(c)
  <2>1. PICK c \in CPUs, h \in hooked, at \in {"find", "leave"} :
          cpu' = [cpu EXCEPT ![c] = [hook |-> h, at |-> at]]
    BY <1>1 DEF Enter
  <2>2. hooked' = hooked /\ closing' = closing
    BY <1>1 DEF Enter
  <2>. QED
    BY <2>1, <2>2 DEF Readers, TypeOK
<1>2. CASE \E c \in CPUs : FindPort(c) \/ Leave(c)
  <2>1. PICK c \in CPUs : FindPort(c) \/ Leave(c)
    BY <1>2
  <2>2. hooked' = hooked /\ closing' = closing
    BY <2>1 DEF FindPort, Leave
  <2>3. cpu' = [cpu EXCEPT ![c].at = "leave"] \/ cpu' = [cpu EXCEPT ![c] = Outside]
    BY <2>1 DEF FindPort, Leave
  <2>4. cpu \in [CPUs -> [hook : 0..2, at : {"out", "find", "leave"}]]
    BY DEF TypeOK
  <2>5. \A d \in CPUs : cpu'[d].hook = cpu[d].hook \/ cpu'[d].hook = 0
    BY <2>3, <2>4 DEF Outside
  <2>. QED
    BY <2>2, <2>5 DEF Readers
<1>3. CASE InitHooks
  <2>1. hooked \subseteq hooked' /\ closing' = closing /\ cpu' = cpu
    BY <1>3 DEF InitHooks
  <2>. QED
    BY <2>1 DEF Readers
<1>4. CASE Unhook
  <2>1. closing = 0 /\ hooked' = hooked \ {closing'} /\ cpu' = cpu
    BY <1>4 DEF Unhook
  <2>. QED
    BY <2>1 DEF Readers
<1>5. CASE Synchronize
  BY <1>5 DEF Synchronize, Readers
<1>6. CASE ~(\E c \in CPUs : Enter(c) \/ FindPort(c) \/ Leave(c))
           /\ ~InitHooks /\ ~Unhook /\ ~Synchronize
  <2>1. hooked' = hooked /\ closing' = closing /\ cpu' = cpu
    BY <1>6 DEF Next, BringUp, TakeDown, InitWellkn, Insmod, InitSimple, InitCount,
       NoCache, NoFile, BadLine, NoEntry, DuplicateLine, InitAproto, EndOfFile, OpenFile,
       SkipLine, AddLine, vars, hooks, Rmmod, HooksDown, DownSimple, DownWellkn
  <2>. QED
    BY <2>1 DEF Readers
<1>. QED
  BY <1>1, <1>2, <1>3, <1>4, <1>5, <1>6

LEMMA NextLockStage ==
  ASSUME TypeOK, Stage, LockStage, [Next]_vars
  PROVE  LockStage'
<1>0. Progress
  BY OrderIs DEF TypeOK, Progress
<1>1. CASE DuplicateLine
  <2>1. pc = "parse" /\ part = 3 /\ Unwind
    BY <1>1 DEF DuplicateLine, Stage
  <2>2. pc' \in {"down", "out"} /\ part' = 2
    BY <1>0, <2>1, UnwindMove
  <2>. QED
    BY <2>2 DEF LockStage
<1>2. CASE Insmod
  BY <1>2 DEF Insmod, LockStage
<1>3. CASE lock = "held" /\ ~Insmod
  <2>1. pc \in {"down", "out"} /\ part <= 2 /\ lock' = lock
    BY <1>3 DEF LockStage, Next, BringUp, TakeDown, InitWellkn, InitSimple, InitCount,
       NoCache, NoFile, BadLine, NoEntry, DuplicateLine, InitAproto, EndOfFile, OpenFile,
       SkipLine, AddLine, Unhook, Synchronize, Enter, FindPort, Leave, vars, tables, InitHooks,
       Rmmod, HooksDown, DownSimple, DownWellkn
  <2>2. \/ pc' = pc /\ part' = part
        \/ pc = "down" /\ Down
    BY <1>3, <2>1
       DEF Next, BringUp, TakeDown, InitWellkn, InitSimple, InitCount,
       NoCache, NoFile, BadLine, NoEntry, DuplicateLine, InitAproto, EndOfFile, OpenFile,
       SkipLine, AddLine, Unhook, Synchronize, Enter, FindPort, Leave, vars, parts, InitHooks,
       Rmmod, HooksDown, DownSimple, DownWellkn, At
  <2>3. CASE pc = "down" /\ Down
    <3>1. pc' \in {"down", "out"} /\ part' <= 2
      BY <1>0, <2>1, <2>3, DownMove DEF Progress
    <3>. QED
      BY <3>1 DEF LockStage
  <2>. QED
    BY <2>1, <2>2, <2>3 DEF LockStage
<1>4. CASE lock # "held" /\ ~Insmod /\ ~DuplicateLine
  <2>1. lock' = lock
    BY <1>4 DEF Next, BringUp, TakeDown, InitWellkn, InitSimple, InitCount,
       NoCache, NoFile, BadLine, NoEntry, InitAproto, EndOfFile, OpenFile,
       SkipLine, AddLine, Unhook, Synchronize, Enter, FindPort, Leave, vars, tables, InitHooks,
       Rmmod, HooksDown, DownSimple, DownWellkn
  <2>. QED
    BY <1>4, <2>1 DEF LockStage
<1>. QED
  BY <1>1, <1>2, <1>3, <1>4

LEMMA NextHeldByParts ==
  ASSUME TypeOK, Stage, HeldByParts, [Next]_vars
  PROVE  HeldByParts'
<1>0. Progress
  BY OrderIs DEF TypeOK, Progress
<1>1. CASE NoFile \/ BadLine \/ NoEntry \/ DuplicateLine
  BY <1>1 DEF NoFile, BadLine, NoEntry, DuplicateLine, HeldByParts
<1>2. CASE Insmod
  BY <1>2 DEF Insmod, HeldByParts, TypeOK, Stage
<1>3. CASE InitSimple
  <2>1. misread' = misread /\ part \in {1, 5} /\ pc = "init"
    BY <1>0, <1>3, PartAt DEF InitSimple, At
  <2>2. CASE Succeed /\ held' = held \cup {Order[part]}
    BY <2>1, <2>2, OrderIs DEF Succeed, HeldByParts
  <2>3. CASE Unwind /\ held' = held
    BY <2>1, <2>3 DEF Unwind, HeldByParts
  <2>. QED
    BY <1>3, <2>2, <2>3 DEF InitSimple
<1>4. CASE InitCount
  <2>1. misread' = misread /\ part = 2 /\ pc = "init"
    BY <1>0, <1>4, PartAt DEF InitCount, At
  <2>2. CASE Succeed /\ held' = held \cup {"jprobe"}
    BY <2>1, <2>2, OrderIs DEF Succeed, HeldByParts
  <2>3. CASE Unwind /\ held' = held
    BY <2>1, <2>3 DEF Unwind, HeldByParts
  <2>. QED
    BY <1>4, <2>2, <2>3 DEF InitCount
<1>5. CASE OpenFile
  BY <1>5 DEF OpenFile, At, HeldByParts
<1>6. CASE SkipLine \/ AddLine
  BY <1>6 DEF SkipLine, AddLine, parts, HeldByParts
<1>7. CASE NoCache \/ InitAproto \/ InitHooks
  <2>1. pc = "init" /\ held' = held /\ misread' = misread /\ up \subseteq up'
    BY <1>7 DEF NoCache, InitAproto, InitHooks, At, Unwind, Succeed, parts
  <2>. QED
    BY <2>1 DEF HeldByParts
<1>8. CASE EndOfFile
  <2>1. up' = up \cup {"wellkn"} /\ held' = held /\ misread' = misread
    BY <1>8, OrderIs DEF EndOfFile, Succeed, Stage
  <2>. QED
    BY <2>1 DEF HeldByParts
<1>9. CASE Rmmod \/ Unhook \/ Synchronize
           \/ (\E c \in CPUs : Enter(c) \/ FindPort(c) \/ Leave(c)) \/ UNCHANGED vars
  <2>1. held' = held /\ misread' = misread /\ up' = up /\ (pc = "parse" => pc' = "parse")
    BY <1>9 DEF Rmmod, Unhook, Synchronize, Enter, FindPort, Leave, vars, parts
  <2>. QED
    BY <2>1 DEF HeldByParts
<1>10. CASE HooksDown
  <2>1. up' = up \ {"hooks"} /\ held' = held /\ misread' = misread /\ pc = "down"
    BY <1>10 DEF HooksDown, Down, At
  <2>. QED
    BY <2>1 DEF HeldByParts
<1>11. CASE DownSimple
  <2>1. up' = up \ {Order[part]} /\ held' = held \ Gives[Order[part]] /\ misread' = misread
        /\ pc = "down" /\ Order[part] \in {"config", "count", "aproto", "nl_log"}
    BY <1>11, GivesIs DEF DownSimple, Down
  <2>. QED
    BY <2>1, GivesIs DEF HeldByParts
<1>12. CASE DownWellkn
  <2>1. up' = up \ {"wellkn"} /\ held' = held \ {"cache", "entries"} /\ misread' = misread
        /\ pc = "down"
    BY <1>12 DEF DownWellkn, Down, At
  <2>. QED
    BY <2>1 DEF HeldByParts
<1>. QED
  BY <1>1, <1>2, <1>3, <1>4, <1>5, <1>6, <1>7, <1>8, <1>9, <1>10, <1>11, <1>12
     DEF Next, BringUp, InitWellkn, TakeDown

LEMMA NextRowsFirst ==
  ASSUME TypeOK, Stage, RowsFirst, [Next]_vars
  PROVE  RowsFirst'
<1>0. Progress
  BY OrderIs DEF TypeOK, Progress
<1>. USE DEF table, HasRow
<1>1. CASE Insmod
  BY <1>1 DEF Insmod, Stage, RowsFirst
<1>2. CASE InitCount
  <2>1. part = 2 /\ tree = {} /\ tree' = {} /\ rows' = <<"unknown">>
        /\ refused' = {}
    BY <1>0, <1>2, PartAt DEF InitCount, At, RowsFirst
  <2>2. Len(rows') = 1 /\ rows'[1] = "unknown"
    BY <2>1
  <2>. QED
    BY <2>1, <2>2 DEF RowsFirst
<1>3. CASE InitSimple \/ InitAproto \/ InitHooks
  <2>1. pc = "init" /\ part \in {1, 4, 5, 6} /\ tree' = tree /\ UNCHANGED table
    BY <1>0, <1>3, PartAt DEF InitSimple, InitAproto, InitHooks, At, tables
  <2>2. \/ pc' \in {"down", "out"}
        \/ pc' = "init" /\ part = 1 /\ part' = 2
        \/ pc' \in {"init", "live"} /\ part > 2 /\ part' \in 4..7
    BY <1>3, <2>1, OrderIs
       DEF InitSimple, InitAproto, InitHooks, At, Succeed, Unwind, parts, tables
  <2>. QED
    BY <2>1, <2>2 DEF RowsFirst
<1>4. CASE NoCache \/ NoFile \/ BadLine
  <2>1. pc' \in {"down", "out"} /\ tree' = tree /\ UNCHANGED table
    BY <1>4 DEF NoCache, NoFile, BadLine, Unwind, tables
  <2>. QED
    BY <2>1 DEF RowsFirst
<1>5. CASE NoEntry \/ DuplicateLine
  <2>1. pc' \in {"down", "out"} /\ tree' = tree
    BY <1>5 DEF NoEntry, DuplicateLine, Unwind
  <2>2. rest \in Seq(Lines) /\ rest # <<>> /\ Head(rest).kind = "entry"
        /\ AddRow(Head(rest).name)
    BY <1>5 DEF NoEntry, DuplicateLine, TypeOK
  <2>3. Head(rest).name \in Names /\ TableOK
    BY <2>2, LineFields DEF TypeOK, TableOK, RowNames
  <2>. HIDE DEF HasRow
  <2>. QED
    BY <2>1, <2>2, <2>3, AddRowFacts DEF RowsFirst
<1>6. CASE OpenFile
  <2>1. pc = "init" /\ part = 3 /\ pc' = "parse" /\ tree' = tree /\ UNCHANGED table
    BY <1>0, <1>6, PartAt DEF OpenFile, At
  <2>. QED
    BY <2>1 DEF RowsFirst
<1>7. CASE SkipLine
  BY <1>7 DEF SkipLine, parts, RowsFirst
<1>8. CASE AddLine
  <2>1. pc = "parse" /\ pc' = "parse" /\ tree' = tree \cup {Head(rest)}
        /\ AddRow(Head(rest).name)
    BY <1>8 DEF AddLine, parts
  <2>2. rest \in Seq(Lines) /\ rest # <<>> /\ Head(rest).kind = "entry"
    BY <1>8 DEF AddLine, TypeOK
  <2>3. Head(rest).name \in Names /\ TableOK
    BY <2>2, LineFields DEF TypeOK, TableOK, RowNames
  <2>. HIDE DEF HasRow
  <2>. QED
    BY <2>1, <2>2, <2>3, AddRowFacts DEF RowsFirst
<1>9. CASE EndOfFile
  <2>1. pc = "parse" /\ pc' = "init" /\ part' = 4 /\ tree' = tree /\ UNCHANGED table
    BY <1>9, OrderIs DEF EndOfFile, Succeed, Stage, tables
  <2>. QED
    BY <2>1 DEF RowsFirst
<1>10. CASE Rmmod \/ HooksDown \/ DownSimple
  <2>1. pc' \in {"down", "out"} /\ tree' = tree /\ UNCHANGED table
    BY <1>10 DEF Rmmod, HooksDown, DownSimple, Down, tables
  <2>. QED
    BY <2>1 DEF RowsFirst
<1>11. CASE DownWellkn
  <2>1. pc' \in {"down", "out"} /\ tree' = {} /\ UNCHANGED table
    BY <1>11 DEF DownWellkn, Down
  <2>. QED
    BY <2>1 DEF RowsFirst
<1>12. CASE Unhook \/ Synchronize
            \/ (\E c \in CPUs : Enter(c) \/ FindPort(c) \/ Leave(c)) \/ UNCHANGED vars
  <2>1. pc' = pc /\ part' = part /\ tree' = tree /\ UNCHANGED table
    BY <1>12 DEF Unhook, Synchronize, Enter, FindPort, Leave, vars, parts, tables
  <2>. QED
    BY <2>1 DEF RowsFirst
<1>. QED
  BY <1>1, <1>2, <1>3, <1>4, <1>5, <1>6, <1>7, <1>8, <1>9, <1>10, <1>11, <1>12
     DEF Next, BringUp, InitWellkn, TakeDown

-----------------------------------------------------------------------------
(* The invariant, and what it is for *)

LEMMA InitInv == Init => IndInv
<1>. SUFFICES ASSUME Init
              PROVE  IndInv
  OBVIOUS
<1>1. TypeOK
  <2>1. rest \in Seq(Lines)
    BY DEF Init
  <2>2. cpu \in [CPUs -> [hook : 0..2, at : {"out", "find", "leave"}]]
    BY DEF Init, Outside
  <2>3. loads \in 0..MaxLoads
    BY LifecycleAssumption DEF Init
  <2>4. part \in 1..Len(Order)
    BY OrderIs DEF Init
  <2>5. /\ pc \in {"out", "init", "parse", "live", "down"}
        /\ closing \in 0..2
        /\ lock \in {"free", "held"}
    BY DEF Init
  <2>8. misread = FALSE
    BY DEF Init
  <2>6. up = {} /\ held = {} /\ hooked = {} /\ refused = {} /\ tree = {} /\ closing = 0
    BY DEF Init
  <2>9. rows \in Seq(Names \cup {"unknown"}) /\ Len(rows) <= MaxProto
    BY LifecycleAssumption DEF Init
  <2>7. hooked \in {{}, {1}, {1, 2}}
    BY <2>6
  <2>. QED
    BY <2>1, <2>2, <2>3, <2>4, <2>5, <2>6, <2>7, <2>8, <2>9 DEF TypeOK
<1>2. Readers
  BY DEF Init, Readers, Outside
<1>. QED
  BY <1>1, <1>2 DEF Init, IndInv, Stage, HookStage, LockStage, HeldByParts, RowsFirst

LEMMA NextInv == IndInv /\ [Next]_vars => IndInv'
BY NextType, NextStage, NextHookStage, NextReaders, NextLockStage, NextHeldByParts,
   NextRowsFirst DEF IndInv

LEMMA Invariance == Spec => []IndInv
BY InitInv, NextInv, PTL DEF Spec

(* All state of insmod and rmmod stays in its types; in particular nothing  *)
(* is up, hooked or waited for when the module is out.                      *)
THEOREM TypeCorrect == Spec => []TypeOK
<1>1. IndInv => TypeOK
  BY DEF IndInv
<1>. QED
  BY <1>1, Invariance, PTL

(* No packet meets a part that is not up, at insmod, at rmmod or after a    *)
(* failure at any point (appflid_init, appflid_exit), on any number of CPUs. *)
THEOREM PartsAreUp == Spec => []PartsUnderHook
<1>1. ASSUME IndInv, NEW c \in CPUs, cpu[c].hook # 0
      PROVE  Parts \ {"hooks"} \subseteq up
  <2>0. Progress
    BY <1>1, OrderIs DEF IndInv, TypeOK, Progress
  <2>1. hooked # {} \/ closing # 0
    BY <1>1 DEF IndInv, Readers
  <2>2. pc = "live" \/ (pc \in {"init", "down"} /\ part = 6)
    BY <1>1, <2>1 DEF IndInv, HookStage
  <2>3. CASE pc = "live"
    BY <1>1, <2>3 DEF IndInv, Stage
  <2>4. CASE pc \in {"init", "down"} /\ part = 6
    <3>1. \A i \in 1..5 : Order[i] \in up
      BY <1>1, <2>4 DEF IndInv, Stage
    <3>2. /\ Order[1] \in up /\ Order[2] \in up /\ Order[3] \in up
          /\ Order[4] \in up /\ Order[5] \in up
      BY <3>1
    <3>. QED
      BY <3>2, OrderIs
  <2>. QED
    BY <2>2, <2>3, <2>4
<1>2. IndInv => PartsUnderHook
  BY <1>1 DEF PartsUnderHook
<1>. QED
  BY <1>2, Invariance, PTL

(* When the module is live every well-known protocol that did not find the  *)
(* table full has its row, whatever the configuration file says, whatever   *)
(* lies behind it in memory, and for every size of the table.               *)
THEOREM RowsThere == Spec => []RowPerPort
<1>1. IndInv => RowPerPort
  BY DEF IndInv, RowsFirst, RowPerPort
<1>. QED
  BY <1>1, Invariance, PTL

(* However far an insmod got before it failed, and after every rmmod, all   *)
(* is given back, unless wellkn_port_init() has failed over its file.       *)
THEOREM AllGivenBack == Spec => []NothingLeaks
<1>1. IndInv => NothingLeaks
  BY DEF IndInv, TypeOK, HeldByParts, NothingLeaks
<1>. QED
  BY <1>1, Invariance, PTL

(* wellkn_port_lock is never left locked where a packet can wait for it.    *)
THEOREM LockFree == Spec => []LockFreeUnderHook
<1>1. ASSUME IndInv, hooked # {} \/ \E c \in CPUs : cpu[c].hook # 0
      PROVE  lock = "free"
  <2>1. hooked # {} \/ closing # 0
    BY <1>1 DEF IndInv, Readers
  <2>2. pc = "live" \/ part = 6
    BY <1>1, <2>1 DEF IndInv, HookStage
  <2>3. lock # "held"
    BY <1>1, <2>2, OrderIs DEF IndInv, LockStage
  <2>. QED
    BY <1>1, <2>3 DEF IndInv, TypeOK
<1>2. IndInv => LockFreeUnderHook
  BY <1>1 DEF LockFreeUnderHook
<1>. QED
  BY <1>2, Invariance, PTL
=============================================================================
