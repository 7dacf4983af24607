--------------------------- MODULE RegistryProofs ---------------------------
(***************************************************************************)
(* For any number of protocol modules with any configuration files, loaded *)
(* and unloaded at the same time, and any size of the counter table: rows  *)
(* and nodes are kept.                                                     *)
(***************************************************************************)
EXTENDS Registry, CountTableProofs, SequenceTheorems

-----------------------------------------------------------------------------
(* The table and the list *)

(* the names that count *)
AllNames == {NameOf(m) : m \in Mods} \cup BaseNames

Rows == [name : {c.name : c \in Confs} \cup BaseNames \cup {NoName},
         active : {0}, inactive : {0}]

Tables == {t \in [slot : [Slots -> Rows], n : Int] : t.n <= MaxProto}

RowNames == {c.name : c \in Confs} \cup BaseNames \cup {NoName}

(* They are tables as CountTableProofs has them, unless there were removals *)
(* without a row.                                                          *)
LEMMA TablesAre == \A t \in Tables : t.n >= 0 => t \in TablesOf(RowNames)
BY MaxProtoAssumption DEF Tables, Rows, TablesOf, RowNames

(* what is not in use is zeroed *)
Clean(t) == \A i \in Slots : i > t.n => t.slot[i] = ZeroRow

(* Adding and dropping keep the table typed, and clear what is not in use. *)
LEMMA TableSteps ==
  ASSUME NEW t \in Tables, Clean(t)
  PROVE  /\ \A name \in {c.name : c \in Confs} \cup BaseNames :
              AddProto(t, name) \in Tables /\ Clean(AddProto(t, name))
         /\ \A r \in Nat : DropRow(t, r) \in Tables /\ Clean(DropRow(t, r))
<1>1. /\ ZeroRow \in Rows /\ MaxProto \in Nat /\ t.n \in Int /\ t.n <= MaxProto
      /\ t.slot \in [Slots -> Rows]
  BY MaxProtoAssumption DEF ZeroRow, Rows, Tables
<1>2. ASSUME NEW name \in {c.name : c \in Confs} \cup BaseNames
      PROVE  AddProto(t, name) \in Tables /\ Clean(AddProto(t, name))
  <2>1. CASE Full(t)
    <3>1. AddProto(t, name) = t
      BY <2>1 DEF AddProto
    <3>. QED
      BY <3>1
  <2>2. CASE t.n < 0
    <3> DEFINE u == AddProto(t, name)
    <3>1. t.n + 1 \notin Slots /\ t.n + 1 \in Int /\ t.n + 1 <= MaxProto /\ ~Full(t)
      BY <1>1, <2>2 DEF Full, Slots
    <3>2. u.n = t.n + 1 /\ u.slot = [t.slot EXCEPT ![t.n + 1].name = name]
          /\ u = [slot |-> u.slot, n |-> u.n]
      BY <3>1 DEF AddProto
    <3>3. u.slot = t.slot
      BY <1>1, <3>1, <3>2
    <3>4. u \in Tables
      BY <1>1, <3>1, <3>2, <3>3 DEF Tables
    <3>5. ASSUME NEW i \in Slots
          PROVE  t.slot[i] = ZeroRow
      BY <1>1, <2>2 DEF Clean, Slots
    <3>. QED
      BY <3>3, <3>4, <3>5 DEF Clean
  <2>3. CASE t.n >= 0 /\ ~Full(t)
    <3> DEFINE u == AddProto(t, name)
               row == [t.slot[t.n + 1] EXCEPT !.name = name]
    <3>1. t.n + 1 \in Slots /\ t.n + 1 \in Int /\ t.n + 1 <= MaxProto
      BY <1>1, <2>3 DEF Full, Slots
    <3>2. row \in Rows
      BY <1>1, <3>1 DEF Rows
    <3>3. u = [slot |-> [t.slot EXCEPT ![t.n + 1] = row], n |-> t.n + 1]
      BY <2>3 DEF AddProto
    <3>. HIDE DEF row
    <3>4. [t.slot EXCEPT ![t.n + 1] = row] \in [Slots -> Rows]
      BY <1>1, <3>2
    <3>5. u \in Tables
      BY <3>1, <3>3, <3>4 DEF Tables
    <3>6. ASSUME NEW i \in Slots, i > t.n + 1
          PROVE  u.slot[i] = ZeroRow
      <4>1. i > t.n /\ i # t.n + 1
        BY <1>1, <3>6 DEF Slots
      <4>2. u.slot[i] = t.slot[i]
        BY <1>1, <3>3, <4>1
      <4>. QED
        BY <4>1, <4>2 DEF Clean
    <3>. QED
      BY <3>3, <3>5, <3>6 DEF Clean
  <2>. QED
    BY <1>1, <2>1, <2>2, <2>3
<1>3. ASSUME NEW r \in Nat
      PROVE  DropRow(t, r) \in Tables /\ Clean(DropRow(t, r))
  <2> DEFINE Moved(i) == IF i = t.n THEN ZeroRow
                         ELSE IF r > 0 /\ i >= r /\ i < t.n THEN t.slot[i + 1]
                         ELSE t.slot[i]
             u == DropRow(t, r)
  <2>1. u = [slot |-> [i \in Slots |-> Moved(i)], n |-> t.n - 1]
    BY DEF DropRow
  <2>2. t.n - 1 \in Int /\ t.n - 1 <= MaxProto
    BY <1>1
  <2>3. \A i \in Slots : i < t.n => i + 1 \in Slots
    BY <1>1 DEF Slots
  <2>4. \A i \in Slots : Moved(i) \in Rows
    BY <1>1, <2>3
  <2>5. \A i \in Slots : i > t.n - 1 => Moved(i) = ZeroRow
    BY <1>1 DEF Slots, Clean
  <2>. HIDE DEF Moved
  <2>6. u \in Tables
    BY <2>1, <2>2, <2>4 DEF Tables
  <2>7. \A i \in Slots : i > u.n => u.slot[i] = ZeroRow
    BY <2>1, <2>5
  <2>. QED
    BY <2>6, <2>7 DEF Clean
<1>. QED
  BY <1>2, <1>3

(* A list without its node i has the nodes before i, and those behind it    *)
(* one place earlier.                                                      *)
LEMMA RemoveAtFacts ==
  ASSUME NEW S, NEW s \in Seq(S), NEW i \in 1..Len(s)
  PROVE  /\ RemoveAt(s, i) \in Seq(S)
         /\ Len(RemoveAt(s, i)) = Len(s) - 1
         /\ \A j \in 1..(Len(s) - 1) :
              RemoveAt(s, i)[j] = IF j < i THEN s[j] ELSE s[j + 1]
<1> DEFINE a == SubSeq(s, 1, i - 1)
           b == SubSeq(s, i + 1, Len(s))
<1>1. /\ a \in Seq(S) /\ Len(a) = i - 1
      /\ \A j \in 1..(i - 1) : a[j] = s[j]
  OBVIOUS
<1>2. /\ b \in Seq(S) /\ Len(b) = Len(s) - i
      /\ \A j \in 1..(Len(s) - i) : b[j] = s[i + j]
  OBVIOUS
<1>3. RemoveAt(s, i) = a \o b
  BY DEF RemoveAt
<1>. HIDE DEF a, b
<1>4. a \o b \in Seq(S) /\ Len(a \o b) = Len(s) - 1
  <2>1. a \o b \in Seq(S)
    BY <1>1, <1>2
  <2>2. Len(a \o b) = Len(a) + Len(b)
    BY <1>1, <1>2, ConcatProperties
  <2>3. Len(s) \in Nat
    OBVIOUS
  <2>. QED
    BY <1>1, <1>2, <2>1, <2>2, <2>3
<1>5. ASSUME NEW j \in 1..(Len(s) - 1)
      PROVE  (a \o b)[j] = IF j < i THEN s[j] ELSE s[j + 1]
  <2>1. CASE j < i
    BY <1>1, <1>2, <2>1
  <2>2. CASE ~(j < i)
    <3>1. (a \o b)[j] = b[j - (i - 1)] /\ j - (i - 1) \in 1..(Len(s) - i)
      BY <1>1, <1>2, <2>2
    <3>2. i + (j - (i - 1)) = j + 1
      OBVIOUS
    <3>. QED
      BY <1>2, <2>2, <3>1, <3>2
  <2>. QED
    BY <2>1, <2>2
<1>. QED
  BY <1>3, <1>4, <1>5

-----------------------------------------------------------------------------
(* Type correctness, and room for every row that will be taken back *)

Having == {"parsed", "checked", "compiled", "in", "unlisted"}

(* the modules that will take a row back *)
Busy == {m \in Mods : pc[m] \in Having}

RoomKept == refused \/ Cardinality(Busy) <= table.n

(* A set of modules is finite. *)
LEMMA FiniteMods ==
  ASSUME NEW S \in SUBSET Mods
  PROVE  IsFiniteSet(S) /\ Cardinality(S) \in Nat
BY RegistryAssumption, FS_Subset, FS_CardinalityType

(* What a module that moves on does to the modules that hold a row.         *)
LEMMA Moves ==
  ASSUME TypeOK, NEW m \in Mods, NEW from, NEW to \in PCs, Goto(m, from, to)
  PROVE  /\ pc' \in [Mods -> PCs]
         /\ Busy' = IF to \in Having THEN Busy \cup {m} ELSE Busy \ {m}
         /\ \A n : Holders(n)' = IF n = NameOf(m) /\ to \in Having
                                  THEN Holders(n) \cup {m} ELSE Holders(n) \ {m}
         /\ \A n : Loaded(n)' = IF n = NameOf(m) /\ to = "in"
                                 THEN Loaded(n) \cup {m} ELSE Loaded(n) \ {m}
         /\ m \in Busy <=> from \in Having
         /\ m \in Holders(NameOf(m)) <=> from \in Having
         /\ m \in Loaded(NameOf(m)) <=> from = "in"
<1>1. /\ pc \in [Mods -> PCs] /\ pc' = [pc EXCEPT ![m] = to] /\ pc[m] = from
  BY DEF Goto, TypeOK
<1>2. \A o \in Mods : pc'[o] = IF o = m THEN to ELSE pc[o]
  BY <1>1
<1>3. pc' \in [Mods -> PCs]
  BY <1>1
<1>4. Busy' = IF to \in Having THEN Busy \cup {m} ELSE Busy \ {m}
  BY <1>2 DEF Busy
<1>5. \A n : Holders(n)' = IF n = NameOf(m) /\ to \in Having
                            THEN Holders(n) \cup {m} ELSE Holders(n) \ {m}
  BY <1>2 DEF Holders, Having, NameOf
<1>6. \A n : Loaded(n)' = IF n = NameOf(m) /\ to = "in"
                           THEN Loaded(n) \cup {m} ELSE Loaded(n) \ {m}
  BY <1>2 DEF Loaded, NameOf
<1>. QED
  BY <1>1, <1>3, <1>4, <1>5, <1>6 DEF Busy, Holders, Loaded, Having

(* Rows are kept by a step that leaves the table alone and gives no module  *)
(* a row.                                                                  *)
LEMMA Fewer ==
  ASSUME TypeOK, RoomKept, RowsKept, UNCHANGED <<table, refused>>,
         Busy' \subseteq Busy, \A n : Holders(n)' \subseteq Holders(n)
  PROVE  RoomKept' /\ RowsKept'
<1>1. IsFiniteSet(Busy) /\ Busy \in SUBSET Mods /\ table.n \in Int
  BY FiniteMods DEF Busy, TypeOK
<1>2. Cardinality(Busy') <= Cardinality(Busy) /\ Cardinality(Busy) \in Nat /\ Cardinality(Busy') \in Nat
  BY <1>1, FS_Subset, FiniteMods
<1>3. RoomKept'
  BY <1>1, <1>2 DEF RoomKept
<1>4. ASSUME NEW n
      PROVE  RowsFor(n)' <= RowsFor(n) /\ RowsFor(n)' \in Nat /\ RowsFor(n) \in Nat
  <2>1. Holders(n) \in SUBSET Mods /\ Holders(n)' \subseteq Holders(n)
    BY DEF Holders
  <2>2. /\ Cardinality(Holders(n)') <= Cardinality(Holders(n))
        /\ Cardinality(Holders(n)) \in Nat /\ Cardinality(Holders(n)') \in Nat
    BY <2>1, FS_Subset, FiniteMods
  <2>. QED
    BY <2>2 DEF RowsFor
<1>5. ASSUME NEW n \in AllNames, ~refused
      PROVE  Cardinality(Named(table, n)) >= RowsFor(n)'
  <2>1. Cardinality(Named(table, n)) >= RowsFor(n)
    BY <1>5 DEF RowsKept, AllNames
  <2>2. Cardinality(Named(table, n)) \in Nat
    BY <1>5, NamedFacts, TablesAre DEF TypeOK, Tables, Rows
  <2>. QED
    BY <1>4, <2>1, <2>2
<1>. QED
  BY <1>3, <1>5 DEF RowsKept, AllNames

(* A row added for a module that goes on is counted for it, and one that is *)
(* added by a parse that fails in the end stays behind.                    *)
LEMMA ParseConfKeeps ==
  ASSUME TypeOK, RoomKept, RowsKept, NEW m \in Mods, ParseConf(m)
  PROVE  RoomKept' /\ RowsKept'
<1> DEFINE to == IF Conf[m].parses THEN "parsed" ELSE "out"
           nm == NameOf(m)
<1>1. Goto(m, "read", to) /\ to \in PCs
  BY DEF ParseConf, PCs
<1>2. Conf[m].parses \in BOOLEAN /\ Conf[m].row \in BOOLEAN /\ (Conf[m].parses => Conf[m].row)
  BY RegistryAssumption
<1>3. /\ table \in Tables /\ table.n \in Int /\ MaxProto \in Nat
      /\ ~refused => table.n >= 0 /\ table \in TablesOf(RowNames)
  BY TablesAre, MaxProtoAssumption DEF TypeOK, Tables, Rows
<1>4. /\ Busy' \subseteq Busy \cup {m}
      /\ \A n : Holders(n)' \subseteq Holders(n) \cup {m}
      /\ \A n : n # nm => Holders(n)' \subseteq Holders(n)
      /\ to = "out" => Busy' \subseteq Busy /\ \A n : Holders(n)' \subseteq Holders(n)
  BY <1>1, Moves DEF Having
<1>. HIDE DEF to
<1>5. CASE ~Conf[m].row
  <2>1. UNCHANGED <<table, refused>> /\ to = "out"
    BY <1>2, <1>5 DEF ParseConf, to
  <2>. QED
    BY <1>4, <2>1, Fewer
<1>6. CASE Conf[m].row /\ Full(table)
  <2>1. refused'
    BY <1>6 DEF ParseConf
  <2>. QED
    BY <2>1 DEF RoomKept, RowsKept
<1>8. CASE Conf[m].row /\ refused
  <2>1. refused'
    BY <1>8 DEF ParseConf
  <2>. QED
    BY <2>1 DEF RoomKept, RowsKept
<1>7. CASE Conf[m].row /\ ~Full(table) /\ ~refused
  <2>1. table' = AddProto(table, nm) /\ refused' = refused
    BY <1>7 DEF ParseConf, TypeOK
  <2>2. table'.n = table.n + 1
    BY <1>3, <1>7, <2>1, AddNamed
  <2>3. ASSUME NEW A \in SUBSET Mods, NEW B \in SUBSET Mods, B \subseteq A \cup {m}
        PROVE  Cardinality(B) <= Cardinality(A) + 1
    <3>1. IsFiniteSet(A) /\ Cardinality(A) \in Nat /\ Cardinality(B) \in Nat
      BY FiniteMods
    <3>2. IsFiniteSet(A \cup {m}) /\ Cardinality(A \cup {m}) <= Cardinality(A) + 1
      BY <3>1, FS_AddElement
    <3>3. Cardinality(B) <= Cardinality(A \cup {m})
      BY <2>3, <3>2, FS_Subset
    <3>4. Cardinality(A \cup {m}) \in Nat
      BY <3>2, FS_CardinalityType
    <3>. QED
      BY <3>1, <3>2, <3>3, <3>4
  <2>4. /\ Busy \in SUBSET Mods /\ Busy' \in SUBSET Mods
        /\ \A n : Holders(n) \in SUBSET Mods /\ Holders(n)' \in SUBSET Mods
    BY DEF Busy, Holders
  <2>5. Cardinality(Busy') <= Cardinality(Busy) + 1
    BY <1>4, <2>3, <2>4
  <2>6. RoomKept'
    BY <1>3, <1>7, <2>2, <2>4, <2>5, FiniteMods DEF RoomKept
  <2>7. ASSUME NEW n \in AllNames, ~refused
        PROVE  Cardinality(Named(table', n)) >= RowsFor(n)'
    <3>1. Cardinality(Holders(n)') <= Cardinality(Holders(n)) + (IF n = nm THEN 1 ELSE 0)
      <4>1. CASE n = nm
        BY <1>4, <2>3, <2>4, <4>1
      <4>2. CASE n # nm
        <5>1. Holders(n)' \subseteq Holders(n) /\ IsFiniteSet(Holders(n))
          BY <1>4, <2>4, <4>2, FiniteMods
        <5>2. Cardinality(Holders(n)') <= Cardinality(Holders(n))
          BY <5>1, FS_Subset
        <5>. QED
          BY <2>4, <4>2, <5>2, FiniteMods
      <4>. QED
        BY <4>1, <4>2
    <3>2. Cardinality(Named(table', n)) = Cardinality(Named(table, n)) + (IF n = nm THEN 1 ELSE 0)
      BY <1>3, <1>7, <2>1, CountNamed
    <3>3. Cardinality(Named(table, n)) >= RowsFor(n)
      BY <2>7 DEF RowsKept, AllNames
    <3>4. /\ Cardinality(Named(table, n)) \in Nat
          /\ Cardinality(Holders(n)) \in Nat /\ Cardinality(Holders(n)') \in Nat
      BY <1>3, <1>7, <2>4, NamedFacts, FiniteMods
    <3>. HIDE DEF nm
    <3>. QED
      BY <3>1, <3>2, <3>3, <3>4 DEF RowsFor
  <2>. QED
    BY <2>1, <2>6, <2>7 DEF RowsKept, AllNames
<1>. QED
  BY <1>2, <1>5, <1>6, <1>7, <1>8

(* Taking a row back leaves the others theirs.                              *)
LEMMA RemoveRowKeeps ==
  ASSUME TypeOK, RoomKept, RowsKept, NEW m \in Mods, RemoveRow(m)
  PROVE  RoomKept' /\ RowsKept'
<1> DEFINE nm == NameOf(m)
<1>1. /\ Goto(m, "unlisted", "out") /\ "out" \in PCs
      /\ table' = RemoveProto(table, nm) /\ refused' = refused
  BY DEF RemoveRow, PCs
<1>2. /\ table \in Tables /\ table.n \in Int
      /\ ~refused => table \in TablesOf(RowNames)
  BY TablesAre DEF TypeOK, Tables, Rows
<1>3. /\ Busy' = Busy \ {m} /\ m \in Busy
      /\ \A n : Holders(n)' = Holders(n) \ {m}
      /\ m \in Holders(nm) /\ \A n : n # nm => m \notin Holders(n)
  BY <1>1, Moves DEF Having, Holders
<1>4. /\ IsFiniteSet(Busy) /\ Cardinality(Busy) \in Nat
      /\ \A n : IsFiniteSet(Holders(n)) /\ Cardinality(Holders(n)) \in Nat
  BY FiniteMods DEF Busy, Holders
<1>5. Cardinality(Busy') = Cardinality(Busy) - 1 /\ Cardinality(Busy') \in Nat
  <2>1. Busy' \in SUBSET Mods
    BY DEF Busy
  <2>. QED
    BY <1>3, <1>4, <2>1, FS_RemoveElement, FiniteMods
<1>6. table'.n = table.n - 1
  BY <1>1 DEF RemoveProto, DropRow
<1>7. RoomKept'
  BY <1>1, <1>2, <1>4, <1>5, <1>6 DEF RoomKept
<1>8. ASSUME NEW n \in AllNames, ~refused
      PROVE  Cardinality(Named(table', n)) >= RowsFor(n)'
  <2>1. Cardinality(Holders(n)') = Cardinality(Holders(n)) - (IF n = nm THEN 1 ELSE 0)
    BY <1>3, <1>4, FS_RemoveElement
  <2>2. nm \in AllNames
    BY DEF AllNames
  <2>3. /\ Cardinality(Named(table, n)) >= RowsFor(n)
        /\ Cardinality(Named(table, nm)) >= RowsFor(nm)
    BY <1>8, <2>2 DEF RowsKept, AllNames
  <2>4. Cardinality(Holders(nm)) # 0
    BY <1>3, <1>4, FS_EmptySet
  <2>5. Cardinality(Named(table, nm)) \in Nat /\ Cardinality(Named(table, n)) \in Nat
    BY <1>2, <1>8, NamedFacts
  <2>6. Cardinality(Named(table, nm)) > 0
    BY <1>4, <2>3, <2>4, <2>5 DEF RowsFor
  <2>7. Named(table, nm) # {}
    BY <2>6, FS_EmptySet
  <2>8. Cardinality(Named(table', n)) = Cardinality(Named(table, n)) - (IF n = nm THEN 1 ELSE 0)
    BY <1>1, <1>2, <1>8, <2>7, CountNamed
  <2>. HIDE DEF nm
  <2>. QED
    BY <1>4, <2>1, <2>3, <2>5, <2>8 DEF RowsFor
<1>. QED
  BY <1>1, <1>7, <1>8 DEF RowsKept, AllNames

(* Rows are kept by every step. *)
LEMMA RowsStep ==
  ASSUME TypeOK, RoomKept, RowsKept, [Next]_vars
  PROVE  RoomKept' /\ RowsKept'
<1>1. CASE UNCHANGED vars
  BY <1>1 DEF vars, RoomKept, RowsKept, RowsFor, Holders, Named, Busy
<1>2. ASSUME NEW m \in Mods, NEW from, NEW to \in PCs, Goto(m, from, to),
             UNCHANGED <<table, refused>>, to \in Having => from \in Having
      PROVE  RoomKept' /\ RowsKept'
  <2>1. Busy' \subseteq Busy
    BY <1>2, Moves
  <2>2. \A n : Holders(n)' \subseteq Holders(n)
    BY <1>2, Moves
  <2>. QED
    BY <1>2, <2>1, <2>2, Fewer
<1>3. ASSUME NEW m \in Mods, ReadConf(m)
      PROVE  RoomKept' /\ RowsKept'
  <2>1. CASE Goto(m, "out", "read")
    BY <1>2, <1>3, <2>1 DEF ReadConf, PCs, Having
  <2>2. CASE UNCHANGED pc
    BY <1>3, <2>2 DEF ReadConf, RoomKept, RowsKept, RowsFor, Holders, Named, Busy
  <2>. QED
    BY <1>3, <2>1, <2>2 DEF ReadConf
<1>4. ASSUME NEW m \in Mods, IsContained(m)
      PROVE  RoomKept' /\ RowsKept'
  BY <1>2, <1>4 DEF IsContained, PCs, Having
<1>5. ASSUME NEW m \in Mods, Compile(m)
      PROVE  RoomKept' /\ RowsKept'
  BY <1>2, <1>5 DEF Compile, PCs, Having
<1>6. ASSUME NEW m \in Mods, AddNode(m)
      PROVE  RoomKept' /\ RowsKept'
  BY <1>2, <1>6 DEF AddNode, PCs, Having
<1>7. ASSUME NEW m \in Mods, RemoveNode(m)
      PROVE  RoomKept' /\ RowsKept'
  BY <1>2, <1>7 DEF RemoveNode, PCs, Having
<1>. QED
  BY <1>1, <1>3, <1>4, <1>5, <1>6, <1>7, ParseConfKeeps, RemoveRowKeeps
  DEF Next, Register, Unregister

(* The types of a step's new state. *)
LEMMA TypeStep ==
  ASSUME TypeOK, RoomKept, RowsKept, [Next]_vars
  PROVE  TypeOK'
<1>1. CASE UNCHANGED vars
  BY <1>1 DEF vars, TypeOK
<1>2. ASSUME NEW m \in Mods, Register(m) \/ Unregister(m)
      PROVE  TypeOK'
  <2>1. /\ table \in Tables /\ Clean(table) /\ aprotos \in Seq(Mods) /\ pc \in [Mods -> PCs]
        /\ overlap \in BOOLEAN /\ refused \in BOOLEAN
        /\ NameOf(m) \in {c.name : c \in Confs} \cup BaseNames
    BY RegistryAssumption DEF TypeOK, Tables, Rows, Clean, NameOf
  <2>2. pc' \in [Mods -> PCs]
    <3>1. \A to \in PCs : [pc EXCEPT ![m] = to] \in [Mods -> PCs]
      BY <2>1
    <3>. QED
      BY <1>2, <2>1, <3>1
      DEF Register, Unregister, ReadConf, ParseConf, IsContained, Compile, AddNode, RemoveNode,
          RemoveRow, Goto, PCs
  <2>3. overlap' \in BOOLEAN /\ refused' \in BOOLEAN
    BY <1>2, <2>1
    DEF Register, Unregister, ReadConf, ParseConf, IsContained, Compile, AddNode, RemoveNode,
        RemoveRow
  <2>4. table' \in Tables /\ Clean(table')
    <3>1. CASE ParseConf(m)
      <4>1. table' = AddProto(table, NameOf(m)) \/ table' = table
        BY <3>1 DEF ParseConf
      <4>. QED
        BY <2>1, <4>1, TableSteps
    <3>2. CASE RemoveRow(m)
      <4>2. table' = DropRow(table, Lookup(table, NameOf(m)))
        BY <3>2 DEF RemoveRow, RemoveProto
      <4>3. Lookup(table, NameOf(m)) \in Nat
        <5>1. Named(table, NameOf(m)) \in SUBSET Nat
          BY <2>1 DEF Named
        <5>. QED
          BY <5>1, HasMin DEF Lookup
      <4>. QED
        BY <2>1, <4>2, <4>3, TableSteps
    <3>3. CASE table' = table
      BY <2>1, <3>3
    <3>. QED
      BY <1>2, <3>1, <3>2, <3>3
      DEF Register, Unregister, ReadConf, IsContained, Compile, AddNode, RemoveNode
  <2>5. aprotos' \in Seq(Mods)
    <3>1. CASE RemoveNode(m)
      <4>1. CASE Nodes(NameOf(m)) = {}
        BY <2>1, <3>1, <4>1 DEF RemoveNode
      <4>2. CASE Nodes(NameOf(m)) # {}
        <5>1. Nodes(NameOf(m)) \in SUBSET Nat /\ Nodes(NameOf(m)) \subseteq 1..Len(aprotos)
          BY <2>1 DEF Nodes
        <5>2. Min(Nodes(NameOf(m))) \in 1..Len(aprotos)
          BY <4>2, <5>1, HasMin
        <5>. QED
          BY <2>1, <3>1, <4>2, <5>2, RemoveAtFacts DEF RemoveNode
      <4>. QED
        BY <4>1, <4>2
    <3>2. CASE aprotos' = aprotos \/ aprotos' = Append(aprotos, m)
      BY <2>1, <3>2
    <3>. QED
      BY <1>2, <3>1, <3>2
      DEF Register, Unregister, ReadConf, ParseConf, IsContained, Compile, AddNode, RemoveRow
  <2>6. refused' \/ table'.n >= 0
    <3>1. RoomKept'
      BY RowsStep
    <3>2. Cardinality(Busy') \in Nat
      <4>1. Busy' \in SUBSET Mods
        BY DEF Busy
      <4>. QED
        BY <4>1, FiniteMods
    <3>3. table'.n \in Int
      BY <2>4 DEF Tables
    <3>. QED
      BY <3>1, <3>2, <3>3 DEF RoomKept
  <2>. QED
    BY <2>2, <2>3, <2>4, <2>5, <2>6 DEF TypeOK, Tables, Rows, Clean
<1>. QED
  BY <1>1, <1>2 DEF Next

-----------------------------------------------------------------------------
(* The list *)

(* A module between its check and its node is the only one of its name, in  *)
(* the list or on the way there.                                           *)
Alone ==
  overlap \/ \A m \in Mods : pc[m] \in {"checked", "compiled"} =>
               Nodes(NameOf(m)) = {} /\ ~Overlaps(m)

ListInv == NamesUnique /\ ListExact /\ Alone

LEMMA NodesFacts ==
  ASSUME TypeOK, NEW n
  PROVE  /\ Nodes(n) \in SUBSET (1..Len(aprotos)) /\ Len(aprotos) \in Nat
         /\ IsFiniteSet(Nodes(n)) /\ Cardinality(Nodes(n)) \in Nat
<1>1. Nodes(n) \in SUBSET (1..Len(aprotos)) /\ Len(aprotos) \in Nat
  BY DEF TypeOK, Nodes
<1>2. IsFiniteSet(1..Len(aprotos))
  BY <1>1, FS_Interval
<1>3. IsFiniteSet(Nodes(n))
  BY <1>1, <1>2, FS_Subset
<1>. QED
  BY <1>1, <1>3, FS_CardinalityType

(* The list is right after a step that leaves it alone and loads or unloads *)
(* nothing.                                                                *)
LEMMA ListUntouched ==
  ASSUME TypeOK, ListInv, aprotos' = aprotos, overlap' = overlap,
         \A m \in Mods : pc'[m] = "in" <=> pc[m] = "in",
         \A m \in Mods : pc'[m] \in {"checked", "compiled"} => pc[m] \in {"checked", "compiled"}
  PROVE  ListInv'
<1>1. \A n : Nodes(n)' = Nodes(n) /\ Loaded(n)' = Loaded(n)
  BY DEF Nodes, Loaded, NameOf
<1>2. NamesUnique'
  BY DEF ListInv, NamesUnique, NameOf
<1>3. ListExact'
  <2>1. {m \in Mods : pc'[m] = "in"} = {m \in Mods : pc[m] = "in"}
    OBVIOUS
  <2>2. \A n \in {NameOf(m) : m \in Mods} : Cardinality(Nodes(n)') = Cardinality(Loaded(n)')
    BY <1>1 DEF ListInv, ListExact
  <2>3. overlap' \/ {aprotos'[i] : i \in 1..Len(aprotos')} = {m \in Mods : pc'[m] = "in"}
    BY <2>1 DEF ListInv, ListExact
  <2>. QED
    BY <2>2, <2>3 DEF ListExact, NameOf
<1>4. Alone'
  BY <1>1 DEF ListInv, Alone, Overlaps, NameOf
<1>. QED
  BY <1>2, <1>3, <1>4 DEF ListInv

(* The check leaves a module alone of its name, or the overlap is noted.    *)
LEMMA ListIsContained ==
  ASSUME TypeOK, ListInv, NEW m \in Mods, IsContained(m)
  PROVE  ListInv'
<1>1. /\ pc \in [Mods -> PCs] /\ overlap \in BOOLEAN /\ aprotos' = aprotos /\ pc[m] = "parsed"
      /\ overlap' = (overlap \/ (Nodes(NameOf(m)) = {} /\ Overlaps(m)))
      /\ pc' = [pc EXCEPT ![m] = IF Nodes(NameOf(m)) # {} THEN "out" ELSE "checked"]
  BY DEF IsContained, TypeOK, Goto
<1>2. \A o \in Mods : pc'[o] = IF o = m THEN pc'[m] ELSE pc[o]
  BY <1>1
<1>3. \A o \in Mods : pc'[o] = "in" <=> pc[o] = "in"
  BY <1>1
<1>4. CASE Nodes(NameOf(m)) # {}
  <2>1. pc'[m] = "out" /\ overlap' = overlap
    BY <1>1, <1>4
  <2>. QED
    BY <1>1, <1>2, <1>3, <2>1, ListUntouched
<1>5. CASE Nodes(NameOf(m)) = {} /\ (overlap \/ Overlaps(m))
  <2>1. overlap'
    BY <1>1, <1>5
  <2>2. \A n : Nodes(n)' = Nodes(n) /\ Loaded(n)' = Loaded(n)
    BY <1>1, <1>3 DEF Nodes, Loaded, NameOf
  <2>3. ListExact'
    BY <2>1, <2>2 DEF ListInv, ListExact, NameOf
  <2>. QED
    BY <2>1, <2>3 DEF ListInv, NamesUnique, Alone
<1>6. CASE Nodes(NameOf(m)) = {} /\ ~overlap /\ ~Overlaps(m)
  <2>1. ~overlap' /\ pc'[m] = "checked"
    BY <1>1, <1>6
  <2>2. \A n : Nodes(n)' = Nodes(n) /\ Loaded(n)' = Loaded(n)
    BY <1>1, <1>3 DEF Nodes, Loaded, NameOf
  <2>3. NamesUnique'
    BY <1>1, <1>6 DEF ListInv, NamesUnique, NameOf
  <2>4. ListExact'
    <3>1. {o \in Mods : pc'[o] = "in"} = {o \in Mods : pc[o] = "in"}
      BY <1>3
    <3>2. \A n \in {NameOf(o) : o \in Mods} : Cardinality(Nodes(n)') = Cardinality(Loaded(n)')
      BY <2>2 DEF ListInv, ListExact
    <3>3. {aprotos'[i] : i \in 1..Len(aprotos')} = {o \in Mods : pc'[o] = "in"}
      BY <1>1, <1>6, <3>1 DEF ListInv, ListExact
    <3>. QED
      BY <3>2, <3>3 DEF ListExact, NameOf
  <2>5. ASSUME NEW o \in Mods, pc'[o] \in {"checked", "compiled"}
        PROVE  Nodes(NameOf(o))' = {} /\ ~Overlaps(o)'
    <3>1. CASE o = m
      BY <1>2, <1>6, <2>2, <3>1 DEF Overlaps, NameOf
    <3>2. CASE o # m
      <4>1. pc[o] \in {"checked", "compiled"} /\ NameOf(o) # NameOf(m)
        BY <1>2, <1>6, <2>5, <3>2 DEF Overlaps
      <4>2. Nodes(NameOf(o)) = {} /\ ~Overlaps(o)
        BY <1>6, <4>1 DEF ListInv, Alone
      <4>. QED
        BY <1>2, <2>2, <4>1, <4>2 DEF Overlaps, NameOf
    <3>. QED
      BY <3>1, <3>2
  <2>. QED
    BY <2>3, <2>4, <2>5 DEF ListInv, Alone, NameOf
<1>. QED
  BY <1>4, <1>5, <1>6

(* A new node is the only one of its name. *)
LEMMA ListAdd ==
  ASSUME TypeOK, ListInv, NEW m \in Mods, Goto(m, "compiled", "in"),
         aprotos' = Append(aprotos, m), overlap' = overlap
  PROVE  ListInv'
<1> DEFINE k == Len(aprotos) + 1
           nm == NameOf(m)
<1>1. /\ pc \in [Mods -> PCs] /\ overlap \in BOOLEAN /\ pc[m] = "compiled"
      /\ pc' = [pc EXCEPT ![m] = "in"]
  BY DEF TypeOK, Goto
<1>2. \A o \in Mods : pc'[o] = IF o = m THEN "in" ELSE pc[o]
  BY <1>1
<1>3. /\ Len(aprotos) \in Nat /\ Len(aprotos') = k /\ aprotos'[k] = m
      /\ \A i \in 1..Len(aprotos) : aprotos'[i] = aprotos[i]
  BY DEF TypeOK
<1>4. 1..Len(aprotos') = 1..Len(aprotos) \cup {k}
  BY <1>3
<1>5. \A n : Nodes(n)' = IF n = nm THEN Nodes(n) \cup {k} ELSE Nodes(n)
  BY <1>3, <1>4 DEF Nodes, NameOf
<1>6. \A n \in {NameOf(o) : o \in Mods} : Cardinality(Nodes(n)') = Cardinality(Loaded(n)')
  <2>1. SUFFICES ASSUME NEW n \in {NameOf(o) : o \in Mods}
                 PROVE  Cardinality(Nodes(n)') = Cardinality(Loaded(n)')
    OBVIOUS
  <2>2. Cardinality(Nodes(n)) = Cardinality(Loaded(n))
    BY DEF ListInv, ListExact
  <2>3. k \notin Nodes(n) /\ IsFiniteSet(Nodes(n)) /\ IsFiniteSet(Loaded(n))
    BY <1>3, NodesFacts, FiniteMods DEF Loaded
  <2>4. m \notin Loaded(n) /\ Loaded(n)' = IF n = nm THEN Loaded(n) \cup {m} ELSE Loaded(n)
    BY <1>1, <1>2 DEF Loaded, NameOf
  <2>. QED
    BY <1>5, <2>2, <2>3, <2>4, FS_AddElement
<1>7. CASE overlap
  BY <1>6, <1>7 DEF ListInv, NamesUnique, ListExact, Alone, NameOf
<1>8. CASE ~overlap
  <2>1. Nodes(nm) = {} /\ ~Overlaps(m)
    BY <1>1, <1>8 DEF ListInv, Alone
  <2>2. ASSUME NEW i \in 1..Len(aprotos'), NEW j \in 1..Len(aprotos'),
               NameOf(aprotos'[i]) = NameOf(aprotos'[j])
        PROVE  i = j
    <3>1. \A x \in 1..Len(aprotos) : NameOf(aprotos'[x]) # nm
      BY <1>3, <2>1 DEF Nodes
    <3>2. CASE i = k \/ j = k
      BY <1>3, <1>4, <2>2, <3>1, <3>2
    <3>3. CASE i # k /\ j # k
      BY <1>3, <1>4, <1>8, <2>2, <3>3 DEF ListInv, NamesUnique
    <3>. QED
      BY <3>2, <3>3
  <2>3. {aprotos'[i] : i \in 1..Len(aprotos')} = {o \in Mods : pc'[o] = "in"}
    <3>1. {aprotos'[i] : i \in 1..Len(aprotos')} = {aprotos[i] : i \in 1..Len(aprotos)} \cup {m}
      BY <1>3, <1>4
    <3>2. {aprotos[i] : i \in 1..Len(aprotos)} = {o \in Mods : pc[o] = "in"}
      BY <1>8 DEF ListInv, ListExact
    <3>. QED
      BY <1>2, <3>1, <3>2
  <2>4. ASSUME NEW o \in Mods, pc'[o] \in {"checked", "compiled"}
        PROVE  Nodes(NameOf(o))' = {} /\ ~Overlaps(o)'
    <3>1. o # m /\ pc[o] \in {"checked", "compiled"}
      BY <1>2, <2>4
    <3>2. Nodes(NameOf(o)) = {} /\ ~Overlaps(o) /\ NameOf(o) # nm
      BY <1>8, <2>1, <3>1 DEF ListInv, Alone, Overlaps
    <3>. QED
      BY <1>2, <1>5, <3>2 DEF Overlaps, NameOf
  <2>. QED
    BY <1>6, <2>2, <2>3, <2>4 DEF ListInv, NamesUnique, ListExact, Alone, NameOf
<1>. QED
  BY <1>7, <1>8

(* The first node of the name goes: there is one, and unless registrations  *)
(* overlapped it is the module's own.                                      *)
LEMMA ListRemove ==
  ASSUME TypeOK, ListInv, NEW m \in Mods, RemoveNode(m)
  PROVE  ListInv'
<1> DEFINE nm == NameOf(m)
           r == Min(Nodes(nm))
           From(i) == IF i < r THEN i ELSE i + 1
<1>1. /\ pc \in [Mods -> PCs] /\ overlap \in BOOLEAN /\ overlap' = overlap /\ pc[m] = "in"
      /\ pc' = [pc EXCEPT ![m] = "unlisted"]
  BY DEF TypeOK, RemoveNode, Goto
<1>2. \A o \in Mods : pc'[o] = IF o = m THEN "unlisted" ELSE pc[o]
  BY <1>1
<1>3. Nodes(nm) # {}
  <2>1. Cardinality(Nodes(nm)) = Cardinality(Loaded(nm))
    BY DEF ListInv, ListExact
  <2>2. m \in Loaded(nm) /\ IsFiniteSet(Loaded(nm))
    BY <1>1, FiniteMods DEF Loaded
  <2>3. Cardinality(Loaded(nm)) # 0
    BY <2>2, FS_EmptySet
  <2>. QED
    BY <2>1, <2>3, FS_EmptySet
<1>4. /\ Len(aprotos) \in Nat /\ aprotos \in Seq(Mods)
      /\ r \in Nodes(nm) /\ r \in 1..Len(aprotos)
  <2>1. Nodes(nm) \in SUBSET (1..Len(aprotos)) /\ Len(aprotos) \in Nat
    BY NodesFacts
  <2>2. Nodes(nm) \in SUBSET Nat
    BY <2>1
  <2>3. r \in Nodes(nm)
    BY <1>3, <2>2, HasMin
  <2>. QED
    BY <2>1, <2>3 DEF TypeOK
<1>5. aprotos' = RemoveAt(aprotos, r)
  BY <1>3 DEF RemoveNode
<1>. HIDE DEF r
<1>6. /\ Len(aprotos') = Len(aprotos) - 1
      /\ \A i \in 1..(Len(aprotos) - 1) : aprotos'[i] = aprotos[From(i)]
  BY <1>4, <1>5, RemoveAtFacts
<1>7. \A n : Nodes(n)' = Shift(Nodes(n), r)
  <2>1. SUFFICES ASSUME NEW n
                 PROVE  Nodes(n)' = Shift(Nodes(n), r)
    OBVIOUS
  <2>2. Nodes(n) \in SUBSET (1..Len(aprotos)) /\ Nodes(n)' \in SUBSET (1..(Len(aprotos) - 1))
    BY <1>4, <1>6 DEF Nodes
  <2>3. \A i \in 1..(Len(aprotos) - 1) : i \in Nodes(n)' <=> From(i) \in Nodes(n)
    BY <1>4, <1>6 DEF Nodes, NameOf
  <2>. QED
    BY <1>4, <2>2, <2>3, IsShift
<1>8. \A n \in {NameOf(o) : o \in Mods} : Cardinality(Nodes(n)') = Cardinality(Loaded(n)')
  <2>1. SUFFICES ASSUME NEW n \in {NameOf(o) : o \in Mods}
                 PROVE  Cardinality(Nodes(n)') = Cardinality(Loaded(n)')
    OBVIOUS
  <2>2. Cardinality(Nodes(n)) = Cardinality(Loaded(n))
    BY DEF ListInv, ListExact
  <2>3. /\ Nodes(n) \in SUBSET (Nat \ {0}) /\ IsFiniteSet(Nodes(n)) /\ r \in Nat
        /\ IsFiniteSet(Loaded(n)) /\ (r \in Nodes(n) <=> n = nm)
    <3>1. Nodes(n) \in SUBSET (1..Len(aprotos)) /\ IsFiniteSet(Nodes(n))
      BY NodesFacts
    <3>2. IsFiniteSet(Loaded(n))
      BY FiniteMods DEF Loaded
    <3>. QED
      BY <1>4, <3>1, <3>2 DEF Nodes
  <2>4. Cardinality(Shift(Nodes(n), r)) =
          IF r \in Nodes(n) THEN Cardinality(Nodes(n)) - 1 ELSE Cardinality(Nodes(n))
    BY <2>3, ShiftCount
  <2>5. Loaded(n)' = Loaded(n) \ {m} /\ (m \in Loaded(n) <=> n = nm)
    BY <1>1, <1>2 DEF Loaded, NameOf
  <2>6. Cardinality(Loaded(n)') = IF n = nm THEN Cardinality(Loaded(n)) - 1 ELSE Cardinality(Loaded(n))
    BY <2>3, <2>5, FS_RemoveElement
  <2>. HIDE DEF nm
  <2>. QED
    BY <1>7, <2>2, <2>3, <2>4, <2>6
<1>9. CASE overlap
  BY <1>1, <1>8, <1>9 DEF ListInv, NamesUnique, ListExact, Alone, NameOf
<1>10. CASE ~overlap
  <2>1. \A i \in 1..(Len(aprotos) - 1) : From(i) \in 1..Len(aprotos) /\ From(i) # r
    BY <1>4
  <2>2. \A j \in 1..Len(aprotos) : j # r => \E i \in 1..(Len(aprotos) - 1) : From(i) = j
    <3>1. SUFFICES ASSUME NEW j \in 1..Len(aprotos), j # r
                   PROVE  \E i \in 1..(Len(aprotos) - 1) : From(i) = j
      OBVIOUS
    <3>2. CASE j < r
      <4>1. j \in 1..(Len(aprotos) - 1) /\ From(j) = j
        BY <1>4, <3>2
      <4>. QED
        BY <4>1
    <3>3. CASE ~(j < r)
      <4>1. j - 1 \in 1..(Len(aprotos) - 1) /\ From(j - 1) = j
        BY <1>4, <3>1, <3>3
      <4>. QED
        BY <4>1
    <3>. QED
      BY <3>2, <3>3
  <2>3. \A i, j \in 1..(Len(aprotos) - 1) : From(i) = From(j) => i = j
    BY <1>4
  <2>. HIDE DEF From
  <2>4. \A i, j \in 1..Len(aprotos) : NameOf(aprotos[i]) = NameOf(aprotos[j]) => i = j
    BY <1>10 DEF ListInv, NamesUnique
  <2>5. NamesUnique'
    <3>1. ASSUME NEW i \in 1..(Len(aprotos) - 1), NEW j \in 1..(Len(aprotos) - 1),
                 NameOf(aprotos'[i]) = NameOf(aprotos'[j])
          PROVE  i = j
      <4>1. aprotos'[i] = aprotos[From(i)] /\ aprotos'[j] = aprotos[From(j)]
        BY <1>6
      <4>2. From(i) = From(j)
        BY <2>1, <2>4, <3>1, <4>1
      <4>. QED
        BY <2>3, <4>2
    <3>. QED
      BY <1>6, <3>1 DEF NamesUnique, NameOf
  <2>6. {aprotos[i] : i \in 1..Len(aprotos)} = {o \in Mods : pc[o] = "in"}
    BY <1>10 DEF ListInv, ListExact
  <2>7. aprotos[r] = m /\ \A j \in 1..Len(aprotos) : aprotos[j] = m => j = r
    <3>1. PICK j \in 1..Len(aprotos) : aprotos[j] = m
      BY <1>1, <2>6
    <3>2. NameOf(aprotos[r]) = nm
      BY <1>4 DEF Nodes
    <3>. QED
      BY <1>4, <2>4, <3>1, <3>2
  <2>8. {aprotos'[i] : i \in 1..Len(aprotos')} =
          {aprotos[j] : j \in 1..Len(aprotos)} \ {m}
    <3>1. ASSUME NEW i \in 1..Len(aprotos')
          PROVE  aprotos'[i] \in {aprotos[j] : j \in 1..Len(aprotos)} \ {m}
      BY <1>6, <2>1, <2>7
    <3>2. ASSUME NEW j \in 1..Len(aprotos), aprotos[j] # m
          PROVE  \E i \in 1..Len(aprotos') : aprotos'[i] = aprotos[j]
      BY <1>6, <2>2, <2>7, <3>2
    <3>. QED
      BY <3>1, <3>2
  <2>9. {aprotos'[i] : i \in 1..Len(aprotos')} = {o \in Mods : pc'[o] = "in"}
    BY <1>2, <2>6, <2>8
  <2>10. ASSUME NEW o \in Mods, pc'[o] \in {"checked", "compiled"}
         PROVE  Nodes(NameOf(o))' = {} /\ ~Overlaps(o)'
    <3>1. pc[o] \in {"checked", "compiled"} /\ o # m
      BY <1>2, <2>10
    <3>2. Nodes(NameOf(o)) = {} /\ ~Overlaps(o)
      BY <1>10, <3>1 DEF ListInv, Alone
    <3>3. Shift(Nodes(NameOf(o)), r) = {}
      BY <3>2 DEF Shift
    <3>. QED
      BY <1>2, <1>7, <3>2, <3>3 DEF Overlaps, NameOf
  <2>. QED
    BY <1>8, <2>5, <2>9, <2>10 DEF ListInv, ListExact, Alone, NameOf
<1>. QED
  BY <1>9, <1>10

(* The list is right after every step. *)
LEMMA ListStep ==
  ASSUME TypeOK, ListInv, [Next]_vars
  PROVE  ListInv'
<1>1. CASE UNCHANGED vars
  BY <1>1, ListUntouched DEF vars
<1>2. ASSUME NEW m \in Mods, NEW from, NEW to, Goto(m, from, to),
             UNCHANGED <<aprotos, overlap>>, from # "in", to # "in",
             to \in {"checked", "compiled"} => from \in {"checked", "compiled"}
      PROVE  ListInv'
  <2>1. \A o \in Mods : pc'[o] = IF o = m THEN to ELSE pc[o]
    BY <1>2 DEF Goto, TypeOK
  <2>2. pc[m] = from
    BY <1>2 DEF Goto
  <2>. QED
    BY <1>2, <2>1, <2>2, ListUntouched
<1>3. ASSUME NEW m \in Mods, ReadConf(m)
      PROVE  ListInv'
  <2>1. CASE Goto(m, "out", "read")
    BY <1>2, <1>3, <2>1 DEF ReadConf
  <2>2. CASE UNCHANGED pc
    BY <1>3, <2>2, ListUntouched DEF ReadConf
  <2>. QED
    BY <1>3, <2>1, <2>2 DEF ReadConf
<1>4. ASSUME NEW m \in Mods, ParseConf(m)
      PROVE  ListInv'
  <2>1. Goto(m, "read", "parsed") \/ Goto(m, "read", "out")
    BY <1>4 DEF ParseConf
  <2>. QED
    BY <1>2, <1>4, <2>1 DEF ParseConf
<1>5. ASSUME NEW m \in Mods, Compile(m)
      PROVE  ListInv'
  BY <1>2, <1>5 DEF Compile
<1>6. ASSUME NEW m \in Mods, AddNode(m)
      PROVE  ListInv'
  <2>1. CASE Goto(m, "compiled", "in") /\ aprotos' = Append(aprotos, m)
    BY <1>6, <2>1, ListAdd DEF AddNode
  <2>2. CASE Goto(m, "compiled", "out") /\ UNCHANGED aprotos
    BY <1>2, <1>6, <2>2 DEF AddNode
  <2>. QED
    BY <1>6, <2>1, <2>2 DEF AddNode
<1>7. ASSUME NEW m \in Mods, RemoveRow(m)
      PROVE  ListInv'
  BY <1>2, <1>7 DEF RemoveRow
<1>. QED
  BY <1>1, <1>3, <1>4, <1>5, <1>6, <1>7, ListIsContained, ListRemove
  DEF Next, Register, Unregister

-----------------------------------------------------------------------------
(* The theorems *)

(* what every reachable state satisfies *)
RegistryInv == TypeOK /\ RoomKept /\ RowsKept /\ ListInv

(* the table that is there before the first module is loaded *)
LEMMA StartFacts ==
  /\ StartTable \in Tables /\ Clean(StartTable) /\ StartTable.n >= 0
  /\ \A n \in BaseNames : Named(StartTable, n) # {}
<1>1. /\ IsFiniteSet(BaseNames) /\ Cardinality(BaseNames) <= MaxProto
  BY RegistryAssumption
<1>2. /\ StartTable.n = Cardinality(BaseNames) /\ StartTable.n \in 0..MaxProto
      /\ \E g \in [Slots -> BaseNames \cup {NoName}] :
           StartTable = [slot |-> [i \in Slots |-> [ZeroRow EXCEPT !.name = g[i]]],
                         n |-> Cardinality(BaseNames)]
      /\ Clean(StartTable)
      /\ \A n \in BaseNames : Named(StartTable, n) # {}
  BY <1>1, TableOfFacts DEF StartTable, Clean
<1>3. StartTable \in Tables
  <2>1. PICK g \in [Slots -> BaseNames \cup {NoName}] :
           StartTable = [slot |-> [i \in Slots |-> [ZeroRow EXCEPT !.name = g[i]]],
                         n |-> Cardinality(BaseNames)]
    BY <1>2
  <2>2. \A i \in Slots : [ZeroRow EXCEPT !.name = g[i]] \in Rows
    BY DEF ZeroRow, Rows
  <2>. QED
    BY <1>2, <2>1, <2>2, MaxProtoAssumption DEF Tables
<1>. QED
  BY <1>2, <1>3, MaxProtoAssumption

LEMMA InitInv ==
  ASSUME Init
  PROVE  RegistryInv
<1>1. /\ table = StartTable /\ aprotos = <<>> /\ pc = [m \in Mods |-> "out"]
      /\ ~overlap /\ ~refused
  BY DEF Init
<1>2. TypeOK
  <2>1. table \in Tables /\ Clean(table) /\ table.n >= 0
    BY <1>1, StartFacts
  <2>2. aprotos \in Seq(Mods)
    BY <1>1
  <2>3. overlap \in BOOLEAN /\ refused \in BOOLEAN
    BY DEF Init
  <2>4. pc \in [Mods -> PCs]
    BY <1>1 DEF PCs
  <2>. QED
    BY <2>1, <2>2, <2>3, <2>4 DEF TypeOK, Tables, Rows, Clean
<1>3. Busy = {} /\ \A n : Holders(n) = {} /\ Loaded(n) = {} /\ Nodes(n) = {}
  BY <1>1 DEF Busy, Having, Holders, Loaded, Nodes
<1>4. table \in TablesOf(RowNames) /\ table.n \in Nat
  BY <1>1, StartFacts, TablesAre DEF Tables
<1>5. RoomKept
  BY <1>3, <1>4, FS_EmptySet DEF RoomKept
<1>6. ASSUME NEW n
      PROVE  Cardinality(Named(table, n)) >= RowsFor(n)
  <2>1. Cardinality(Named(table, n)) \in Nat /\ IsFiniteSet(Named(table, n))
    BY <1>4, NamedFacts
  <2>2. RowsFor(n) = IF n \in BaseNames THEN 1 ELSE 0
    BY <1>3, FS_EmptySet DEF RowsFor
  <2>3. n \in BaseNames => Cardinality(Named(table, n)) # 0
    BY <1>1, <2>1, StartFacts, FS_EmptySet
  <2>. QED
    BY <2>1, <2>2, <2>3
<1>7. RowsKept
  BY <1>6 DEF RowsKept
<1>8. ListInv
  <2>1. {aprotos[i] : i \in 1..Len(aprotos)} = {} /\ {m \in Mods : pc[m] = "in"} = {}
    BY <1>1
  <2>2. NamesUnique /\ Alone
    BY <1>1 DEF NamesUnique, Alone
  <2>3. ListExact
    BY <1>3, <2>1 DEF ListExact
  <2>. QED
    BY <2>2, <2>3 DEF ListInv
<1>. QED
  BY <1>2, <1>5, <1>7, <1>8 DEF RegistryInv

LEMMA Invariance == Spec => []RegistryInv
<1>1. Init => RegistryInv
  BY InitInv
<1>2. RegistryInv /\ [Next]_vars => RegistryInv'
  BY TypeStep, RowsStep, ListStep DEF RegistryInv
<1>. QED
  BY <1>1, <1>2, PTL DEF Spec

(* The types, and with them: whatever modules come and go, count_index      *)
(* never exceeds MAX_PROTO and what is above it is zeroed; and it does not  *)
(* fall below 0 unless a full table has refused a row.                      *)
THEOREM TypeCorrect == Spec => []TypeOK
<1>1. RegistryInv => TypeOK
  BY DEF RegistryInv
<1>. QED
  BY <1>1, Invariance, PTL

(* As long as the table has never been full, no registration or            *)
(* unregistration takes away a row that someone counts on, though          *)
(* count_add_proto() and count_remove_proto() know rows by name only.      *)
THEOREM RowsAreKept == Spec => []RowsKept
<1>1. RegistryInv => RowsKept
  BY DEF RegistryInv
<1>. QED
  BY <1>1, Invariance, PTL

(* The check made before the node is added is enough for names to be        *)
(* unique, if no two registrations of one name overlap.                    *)
THEOREM NamesAreUnique == Spec => []NamesUnique
<1>1. RegistryInv => NamesUnique
  BY DEF RegistryInv, ListInv
<1>. QED
  BY <1>1, Invariance, PTL

(* As many nodes of a name as loaded modules, though aproto_remove() takes  *)
(* the first of the name, whoever's it is.                                 *)
THEOREM ListIsExact == Spec => []ListExact
<1>1. RegistryInv => ListExact
  BY DEF RegistryInv, ListInv
<1>. QED
  BY <1>1, Invariance, PTL
=============================================================================
