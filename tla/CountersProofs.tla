--------------------------- MODULE CountersProofs ---------------------------
(***************************************************************************)
(* For any number of connections, protocols and rows: while no row is       *)
(* removed under the jprobe, the inactive column is exact; packets are      *)
(* added to the wrong row only by the races Counters names; and a report    *)
(* that meets none of them lies between what there was when it began and    *)
(* what there is when it is printed.                                       *)
(***************************************************************************)
EXTENDS Counters, CountTableProofs, SumProofs

Tables == TablesOf(Names \cup {NoName})

Stands == [ct : Conns \cup {NoProto}, row : 0..MaxProto, races : SUBSET Races]

-----------------------------------------------------------------------------
(* The invariant *)

(* the types that matter, without the bound on packets *)
TypeInv ==
  /\ table \in Tables
  /\ acct \subseteq Conns
  /\ label \in [Conns -> Names \cup {NoProto, Uninit}]
  /\ pkts \in [Conns -> Nat]
  /\ life \in [Conns -> Lives]
  /\ row \in [Conns -> 0..MaxProto]
  /\ rpc \in {"idle", "walk", "look", "add", "print"}
  /\ at \in Stands
  /\ credit \in [Names -> Nat]
  /\ rpc \in {"look", "add"} => at.ct \in Conns
  /\ rpc = "add" <=> at.row # 0
  /\ rpc \notin {"look", "add"} => at = NoRow
  /\ \A ct \in Conns : life[ct] = "destroy" => row[ct] # 0 /\ label[ct] \in Names

(* the jprobe's row is still the one it would find *)
Found == \A ct \in Conns : life[ct] = "destroy" => row[ct] = Lookup(table, label[ct])

(* what a row has, or what it will start with when it is added *)
Exact ==
  \A n \in Names :
    /\ Lookup(table, n) = 0 => credit[n] = 0
    /\ Lookup(table, n) # 0 => table.slot[Lookup(table, n)].inactive = credit[n]

(* a row that is not in use, or one that count_strcmp() does not find because *)
(* another of its name comes first                                         *)
Spare(i) == i > table.n \/ i # Lookup(table, table.slot[i].name)

(* what a row starts with when it is added, or found for the first time *)
Clear == \A i \in Slots : Spare(i) => table.slot[i].inactive = 0

(* the walk's row is still the one it would find; what happened to it has    *)
(* disturbed the report                                                    *)
Standing ==
  /\ rpc = "add" /\ at.races = {} =>
       label[at.ct] \in Names /\ at.row = Lookup(table, label[at.ct])
  /\ at.races # {} => "disturbed" \in hist /\ rpc = "add"

CountInv ==
  /\ TypeInv
  /\ "misplaced" \in hist \/ (Found /\ Exact /\ Clear)
  /\ Standing

-----------------------------------------------------------------------------
(* Tables *)

(* Adding to a row changes one number. *)
LEMMA Adds ==
  ASSUME NEW t \in Tables, NEW i \in 1..MaxProto, NEW k \in Nat
  PROVE  /\ AddInactive(t, i, k) \in Tables /\ AddInactive(t, i, k).n = t.n
         /\ AddActive(t, i, k) \in Tables /\ AddActive(t, i, k).n = t.n
         /\ \A j \in Slots :
              /\ AddInactive(t, i, k).slot[j].name = t.slot[j].name
              /\ AddInactive(t, i, k).slot[j].inactive =
                   IF j = i THEN t.slot[j].inactive + k ELSE t.slot[j].inactive
              /\ AddActive(t, i, k).slot[j].name = t.slot[j].name
              /\ AddActive(t, i, k).slot[j].inactive = t.slot[j].inactive
              /\ AddActive(t, i, k).slot[j].active =
                   IF j = i THEN t.slot[j].active + k ELSE t.slot[j].active
<1> DEFINE R == [name : Names \cup {NoName}, active : Nat, inactive : Nat]
           a == [t.slot[i] EXCEPT !.active = @ + k]
           b == [t.slot[i] EXCEPT !.inactive = @ + k]
<1>1. t.slot \in [Slots -> R] /\ i \in Slots /\ t.slot[i] \in R /\ t.n \in 0..MaxProto
  BY DEF Tables, TablesOf, Slots
<1>2. a \in R /\ b \in R /\ a.name = t.slot[i].name /\ a.inactive = t.slot[i].inactive
      /\ a.active = t.slot[i].active + k /\ b.name = t.slot[i].name /\ b.inactive = t.slot[i].inactive + k
  BY <1>1
<1>3. AddActive(t, i, k) = [slot |-> [t.slot EXCEPT ![i] = a], n |-> t.n]
  BY DEF AddActive, Tables, TablesOf
<1>4. AddInactive(t, i, k) = [slot |-> [t.slot EXCEPT ![i] = b], n |-> t.n]
  BY DEF AddInactive, Tables, TablesOf
<1>. HIDE DEF a, b
<1>5. AddActive(t, i, k) \in Tables /\ AddInactive(t, i, k) \in Tables
  BY <1>1, <1>2, <1>3, <1>4 DEF Tables, TablesOf
<1>6. ASSUME NEW j \in Slots
      PROVE  /\ AddInactive(t, i, k).slot[j] = IF j = i THEN b ELSE t.slot[j]
             /\ AddActive(t, i, k).slot[j] = IF j = i THEN a ELSE t.slot[j]
  BY <1>1, <1>3, <1>4
<1>7. AddActive(t, i, k).n = t.n /\ AddInactive(t, i, k).n = t.n
  BY <1>3, <1>4
<1>. HIDE DEF R
<1>8. ASSUME NEW j \in Slots
      PROVE  /\ AddInactive(t, i, k).slot[j].name = t.slot[j].name
             /\ AddInactive(t, i, k).slot[j].inactive =
                  IF j = i THEN t.slot[j].inactive + k ELSE t.slot[j].inactive
             /\ AddActive(t, i, k).slot[j].name = t.slot[j].name
             /\ AddActive(t, i, k).slot[j].inactive = t.slot[j].inactive
             /\ AddActive(t, i, k).slot[j].active =
                  IF j = i THEN t.slot[j].active + k ELSE t.slot[j].active
  <2>1. CASE j = i
    BY <1>2, <1>6, <2>1
  <2>2. CASE j # i
    BY <1>6, <2>2
  <2>. QED
    BY <2>1, <2>2
<1>. QED
  BY <1>5, <1>7, <1>8

(* A flush zeroes one column of the rows in use, and leaves names and the   *)
(* other column alone.                                                     *)
LEMMA Flushes ==
  ASSUME NEW t \in Tables
  PROVE  /\ Flush(t) \in Tables /\ Flush(t).n = t.n
         /\ \A j \in Slots : /\ Flush(t).slot[j].name = t.slot[j].name
                             /\ Flush(t).slot[j].inactive = t.slot[j].inactive
                             /\ j <= t.n => Flush(t).slot[j].active = 0
<1> DEFINE R == [name : Names \cup {NoName}, active : Nat, inactive : Nat]
           New(i) == IF i <= t.n THEN [t.slot[i] EXCEPT !.active = 0] ELSE t.slot[i]
<1>1. t.slot \in [Slots -> R] /\ t.n \in 0..MaxProto
  BY DEF Tables, TablesOf
<1>2. Flush(t) = [slot |-> [i \in Slots |-> New(i)], n |-> t.n]
  BY DEF Flush, Tables, TablesOf
<1>3. \A i \in Slots : New(i) \in R /\ New(i).name = t.slot[i].name
                       /\ New(i).inactive = t.slot[i].inactive
                       /\ (i <= t.n => New(i).active = 0)
  BY <1>1
<1>. HIDE DEF New
<1>. QED
  BY <1>1, <1>2, <1>3 DEF Tables, TablesOf

(* A row that is added or removed leaves a table. *)
LEMMA AddsRow ==
  ASSUME NEW t \in Tables, NEW n \in Names
  PROVE  /\ AddProto(t, n) \in Tables
         /\ ~Full(t) => /\ AddProto(t, n).n = t.n + 1
                        /\ t.n + 1 \in Slots
                        /\ \A i \in Slots :
                             AddProto(t, n).slot[i].inactive = t.slot[i].inactive
<1> DEFINE R == [name : Names \cup {NoName}, active : Nat, inactive : Nat]
           a == [t.slot[t.n + 1] EXCEPT !.name = n]
<1>1. t.slot \in [Slots -> R] /\ t.n \in 0..MaxProto /\ MaxProto \in Nat /\ t.n \in Nat
  BY MaxProtoAssumption DEF Tables, TablesOf
<1>2. CASE Full(t)
  BY <1>2 DEF AddProto
<1>3. CASE ~Full(t)
  <2>1. t.n + 1 \in Slots /\ t.n + 1 \in 0..MaxProto
    BY <1>1, <1>3 DEF Slots, Full
  <2>2. a \in R /\ a.inactive = t.slot[t.n + 1].inactive
    BY <1>1, <2>1
  <2>3. AddProto(t, n) = [slot |-> [t.slot EXCEPT ![t.n + 1] = a], n |-> t.n + 1]
    BY <1>3 DEF AddProto
  <2>. HIDE DEF a
  <2>4. AddProto(t, n) \in Tables
    BY <1>1, <2>1, <2>2, <2>3 DEF Tables, TablesOf
  <2>5. \A i \in Slots : AddProto(t, n).slot[i] = IF i = t.n + 1 THEN a ELSE t.slot[i]
    BY <1>1, <2>3
  <2>. QED
    BY <2>1, <2>2, <2>3, <2>4, <2>5
<1>. QED
  BY <1>2, <1>3

LEMMA RemovesRow ==
  ASSUME NEW t \in Tables, NEW r \in 1..t.n
  PROVE  /\ DropRow(t, r) \in Tables
         /\ DropRow(t, r).n = t.n - 1
         /\ DropRow(t, r).slot[t.n].inactive = 0
         /\ \A i \in Slots : i < t.n =>
              DropRow(t, r).slot[i] = IF i < r THEN t.slot[i] ELSE t.slot[i + 1]
         /\ \A i \in Slots : i > t.n => DropRow(t, r).slot[i] = t.slot[i]
<1> DEFINE R == [name : Names \cup {NoName}, active : Nat, inactive : Nat]
           Moved(i) == IF i = t.n THEN ZeroRow
                       ELSE IF r > 0 /\ i >= r /\ i < t.n THEN t.slot[i + 1]
                       ELSE t.slot[i]
<1>1. /\ t.slot \in [Slots -> R] /\ t.n \in 0..MaxProto /\ MaxProto \in Nat /\ t.n \in Nat
      /\ ZeroRow \in R
  BY MaxProtoAssumption DEF Tables, TablesOf, ZeroRow
<1>2. DropRow(t, r) = [slot |-> [i \in Slots |-> Moved(i)], n |-> t.n - 1]
  BY DEF DropRow
<1>0. t.n \in Nat /\ MaxProto \in Nat /\ t.n <= MaxProto
  BY <1>1
<1>3. \A i \in Slots : i < t.n => i + 1 \in Slots
  BY <1>0 DEF Slots
<1>4. \A i \in Slots : Moved(i) \in R
  <2>1. \A i \in Slots : t.slot[i] \in R
    BY <1>1
  <2>2. ZeroRow \in R
    BY <1>1
  <2>. HIDE DEF R
  <2>3. ASSUME NEW i \in Slots
        PROVE  Moved(i) = ZeroRow \/ Moved(i) = t.slot[i]
                 \/ (i < t.n /\ Moved(i) = t.slot[i + 1])
    OBVIOUS
  <2>. HIDE DEF Moved
  <2>. QED
    BY <2>1, <2>2, <2>3, <1>3
<1>5. Slots \subseteq Nat
  BY <1>1 DEF Slots
<1>6. \A i \in Slots : i > t.n => Moved(i) = t.slot[i]
  <2>1. \A i \in Slots : i > t.n => i # t.n /\ ~(i < t.n)
    BY <1>1, <1>5
  <2>. QED
    BY <2>1
<1>7. \A i \in Slots : i < t.n => Moved(i) = IF i < r THEN t.slot[i] ELSE t.slot[i + 1]
  BY <1>1, <1>5
<1>8. t.n \in Slots /\ Moved(t.n).inactive = 0 /\ t.n - 1 \in 0..MaxProto
  BY <1>1 DEF Slots, ZeroRow
<1>. HIDE DEF Moved
<1>9. DropRow(t, r) \in Tables
  <2>1. [i \in Slots |-> Moved(i)] \in [Slots -> R]
    BY <1>4
  <2>. HIDE DEF R
  <2>2. DropRow(t, r) \in [slot : [Slots -> R], n : 0..MaxProto]
    BY <1>2, <1>8, <2>1
  <2>. QED
    BY <2>2 DEF Tables, TablesOf, R
<1>. QED
  BY <1>2, <1>6, <1>7, <1>8, <1>9

(* A row is found behind a removal if, and only if, it was found before: no  *)
(* row that is not found was a row that was found.                          *)
LEMMA SpareDrop ==
  ASSUME NEW t \in Tables, NEW r \in 1..t.n, NEW i \in 1..(t.n - 1),
         i # Lookup(DropRow(t, r), DropRow(t, r).slot[i].name)
  PROVE  \E o \in 1..t.n : /\ o # Lookup(t, t.slot[o].name)
                           /\ DropRow(t, r).slot[i] = t.slot[o]
<1> DEFINE o == IF i < r THEN i ELSE i + 1
           u == DropRow(t, r)
           x == t.slot[o].name
<1>1. t.n \in Nat /\ t.n <= MaxProto /\ MaxProto \in Nat
  BY LookupFacts, MaxProtoAssumption DEF Tables
<1>2. o \in 1..t.n /\ o # r /\ i \in Slots /\ i < t.n
  BY <1>1 DEF Slots
<1>3. u.slot[i] = t.slot[o]
  BY <1>2, RemovesRow
<1>. HIDE DEF u
<1>4. ASSUME o = Lookup(t, x)
      PROVE  FALSE
  <2>1. Lookup(t, x) \notin {0, r}
    BY <1>1, <1>2, <1>4
  <2>2. Lookup(u, x) = IF Lookup(t, x) < r THEN Lookup(t, x) ELSE Lookup(t, x) - 1
    BY <2>1, LookupDrop DEF Tables, u
  <2>3. Lookup(u, x) = i
    BY <1>1, <1>2, <1>4, <2>2
  <2>. QED
    BY <1>3, <2>3 DEF u
<1>. QED
  BY <1>2, <1>3, <1>4 DEF u

(* A row that is added makes none spare that was found.                     *)
LEMMA SpareAdd ==
  ASSUME NEW t \in Tables, NEW n \in Names, ~Full(t), NEW i \in 1..t.n,
         i # Lookup(AddProto(t, n), AddProto(t, n).slot[i].name)
  PROVE  i # Lookup(t, t.slot[i].name)
<1> DEFINE u == AddProto(t, n)
           x == t.slot[i].name
<1>1. t.n \in Nat /\ t.n <= MaxProto /\ MaxProto \in Nat /\ u \in Tables
  BY LookupFacts, AddsRow, MaxProtoAssumption DEF Tables
<1>2. u.slot[i].name = x
  BY <1>1, MaxProtoAssumption DEF AddProto, Slots
<1>3. Lookup(t, x) # 0
  <2>1. i \in Named(t, x)
    BY DEF Named
  <2>. QED
    BY <2>1, LookupFacts DEF Tables
<1>4. Lookup(u, x) = Lookup(t, x)
  BY <1>1, <1>3, LookupAdd DEF Tables
<1>. QED
  BY <1>2, <1>4

(* A label that is not half written has at most one row to be found.        *)
LEMMA RowFound ==
  ASSUME TypeInv, NEW ct \in Conns, NEW i \in RowsFor(ct)
  PROVE  /\ i \in 0..MaxProto
         /\ i # 0 /\ label[ct] # Uninit =>
              label[ct] \in Names /\ i = Lookup(table, label[ct])
<1>1. table \in Tables /\ table.n \in Nat /\ table.n <= MaxProto /\ MaxProto \in Nat
      /\ label[ct] \in Names \cup {NoProto, Uninit}
  BY LookupFacts, MaxProtoAssumption DEF TypeInv, Tables
<1>2. NoProto # Uninit /\ NoProto \notin Names /\ Uninit \notin Names
  BY CountersAssumption
<1>3. CASE label[ct] = NoProto
  <2>1. RowsFor(ct) = {0}
    BY <1>2, <1>3 DEF RowsFor
  <2>. QED
    BY <1>1, <2>1
<1>4. CASE label[ct] = Uninit
  <2>1. RowsFor(ct) = 0..table.n
    BY <1>2, <1>4 DEF RowsFor
  <2>. QED
    BY <1>1, <1>4, <2>1
<1>5. CASE label[ct] \in Names
  <2>1. RowsFor(ct) = {Lookup(table, label[ct])}
    BY <1>2, <1>5 DEF RowsFor
  <2>2. Lookup(table, label[ct]) \in 0..table.n
    BY <1>1, LookupFacts DEF Tables
  <2>. QED
    BY <1>1, <1>5, <2>1, <2>2
<1>. QED
  BY <1>1, <1>3, <1>4, <1>5

-----------------------------------------------------------------------------
(* Steps *)

(* A step that leaves the table alone has only the rows that were found to  *)
(* answer for.                                                             *)
LEMMA TableKept ==
  ASSUME CountInv, UNCHANGED <<table, credit>>, TypeInv',
         "misplaced" \in hist => "misplaced" \in hist',
         Found => Found', Standing'
  PROVE  CountInv'
<1>1. Exact /\ Clear => Exact' /\ Clear'
  BY DEF Exact, Clear, Spare
<1>. QED
  BY <1>1 DEF CountInv

LEMMA PacketStep ==
  ASSUME CountInv, NEW ct \in Conns, Packet(ct)
  PROVE  CountInv'
<1>1. UNCHANGED <<table, label, acct, life, row, rpc, at, hist, credit>>
      /\ pkts' = [pkts EXCEPT ![ct] = @ + 1]
  BY DEF Packet, readVars
<1>2. TypeInv'
  BY <1>1 DEF CountInv, TypeInv
<1>3. (Found => Found') /\ Standing'
  BY <1>1 DEF CountInv, Found, Standing
<1>. QED
  BY <1>1, <1>2, <1>3, TableKept

LEMMA IdentifyStep ==
  ASSUME CountInv, NEW ct \in Conns, Identify(ct)
  PROVE  CountInv'
<1>1. /\ UNCHANGED <<table, acct, pkts, life, row, rpc, at, hist, credit>>
      /\ label \in [Conns -> Names \cup {NoProto, Uninit}]
      /\ label[ct] \in {NoProto, Uninit} /\ life[ct] # "destroy"
      /\ \E l \in Names \cup {Uninit} : label' = [label EXCEPT ![ct] = l]
  BY DEF Identify, readVars, Referenced, CountInv, TypeInv
<1>2. \A o \in Conns : o # ct => label'[o] = label[o]
  BY <1>1
<1>3. label[ct] \notin Names
  BY <1>1, CountersAssumption
<1>4. label' \in [Conns -> Names \cup {NoProto, Uninit}]
  BY <1>1
<1>5. TypeInv'
  BY <1>1, <1>2, <1>4 DEF CountInv, TypeInv
<1>6. Found => Found'
  BY <1>1, <1>2 DEF Found
<1>7. Standing'
  BY <1>1, <1>2, <1>3 DEF CountInv, TypeInv, Standing
<1>. QED
  BY <1>1, <1>5, <1>6, <1>7, TableKept

(* a connection that comes or goes, without a row *)
LEMMA LifeStep ==
  ASSUME CountInv, NEW ct \in Conns, NEW l \in Lives \ {"destroy"},
         life' = [life EXCEPT ![ct] = l], row' = row \/ row' = [row EXCEPT ![ct] = 0],
         hist \subseteq hist', UNCHANGED <<table, acct, label, pkts, rpc, at, credit>>
  PROVE  CountInv'
<1>1. \A o \in Conns : o # ct => life'[o] = life[o] /\ row'[o] = row[o]
  BY DEF CountInv, TypeInv
<1>2. life'[ct] # "destroy" /\ life' \in [Conns -> Lives]
  BY DEF CountInv, TypeInv
<1>3. row' \in [Conns -> 0..MaxProto]
  BY MaxProtoAssumption DEF CountInv, TypeInv
<1>4. TypeInv'
  BY <1>1, <1>2, <1>3 DEF CountInv, TypeInv
<1>5. Found => Found'
  BY <1>1, <1>2 DEF Found
<1>6. Standing'
  BY DEF CountInv, Standing
<1>. QED
  BY <1>4, <1>5, <1>6, TableKept

(* Memory that is used again was no one's row; if the walk had found one for *)
(* what it held, that is noted.                                            *)
LEMMA ReuseStep ==
  ASSUME CountInv, NEW ct \in Conns, Reuse(ct)
  PROVE  CountInv'
<1>1. /\ life[ct] = "gone" /\ life' = [life EXCEPT ![ct] = "new"]
      /\ label' = [label EXCEPT ![ct] = NoProto] /\ pkts' = [pkts EXCEPT ![ct] = 1]
      /\ acct' \in {acct \cup {ct}, acct \ {ct}}
      /\ at' = IF at.row # 0 /\ at.ct = ct THEN [at EXCEPT !.races = @ \cup {"swapped"}] ELSE at
      /\ UNCHANGED <<table, row, rpc, credit>>
  BY DEF Reuse
<1>2. hist' = hist \cup (Disturbed \cup IF rpc = "idle" THEN {} ELSE {"reused"})
  BY DEF Reuse, Note
<1>3. \A o \in Conns : o # ct => life'[o] = life[o] /\ label'[o] = label[o]
  BY <1>1 DEF CountInv, TypeInv
<1>4. /\ life' \in [Conns -> Lives] /\ life'[ct] # "destroy"
      /\ label' \in [Conns -> Names \cup {NoProto, Uninit}]
      /\ pkts' \in [Conns -> Nat] /\ acct' \subseteq Conns
  BY <1>1 DEF CountInv, TypeInv, Lives
<1>5. at' \in Stands /\ at'.ct = at.ct /\ at'.row = at.row
  <2>1. at \in Stands
    BY DEF CountInv, TypeInv
  <2>2. [at EXCEPT !.races = @ \cup {"swapped"}] \in Stands
    BY <2>1 DEF Stands, Races
  <2>. QED
    BY <1>1, <2>1, <2>2 DEF Stands
<1>6. TypeInv'
  BY <1>1, <1>3, <1>4, <1>5 DEF CountInv, TypeInv
<1>7. Found => Found'
  BY <1>1, <1>3, <1>4 DEF Found
<1>8. Standing'
  <2>1. CASE at.row # 0 /\ at.ct = ct
    <3>1. rpc = "add" /\ "disturbed" \in hist'
      BY <1>2, <2>1 DEF CountInv, TypeInv, Disturbed
    <3>2. at'.races # {}
      BY <1>1, <2>1 DEF CountInv, TypeInv, Stands
    <3>. QED
      BY <1>1, <3>1, <3>2 DEF Standing
  <2>2. CASE ~(at.row # 0 /\ at.ct = ct)
    <3>1. at' = at /\ hist \subseteq hist' /\ rpc' = rpc
      BY <1>1, <1>2, <2>2
    <3>2. rpc = "add" => at.ct \in Conns /\ at.ct # ct
      BY <2>2 DEF CountInv, TypeInv
    <3>. QED
      BY <1>1, <1>3, <3>1, <3>2 DEF CountInv, Standing
  <2>. QED
    BY <2>1, <2>2
<1>9. "misplaced" \in hist => "misplaced" \in hist'
  BY <1>2
<1>. QED
  BY <1>1, <1>6, <1>7, <1>8, <1>9, TableKept

LEMMA DestroyLookupStep ==
  ASSUME CountInv, NEW ct \in Conns, DestroyLookup(ct)
  PROVE  CountInv'
<1>1. PICK i \in RowsFor(ct) :
        /\ row' = [row EXCEPT ![ct] = i]
        /\ IF i = 0 THEN Free(ct) ELSE life' = [life EXCEPT ![ct] = "destroy"]
  BY DEF DestroyLookup
<1>2. label[ct] # Uninit /\ UNCHANGED <<table, acct, label, pkts, rpc, at, hist, credit>>
  BY DEF DestroyLookup, readVars
<1>3. CASE i = 0
  <2>1. life' = [life EXCEPT ![ct] = "gone"] /\ row' = [row EXCEPT ![ct] = 0]
    BY <1>1, <1>3 DEF Free
  <2>. QED
    BY <1>2, <2>1, LifeStep DEF Lives
<1>4. CASE i # 0
  <2>1. /\ life' = [life EXCEPT ![ct] = "destroy"] /\ i \in 0..MaxProto
        /\ label[ct] \in Names /\ i = Lookup(table, label[ct])
    BY <1>1, <1>2, <1>4, RowFound DEF CountInv
  <2>2. \A o \in Conns : /\ row'[o] = IF o = ct THEN i ELSE row[o]
                         /\ life'[o] = IF o = ct THEN "destroy" ELSE life[o]
    BY <1>1, <2>1 DEF CountInv, TypeInv
  <2>3. row' \in [Conns -> 0..MaxProto] /\ life' \in [Conns -> Lives]
    BY <1>1, <2>1 DEF CountInv, TypeInv, Lives
  <2>4. TypeInv'
    BY <1>2, <1>4, <2>1, <2>2, <2>3 DEF CountInv, TypeInv
  <2>5. Found => Found'
    BY <1>2, <2>1, <2>2 DEF Found
  <2>6. Standing'
    BY <1>2 DEF CountInv, Standing
  <2>. QED
    BY <1>2, <2>4, <2>5, <2>6, TableKept
<1>. QED
  BY <1>3, <1>4

(* What is credited goes to the row of the connection's protocol, if no row *)
(* was removed under the jprobe.                                           *)
LEMMA DestroyAddStep ==
  ASSUME CountInv, NEW ct \in Conns, DestroyAdd(ct)
  PROVE  CountInv'
<1> DEFINE n == label[ct]
           k == pkts[ct]
           r == row[ct]
<1>1. /\ life[ct] = "destroy" /\ table' = AddInactive(table, r, k)
      /\ row' = [row EXCEPT ![ct] = 0] /\ life' = [life EXCEPT ![ct] = "gone"]
      /\ credit' = [credit EXCEPT ![n] = @ + k]
      /\ UNCHANGED <<acct, label, pkts, rpc, at, hist>>
  BY DEF DestroyAdd, Free, readVars
<1>2. table \in Tables /\ n \in Names /\ k \in Nat /\ r \in 1..MaxProto /\ MaxProto \in Nat
  BY <1>1, MaxProtoAssumption DEF CountInv, TypeInv
<1>3. /\ \A o \in Conns : /\ row'[o] = IF o = ct THEN 0 ELSE row[o]
                          /\ life'[o] = IF o = ct THEN "gone" ELSE life[o]
      /\ row' \in [Conns -> 0..MaxProto] /\ life' \in [Conns -> Lives]
  BY <1>1, <1>2 DEF CountInv, TypeInv, Lives
<1>4. /\ credit \in [Names -> Nat] /\ credit' \in [Names -> Nat]
      /\ \A m \in Names : credit'[m] = IF m = n THEN credit[m] + k ELSE credit[m]
  BY <1>1, <1>2 DEF CountInv, TypeInv
<1>. HIDE DEF n, k, r
<1>5. /\ table' \in Tables /\ table'.n = table.n
      /\ \A j \in Slots : /\ table'.slot[j].name = table.slot[j].name
                          /\ table'.slot[j].inactive =
                               IF j = r THEN table.slot[j].inactive + k ELSE table.slot[j].inactive
  BY <1>1, <1>2, Adds
<1>6. \A i \in 1..table.n : i \in Slots
  BY <1>2 DEF Tables, TablesOf, Slots
<1>7. \A x : Named(table', x) = Named(table, x) /\ Lookup(table', x) = Lookup(table, x)
  BY <1>5, <1>6, LookupSame
<1>8. TypeInv'
  BY <1>1, <1>3, <1>4, <1>5 DEF CountInv, TypeInv
<1>9. \A j \in Slots : Spare(j)' <=> Spare(j)
  BY <1>5, <1>7 DEF Spare
<1>10. Standing'
  BY <1>1, <1>7 DEF CountInv, Standing
<1>11. ASSUME Found, Exact, Clear
       PROVE  Found' /\ Exact' /\ Clear'
  <2>1. Found'
    BY <1>1, <1>3, <1>7, <1>11 DEF Found
  <2>2. r = Lookup(table, n)
    BY <1>1, <1>11 DEF Found, r, n
  <2>3. r \in 1..table.n /\ r \in Slots /\ table.slot[r].name = n
    BY <1>2, <1>6, <2>2, LookupFacts DEF Tables
  <2>4. ASSUME NEW m \in Names
        PROVE  /\ Lookup(table, m) = 0 => credit'[m] = 0
               /\ Lookup(table, m) # 0 => table'.slot[Lookup(table, m)].inactive = credit'[m]
    <3>1. CASE m = n
      BY <1>2, <1>4, <1>5, <1>11, <2>2, <2>3, <3>1 DEF Exact
    <3>2. CASE m # n
      <4>1. /\ credit'[m] = credit[m]
            /\ Lookup(table, m) # 0 => Lookup(table, m) # r /\ Lookup(table, m) \in Slots
        BY <1>2, <1>4, <1>6, <2>3, <3>2, LookupFacts DEF Tables
      <4>. QED
        BY <1>5, <1>11, <4>1 DEF Exact
    <3>. QED
      BY <3>1, <3>2
  <2>5. Exact'
    BY <1>7, <2>4 DEF Exact
  <2>6. Clear'
    <3>1. ~ Spare(r)
      <4>1. table.n \in Nat
        BY <1>2, LookupFacts DEF Tables
      <4>. QED
        BY <1>2, <2>2, <2>3, <4>1 DEF Spare
    <3>. QED
      BY <1>5, <1>9, <1>11, <3>1 DEF Clear
  <2>. QED
    BY <2>1, <2>5, <2>6
<1>. QED
  BY <1>1, <1>8, <1>10, <1>11 DEF CountInv

(* Nor does writing to the active column touch names, or the other column.  *)
LEMMA ActiveStep ==
  ASSUME CountInv, table' \in Tables, table'.n = table.n,
         \A j \in Slots : /\ table'.slot[j].name = table.slot[j].name
                          /\ table'.slot[j].inactive = table.slot[j].inactive,
         rpc' = "walk", at' = NoRow,
         "misplaced" \in hist => "misplaced" \in hist',
         UNCHANGED <<connVars, credit>>
  PROVE  CountInv'
<1>1. \A i \in 1..table.n : i \in Slots
  BY MaxProtoAssumption DEF CountInv, TypeInv, Tables, TablesOf, Slots
<1>2. \A x : Named(table', x) = Named(table, x) /\ Lookup(table', x) = Lookup(table, x)
  BY <1>1, LookupSame
<1>3. TypeInv' /\ Standing'
  BY MaxProtoAssumption DEF CountInv, TypeInv, Standing, Stands, NoRow, connVars
<1>4. \A j \in Slots : Spare(j)' <=> Spare(j)
  BY <1>2 DEF Spare
<1>5. ASSUME Found, Exact, Clear
      PROVE  Found' /\ Exact' /\ Clear'
  <2>1. Found'
    BY <1>2, <1>5 DEF Found, connVars
  <2>2. \A n \in Names : Lookup(table, n) # 0 => Lookup(table, n) \in Slots
    BY <1>1, LookupFacts DEF CountInv, TypeInv, Tables
  <2>3. Exact' /\ Clear'
    BY <1>2, <1>4, <1>5, <2>2 DEF Exact, Clear
  <2>. QED
    BY <2>1, <2>3
<1>. QED
  BY <1>3, <1>5 DEF CountInv

LEMMA BeginStep ==
  ASSUME CountInv, Begin
  PROVE  CountInv'
<1>1. table' = Flush(table) /\ rpc' = "walk" /\ rpc = "idle" /\ at' = at /\ hist \subseteq hist'
      /\ UNCHANGED <<connVars, credit>>
  BY DEF Begin, Note
<1>2. table \in Tables /\ at' = NoRow
  BY <1>1 DEF CountInv, TypeInv
<1>3. /\ table' \in Tables /\ table'.n = table.n
      /\ \A j \in Slots : /\ table'.slot[j].name = table.slot[j].name
                          /\ table'.slot[j].inactive = table.slot[j].inactive
  BY <1>1, <1>2, Flushes
<1>4. "misplaced" \in hist => "misplaced" \in hist'
  BY <1>1
<1>. QED
  BY <1>1, <1>2, <1>3, <1>4, ActiveStep

LEMMA VisitAddStep ==
  ASSUME CountInv, VisitAdd
  PROVE  CountInv'
<1> DEFINE i == at.row
           k == pkts[at.ct]
<1>1. /\ table' = AddActive(table, i, k) /\ rpc' = "walk" /\ at' = NoRow
      /\ rpc = "add" /\ UNCHANGED <<connVars, hist, credit>>
  BY DEF VisitAdd
<1>2. table \in Tables /\ i \in 1..MaxProto /\ k \in Nat /\ MaxProto \in Nat
  BY <1>1, MaxProtoAssumption DEF CountInv, TypeInv, Stands
<1>. HIDE DEF i, k
<1>4. /\ AddActive(table, i, k) \in Tables /\ AddActive(table, i, k).n = table.n
      /\ \A j \in Slots :
           /\ AddActive(table, i, k).slot[j].name = table.slot[j].name
           /\ AddActive(table, i, k).slot[j].inactive = table.slot[j].inactive
  BY <1>2, Adds
<1>5. /\ table' \in Tables /\ table'.n = table.n
      /\ \A j \in Slots : /\ table'.slot[j].name = table.slot[j].name
                          /\ table'.slot[j].inactive = table.slot[j].inactive
  BY <1>1, <1>4
<1>. QED
  BY <1>1, <1>5, ActiveStep

(* the steps of a report that leave the table alone *)
LEMMA ReadStep ==
  ASSUME CountInv, UNCHANGED <<table, connVars, credit>>,
         "misplaced" \in hist => "misplaced" \in hist',
         \/ rpc' \in {"idle", "walk", "print"} /\ at' = NoRow
         \/ rpc' = "look" /\ at'.ct \in Conns /\ at' = [NoRow EXCEPT !.ct = at'.ct]
         \/ UNCHANGED <<rpc, at>> /\ hist \cap {"disturbed"} \subseteq hist'
  PROVE  CountInv'
<1>1. /\ at \in Stands /\ NoRow \in Stands
      /\ NoRow.row = 0 /\ NoRow.races = {}
  BY MaxProtoAssumption DEF CountInv, TypeInv, Stands, NoRow
<1>2. TypeInv' /\ Standing'
  <2>1. CASE rpc' \in {"idle", "walk", "print"} /\ at' = NoRow
    BY <1>1, <2>1 DEF CountInv, TypeInv, Standing, connVars
  <2>2. CASE rpc' = "look" /\ at'.ct \in Conns /\ at' = [NoRow EXCEPT !.ct = at'.ct]
    <3>1. at' \in Stands /\ at'.row = 0 /\ at'.races = {}
      BY <2>2, MaxProtoAssumption DEF Stands, NoRow
    <3>. QED
      BY <2>2, <3>1 DEF CountInv, TypeInv, Standing, connVars
  <2>3. CASE UNCHANGED <<rpc, at>> /\ hist \cap {"disturbed"} \subseteq hist'
    BY <1>1, <2>3 DEF CountInv, TypeInv, Standing, connVars
  <2>. QED
    BY <2>1, <2>2, <2>3
<1>3. Found => Found'
  BY DEF Found, connVars
<1>. QED
  BY <1>2, <1>3, TableKept

LEMMA VisitStep ==
  ASSUME CountInv, NEW ct \in Conns, Visit(ct)
  PROVE  CountInv'
<1>1. rpc' = "look" /\ at' = [NoRow EXCEPT !.ct = ct] /\ UNCHANGED <<table, connVars, credit, hist>>
  BY DEF Visit
<1>2. at'.ct = ct
  BY <1>1 DEF NoRow
<1>. QED
  BY <1>1, <1>2, ReadStep

LEMMA LookStep ==
  ASSUME CountInv, Look
  PROVE  CountInv'
<1> DEFINE ct == at.ct
           races == IF label[ct] = Uninit THEN {"raced"} ELSE {}
<1>1. /\ rpc = "look" /\ ct \in Conns /\ UNCHANGED <<table, connVars, credit>>
      /\ hist' = hist \cup {"disturbed" : race \in races}
  BY DEF Look, Note, CountInv, TypeInv
<1>2. PICK i \in RowsFor(ct) :
        IF i = 0 THEN at' = NoRow /\ rpc' = "walk"
                 ELSE at' = [at EXCEPT !.row = i, !.races = races] /\ rpc' = "add"
  BY DEF Look
<1>3. CASE i = 0
  BY <1>1, <1>2, <1>3, ReadStep
<1>4. CASE i # 0
  <2>1. /\ i \in 0..MaxProto
        /\ label[ct] # Uninit => label[ct] \in Names /\ i = Lookup(table, label[ct])
    BY <1>1, <1>4, RowFound DEF CountInv
  <2>2. races \in SUBSET Races
    BY DEF Races
  <2>3. at' \in Stands /\ at'.ct = ct /\ at'.row = i /\ at'.races = races /\ rpc' = "add"
    <3>1. at \in Stands
      BY DEF CountInv, TypeInv
    <3>. QED
      BY <1>2, <1>4, <2>1, <2>2, <3>1 DEF Stands
  <2>4. TypeInv'
    BY <1>1, <1>4, <2>3 DEF CountInv, TypeInv, connVars
  <2>5. Found => Found'
    BY <1>1 DEF Found, connVars
  <2>6. Standing'
    <3>1. CASE label[ct] = Uninit
      BY <1>1, <2>3, <3>1 DEF Standing
    <3>2. CASE label[ct] # Uninit
      BY <1>1, <2>1, <2>3, <3>2 DEF Standing, connVars
    <3>. QED
      BY <3>1, <3>2
  <2>. HIDE DEF races
  <2>. QED
    BY <1>1, <2>4, <2>5, <2>6, TableKept
<1>. QED
  BY <1>3, <1>4

(* A new row starts with what its protocol has to its credit, nothing, or is *)
(* not found as long as there is another of its name.                       *)
LEMMA LoadStep ==
  ASSUME CountInv, NEW n \in Names, Load(n)
  PROVE  CountInv'
<1>1. /\ table' = AddProto(table, n) /\ hist' = hist \cup Disturbed
      /\ UNCHANGED <<connVars, rpc, at, credit>> /\ hist \subseteq hist'
  BY DEF Load, Note
<1>2. table \in Tables
  BY DEF CountInv, TypeInv
<1>3. CASE Full(table)
  <2>1. table' = table
    BY <1>1, <1>3 DEF AddProto
  <2>. QED
    BY <1>1, <2>1, ReadStep
<1>4. CASE ~Full(table)
  <2>1. /\ table' \in Tables /\ table'.n = table.n + 1 /\ table.n + 1 \in Slots
        /\ \A i \in Slots : table'.slot[i].inactive = table.slot[i].inactive
    BY <1>1, <1>2, <1>4, AddsRow
  <2>2. \A x : Lookup(table', x) =
                IF x = n /\ Lookup(table, n) = 0 THEN table.n + 1 ELSE Lookup(table, x)
    BY <1>1, <1>2, <1>4, <2>1, LookupAdd DEF Tables
  <2>3. table.n \in Nat /\ table.n <= MaxProto /\ MaxProto \in Nat
    BY <1>2, LookupFacts, MaxProtoAssumption DEF Tables
  <2>4. TypeInv'
    BY <1>1, <2>1 DEF CountInv, TypeInv, connVars
  <2>5. Standing'
    <3>1. at.races # {} => "disturbed" \in hist' /\ rpc = "add"
      BY <1>1 DEF CountInv, Standing
    <3>2. ASSUME rpc = "add", at.races = {}
          PROVE  label[at.ct] \in Names /\ at.row = Lookup(table', label[at.ct])
      <4>1. label[at.ct] \in Names /\ at.row = Lookup(table, label[at.ct]) /\ at.row # 0
        BY <3>2 DEF CountInv, TypeInv, Standing
      <4>. QED
        BY <2>2, <4>1
    <3>. QED
      BY <1>1, <3>1, <3>2 DEF Standing, connVars
  <2>6. ASSUME Found, Exact, Clear
        PROVE  Found' /\ Exact' /\ Clear'
    <3>1. ASSUME NEW ct \in Conns, life[ct] = "destroy"
          PROVE  row[ct] = Lookup(table', label[ct])
      <4>1. row[ct] = Lookup(table, label[ct]) /\ row[ct] # 0
        BY <2>6, <3>1 DEF CountInv, TypeInv, Found
      <4>. QED
        BY <2>2, <4>1
    <3>2. ASSUME NEW m \in Names
          PROVE  /\ Lookup(table', m) = 0 => credit[m] = 0
                 /\ Lookup(table', m) # 0 => table'.slot[Lookup(table', m)].inactive = credit[m]
      <4>1. CASE m = n /\ Lookup(table, n) = 0
        <5>1. table.slot[table.n + 1].inactive = 0 /\ credit[n] = 0
          BY <2>1, <2>3, <2>6, <4>1 DEF Exact, Clear, Spare
        <5>. QED
          BY <2>1, <2>2, <2>3, <4>1, <5>1
      <4>2. CASE ~(m = n /\ Lookup(table, n) = 0)
        <5>1. Lookup(table, m) # 0 => Lookup(table, m) \in Slots
          <6>1. Lookup(table, m) \in 0..table.n
            BY <1>2, LookupFacts DEF Tables
          <6>. QED
            BY <2>3, <6>1 DEF Slots
        <5>2. Lookup(table', m) = Lookup(table, m)
          BY <2>2, <4>2
        <5>. QED
          BY <2>1, <2>6, <5>1, <5>2 DEF Exact
      <4>. QED
        BY <4>1, <4>2
    <3>3. Found' /\ Exact'
      BY <1>1, <3>1, <3>2 DEF Found, Exact, connVars
    <3>4. ASSUME NEW i \in Slots, Spare(i)'
          PROVE  table'.slot[i].inactive = 0
      <4>1. CASE i > table.n
        BY <2>1, <2>6, <4>1 DEF Clear, Spare
      <4>2. CASE ~(i > table.n)
        <5>1. i \in 1..table.n /\ ~(i > table'.n)
          BY <2>1, <2>3, <4>2 DEF Slots
        <5>2. i # Lookup(table, table.slot[i].name)
          BY <1>1, <1>2, <1>4, <3>4, <5>1, SpareAdd DEF Spare
        <5>. QED
          BY <2>1, <2>6, <5>2 DEF Clear, Spare
      <4>. QED
        BY <4>1, <4>2
    <3>. QED
      BY <3>3, <3>4 DEF Clear
  <2>. QED
    BY <1>1, <2>4, <2>5, <2>6 DEF CountInv
<1>. QED
  BY <1>3, <1>4

(* A removal moves rows; whoever stands on one of those is noted.           *)
LEMMA UnloadStep ==
  ASSUME CountInv, NEW n \in Names, Unload(n)
  PROVE  CountInv'
<1>1. PICK r : r = Leaving(table, n)
  OBVIOUS
<1>2. /\ table.n > 0 /\ table' = RemoveProto(table, n)
      /\ credit' = [m \in Names |-> IF Lookup(table, m) = r THEN 0 ELSE credit[m]]
      /\ hist' = hist \cup {"misplaced" : ct \in {o \in Conns : row[o] >= r}}
                      \cup (IF at.row >= r THEN {"disturbed"} ELSE {})
      /\ at' = IF at.row >= r THEN [at EXCEPT !.races = @ \cup {"moved"}] ELSE at
      /\ UNCHANGED <<connVars, rpc>>
  BY <1>1 DEF Unload
<1>3. table \in Tables /\ credit \in [Names -> Nat] /\ MaxProto \in Nat /\ at \in Stands
  BY MaxProtoAssumption DEF CountInv, TypeInv
<1>4. /\ r \in 1..table.n /\ table.n \in Nat /\ table.n <= MaxProto
      /\ table' = DropRow(table, r)
  BY <1>1, <1>2, <1>3, LeavingFacts, LookupFacts DEF Tables
<1>5. /\ table' \in Tables /\ table'.n = table.n - 1
      /\ table'.slot[table.n].inactive = 0
      /\ \A i \in Slots : i > table.n => table'.slot[i] = table.slot[i]
  BY <1>3, <1>4, RemovesRow
<1>6. ASSUME NEW x
      PROVE  /\ Lookup(table, x) = 0 => Lookup(table', x) = 0
             /\ Lookup(table, x) \notin {0, r} =>
                  /\ Lookup(table', x) =
                       IF Lookup(table, x) < r THEN Lookup(table, x) ELSE Lookup(table, x) - 1
                  /\ table'.slot[Lookup(table', x)] = table.slot[Lookup(table, x)]
             /\ Lookup(table, x) = r /\ Lookup(table', x) # 0 =>
                  \E j \in Named(table, x) \ {r} :
                    table'.slot[Lookup(table', x)] = table.slot[j]
             /\ Lookup(table, x) \in Nat
  <2>1. Lookup(table, x) \in 0..table.n
    BY <1>3, LookupFacts DEF Tables
  <2>. QED
    BY <1>3, <1>4, <2>1, LookupDrop DEF Tables
<1>7. credit' \in [Names -> Nat]
  BY <1>2, <1>3
<1>8. at' \in Stands /\ at'.ct = at.ct /\ at'.row = at.row
  <2>1. [at EXCEPT !.races = @ \cup {"moved"}] \in Stands
    BY <1>3 DEF Stands, Races
  <2>. QED
    BY <1>2, <1>3, <2>1 DEF Stands
<1>9. TypeInv'
  <2>1. at.row >= r => at.row # 0
    BY <1>3, <1>4 DEF Stands
  <2>2. rpc \notin {"look", "add"} => at' = NoRow
    BY <1>2, <2>1 DEF CountInv, TypeInv
  <2>. QED
    BY <1>2, <1>5, <1>7, <1>8, <2>2 DEF CountInv, TypeInv, connVars
<1>10. Standing'
  <2>1. CASE at.row >= r
    <3>1. "disturbed" \in hist' /\ rpc = "add"
      <4>1. at.row # 0
        BY <1>3, <1>4, <2>1 DEF Stands
      <4>. QED
        BY <1>2, <2>1, <4>1 DEF CountInv, TypeInv
    <3>2. at'.races # {}
      BY <1>2, <1>3, <2>1 DEF Stands
    <3>. QED
      BY <1>2, <3>1, <3>2 DEF Standing
  <2>2. CASE ~(at.row >= r)
    <3>1. at' = at /\ hist \subseteq hist'
      BY <1>2, <2>2
    <3>2. ASSUME rpc = "add", at.races = {}
          PROVE  label[at.ct] \in Names /\ at.row = Lookup(table', label[at.ct])
      <4>1. label[at.ct] \in Names /\ at.row = Lookup(table, label[at.ct]) /\ at.row \in 1..MaxProto
        BY <1>3, <3>2 DEF CountInv, TypeInv, Standing, Stands
      <4>2. at.row < r /\ at.row \notin {0, r}
        BY <1>3, <1>4, <2>2, <4>1
      <4>. QED
        BY <1>6, <4>1, <4>2
    <3>. QED
      BY <1>2, <3>1, <3>2 DEF CountInv, Standing, connVars
  <2>. QED
    BY <2>1, <2>2
<1>11. ASSUME "misplaced" \notin hist', Found, Exact, Clear
       PROVE  Found' /\ Exact' /\ Clear'
  <2>1. \A o \in Conns : ~(row[o] >= r)
    BY <1>2, <1>11
  <2>2. ASSUME NEW ct \in Conns, life[ct] = "destroy"
        PROVE  row[ct] = Lookup(table', label[ct])
    <3>1. row[ct] = Lookup(table, label[ct]) /\ row[ct] \in 1..MaxProto
      BY <1>3, <1>11, <2>2 DEF CountInv, TypeInv, Found
    <3>2. row[ct] < r /\ row[ct] \notin {0, r}
      BY <1>3, <1>4, <2>1, <3>1
    <3>. QED
      BY <1>6, <3>1, <3>2
  <2>3. Found'
    BY <1>2, <2>2 DEF Found, connVars
  <2>4. ASSUME NEW m \in Names
        PROVE  /\ Lookup(table', m) = 0 => credit'[m] = 0
               /\ Lookup(table', m) # 0 => table'.slot[Lookup(table', m)].inactive = credit'[m]
    <3>1. credit'[m] = IF Lookup(table, m) = r THEN 0 ELSE credit[m]
      BY <1>2
    <3>2. CASE Lookup(table, m) = r
      <4>1. SUFFICES ASSUME Lookup(table', m) # 0
                     PROVE  table'.slot[Lookup(table', m)].inactive = 0
        BY <3>1, <3>2
      <4>2. PICK j \in Named(table, m) \ {r} : table'.slot[Lookup(table', m)] = table.slot[j]
        BY <1>6, <3>2, <4>1
      <4>3. j \in Slots /\ table.slot[j].name = m
        BY <1>3, <1>4, <4>2 DEF Named, Slots
      <4>4. Spare(j)
        BY <3>2, <4>2, <4>3 DEF Spare
      <4>. QED
        BY <1>11, <4>2, <4>3, <4>4 DEF Clear
    <3>3. CASE Lookup(table, m) = 0
      BY <1>4, <1>6, <1>11, <3>1, <3>3 DEF Exact
    <3>4. CASE Lookup(table, m) \notin {0, r}
      <4>1. Lookup(table', m) # 0
        BY <1>4, <1>6, <3>4
      <4>. QED
        BY <1>6, <1>11, <3>1, <3>4, <4>1 DEF Exact
    <3>. QED
      BY <3>2, <3>3, <3>4
  <2>5. Exact'
    BY <2>4 DEF Exact
  <2>6. ASSUME NEW i \in Slots, Spare(i)'
        PROVE  table'.slot[i].inactive = 0
    <3>1. CASE i = table.n
      BY <1>5, <3>1
    <3>2. CASE i > table.n
      BY <1>5, <1>11, <3>2 DEF Clear, Spare
    <3>3. CASE i < table.n
      <4>1. i \in 1..(table.n - 1) /\ i # Lookup(table', table'.slot[i].name)
        BY <1>4, <1>5, <2>6, <3>3 DEF Spare, Slots
      <4>2. PICK o \in 1..table.n : /\ o # Lookup(table, table.slot[o].name)
                                   /\ table'.slot[i] = table.slot[o]
        BY <1>3, <1>4, <4>1, SpareDrop
      <4>3. o \in Slots
        BY <1>3, <1>4 DEF Slots
      <4>. QED
        BY <1>11, <4>2, <4>3 DEF Clear, Spare
    <3>. QED
      BY <1>3, <1>4, <3>1, <3>2, <3>3 DEF Slots
  <2>. QED
    BY <2>3, <2>5, <2>6 DEF Clear
<1>12. "misplaced" \notin hist' => "misplaced" \notin hist
  BY <1>2
<1>. QED
  BY <1>9, <1>10, <1>11, <1>12 DEF CountInv

-----------------------------------------------------------------------------
(* The invariant holds *)

LEMMA InitInv ==
  ASSUME Init
  PROVE  CountInv
<1>1. /\ table = StartTable /\ acct \subseteq Conns
      /\ label = [ct \in Conns |-> NoProto] /\ pkts = [ct \in Conns |-> 1]
      /\ life = [ct \in Conns |-> "new"] /\ row = [ct \in Conns |-> 0]
      /\ rpc = "idle" /\ at = NoRow /\ credit = [n \in Names |-> 0]
  BY DEF Init, NoReport
<1>2. PICK g \in [Slots -> Base \cup {NoName}] :
        StartTable = [slot |-> [i \in Slots |-> [ZeroRow EXCEPT !.name = g[i]]],
                      n |-> Cardinality(Base)]
  BY CountersAssumption, TableOfFacts DEF StartTable
<1>3. /\ StartTable.n \in 0..MaxProto /\ StartTable.n = Cardinality(Base)
      /\ \A i \in 1..StartTable.n : StartTable.slot[i].name \in Base
  BY CountersAssumption, TableOfFacts DEF StartTable
<1>4. \A i \in Slots : /\ StartTable.slot[i].inactive = 0
                       /\ StartTable.slot[i] \in [name : Names \cup {NoName}, active : Nat,
                                                  inactive : Nat]
  BY <1>2, CountersAssumption DEF ZeroRow
<1>5. StartTable \in Tables
  <2>1. \A i \in Slots : [ZeroRow EXCEPT !.name = g[i]] \in
                            [name : Names \cup {NoName}, active : Nat, inactive : Nat]
    BY CountersAssumption DEF ZeroRow
  <2>. QED
    BY <1>2, <1>3, <2>1 DEF Tables, TablesOf
<1>6. TypeInv
  BY <1>1, <1>5, MaxProtoAssumption DEF TypeInv, Lives, NoRow, Stands
<1>8. Found /\ Standing
  BY <1>1 DEF Found, Standing, NoRow
<1>9. Exact /\ Clear
  <2>1. Clear
    BY <1>1, <1>4 DEF Clear
  <2>2. ASSUME NEW n \in Names, Lookup(table, n) # 0
        PROVE  table.slot[Lookup(table, n)].inactive = 0
    <3>1. Lookup(table, n) \in 0..table.n /\ table.n \in Nat /\ table.n <= MaxProto
      BY <1>1, <1>5, LookupFacts DEF Tables
    <3>2. Lookup(table, n) \in Slots
      BY <2>2, <3>1, MaxProtoAssumption DEF Slots
    <3>. QED
      BY <1>1, <1>4, <3>2
  <2>3. Exact
    BY <1>1, <2>2 DEF Exact
  <2>. QED
    BY <2>1, <2>3
<1>. QED
  BY <1>6, <1>8, <1>9 DEF CountInv

LEMMA StepInv ==
  ASSUME CountInv, [Next]_vars
  PROVE  CountInv'
<1>1. CASE UNCHANGED vars
  <2>1. UNCHANGED <<table, connVars, credit, rpc, at, hist>>
    BY <1>1 DEF vars, connVars
  <2>. QED
    BY <2>1, ReadStep
<1>2. ASSUME NEW ct \in Conns, Confirm(ct) \/ Leave(ct) \/ DestroyNoAcct(ct)
      PROVE  CountInv'
  <2>1. hist \subseteq hist'
    BY <1>2 DEF Confirm, Leave, DestroyNoAcct, Note
  <2>. QED
    BY <1>2, <2>1, LifeStep DEF Confirm, Leave, DestroyNoAcct, Free, readVars, Lives
<1>3. CASE VisitAbort
  BY <1>3, ReadStep DEF VisitAbort, Note
<1>4. CASE GoAstray
  BY <1>4, ReadStep DEF GoAstray
<1>5. CASE WalkEnd \/ Show
  <2>1. at = NoRow /\ at' = at
    BY <1>5 DEF WalkEnd, Show, CountInv, TypeInv
  <2>. QED
    BY <1>5, <2>1, ReadStep DEF WalkEnd, Show
<1>7. ASSUME NEW ct \in Conns, Connection(ct)
      PROVE  CountInv'
  BY <1>2, <1>7, PacketStep, IdentifyStep, DestroyLookupStep, DestroyAddStep, ReuseStep
     DEF Connection
<1>8. CASE CountTotal
  BY <1>3, <1>4, <1>5, <1>8, BeginStep, VisitStep, LookStep, VisitAddStep DEF CountTotal
<1>. QED
  BY <1>1, <1>7, <1>8, LoadStep, UnloadStep DEF Next

LEMMA Invariance == Spec => []CountInv
<1>1. Init => CountInv
  BY InitInv
<1>2. CountInv /\ [Next]_vars => CountInv'
  BY StepInv
<1>. QED
  BY <1>1, <1>2, PTL DEF Spec

-----------------------------------------------------------------------------
(* The other types *)

RestInv ==
  /\ visited \subseteq Conns /\ must \subseteq Conns /\ hist \subseteq Events
  /\ pkts \in [Conns -> 1..MaxPkts]
  /\ truth \in [Names -> Nat]
  /\ loaded \subseteq Names /\ loads \in Nat /\ reuses \in Nat

(* Packets can be summed, and more connections have no fewer. *)
LEMMA SomePackets ==
  ASSUME TypeInv, NEW S \in SUBSET Conns
  PROVE  IsFiniteSet(S) /\ PacketsOf(S) \in Nat
<1>1. IsFiniteSet(S) /\ \A ct \in S : pkts[ct] \in Nat
  BY CountersAssumption, FS_Subset DEF TypeInv
<1>. QED
  BY <1>1, SumType DEF PacketsOf

LEMMA MorePackets ==
  ASSUME TypeInv, TypeInv', NEW S \in SUBSET Conns, NEW T \in SUBSET Conns, S \subseteq T,
         \A ct \in Conns : pkts[ct] <= pkts'[ct]
  PROVE  PacketsOf(S) <= SumFunctionOnSet(pkts', T)
<1>1. IsFiniteSet(T) /\ IsFiniteSet(S)
  BY SomePackets
<1>2. \A ct \in T : pkts[ct] \in Nat /\ pkts'[ct] \in Nat
  BY DEF TypeInv
<1>3. PacketsOf(S) <= PacketsOf(T)
  BY <1>1, <1>2, SumSubset DEF PacketsOf
<1>4. PacketsOf(T) <= SumFunctionOnSet(pkts', T)
  BY <1>1, <1>2, SumMonotonic DEF PacketsOf
<1>5. PacketsOf(S) \in Nat /\ PacketsOf(T) \in Nat /\ SumFunctionOnSet(pkts', T) \in Nat
  BY <1>1, <1>2, SomePackets, SumType
<1>. QED
  BY <1>3, <1>4, <1>5

(* The bound on packets is one on those of each connection, too. *)
LEMMA PacketBound ==
  ASSUME CountInv, RestInv, NEW ct \in Conns, Packet(ct)
  PROVE  pkts' \in [Conns -> 1..MaxPkts]
<1>1. IsFiniteSet(Conns) /\ \A o \in Conns : pkts[o] \in Nat
  BY CountersAssumption DEF CountInv, TypeInv
<1>2. PacketsOf(Conns) = pkts[ct] + PacketsOf(Conns \ {ct})
  BY <1>1, SumTake DEF PacketsOf
<1>3. PacketsOf(Conns \ {ct}) \in Nat
  BY SomePackets DEF CountInv
<1>4. pkts[ct] + 1 \in 1..MaxPkts
  BY <1>2, <1>3, CountersAssumption DEF Packet, RestInv
<1>. QED
  BY <1>4 DEF Packet, RestInv

(* A report starts from numbers. *)
LEMMA TruthType ==
  ASSUME CountInv, Begin
  PROVE  truth' \in [Names -> Nat]
<1>1. ASSUME NEW n \in Names
      PROVE  TruthOf(n) \in Nat
  <2>1. credit[n] \in Nat
    BY DEF CountInv, TypeInv
  <2>2. {ct \in Labelled(n) : life[ct] \in {"hashed", "dying", "destroy"}} \in SUBSET Conns
    BY DEF Labelled, CountInv, TypeInv
  <2>. QED
    BY <2>1, <2>2, SomePackets DEF TruthOf, CountInv
<1>. QED
  BY <1>1 DEF Begin, Note, NoReport

LEMMA RestStep ==
  ASSUME CountInv, RestInv, [Next]_vars
  PROVE  RestInv'
<1>1. CASE UNCHANGED vars
  BY <1>1 DEF vars, RestInv
<1>2. ASSUME NEW ct \in Conns, Packet(ct)
      PROVE  RestInv'
  <2>1. UNCHANGED <<visited, must, hist, truth, loaded, loads, reuses>>
    BY <1>2 DEF Packet, readVars, walkVars, modVars
  <2>. QED
    BY <1>2, <2>1, PacketBound DEF RestInv
<1>3. ASSUME NEW ct \in Conns, Reuse(ct)
      PROVE  RestInv'
  <2>1. /\ UNCHANGED <<visited, must, loaded, loads>> /\ hist' \subseteq hist \cup Events
        /\ truth' = truth \/ truth' = [n \in Names |-> 0]
    BY <1>3 DEF Reuse, Note, NoReport, Disturbed, Events, walkVars, modVars
  <2>2. 1 \in 1..MaxPkts /\ reuses + 1 \in Nat
    BY CountersAssumption DEF RestInv
  <2>3. pkts' \in [Conns -> 1..MaxPkts] /\ reuses' \in Nat
    BY <1>3, <2>2 DEF Reuse, RestInv
  <2>. QED
    BY <2>1, <2>3 DEF RestInv
<1>4. ASSUME NEW ct \in Conns, Connection(ct), ~Packet(ct), ~Reuse(ct)
      PROVE  RestInv'
  <2>1. /\ UNCHANGED <<pkts, loaded, loads, reuses>> /\ hist' \subseteq hist \cup Events
        /\ visited' \subseteq visited /\ must' \subseteq must
        /\ truth' = truth \/ truth' = [n \in Names |-> 0]
    BY <1>4 DEF Connection, Identify, Confirm, Leave, DestroyLookup, DestroyAdd, DestroyNoAcct,
                readVars, walkVars, modVars, Note, Disturbed, NoReport, Events
  <2>. QED
    BY <2>1 DEF RestInv
<1>5. CASE Begin
  <2>1. /\ UNCHANGED <<pkts, loaded, loads, reuses>> /\ visited' = {} /\ must' \subseteq Conns
        /\ hist' \subseteq hist \cup Events
    BY <1>5 DEF Begin, connVars, modVars, Events, Note
  <2>. QED
    BY <1>5, <2>1, TruthType DEF RestInv
<1>6. CASE Show
  <2>1. /\ UNCHANGED <<pkts, loaded, loads, reuses>> /\ visited' = {} /\ must' = {}
        /\ hist' \subseteq hist /\ truth' = [n \in Names |-> 0]
    BY <1>6 DEF Show, connVars, modVars, NoReport
  <2>. QED
    BY <2>1 DEF RestInv
<1>7. CASE (\E ct \in Conns : Visit(ct)) \/ Look \/ VisitAdd \/ VisitAbort \/ GoAstray \/ WalkEnd
  <2>1. UNCHANGED <<pkts, must, loaded, loads, reuses>>
    BY <1>7 DEF Visit, Look, VisitAdd, VisitAbort, GoAstray, WalkEnd, connVars, modVars, walkVars
  <2>2. visited' \subseteq Conns
    BY <1>7 DEF Visit, Look, VisitAdd, VisitAbort, GoAstray, WalkEnd, RestInv, walkVars
  <2>3. /\ hist' \subseteq hist \cup Events
        /\ truth' = truth \/ truth' = [n \in Names |-> 0]
    BY <1>7 DEF Visit, Look, VisitAdd, VisitAbort, GoAstray, WalkEnd, Events, Note, NoReport
  <2>. QED
    BY <2>1, <2>2, <2>3 DEF RestInv
<1>8. ASSUME NEW n \in Names, Load(n)
      PROVE  RestInv'
  <2>1. /\ UNCHANGED <<pkts, visited, must, reuses>> /\ hist' \subseteq hist \cup Events
        /\ loaded' \subseteq Names /\ loads' \in Nat
        /\ truth' = truth \/ truth' = [m \in Names |-> 0]
    BY <1>8 DEF Load, connVars, walkVars, Note, Disturbed, NoReport, Events, RestInv
  <2>. QED
    BY <2>1 DEF RestInv
<1>9. ASSUME NEW n \in Names, Unload(n)
      PROVE  RestInv'
  <2>1. /\ UNCHANGED <<pkts, visited, must, reuses, loads>> /\ hist' \subseteq hist \cup Events
        /\ loaded' \subseteq loaded
    BY <1>9 DEF Unload, connVars, walkVars, Events
  <2>2. \/ truth' = [m \in Names |-> 0]
        \/ truth' = [m \in Names |-> IF Lookup(table, m) = Leaving(table, n) THEN 0 ELSE truth[m]]
    BY <1>9 DEF Unload, NoReport
  <2>3. truth' \in [Names -> Nat]
    BY <2>2 DEF RestInv
  <2>. QED
    BY <2>1, <2>3 DEF RestInv
<1>. QED
  BY <1>1, <1>2, <1>3, <1>4, <1>5, <1>6, <1>7, <1>8, <1>9 DEF Next, CountTotal

-----------------------------------------------------------------------------
(* A report under way, of which nothing that can spoil it has happened.      *)
(* Counted is what the walk is done with; a connection it has looked up but *)
(* not added is still to come.                                             *)

Quiet == rpc # "idle" /\ hist = {}

Active(n) == table.slot[Lookup(table, n)].active

Counted == visited \ (IF rpc \in {"look", "add"} THEN {at.ct} ELSE {})

Passed(n) == {ct \in Counted \cap acct : label[ct] = n}

Remaining(n) == {ct \in (must \ Counted) \cap acct : label[ct] = n}

(* nobody leaves, and the walk misses nobody *)
Staying ==
  Quiet =>
    /\ \A ct \in Conns : life[ct] \notin {"dying", "destroy"}
    /\ \A ct \in visited \cup must : life[ct] = "hashed"
    /\ rpc \in {"look", "add"} => at.ct \in visited
    /\ rpc = "print" => must \subseteq visited

(* what there was at the flush has been counted or is still to come, what    *)
(* has been counted is still there, and it was counted in the rows that are  *)
(* found                                                                   *)
Between ==
  Quiet =>
    /\ \A n \in Names : Lookup(table, n) # 0 =>
         /\ truth[n] <= credit[n] + Active(n) + PacketsOf(Remaining(n))
         /\ Active(n) <= PacketsOf(Passed(n))
    /\ \A i \in Slots : i <= table.n /\ Spare(i) => table.slot[i].active = 0

(* memory that was used again has disturbed the report *)
Wandering == "reused" \in hist => "disturbed" \in hist

ReportInv == CountInv /\ RestInv /\ Staying /\ Between /\ Wandering

LEMMA ReportTypes ==
  ASSUME CountInv, RestInv, NEW n \in Names
  PROVE  /\ Passed(n) \in SUBSET Conns /\ PacketsOf(Passed(n)) \in Nat
         /\ Remaining(n) \in SUBSET Conns /\ PacketsOf(Remaining(n)) \in Nat
         /\ truth[n] \in Nat /\ credit[n] \in Nat
         /\ Lookup(table, n) # 0 => Lookup(table, n) \in Slots /\ Active(n) \in Nat
<1>1. Passed(n) \in SUBSET Conns /\ Remaining(n) \in SUBSET Conns
  BY DEF Passed, Remaining, Counted, CountInv, TypeInv, RestInv
<1>2. PacketsOf(Passed(n)) \in Nat /\ PacketsOf(Remaining(n)) \in Nat
  BY <1>1, SomePackets DEF CountInv
<1>3. truth[n] \in Nat /\ credit[n] \in Nat
  BY DEF CountInv, TypeInv, RestInv
<1>4. ASSUME Lookup(table, n) # 0
      PROVE  Lookup(table, n) \in Slots /\ Active(n) \in Nat
  <2>1. table \in Tables
    BY DEF CountInv, TypeInv
  <2>2. Lookup(table, n) \in 0..table.n /\ table.n \in Nat /\ table.n <= MaxProto
    BY <2>1, LookupFacts DEF Tables
  <2>3. Lookup(table, n) \in Slots
    BY <1>4, <2>2, MaxProtoAssumption DEF Slots
  <2>4. table.slot[Lookup(table, n)] \in [name : Names \cup {NoName}, active : Nat, inactive : Nat]
    BY <2>1, <2>3 DEF Tables, TablesOf
  <2>. QED
    BY <2>3, <2>4 DEF Active
<1>. QED
  BY <1>1, <1>2, <1>3, <1>4

(* While the walk stands still, packets and labels can only be added.       *)
LEMMA StandStill ==
  ASSUME ReportInv, CountInv', RestInv', hist \subseteq hist',
         UNCHANGED <<table, acct, credit, rpc, visited, must, at, truth>>,
         \A ct \in Conns : pkts[ct] <= pkts'[ct],
         \A ct \in Conns : label[ct] \in Names => label'[ct] = label[ct]
  PROVE  Between'
<1>0. ASSUME Quiet'
      PROVE  \A i \in Slots : i <= table'.n /\ Spare(i)' => table'.slot[i].active = 0
  BY <1>0 DEF Quiet, Spare, ReportInv, Between
<1>1. SUFFICES ASSUME Quiet', NEW n \in Names, Lookup(table, n) # 0
               PROVE  /\ truth[n] <= credit[n] + Active(n) + SumFunctionOnSet(pkts', Remaining(n)')
                      /\ Active(n) <= SumFunctionOnSet(pkts', Passed(n)')
  BY <1>0 DEF Between, Active, PacketsOf
<1>2. Quiet
  BY <1>1 DEF Quiet
<1>3. Passed(n) \subseteq Passed(n)' /\ Remaining(n) \subseteq Remaining(n)'
  BY DEF Passed, Remaining, Counted, ReportInv, CountInv, TypeInv
<1>4. Passed(n)' \in SUBSET Conns /\ Remaining(n)' \in SUBSET Conns
  BY DEF Passed, Remaining, Counted, ReportInv, CountInv, TypeInv, RestInv
<1>5. Passed(n) \in SUBSET Conns /\ Remaining(n) \in SUBSET Conns
      /\ PacketsOf(Passed(n)) \in Nat /\ PacketsOf(Remaining(n)) \in Nat
      /\ truth[n] \in Nat /\ credit[n] \in Nat /\ Active(n) \in Nat
  BY <1>1, ReportTypes DEF ReportInv
<1>6. PacketsOf(Passed(n)) <= SumFunctionOnSet(pkts', Passed(n)')
  BY <1>3, <1>4, <1>5, MorePackets DEF ReportInv, CountInv
<1>7. PacketsOf(Remaining(n)) <= SumFunctionOnSet(pkts', Remaining(n)')
  BY <1>3, <1>4, <1>5, MorePackets DEF ReportInv, CountInv
<1>8. IsFiniteSet(Passed(n)') /\ IsFiniteSet(Remaining(n)')
      /\ \A ct \in Conns : pkts'[ct] \in Nat
  BY <1>4, SomePackets DEF ReportInv, CountInv, TypeInv
<1>9. SumFunctionOnSet(pkts', Passed(n)') \in Nat /\ SumFunctionOnSet(pkts', Remaining(n)') \in Nat
  BY <1>4, <1>8, SumType
<1>10. truth[n] <= credit[n] + Active(n) + PacketsOf(Remaining(n))
       /\ Active(n) <= PacketsOf(Passed(n))
  BY <1>1, <1>2 DEF ReportInv, Between
<1>. HIDE DEF Passed, Remaining, Active, PacketsOf
<1>. QED
  BY <1>5, <1>6, <1>7, <1>9, <1>10

(* Connections that come, are labelled or have packets spoil nothing; those *)
(* that leave are noted.                                                   *)
LEMMA ConnectionReport ==
  ASSUME ReportInv, CountInv', RestInv', NEW ct \in Conns, Connection(ct)
  PROVE  Staying' /\ Between'
<1>1. rpc' = rpc /\ hist \subseteq hist'
  BY DEF Connection, Packet, Identify, Confirm, Leave, DestroyLookup, DestroyAdd, DestroyNoAcct,
         Reuse, readVars, Note
<1>2. Quiet' => Quiet
  BY <1>1 DEF Quiet
<1>3. CASE Packet(ct) \/ Identify(ct) \/ Confirm(ct)
  <2>1. UNCHANGED <<table, credit, acct, visited, must, at, truth>>
    BY <1>3 DEF Packet, Identify, Confirm, readVars, walkVars
  <2>2. \A o \in Conns : pkts[o] <= pkts'[o]
    BY <1>3 DEF Packet, Identify, Confirm, ReportInv, CountInv, TypeInv
  <2>3. \A o \in Conns : label[o] \in Names => label'[o] = label[o]
    BY <1>3, CountersAssumption DEF Packet, Identify, Confirm, ReportInv, CountInv, TypeInv
  <2>4. Between'
    BY <1>1, <2>1, <2>2, <2>3, StandStill
  <2>5. \A o \in Conns : life'[o] = life[o] \/ (life[o] = "new" /\ life'[o] = "hashed")
    BY <1>3 DEF Packet, Identify, Confirm, ReportInv, CountInv, TypeInv
  <2>6. Staying'
    BY <1>1, <1>2, <2>1, <2>5 DEF Staying, ReportInv, RestInv
  <2>. QED
    BY <2>4, <2>6
<1>4. CASE Leave(ct) \/ Reuse(ct)
  <2>1. ~ Quiet'
    BY <1>1, <1>4 DEF Leave, Reuse, Disturbed, Note, Quiet
  <2>. QED
    BY <2>1 DEF Staying, Between
<1>5. CASE DestroyLookup(ct) \/ DestroyAdd(ct) \/ DestroyNoAcct(ct)
  <2>1. life[ct] \in {"dying", "destroy"}
    BY <1>5 DEF DestroyLookup, DestroyAdd, DestroyNoAcct
  <2>2. ~ Quiet
    BY <2>1 DEF Staying, ReportInv
  <2>. QED
    BY <1>2, <2>2 DEF Staying, Between
<1>. QED
  BY <1>3, <1>4, <1>5 DEF Connection

(* The flush leaves everything still to come.                               *)
LEMMA BeginReport ==
  ASSUME ReportInv, CountInv', RestInv', Begin
  PROVE  Staying' /\ Between'
<1>1. /\ rpc' = "walk" /\ table' = Flush(table) /\ visited' = {}
      /\ must' = {ct \in Conns : life[ct] = "hashed"}
      /\ UNCHANGED <<acct, label, pkts, life, row, credit>>
  BY DEF Begin, connVars
<1>2. Quiet' => /\ \A ct \in Conns : life[ct] \notin {"dying", "destroy"}
                /\ truth' = [n \in Names |-> TruthOf(n)]
  BY DEF Begin, Note, Quiet
<1>5. \A i \in Slots : i <= table'.n => table'.slot[i].active = 0
  BY <1>1, Flushes DEF ReportInv, CountInv, TypeInv
<1>3. Staying'
  BY <1>1, <1>2 DEF Staying
<1>4. ASSUME Quiet', NEW n \in Names, Lookup(table', n) # 0
      PROVE  /\ truth'[n] <= credit'[n] + Active(n)' + PacketsOf(Remaining(n))'
             /\ Active(n)' <= PacketsOf(Passed(n))'
  <2>1. Active(n)' = 0
    <3>1. table \in Tables /\ table' \in Tables
      BY DEF ReportInv, CountInv, TypeInv
    <3>2. Lookup(table', n) \in 0..table'.n /\ table'.n \in Nat /\ table'.n <= MaxProto
      BY <3>1, LookupFacts DEF Tables
    <3>3. Lookup(table', n) \in Slots
      BY <1>4, <3>2, MaxProtoAssumption DEF Slots
    <3>. QED
      BY <1>1, <3>1, <3>2, <3>3, Flushes DEF Active
  <2>2. Remaining(n)' = {ct \in Labelled(n) : life[ct] \in {"hashed", "dying", "destroy"}}
    BY <1>1, <1>2, <1>4 DEF Remaining, Counted, Labelled, ReportInv, CountInv, TypeInv
  <2>3. truth'[n] = credit[n] + PacketsOf(Remaining(n))'
    BY <1>1, <1>2, <1>4, <2>2 DEF TruthOf, PacketsOf
  <2>4. /\ truth'[n] \in Nat /\ credit[n] \in Nat
        /\ PacketsOf(Remaining(n))' \in Nat /\ PacketsOf(Passed(n))' \in Nat
    <3>1. Remaining(n)' \in SUBSET Conns /\ Passed(n)' \in SUBSET Conns
      BY DEF Remaining, Passed, Counted, CountInv, TypeInv, RestInv
    <3>. QED
      BY <1>1, <3>1, SomePackets DEF PacketsOf, ReportInv, RestInv, CountInv, TypeInv
  <2>. HIDE DEF Active, Remaining, Passed, PacketsOf
  <2>. QED
    BY <1>1, <2>1, <2>3, <2>4
<1>. QED
  BY <1>3, <1>4, <1>5 DEF Between

(* An entry that is taken is still to come.                                 *)
LEMMA VisitReport ==
  ASSUME ReportInv, CountInv', RestInv', NEW ct \in Conns, Visit(ct)
  PROVE  Staying' /\ Between'
<1>1. /\ rpc = "walk" /\ rpc' = "look" /\ life[ct] = "hashed" /\ ct \notin visited
      /\ visited' = visited \cup {ct} /\ at' = [NoRow EXCEPT !.ct = ct]
      /\ UNCHANGED <<table, acct, label, pkts, life, must, hist, truth, credit>>
  BY DEF Visit, connVars
<1>2. Quiet' => Quiet
  BY <1>1 DEF Quiet
<1>3. at'.ct = ct
  BY <1>1 DEF NoRow
<1>4. Staying'
  BY <1>1, <1>2, <1>3 DEF ReportInv, Staying
<1>5. Counted' = Counted
  BY <1>1, <1>3 DEF Counted
<1>. QED
  BY <1>1, <1>2, <1>4, <1>5 DEF ReportInv, Between, Active, Passed, Remaining, PacketsOf, Spare

(* A connection is passed over only if it has no row now.                   *)
LEMMA LookReport ==
  ASSUME ReportInv, CountInv', RestInv', Look
  PROVE  Staying' /\ Between'
<1>1. PICK ct : ct = at.ct
  OBVIOUS
<1>2. /\ rpc = "look" /\ ct \in Conns /\ hist \subseteq hist'
      /\ UNCHANGED <<table, acct, label, pkts, life, visited, must, credit>>
      /\ label[ct] = Uninit => "disturbed" \in hist'
      /\ label[ct] # Uninit => UNCHANGED <<hist, truth>>
  BY <1>1 DEF Look, Note, connVars, walkVars, ReportInv, CountInv, TypeInv
<1>3. PICK i \in RowsFor(ct) :
        IF i = 0 THEN rpc' = "walk"
                 ELSE rpc' = "add" /\ at'.ct = ct
  <2>1. PICK i \in RowsFor(at.ct) :
          IF i = 0 THEN rpc' = "walk"
                   ELSE rpc' = "add" /\ \E R : at' = [at EXCEPT !.row = i, !.races = R]
    BY DEF Look
  <2>2. \A R, k : [at EXCEPT !.row = k, !.races = R].ct = at.ct
    BY DEF ReportInv, CountInv, TypeInv, Stands
  <2>. QED
    BY <1>1, <2>1, <2>2
<1>4. Quiet' => Quiet /\ label[ct] # Uninit /\ ct \in visited /\ UNCHANGED <<hist, truth>>
  BY <1>1, <1>2 DEF Quiet, ReportInv, Staying
<1>5. Staying'
  BY <1>2, <1>3, <1>4 DEF ReportInv, Staying
<1>6. ASSUME Quiet', NEW n \in Names, Lookup(table, n) # 0
      PROVE  Passed(n)' = Passed(n) /\ Remaining(n)' = Remaining(n)
  <2>1. CASE i # 0
    <3>1. Counted' = Counted
      BY <1>1, <1>2, <1>3, <2>1 DEF Counted
    <3>. QED
      BY <1>2, <3>1 DEF Passed, Remaining
  <2>2. CASE i = 0
    <3>1. Counted' = visited /\ Counted = visited \ {ct} /\ ct \in visited
      BY <1>1, <1>2, <1>3, <1>4, <1>6, <2>2 DEF Counted
    <3>2. label[ct] # n
      <4>1. SUFFICES ASSUME label[ct] = n
                     PROVE  FALSE
        OBVIOUS
      <4>2. RowsFor(ct) = {Lookup(table, n)}
        BY <4>1, CountersAssumption DEF RowsFor
      <4>. QED
        BY <1>3, <1>6, <2>2, <4>2
    <3>. QED
      BY <1>2, <3>1, <3>2 DEF Passed, Remaining
  <2>. QED
    BY <2>1, <2>2
<1>7. ASSUME Quiet', NEW n \in Names, Lookup(table', n) # 0
      PROVE  /\ truth'[n] <= credit'[n] + Active(n)' + PacketsOf(Remaining(n))'
             /\ Active(n)' <= PacketsOf(Passed(n))'
  <2>1. /\ truth[n] <= credit[n] + Active(n) + PacketsOf(Remaining(n))
        /\ Active(n) <= PacketsOf(Passed(n))
    BY <1>2, <1>4, <1>7 DEF ReportInv, Between
  <2>2. /\ PacketsOf(Remaining(n))' = PacketsOf(Remaining(n))
        /\ PacketsOf(Passed(n))' = PacketsOf(Passed(n))
    BY <1>2, <1>6, <1>7 DEF PacketsOf
  <2>. QED
    BY <1>2, <1>4, <1>7, <2>1, <2>2 DEF Active
<1>8. Quiet' => \A j \in Slots : j <= table'.n /\ Spare(j)' => table'.slot[j].active = 0
  BY <1>2, <1>4 DEF ReportInv, Between, Spare
<1>. QED
  BY <1>5, <1>7, <1>8 DEF Between

(* What is added to a row is what was still to come of its protocol.        *)
LEMMA VisitAddReport ==
  ASSUME ReportInv, CountInv', RestInv', VisitAdd
  PROVE  Staying' /\ Between'
<1> DEFINE c == at.ct
           r == at.row
           k == pkts[at.ct]
<1>1. /\ rpc = "add" /\ c \in acct /\ rpc' = "walk" /\ table' = AddActive(table, r, k)
      /\ UNCHANGED <<acct, label, pkts, life, visited, must, hist, truth, credit>>
  BY DEF VisitAdd, connVars, walkVars
<1>2. /\ table \in Tables /\ c \in Conns /\ r \in 1..MaxProto /\ k \in Nat /\ MaxProto \in Nat
      /\ acct \subseteq Conns /\ visited \subseteq Conns
      /\ \A ct \in Conns : pkts[ct] \in Nat
  BY <1>1, MaxProtoAssumption DEF ReportInv, CountInv, TypeInv, Stands, RestInv
<1>3. Staying'
  BY <1>1 DEF ReportInv, Staying, Quiet
<1>4. ASSUME Quiet'
      PROVE  /\ Quiet /\ c \in visited
             /\ label[c] \in Names /\ r = Lookup(table, label[c])
  <2>1. Quiet /\ hist = {}
    BY <1>1, <1>4 DEF Quiet
  <2>2. at.races = {}
    BY <2>1 DEF ReportInv, CountInv, Standing
  <2>. QED
    BY <1>1, <2>1, <2>2 DEF ReportInv, Staying, CountInv, Standing
<1>5. /\ Counted' = visited /\ Counted = visited \ {c}
  BY <1>1 DEF Counted
<1>6. /\ table'.n = table.n
      /\ \A j \in Slots : /\ table'.slot[j].name = table.slot[j].name
                          /\ table'.slot[j].active =
                               IF j = r THEN table.slot[j].active + k ELSE table.slot[j].active
  <2>. HIDE DEF r, k
  <2>. QED
    BY <1>1, <1>2, Adds
<1>7. \A x : Lookup(table', x) = Lookup(table, x)
  <2>1. \A i \in 1..table.n : i \in Slots
    BY <1>2 DEF Tables, TablesOf, Slots
  <2>. QED
    BY <1>6, <2>1, LookupSame
<1>8. ASSUME Quiet', NEW n \in Names, Lookup(table, n) # 0
      PROVE  /\ truth[n] <= credit[n] + Active(n)' + SumFunctionOnSet(pkts, Remaining(n)')
             /\ Active(n)' <= SumFunctionOnSet(pkts, Passed(n)')
  <2>1. /\ truth[n] <= credit[n] + Active(n) + PacketsOf(Remaining(n))
        /\ Active(n) <= PacketsOf(Passed(n))
    BY <1>4, <1>8 DEF ReportInv, Between
  <2>2. /\ Passed(n) \in SUBSET Conns /\ PacketsOf(Passed(n)) \in Nat
        /\ Remaining(n) \in SUBSET Conns /\ PacketsOf(Remaining(n)) \in Nat
        /\ truth[n] \in Nat /\ credit[n] \in Nat /\ Active(n) \in Nat
        /\ Lookup(table, n) \in Slots
    BY <1>8, ReportTypes DEF ReportInv
  <2>3. Active(n)' = IF Lookup(table, n) = r THEN Active(n) + k ELSE Active(n)
    BY <1>6, <1>7, <2>2 DEF Active
  <2>4. CASE label[c] = n
    <3>1. Lookup(table, n) = r
      BY <1>4, <1>8, <2>4
    <3>2. Passed(n)' = Passed(n) \cup {c} /\ c \notin Passed(n)
      BY <1>1, <1>4, <1>5, <1>8, <2>4 DEF Passed
    <3>3. PacketsOf(Passed(n) \cup {c}) = k + PacketsOf(Passed(n))
      <4>1. IsFiniteSet(Passed(n)) /\ \A ct \in Passed(n) : pkts[ct] \in Nat
        BY <1>2, <2>2, SomePackets DEF ReportInv, CountInv
      <4>. QED
        BY <1>2, <3>2, <4>1, SumAdd DEF PacketsOf
    <3>4. PacketsOf(Remaining(n)) <= k + SumFunctionOnSet(pkts, Remaining(n)')
          /\ SumFunctionOnSet(pkts, Remaining(n)') \in Nat
      <4>1. Remaining(n)' = Remaining(n) \ {c}
        BY <1>1, <1>4, <1>5, <1>8 DEF Remaining
      <4>2. IsFiniteSet(Remaining(n)) /\ \A ct \in Remaining(n) : pkts[ct] \in Nat
        BY <1>2, <2>2, SomePackets DEF ReportInv, CountInv
      <4>3. PacketsOf(Remaining(n) \ {c}) \in Nat
        <5>1. Remaining(n) \ {c} \in SUBSET Conns
          BY <2>2
        <5>. QED
          BY <5>1, SomePackets DEF ReportInv, CountInv
      <4>4. CASE c \in Remaining(n)
        <5>1. PacketsOf(Remaining(n)) = k + PacketsOf(Remaining(n) \ {c})
          BY <4>2, <4>4, SumTake DEF PacketsOf
        <5>. QED
          BY <1>2, <4>1, <4>3, <5>1 DEF PacketsOf
      <4>5. CASE c \notin Remaining(n)
        <5>1. Remaining(n) \ {c} = Remaining(n)
          BY <4>5
        <5>2. SumFunctionOnSet(pkts, Remaining(n)') = PacketsOf(Remaining(n))
          BY <4>1, <5>1 DEF PacketsOf
        <5>. QED
          BY <1>2, <2>2, <5>2
      <4>. QED
        BY <4>4, <4>5
    <3>5. SumFunctionOnSet(pkts, Passed(n)') = k + PacketsOf(Passed(n))
      BY <3>2, <3>3 DEF PacketsOf
    <3>6. Active(n)' = Active(n) + k
      BY <2>3, <3>1
    <3>. HIDE DEF k, Active, Remaining, Passed, PacketsOf
    <3>. QED
      BY <1>2, <2>1, <2>2, <3>4, <3>5, <3>6
  <2>5. CASE label[c] # n
    <3>1. Lookup(table, n) # r
      <4>1. table.slot[Lookup(table, n)].name = n
        BY <1>2, <1>8, LookupFacts DEF Tables
      <4>2. r # 0
        BY <1>2
      <4>3. table.slot[r].name = label[c]
        BY <1>2, <1>4, <1>8, <4>2, LookupFacts DEF Tables
      <4>. QED
        BY <2>5, <4>1, <4>3
    <3>2. Passed(n)' = Passed(n) /\ Remaining(n)' = Remaining(n)
      BY <1>1, <1>5, <2>5 DEF Passed, Remaining
    <3>. QED
      BY <2>1, <2>3, <3>1, <3>2 DEF PacketsOf
  <2>. QED
    BY <2>4, <2>5
<1>9. ASSUME Quiet', NEW i \in Slots, i <= table'.n, Spare(i)'
      PROVE  table'.slot[i].active = 0
  <2>1. Spare(i) /\ i <= table.n
    BY <1>6, <1>7, <1>9 DEF Spare
  <2>2. i # r
    <3>1. r # 0 /\ r \in 1..table.n /\ table.slot[r].name = label[c] /\ table.n \in Nat
      BY <1>2, <1>4, <1>9, LookupFacts DEF Tables
    <3>2. ~ Spare(r)
      BY <1>4, <1>9, <3>1 DEF Spare
    <3>. QED
      BY <2>1, <3>2
  <2>. QED
    BY <1>4, <1>6, <1>9, <2>1, <2>2 DEF ReportInv, Between
<1>. QED
  BY <1>1, <1>3, <1>7, <1>8, <1>9 DEF Between, PacketsOf

(* The others keep what is counted of them; a protocol whose row goes has    *)
(* none, or one in which nothing is counted yet.                            *)
LEMMA UnloadReport ==
  ASSUME ReportInv, CountInv', RestInv', NEW n \in Names, Unload(n)
  PROVE  Staying' /\ Between'
<1>0. PICK r : r = Leaving(table, n)
  OBVIOUS
<1>1. /\ table.n > 0 /\ table' = RemoveProto(table, n)
      /\ credit' = [m \in Names |-> IF Lookup(table, m) = r THEN 0 ELSE credit[m]]
      /\ hist \subseteq hist'
      /\ at.row >= r => "disturbed" \in hist'
      /\ ~(at.row >= r) => /\ at' = at
                          /\ truth' = [m \in Names |-> IF Lookup(table, m) = r THEN 0 ELSE truth[m]]
      /\ UNCHANGED <<acct, label, pkts, life, row, rpc, visited, must>>
  BY <1>0 DEF Unload, connVars, walkVars
<1>2. Quiet' => Quiet /\ ~(at.row >= r)
  BY <1>1 DEF Quiet
<1>3. Staying'
  BY <1>1, <1>2 DEF ReportInv, Staying
<1>4. /\ table \in Tables /\ table' \in Tables
      /\ r \in 1..table.n /\ table.n \in Nat /\ table.n <= MaxProto /\ MaxProto \in Nat
      /\ table' = DropRow(table, r) /\ table'.n = table.n - 1
  <2>1. table \in Tables /\ table' \in Tables
    BY DEF ReportInv, CountInv, TypeInv
  <2>2. r \in 1..table.n /\ table' = DropRow(table, r)
    BY <1>0, <1>1, <2>1, LeavingFacts DEF Tables
  <2>. QED
    BY <2>1, <2>2, RemovesRow, LookupFacts, MaxProtoAssumption DEF Tables
<1>5. ASSUME Quiet', NEW i \in Slots, i <= table'.n, Spare(i)'
      PROVE  table'.slot[i].active = 0
  <2>1. i \in 1..(table.n - 1) /\ i # Lookup(table', table'.slot[i].name)
    BY <1>4, <1>5 DEF Spare, Slots
  <2>2. PICK o \in 1..table.n : /\ o # Lookup(table, table.slot[o].name)
                               /\ table'.slot[i] = table.slot[o]
    BY <1>4, <2>1, SpareDrop
  <2>3. o \in Slots /\ o <= table.n
    BY <1>4 DEF Slots
  <2>. QED
    BY <1>2, <1>5, <2>2, <2>3 DEF ReportInv, Between, Spare
<1>6. ASSUME Quiet', NEW m \in Names, Lookup(table', m) # 0
      PROVE  /\ truth'[m] <= credit'[m] + Active(m)' + PacketsOf(Remaining(m))'
             /\ Active(m)' <= PacketsOf(Passed(m))'
  <2>1. Passed(m)' = Passed(m) /\ Remaining(m)' = Remaining(m)
    BY <1>1, <1>2, <1>6 DEF Passed, Remaining, Counted
  <2>2. /\ PacketsOf(Passed(m))' = PacketsOf(Passed(m))
        /\ PacketsOf(Remaining(m))' = PacketsOf(Remaining(m))
    BY <1>1, <2>1 DEF PacketsOf
  <2>3. PacketsOf(Passed(m)) \in Nat /\ PacketsOf(Remaining(m)) \in Nat
    BY ReportTypes DEF ReportInv
  <2>4. CASE Lookup(table, m) = r
    <3>1. credit'[m] = 0 /\ truth'[m] = 0
      BY <1>1, <1>2, <1>6, <2>4
    <3>2. PICK j \in Named(table, m) \ {r} : table'.slot[Lookup(table', m)] = table.slot[j]
      BY <1>4, <1>6, <2>4, LookupDrop DEF Tables
    <3>3. j \in Slots /\ j <= table.n /\ table.slot[j].name = m
      BY <1>4, <3>2 DEF Named, Slots
    <3>4. Spare(j)
      BY <2>4, <3>2, <3>3 DEF Spare
    <3>5. table.slot[j].active = 0
      BY <1>2, <1>6, <3>3, <3>4 DEF ReportInv, Between
    <3>6. Active(m)' = 0
      BY <3>2, <3>5 DEF Active
    <3>. HIDE DEF Active, Passed, Remaining, PacketsOf
    <3>. QED
      BY <2>2, <2>3, <3>1, <3>6
  <2>5. CASE Lookup(table, m) # r
    <3>1. Lookup(table, m) # 0
      BY <1>4, <1>6, LookupDrop DEF Tables
    <3>2. table'.slot[Lookup(table', m)] = table.slot[Lookup(table, m)]
      BY <1>4, <2>5, <3>1, LookupDrop DEF Tables
    <3>3. Active(m)' = Active(m) /\ credit'[m] = credit[m] /\ truth'[m] = truth[m]
      BY <1>1, <1>2, <1>6, <2>5, <3>2 DEF Active
    <3>4. /\ truth[m] <= credit[m] + Active(m) + PacketsOf(Remaining(m))
          /\ Active(m) <= PacketsOf(Passed(m))
      BY <1>2, <1>6, <3>1 DEF ReportInv, Between
    <3>. QED
      BY <2>2, <3>3, <3>4
  <2>. QED
    BY <2>4, <2>5
<1>. QED
  BY <1>3, <1>5, <1>6 DEF Between

LEMMA ReportStep ==
  ASSUME ReportInv, CountInv', RestInv', [Next]_vars
  PROVE  Staying' /\ Between'
<1>1. CASE UNCHANGED vars
  BY <1>1 DEF vars, ReportInv, Staying, Between, Quiet, Active, Passed, Remaining, Counted,
            PacketsOf, Spare
<1>2. CASE VisitAbort \/ GoAstray \/ Show
  <2>1. ~ Quiet'
    <3>1. CASE VisitAbort \/ Show
      BY <3>1 DEF VisitAbort, Show, Note, Quiet
    <3>2. CASE GoAstray
      BY <3>2 DEF GoAstray, Quiet, ReportInv, Wandering
    <3>. QED
      BY <1>2, <3>1, <3>2
  <2>. QED
    BY <2>1 DEF Staying, Between
<1>3. CASE WalkEnd
  <2>1. /\ rpc = "walk" /\ rpc' = "print"
        /\ must \subseteq visited
        /\ UNCHANGED <<table, acct, label, pkts, life, visited, must, at, hist, truth, credit>>
    BY <1>3 DEF WalkEnd, connVars, walkVars
  <2>2. Quiet' => Quiet
    BY <2>1 DEF Quiet
  <2>3. Staying'
    BY <2>1, <2>2 DEF Staying, ReportInv
  <2>4. Counted' = Counted
    BY <2>1 DEF Counted
  <2>5. Between'
    BY <2>1, <2>2, <2>4 DEF ReportInv, Between, Active, Passed, Remaining, PacketsOf, Spare
  <2>. QED
    BY <2>3, <2>5
<1>4. ASSUME NEW n \in Names, Load(n)
      PROVE  Staying' /\ Between'
  <2>1. ~ Quiet'
    BY <1>4 DEF Load, Note, Disturbed, Quiet
  <2>. QED
    BY <2>1 DEF Staying, Between
<1>. QED
  BY <1>1, <1>2, <1>3, <1>4, ConnectionReport, BeginReport, VisitReport, LookReport,
     VisitAddReport, UnloadReport DEF Next, CountTotal

LEMMA WanderingStep ==
  ASSUME Wandering, [Next]_vars
  PROVE  Wandering'
<1>1. CASE UNCHANGED vars
  BY <1>1 DEF vars, Wandering
<1>2. ASSUME NEW ct \in Conns, Connection(ct)
      PROVE  Wandering'
  <2>1. CASE Leave(ct) \/ Reuse(ct)
    BY <2>1 DEF Wandering, Leave, Reuse, Note, Disturbed
  <2>2. CASE ~(Leave(ct) \/ Reuse(ct))
    <3>1. hist' = hist
      BY <1>2, <2>2 DEF Connection, Packet, Identify, Confirm, DestroyLookup, DestroyAdd,
                        DestroyNoAcct
    <3>. QED
      BY <3>1 DEF Wandering
  <2>. QED
    BY <2>1, <2>2
<1>3. CASE CountTotal
  <2>1. CASE GoAstray
    BY <2>1 DEF GoAstray, Wandering
  <2>2. CASE Show
    BY <2>2 DEF Show, Wandering
  <2>3. CASE ~(GoAstray \/ Show)
    <3>1. \/ hist' = hist
          \/ \E events \in SUBSET {"disturbed"} : hist' = hist \cup events
      BY <1>3, <2>3 DEF CountTotal, Begin, Visit, Look, VisitAdd, VisitAbort, WalkEnd, Note
    <3>. QED
      BY <3>1 DEF Wandering
  <2>. QED
    BY <2>1, <2>2, <2>3
<1>4. ASSUME NEW n \in Names, Load(n) \/ Unload(n)
      PROVE  Wandering'
  BY <1>4 DEF Wandering, Load, Unload, Note, Disturbed
<1>. QED
  BY <1>1, <1>2, <1>3, <1>4 DEF Next

LEMMA ReportInvariance == Spec => []ReportInv
<1>1. Init => ReportInv
  <2>1. ASSUME Init
        PROVE  CountInv /\ Staying /\ Between /\ Wandering
    BY <2>1, InitInv DEF Init, Staying, Between, Wandering, Quiet
  <2>2. ASSUME Init
        PROVE  RestInv
    <3>1. 1 \in 1..MaxPkts
      BY CountersAssumption
    <3>. QED
      BY <2>2, <3>1 DEF Init, RestInv, NoReport
  <2>. QED
    BY <2>1, <2>2 DEF ReportInv
<1>2. ReportInv /\ [Next]_vars => ReportInv'
  BY StepInv, RestStep, ReportStep, WanderingStep DEF ReportInv
<1>. QED
  BY <1>1, <1>2, PTL DEF Spec

-----------------------------------------------------------------------------
(* The theorems *)

(* Everything has its type; in particular no connection is credited with a  *)
(* row that count_strcmp() did not find, and no sum runs away.             *)
THEOREM TypeCorrect == Spec => []TypeOK
<1>1. ASSUME CountInv, RestInv
      PROVE  TypeOK
  <2>1. table.slot \in [Slots -> Rows] /\ table.n \in 0..MaxProto
    BY <1>1 DEF CountInv, TypeInv, Tables, TablesOf, Rows
  <2>2. /\ label \in [Conns -> Names \cup {NoProto, Uninit}] /\ acct \subseteq Conns
        /\ life \in [Conns -> Lives] /\ row \in [Conns -> 0..MaxProto]
        /\ rpc \in {"idle", "walk", "look", "add", "print"}
        /\ at \in [ct : Conns \cup {NoProto}, row : 0..MaxProto, races : SUBSET Races]
        /\ \A ct \in Conns : life[ct] = "destroy" => row[ct] # 0
        /\ rpc \in {"look", "add"} => at.ct \in Conns
        /\ rpc = "add" => at.row # 0
        /\ credit \in [Names -> Nat]
    BY <1>1 DEF CountInv, TypeInv, Stands
  <2>3. /\ pkts \in [Conns -> 1..MaxPkts] /\ visited \subseteq Conns /\ must \subseteq Conns
        /\ hist \subseteq Events /\ truth \in [Names -> Nat]
        /\ loaded \subseteq Names /\ loads \in Nat /\ reuses \in Nat
    BY <1>1 DEF RestInv
  <2>. QED
    BY <2>1, <2>2, <2>3 DEF TypeOK
<1>. QED
  BY <1>1, ReportInvariance, PTL DEF ReportInv

(* What a report prints was there between its flush and its last line: it   *)
(* misses no packet there was before, and invents none, unless a connection *)
(* was leaving or its memory was used again, a row came or went under it, or *)
(* a label was read half written (count_total(), which holds no lock from    *)
(* one connection to the next).  What was counted in a row goes with it.     *)
THEOREM ReportsAreRight == Spec => ReportSandwich
<1> DEFINE Right == Show /\ hist = {} =>
                      \A n \in Names : Lookup(table, n) # 0 =>
                        truth[n] <= Printed(n) /\ Printed(n) <= TruthOf(n)
<1>1. ASSUME ReportInv, Show, hist = {}, NEW n \in Names, Lookup(table, n) # 0
      PROVE  truth[n] <= Printed(n) /\ Printed(n) <= TruthOf(n)
  <2> DEFINE l == Lookup(table, n)
             There == {ct \in Labelled(n) : life[ct] \in {"hashed", "dying", "destroy"}}
  <2>1. /\ Quiet /\ rpc = "print" /\ must \subseteq visited /\ Counted = visited
        /\ \A ct \in visited : life[ct] = "hashed"
    BY <1>1 DEF Show, Quiet, ReportInv, Staying, Counted
  <2>2. /\ truth[n] \in Nat /\ credit[n] \in Nat /\ Active(n) \in Nat /\ l \in Slots
        /\ Passed(n) \in SUBSET Conns /\ PacketsOf(Passed(n)) \in Nat
    BY <1>1, ReportTypes DEF ReportInv
  <2>3. PacketsOf(Remaining(n)) = 0
    <3>1. Remaining(n) = {}
      BY <2>1 DEF Remaining
    <3>. QED
      BY <3>1, SumEmpty DEF PacketsOf
  <2>4. truth[n] <= credit[n] + Active(n) + PacketsOf(Remaining(n))
        /\ Active(n) <= PacketsOf(Passed(n))
    BY <1>1, <2>1 DEF ReportInv, Between
  <2>5. Printed(n) = Active(n) + credit[n]
    <3>1. table \in Tables /\ Found /\ Exact /\ Clear
      BY <1>1 DEF ReportInv, CountInv, TypeInv
    <3>2. /\ l \in Named(table, n) /\ IsFiniteSet(Named(table, n))
          /\ \A i \in Named(table, n) : i \in Slots /\ i <= table.n /\ table.slot[i].name = n
      BY <1>1, <3>1, LookupFacts, NamedFacts, MaxProtoAssumption DEF Tables, Named, Slots
    <3>3. table.slot[l].inactive = credit[n]
      BY <1>1, <3>1 DEF Exact
    <3>4. Total(table, l) = Active(n) + credit[n]
      BY <3>3 DEF Total, Active
    <3>5. ASSUME NEW i \in Named(table, n) \ {l}
          PROVE  Total(table, i) = 0
      <4>1. i \in Slots /\ i <= table.n /\ Spare(i)
        BY <3>2 DEF Spare
      <4>2. table.slot[i].active = 0 /\ table.slot[i].inactive = 0
        BY <1>1, <2>1, <3>1, <4>1 DEF Clear, ReportInv, Between
      <4>. QED
        BY <4>2 DEF Total
    <3> DEFINE f == [i \in Slots |-> Total(table, i)]
    <3>. HIDE DEF l
    <3>6. f[l] = Active(n) + credit[n] /\ \A i \in Named(table, n) \ {l} : f[i] = 0
      BY <2>2, <3>2, <3>4, <3>5
    <3>. HIDE DEF f, Active
    <3>7. \A i \in Named(table, n) : f[i] \in Nat
      BY <2>2, <3>6
    <3>8. SumFunctionOnSet(f, Named(table, n)) = f[l] + SumFunctionOnSet(f, Named(table, n) \ {l})
      BY <3>2, <3>7, SumTake
    <3>9. SumFunctionOnSet(f, Named(table, n) \ {l}) = 0
      <4>1. IsFiniteSet(Named(table, n) \ {l})
        BY <3>2, FS_RemoveElement
      <4>. QED
        BY <3>6, <4>1, SumZero
    <3>. QED
      BY <2>2, <3>6, <3>8, <3>9 DEF Printed, f
  <2>6. PacketsOf(Passed(n)) <= PacketsOf(There) /\ PacketsOf(There) \in Nat
    <3>1. There \in SUBSET Conns /\ Passed(n) \in SUBSET There
      BY <1>1, <2>1 DEF Labelled, Passed, ReportInv, CountInv, TypeInv
    <3>2. IsFiniteSet(There) /\ PacketsOf(There) \in Nat /\ \A ct \in There : pkts[ct] \in Nat
      BY <1>1, <3>1, SomePackets DEF ReportInv, CountInv, TypeInv
    <3>. HIDE DEF There
    <3>. QED
      BY <3>1, <3>2, SumSubset DEF PacketsOf
  <2>7. TruthOf(n) = credit[n] + PacketsOf(There)
    BY DEF TruthOf
  <2>. HIDE DEF There, Active, Passed, Remaining, PacketsOf, Printed, TruthOf
  <2>. QED
    BY <2>2, <2>3, <2>4, <2>5, <2>6, <2>7
<1>2. ReportInv /\ [Next]_vars => [Right]_vars
  BY <1>1
<1>. QED
  BY <1>2, ReportInvariance, PTL DEF Spec, ReportSandwich

(* Every destroyed connection is credited once, to its own row, however     *)
(* many CPUs destroy, label and report: as long as no row is removed under *)
(* the jprobe (count_inactive(), which uses its row without count_lock).   *)
THEOREM InactiveIsExact == Spec => []InactiveExact
<1>1. CountInv => InactiveExact
  BY DEF CountInv, Exact, InactiveExact
<1>. QED
  BY <1>1, Invariance, PTL

(* A row used after count_lock is dropped gets packets of its own protocol   *)
(* unless a row was removed meanwhile, the label had been read half written, *)
(* or the memory of the connection was given to another meanwhile.          *)
THEOREM OthersDoNotMisplace == Spec => OnlyRacesMisplace
<1> DEFINE Right == /\ \A ct \in Conns :
                         DestroyAdd(ct) /\ "misplaced" \notin hist =>
                           table.slot[row[ct]].name = label[ct]
                    /\ VisitAdd /\ at.races = {} =>
                         table.slot[at.row].name = label[at.ct]
<1>1. CountInv /\ [Next]_vars => [Right]_vars
  <2>1. ASSUME CountInv, NEW ct \in Conns, DestroyAdd(ct), "misplaced" \notin hist
        PROVE  table.slot[row[ct]].name = label[ct]
    <3>1. row[ct] = Lookup(table, label[ct]) /\ row[ct] # 0 /\ table \in Tables
      BY <2>1 DEF CountInv, TypeInv, Found, DestroyAdd
    <3>. QED
      BY <3>1, LookupFacts DEF Tables
  <2>2. ASSUME CountInv, VisitAdd, at.races = {}
        PROVE  table.slot[at.row].name = label[at.ct]
    <3>1. at.row = Lookup(table, label[at.ct]) /\ at.row # 0 /\ table \in Tables
      BY <2>2 DEF CountInv, TypeInv, Standing, VisitAdd
    <3>. QED
      BY <3>1, LookupFacts DEF Tables
  <2>. QED
    BY <2>1, <2>2
<1>. QED
  BY <1>1, Invariance, PTL DEF Spec, OnlyRacesMisplace
=============================================================================
