----------------------------- MODULE CountTable -----------------------------
(***************************************************************************)
(* The counter table of src/mod/count.c: the arrays active[] and           *)
(* inactive[] with count_index.  The two arrays are always written         *)
(* together, so slot i holds the name, the active and the inactive count   *)
(* of one protocol.  A table is a record [slot, n] with n = count_index;   *)
(* slots above n are not in use, but a caller that looked a row up earlier *)
(* can still write to them.                                                *)
(***************************************************************************)
EXTENDS Integers, FiniteSets, FiniteSetsExt

CONSTANTS
  MaxProto,   \* MAX_PROTO
  NoName      \* the empty string of a zeroed row

ASSUME MaxProtoAssumption == MaxProto \in Nat \ {0}

Slots == 1..MaxProto

(* what memset(.., 0, ..) makes of a row *)
ZeroRow == [name |-> NoName, active |-> 0, inactive |-> 0]

EmptyTable == [slot |-> [i \in Slots |-> ZeroRow], n |-> 0]

(* a table with one row for each of these names, in some order *)
TableOf(names) ==
  LET k == Cardinality(names)
      f == CHOOSE f \in [1..k -> names] : {f[i] : i \in 1..k} = names
  IN [slot |-> [i \in Slots |-> [ZeroRow EXCEPT !.name = IF i <= k THEN f[i] ELSE NoName]],
      n |-> k]

(* the rows in use that hold a name, in the eyes of strcmp *)
Named(t, name) == {i \in 1..t.n : t.slot[i].name = name}

(* count_strcmp(): the first such row, or 0 for NULL *)
Lookup(t, name) ==
  IF Named(t, name) = {} THEN 0 ELSE Min(Named(t, name))

(* count_add_proto(): a full table refuses; a known name gets another row, *)
(* and whatever counts the slot holds stay in it                           *)
Full(t) == t.n >= MaxProto

AddProto(t, name) ==
  IF Full(t)
    THEN t
    ELSE [slot |-> [t.slot EXCEPT ![t.n + 1].name = name], n |-> t.n + 1]

(* fault: the last row is left as it is *)
DropRowUncleared(t, r) ==
  [slot |-> [i \in Slots |->
               IF r > 0 /\ i >= r /\ i < t.n THEN t.slot[i + 1] ELSE t.slot[i]],
   n |-> t.n - 1]

(* row r goes and the rows above it move down by one; the last row in use  *)
(* is zeroed even if r is no row (0)                                       *)
DropRow(t, r) ==
  [slot |-> [i \in Slots |->
               IF i = t.n THEN ZeroRow
               ELSE IF r > 0 /\ i >= r /\ i < t.n THEN t.slot[i + 1]
               ELSE t.slot[i]],
   n |-> t.n - 1]

(* fault: the rows above the match are not moved down *)
RemoveLast(t, name) == DropRow(t, 0)

(* the row that goes when a name is removed: the last one if it has none *)
Leaving(t, name) == IF Lookup(t, name) = 0 THEN t.n ELSE Lookup(t, name)

(* count_remove_proto(): whether the name was found or not, a row goes *)
RemoveProto(t, name) == DropRow(t, Lookup(t, name))

(* count_add() on a row found earlier *)
AddActive(t, i, k) == [t EXCEPT !.slot[i].active = @ + k]

AddInactive(t, i, k) == [t EXCEPT !.slot[i].inactive = @ + k]

(* fault: the last row is not flushed *)
FlushShort(t) ==
  [t EXCEPT !.slot = [i \in Slots |->
     IF i < t.n THEN [t.slot[i] EXCEPT !.active = 0] ELSE t.slot[i]]]

(* flush_counter(active) *)
Flush(t) ==
  [t EXCEPT !.slot = [i \in Slots |->
     IF i <= t.n THEN [t.slot[i] EXCEPT !.active = 0] ELSE t.slot[i]]]

(* what count_total() prints for row i *)
Total(t, i) == t.slot[i].active + t.slot[i].inactive
=============================================================================
