------------------------------- MODULE Report -------------------------------
(***************************************************************************)
(* The text of a report: count_total() of src/mod/count.c appends one line  *)
(* per row to a buffer of fixed length.  It measures the room that is left *)
(* with the length of the first line, after each line.  A line is its      *)
(* length.                                                                 *)
(***************************************************************************)
EXTENDS Integers

CONSTANTS
  BufLen,    \* MAX_PAYLOAD
  MaxRows,   \* bound: rows of the table
  LineLens   \* lengths a line may have

ASSUME ReportAssumption ==
  /\ BufLen \in Nat \ {0}
  /\ MaxRows \in Nat \ {0}
  /\ LineLens \subseteq 1..(BufLen - 1)

(* rows: lines printed; used: strlen(buf); per: per_len; last: the last one *)
Texts == [rows : 0..MaxRows, used : 0..(2 * BufLen), per : Nat, last : Nat]

(* memset(buf, 0, buf_len) *)
Blank == [rows |-> 0, used |-> 0, per |-> 0, last |-> 0]

(* sprintf(buf, "%s...", buf, ...) *)
PutLine(t, len) ==
  [rows |-> t.rows + 1, used |-> t.used + len,
   per |-> IF t.rows = 0 THEN len ELSE t.per, last |-> len]

(* the line or the NUL behind it went past the end of buf *)
Overrun(t) == t.used >= BufLen

(* fault: no room is kept for the NUL *)
CrampedLate(t) == BufLen - t.used < t.per

(* another line like the first one does not fit *)
Cramped(t) == BufLen - t.used < t.per + 1
=============================================================================
