--------------------------------- MODULE QQ ---------------------------------
(***************************************************************************)
(* qq_handler() of src/proto/qq.c: it looks for the head of a message among *)
(* the first three bytes of a payload and takes the sender's number from   *)
(* a place that depends on the head's place and on the version.  It reads  *)
(* before it compares with data_len: what is behind a short payload in      *)
(* memory may look like anything.                                          *)
(***************************************************************************)
EXTENDS Integers

CONSTANT
  MaxLen     \* bound: data_len

ASSUME QQAssumption == MaxLen \in Nat

VARIABLES
  handling,  \* where qq_handler() is
  dataLen,   \* data_len
  head,      \* index of the head
  number,    \* index of the number's first byte, or 0
  reads      \* history: how many bytes from the start have been read into

handlerVars == <<handling, dataLen, head, number, reads>>

HandlerIdle == handling = "off" /\ dataLen = 1 /\ head = 0 /\ number = 0 /\ reads = 0

HandlerInit ==
  /\ handling = "header"
  /\ dataLen \in 1..MaxLen
  /\ head = 0
  /\ number = 0
  /\ reads = 0

(* the bytes up to index i have been read *)
Read(i) == reads' = IF i >= reads THEN i + 1 ELSE reads

(* qq_header(): this byte is 0x02, or the next one may be, up to the third *)
Header ==
  /\ handling = "header"
  /\ Read(head)
  /\ \/ handling' = "version" /\ UNCHANGED head
     \/ head < 2 /\ head' = head + 1 /\ UNCHANGED handling
     \/ head = 2 /\ handling' = "refused" /\ UNCHANGED head
  /\ UNCHANGED <<dataLen, number>>

(* fault: the last byte's index for a length *)
NeedsLess(offset) == head + offset + 3

(* the length a payload must have for the number to be at head + offset *)
Needs(offset) == IF offset = 6 THEN 11 + head ELSE 12 + head

(* Version 0300 has its number one byte before the others.  Its second byte *)
(* is read only if the first one is 03.                                    *)
Version ==
  /\ handling = "version"
  /\ \/ Read(head + 1) /\ number' = head + 7
     \/ Read(head + 2) /\ number' \in {head + 6, head + 7}
  /\ handling' = IF dataLen < Needs(number' - head) THEN "refused" ELSE "number"
  /\ UNCHANGED <<dataLen, head>>

(* memcpy() of four bytes; the number is more than 10000 or not *)
Number ==
  /\ handling = "number"
  /\ Read(number + 3)
  /\ handling' \in {"refused", "accepted"}
  /\ UNCHANGED <<dataLen, head, number>>

(* the version's two bytes are printed *)
Show ==
  /\ handling = "accepted"
  /\ Read(head + 2)
  /\ handling' = "shown"
  /\ UNCHANGED <<dataLen, head, number>>

HandlerNext == Header \/ Version \/ Number \/ Show

HandlerSpec == HandlerInit /\ [][HandlerNext]_handlerVars

-----------------------------------------------------------------------------
(* Properties *)

(* The verdict on a payload is made from its own bytes: qq_handler() reads  *)
(* past the end of a short one, but then refuses it whatever it has read.   *)
VerdictFromPayload ==
  handling \in {"accepted", "shown"} => reads <= dataLen
=============================================================================
