------------------------------- MODULE Kstrtox -------------------------------
(***************************************************************************)
(* Reading a number: kstrtou16() of src/include/appflid/mod/kstrtox.h,     *)
(* which src/mod/wellkn_port.c uses for the ports of its file where the     *)
(* kernel has none.  Unsigned arithmetic wraps; an overflow is looked for   *)
(* only when the upper four bits of the number are in use.  A text is the   *)
(* sequence of its bytes before the NUL.                                    *)
(***************************************************************************)
EXTENDS Integers, Sequences

CONSTANTS
  NumberTexts,  \* texts that are read
  Bases,        \* bases they are read in, 0 for the one the text tells
  Wide,         \* 2^64, one more than ULLONG_MAX
  Narrow        \* 2^16, one more than the largest u16

ASSUME KstrtoxAssumption ==
  /\ NumberTexts \subseteq Seq(0..255)
  /\ Bases \subseteq {0, 8, 10, 16}
  /\ Wide \in Nat /\ Wide % 16 = 0
  /\ Narrow \in 1..Wide

VARIABLES
  doing,     \* where kstrtou16() is
  s,         \* what is left of the text
  base,
  res,
  rv,        \* digits read
  overflow,
  outcome,  \* what kstrtou16() returns
  value      \* history: the number the digits read so far stand for

numberVars == <<doing, s, base, res, rv, overflow, outcome, value>>

NumberIdle ==
  /\ doing = "off"
  /\ s = <<>> /\ base = 10
  /\ res = 0 /\ rv = 0 /\ overflow = FALSE
  /\ outcome = "none"
  /\ value = 0

NumberInit ==
  /\ doing = "start"
  /\ s \in NumberTexts
  /\ base \in Bases
  /\ res = 0 /\ rv = 0 /\ overflow = FALSE
  /\ outcome = "none"
  /\ value = 0

-----------------------------------------------------------------------------
(* _tolower(): c | 0x20 *)
Lower(ch) == IF (ch \div 32) % 2 = 0 THEN ch + 32 ELSE ch

IsXDigit(ch) == ch \in 48..57 \cup 65..70 \cup 97..102

(* the digit ch stands for; what is less than '0' is a huge unsigned number *)
Val(ch) ==
  CASE ch \in 48..57         -> ch - 48
    [] Lower(ch) \in 97..102 -> Lower(ch) - 97 + 10
    [] OTHER                 -> 16

(* "0x" *)
HexPrefix(t) == Len(t) >= 2 /\ t[1] = 48 /\ Lower(t[2]) = 120

Radix(t, b) ==
  CASE b # 0                                             -> b
    [] t = <<>> \/ (t # <<>> /\ t[1] # 48)               -> 10
    [] HexPrefix(t) /\ Len(t) >= 3 /\ IsXDigit(t[3])     -> 16
    [] OTHER                                             -> 8

(* kstrtoull() skips a '+', _parse_integer_fixup_radix() the prefix *)
Begin ==
  LET t == IF s # <<>> /\ s[1] = 43 THEN Tail(s) ELSE s
  IN /\ doing = "start"
     /\ doing' = "digits"
     /\ base' = Radix(t, base)
     /\ s' = IF base' = 16 /\ HexPrefix(t) THEN SubSeq(t, 3, Len(t)) ELSE t
     /\ UNCHANGED <<res, rv, overflow, outcome, value>>

(* fault: the bound is not the largest number *)
WrapsLate(val) == res >= Wide \div 16 /\ res > Wide \div base

(* res * base + val would not fit *)
Wraps(val) == res >= Wide \div 16 /\ res > (Wide - 1 - val) \div base

AtDigit == s # <<>> /\ Val(s[1]) < base

(* _parse_integer(): one round of the loop *)
Digit ==
  /\ doing = "digits"
  /\ AtDigit
  /\ LET val == Val(s[1])
     IN /\ overflow' = (overflow \/ Wraps(val))
        /\ res' = (res * base + val) % Wide
        /\ value' = value * base + val
  /\ rv' = rv + 1
  /\ s' = Tail(s)
  /\ UNCHANGED <<doing, base, outcome>>

(* the digits are over: one newline may follow *)
Ended == s = <<>> \/ s = <<10>>

(* _kstrtoull() after the loop, and the range check of kstrtou16() *)
Finish ==
  /\ doing = "digits"
  /\ ~AtDigit
  /\ doing' = "done"
  /\ outcome' = CASE overflow               -> "ERANGE"
                  [] ~overflow /\ (rv = 0 \/ ~Ended) -> "EINVAL"
                  [] OTHER                  -> IF res < Narrow THEN "ok" ELSE "ERANGE"
  /\ UNCHANGED <<s, base, res, rv, overflow, value>>

NumberNext == Begin \/ Digit \/ Finish

NumberSpec == NumberInit /\ [][NumberNext]_numberVars

-----------------------------------------------------------------------------
(* Properties *)

(* kstrtou16() takes exactly the texts of at least one digit, with nothing  *)
(* but a newline behind it, whose number is a u16, and its result is that   *)
(* number: what wraps around, even several times, is never taken.           *)
NumberExact ==
  doing = "done" =>
    /\ (outcome = "ok") <=> (rv > 0 /\ Ended /\ value < Narrow)
    /\ outcome = "ok" => res = value
    /\ outcome = "ERANGE" => value >= Narrow
=============================================================================
