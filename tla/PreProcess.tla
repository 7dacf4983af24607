----------------------------- MODULE PreProcess -----------------------------
(***************************************************************************)
(* The two sides of a match in src/mod/aproto.c: pre_process() turns a      *)
(* pattern with \xHH escapes into the bytes they stand for, in lower case,  *)
(* and warns of those that regcomp() will not take as bytes; aproto_find()  *)
(* puts a payload into lower case.  Bytes are 0..255.                       *)
(***************************************************************************)
EXTENDS Integers, SequencesExt

CONSTANT
  Meanings   \* sequences of bytes a pattern may be meant to match

ASSUME MeaningsAssumption == Meanings \subseteq Seq(0..255)

VARIABLES
  meant,    \* the bytes the author of the pattern has in mind
  escapes,  \* which of them are written as escapes
  str,      \* the pattern, those bytes in writing
  sindex,   \* bytes of the pattern read
  result,   \* the result of pre_process()
  warned    \* it has warned of an escape

patternVars == <<meant, escapes, str, sindex, result, warned>>

-----------------------------------------------------------------------------
(* Patterns.  A byte is written as it is or as an escape in small or        *)
(* capital digits.                                                         *)

Styles == {"plain", "small", "capital"}

HexDigit(d, style) ==
  IF d < 10 THEN 48 + d ELSE d - 10 + (IF style = "small" THEN 97 ELSE 65)

Write(b, style) ==
  IF style = "plain"
    THEN <<b>>
    ELSE <<92, 120, HexDigit(b \div 16, style), HexDigit(b % 16, style)>>

(* a backslash before an x is an escape itself, and a NUL ends the text *)
Writable(bytes, style) ==
  \A i \in DOMAIN bytes : style[i] = "plain" =>
    /\ bytes[i] # 0
    /\ bytes[i] = 92 /\ i < Len(bytes) => bytes[i + 1] # 120

PatternIdle ==
  /\ meant = <<>> /\ escapes = {} /\ str = <<>>
  /\ sindex = 0 /\ result = <<>> /\ warned = FALSE

PatternInit ==
  /\ meant \in Meanings
  /\ \E style \in [DOMAIN meant -> Styles] :
       /\ Writable(meant, style)
       /\ str = FlattenSeq([i \in DOMAIN meant |-> Write(meant[i], style[i])])
       /\ escapes = {i \in DOMAIN meant : style[i] # "plain"}
  /\ sindex = 0
  /\ result = <<>>
  /\ warned = FALSE

-----------------------------------------------------------------------------
(* isupper(), and tolower() of the kernel, which know ISO 8859-1 *)
LatinUpper(b) == b \in 192..222 \ {215}

ToLower(b) == IF b \in 65..90 \/ LatinUpper(b) THEN b + 32 ELSE b

(* hex2dec(); -1 is not isxdigit() *)
Hex(b) ==
  CASE b \in 48..57  -> b - 48
    [] b \in 97..102 -> b - 97 + 10
    [] b \in 65..70  -> b - 65 + 10
    [] OTHER         -> -1

(* fault: an escape at the end of the text is missed *)
AtEscapeShort(t, i) ==
  /\ i + 4 < Len(t)
  /\ t[i + 1] = 92 /\ t[i + 2] = 120
  /\ Hex(t[i + 3]) # -1 /\ Hex(t[i + 4]) # -1

(* sindex + 3 < strlen(s), and an escape is there *)
AtEscape(t, i) ==
  /\ i + 3 < Len(t)
  /\ t[i + 1] = 92 /\ t[i + 2] = 120
  /\ Hex(t[i + 3]) # -1 /\ Hex(t[i + 4]) # -1

(* the switch over the byte: $ ( ) * + . ? [ \ ] ^ | and NUL *)
Warned == {36, 40, 41, 42, 43, 46, 63, 91, 92, 93, 94, 124} \cup {0}

Escape ==
  /\ AtEscape(str, sindex)
  /\ LET byte == ToLower(16 * Hex(str[sindex + 3]) + Hex(str[sindex + 4]))
     IN /\ result' = Append(result, byte)
        /\ warned' = (warned \/ byte \in Warned)
  /\ sindex' = sindex + 4
  /\ UNCHANGED <<meant, escapes, str>>

Plain ==
  /\ sindex < Len(str)
  /\ ~AtEscape(str, sindex)
  /\ result' = Append(result, ToLower(str[sindex + 1]))
  /\ sindex' = sindex + 1
  /\ UNCHANGED <<meant, escapes, str, warned>>

PatternNext == Escape \/ Plain

PatternSpec == PatternInit /\ [][PatternNext]_patternVars

(* regcomp() gets the result as a text, up to its first NUL *)
Compiled ==
  LET nul == {i \in DOMAIN result : result[i] = 0}
  IN IF nul = {} THEN result ELSE SubSeq(result, 1, Min(nul) - 1)

(* aproto_find(): NULs are left out, ASCII is put into lower case *)
Normal(bytes) ==
  LET nnpayload[i \in 0..Len(bytes)] ==
        IF i = 0 THEN <<>>
        ELSE IF bytes[i] = 0 THEN nnpayload[i - 1]
        ELSE Append(nnpayload[i - 1], IF bytes[i] < 128 THEN ToLower(bytes[i]) ELSE bytes[i])
  IN nnpayload[Len(bytes)]

-----------------------------------------------------------------------------
(* Properties *)

(* META of regexp.c:169: what regcomp() takes as operators, $ ( * + . ? [ \  *)
(* ^ ) and |                                                                *)
Meta == {36, 40, 41, 42, 43, 46, 63, 91, 92, 94, 124}

(* pre_process() "takes a string with \xHH escapes and returns one with the *)
(* characters they stand for" (aproto.c:83).  A pattern it has not warned   *)
(* of reaches regcomp() as the bytes it was written for, whichever of them  *)
(* are escapes, in the form in which aproto_find() delivers a payload, if   *)
(* none is a capital letter above ASCII (those become small in the pattern  *)
(* but stay as they are in the payload); and no byte written as an escape   *)
(* is an operator there.  Of a pattern with such an escape, \x2e for a dot, *)
(* it has warned: what was meant as a byte is an operator, or the end.      *)
PatternSays ==
  sindex = Len(str) /\ ~warned =>
    /\ (\A i \in DOMAIN meant : ~LatinUpper(meant[i])) => Compiled = Normal(meant)
    /\ \A i \in escapes : meant[i] \notin Meta
=============================================================================
