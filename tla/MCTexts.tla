------------------------------ MODULE MCTexts ------------------------------
(***************************************************************************)
(* Instances of modules Kstrtox, PreProcess and QQ, which read text or a   *)
(* payload byte by byte.  Each behaviour is one call of one of them.       *)
(***************************************************************************)
EXTENDS Kstrtox, PreProcess, QQ

(* all texts of up to four of the characters + 0 1 9 f x \n *)
ShortTexts == UNION {[1..n -> {43, 48, 49, 57, 102, 120, 10}] : n \in 0..4}

(* every byte; and any three of the bytes escapes are made of, a letter and *)
(* one above ASCII                                                         *)
ShortMeanings ==
  {<<b>> : b \in 0..255} \cup [1..3 -> {0, 52, 65, 92, 120, 192, 233}]

Init ==
  \/ NumberInit /\ PatternIdle /\ HandlerIdle
  \/ NumberIdle /\ PatternInit /\ HandlerIdle
  \/ NumberIdle /\ PatternIdle /\ HandlerInit

Next ==
  \/ NumberNext /\ UNCHANGED <<patternVars, handlerVars>>
  \/ PatternNext /\ UNCHANGED <<numberVars, handlerVars>>
  \/ HandlerNext /\ UNCHANGED <<numberVars, patternVars>>

Spec == Init /\ [][Next]_<<numberVars, patternVars, handlerVars>>
=============================================================================
