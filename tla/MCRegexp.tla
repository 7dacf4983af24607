------------------------------ MODULE MCRegexp ------------------------------
(***************************************************************************)
(* Instances of module Regexp: every sequence of up to four tokens, some   *)
(* longer patterns, with groups under multipliers, classes and an escaped  *)
(* character; and every text of up to three letters.                       *)
(***************************************************************************)
EXTENDS Regexp, TLC

Letters == {"a", "b"}

Classes == "[a]" :> [neg |-> FALSE, set |-> {"a"}] @@ "[^a]" :> [neg |-> TRUE, set |-> {"a"}]

Escapes == "\\b" :> "b"

(* its code has one byte more than the longest one that is accepted *)
TooLong == <<"(", "a", "|", "(", "b", ")", ")", "+", "a", "b">>

Longer == {
  <<"(", "a", "b", ")", "*", "a">>,
  <<"(", "a", "|", "b", ")", "*", "b">>,
  <<"(", "a", "b", ")", "+", "$">>,
  <<"a", "(", "b", "|", ")", "a", "?">>,
  <<"(", "a", "|", "(", "b", ")", ")", "+", "a">>,
  <<"(", "(", "(", "a", ")", ")", ")">>,
  <<"[a]", "*", "\\b", "[^a]", "+">>,
  <<"a", "*", "a", "b", "a", "b", "*">>,
  <<"(", "a", "?", "b", ")", "*", "a">>,
  <<"(", "a", "*", "b", "|", "b", "a", ")", "+">>,
  TooLong}

Short == UNION {[1..n -> Letters \cup Meta] : n \in 0..4}

(* the letters can be exchanged: the first one in a pattern may as well be a *)
SmallPatterns ==
  Longer \cup {p \in Short : \A i \in 1..Len(p) : p[i] = "b" => \E j \in 1..i : p[j] = "a"}

SmallTexts == UNION {[1..n -> Letters] : n \in 0..3}
=============================================================================
