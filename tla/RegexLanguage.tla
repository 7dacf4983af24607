--------------------------- MODULE RegexLanguage ---------------------------
(***************************************************************************)
(* What a pattern means: which sequences of tokens are patterns at all, and *)
(* which pieces of a text they match.  This is the abstract side of module *)
(* Regexp; nothing here knows how regcomp() compiles a pattern or how       *)
(* regexec() searches.                                                     *)
(***************************************************************************)
EXTENDS Integers, SequencesExt

CONSTANTS
  Alphabet,  \* the characters of a text
  Class,     \* Class[t]: for a token t that stands for a class in brackets,
             \*   its characters (set) and whether it is negated (neg)
  Escape,    \* Escape[t]: the character that token t, a backslash with the
             \*   character behind it, stands for
  NSUBEXP    \* one more than the number of () a pattern may have

Mults == {"*", "+", "?"}

Anchors == {"^", "$"}

Meta == {".", "(", ")", "|"} \cup Anchors \cup Mults

Tokens == Alphabet \cup Meta \cup DOMAIN Escape \cup DOMAIN Class

(* the characters a token for a single character stands for *)
Meaning(tok) ==
  CASE tok = "."            -> Alphabet
    [] tok \in DOMAIN Escape -> {Escape[tok]}
    [] tok \in DOMAIN Class  -> IF Class[tok].neg THEN Alphabet \ Class[tok].set
                                                 ELSE Class[tok].set
    [] OTHER                 -> {tok}

-----------------------------------------------------------------------------
(* Taking a pattern apart *)

Count(p, tok) == Cardinality({i \in 1..Len(p) : p[i] = tok})

(* open parentheses before token k *)
Depth(p, k) == Count(SubSeq(p, 1, k - 1), "(") - Count(SubSeq(p, 1, k - 1), ")")

Bars(p) == {k \in 1..Len(p) : p[k] = "|" /\ Depth(p, k) = 0}

Before(p) == SubSeq(p, 1, Min(Bars(p)) - 1)

After(p) == SubSeq(p, Min(Bars(p)) + 1, Len(p))

(* the first atom of a pattern without bars: its length, 0 if it has no end *)
Closing(p) == {k \in 1..Len(p) : p[k] = ")" /\ Depth(p, k) = 1}

AtomLen(p) == IF p[1] # "(" THEN 1 ELSE IF Closing(p) = {} THEN 0 ELSE Min(Closing(p))

(* what is in the parentheses, if the first atom has some *)
Inside(p) == SubSeq(p, 2, AtomLen(p) - 1)

IsMult(p, i) == i <= Len(p) /\ p[i] \in Mults

Mult(p) == IF IsMult(p, AtomLen(p) + 1) THEN p[AtomLen(p) + 1] ELSE "once"

Rest(p) == SubSeq(p, AtomLen(p) + (IF Mult(p) = "once" THEN 1 ELSE 2), Len(p))

-----------------------------------------------------------------------------
(* Which patterns are regular expressions *)

(* p may match the empty string, as far as one can tell without a text *)
Nullable[p \in Seq(Tokens)] ==
  IF p = <<>> THEN TRUE
  ELSE IF Bars(p) # {} THEN Nullable[Before(p)] \/ Nullable[After(p)]
  ELSE /\ AtomLen(p) > 0
       /\ \/ Mult(p) \in {"*", "?"}
          \/ p[1] \in Anchors
          \/ p[1] = "(" /\ Nullable[Inside(p)]
       /\ Nullable[Rest(p)]

WellFormed[p \in Seq(Tokens)] ==
  IF p = <<>> THEN TRUE
  ELSE IF Bars(p) # {} THEN WellFormed[Before(p)] /\ WellFormed[After(p)]
  ELSE /\ AtomLen(p) > 0
       /\ p[1] \notin Mults \cup {")"}
       /\ p[1] = "(" => WellFormed[Inside(p)]
       /\ Mult(p) \in {"*", "+"} =>
            p[1] \notin Anchors /\ (p[1] = "(" => ~Nullable[Inside(p)])
       /\ Mult(p) # "once" => ~IsMult(p, AtomLen(p) + 2)
       /\ WellFormed[Rest(p)]

Legal(p) == WellFormed[p] /\ Count(p, "(") < NSUBEXP

-----------------------------------------------------------------------------
(* What a pattern matches: the spans of text from which it starts to where *)
(* it ends, as pairs of positions between characters                       *)

Positions(text) == 1..(Len(text) + 1)

Nothing(text) == {<<i, i>> : i \in Positions(text)}

Join(A, B) == {<<z[1][1], z[2][2]>> : z \in {y \in A \X B : y[1][2] = y[2][1]}}

(* No span is longer than the text, and no operand of * and + is empty *)
Times(A, mult, text) ==
  LET repeat[n \in 0..Len(text)] ==  \* A at most n times
        IF n = 0 THEN Nothing(text) ELSE Nothing(text) \cup Join(A, repeat[n - 1])
  IN CASE mult = "once" -> A
       [] mult = "?"    -> A \cup Nothing(text)
       [] mult = "*"    -> repeat[Len(text)]
       [] mult = "+"    -> Join(A, repeat[Len(text)])

(* where the first atom of p matches, if what is in its parentheses matches *)
(* at inside                                                               *)
AtomSpans(p, inside, text) ==
  CASE p[1] = "^" -> {<<1, 1>>}
    [] p[1] = "$" -> {<<Len(text) + 1, Len(text) + 1>>}
    [] p[1] = "(" -> inside
    [] OTHER      -> {<<i, i + 1>> : i \in {j \in 1..Len(text) : text[j] \in Meaning(p[1])}}

Spans(q, text) ==
  LET spans[p \in Seq(Tokens)] ==
        IF p = <<>> THEN Nothing(text)
        ELSE IF Bars(p) # {} THEN spans[Before(p)] \cup spans[After(p)]
        ELSE Join(Times(AtomSpans(p, spans[Inside(p)], text), Mult(p), text), spans[Rest(p)])
  IN spans[q]

Found(p, text) == Spans(p, text) # {}
=============================================================================
