---------------------------- MODULE RegexpProofs ----------------------------
(***************************************************************************)
(* Proofs about the compiler of module Regexp, for patterns of any length   *)
(* over any tokens and any number of groups: the second pass fills exactly  *)
(* the memory the first one has asked for, and the first one refuses        *)
(* exactly the patterns that are no regular expressions.                    *)
(***************************************************************************)
EXTENDS Regexp, SumProofs, SequenceTheorems, TLAPS

-----------------------------------------------------------------------------
(* Loops *)

(* What Iterated yields, round by round.                                    *)
LEMMA IteratedIs ==
  ASSUME NEW f, NEW x
  PROVE  /\ Iterated(f, x, 0) = x
         /\ \A n \in Nat : Iterated(f, x, n + 1) = f[Iterated(f, x, n)]
<1>1. ASSUME NEW n \in Nat
      PROVE  \E g : Repeats(g, f, x, n) /\ Iterated(f, x, n) = g[n]
  <2> DEFINE g == CHOOSE h : Repeats(h, f, x, n)
  <2>1. Repeats(g, f, x, n)
    <3>1. \E h : Repeats(h, f, x, n)
      BY Iterate
    <3>. QED
      BY <3>1
  <2>2. Iterated(f, x, n) = g[n]
    BY DEF Iterated, Repeats
  <2>. HIDE DEF g
  <2>. QED
    BY <2>1, <2>2
<1>2. Iterated(f, x, 0) = x
  <2>1. PICK g : Repeats(g, f, x, 0) /\ Iterated(f, x, 0) = g[0]
    BY <1>1
  <2>. QED
    BY <2>1 DEF Repeats
<1>3. ASSUME NEW n \in Nat
      PROVE  Iterated(f, x, n + 1) = f[Iterated(f, x, n)]
  <2>1. PICK g : Repeats(g, f, x, n) /\ Iterated(f, x, n) = g[n]
    BY <1>1
  <2>2. PICK h : Repeats(h, f, x, n + 1) /\ Iterated(f, x, n + 1) = h[n + 1]
    BY <1>1
  <2>3. /\ h[0] = x /\ \A i \in 0..n : h[i + 1] = f[h[i]]
        /\ g[0] = x /\ \A i \in 0..(n - 1) : g[i + 1] = f[g[i]]
    <3>1. ASSUME NEW i \in 0..n
          PROVE  h[i + 1] = f[h[i]]
      <4>1. i + 1 \in 0..(n + 1) /\ i + 1 # 0 /\ (i + 1) - 1 = i
        OBVIOUS
      <4>. QED
        BY <2>2, <4>1 DEF Repeats
    <3>2. ASSUME NEW i \in 0..(n - 1)
          PROVE  g[i + 1] = f[g[i]]
      <4>1. i + 1 \in 0..n /\ i + 1 # 0 /\ (i + 1) - 1 = i
        OBVIOUS
      <4>. QED
        BY <2>1, <4>1 DEF Repeats
    <3>3. 0 \in 0..(n + 1) /\ 0 \in 0..n
      OBVIOUS
    <3>. QED
      BY <2>1, <2>2, <3>1, <3>2, <3>3 DEF Repeats
  <2> DEFINE G == {i \in 0..n : g[i] = h[i]}
  <2>4. 0 \in G
    BY <2>3
  <2>5. ASSUME NEW i \in 0..(n - 1), i \in G
        PROVE  i + 1 \in G
    <3>1. i \in 0..n /\ i + 1 \in 0..n
      OBVIOUS
    <3>. QED
      BY <2>3, <2>5, <3>1
  <2>6. 0..n \subseteq G
    <3>. HIDE DEF G
    <3>. QED
      BY <2>4, <2>5, UpTo
  <2>7. n \in 0..n
    OBVIOUS
  <2>. QED
    BY <2>1, <2>2, <2>3, <2>6, <2>7
<1>. QED
  BY <1>2, <1>3

IsGroup(f, m) ==
  f = [i \in 0..m |-> [g \in Passes |-> IF i = 0 THEN FAIL ELSE reg(g, TRUE, f[i - 1])]]

(* Group, level by level.                                                   *)
LEMMA GroupIs ==
  ASSUME NEW n \in 0..NSUBEXP
  PROVE  Group[n] = [g \in Passes |-> IF n = 0 THEN FAIL ELSE reg(g, TRUE, Group[n - 1])]
<1> DEFINE G == {m \in 0..NSUBEXP : \E f : IsGroup(f, m)}
<1>0. NSUBEXP \in Nat
  BY RegexpAssumption
<1>1. 0 \in G
  <2>1. IsGroup([i \in 0..0 |-> [g \in Passes |-> FAIL]], 0)
    <3> DEFINE f == [i \in 0..0 |-> [g \in Passes |-> FAIL]]
    <3>1. ASSUME NEW i \in 0..0
          PROVE  [g \in Passes |-> FAIL] =
                   [g \in Passes |-> IF i = 0 THEN FAIL ELSE reg(g, TRUE, f[i - 1])]
      <4>1. i = 0
        OBVIOUS
      <4>. QED
        BY <4>1
    <3>. QED
      BY <3>1 DEF IsGroup
  <2>. QED
    BY <1>0, <2>1
<1>2. ASSUME NEW m \in 0..(NSUBEXP - 1), m \in G
      PROVE  m + 1 \in G
  <2>1. PICK f : IsGroup(f, m)
    BY <1>2
  <2> DEFINE h == [i \in 0..(m + 1) |->
                     IF i = m + 1 THEN [g \in Passes |-> reg(g, TRUE, f[m])] ELSE f[i]]
  <2>2. ASSUME NEW i \in 0..(m + 1)
        PROVE  h[i] = [g \in Passes |-> IF i = 0 THEN FAIL ELSE reg(g, TRUE, h[i - 1])]
    <3>1. CASE i = m + 1
      <4>1. m \in 0..(m + 1) /\ m # m + 1 /\ i - 1 = m /\ i # 0
        BY <1>0, <3>1
      <4>2. h[i - 1] = f[m]
        BY <4>1
      <4>3. h[i] = [g \in Passes |-> reg(g, TRUE, f[m])]
        BY <3>1
      <4>. HIDE DEF h
      <4>. QED
        BY <4>1, <4>2, <4>3
    <3>2. CASE i # m + 1
      <4>1. i \in 0..m /\ h[i] = f[i]
        BY <1>0, <3>2
      <4>2. f[i] = [g \in Passes |-> IF i = 0 THEN FAIL ELSE reg(g, TRUE, f[i - 1])]
        BY <2>1, <4>1 DEF IsGroup
      <4>3. i # 0 => h[i - 1] = f[i - 1]
        BY <1>0, <4>1
      <4>. HIDE DEF h
      <4>. QED
        BY <4>1, <4>2, <4>3
    <3>. QED
      BY <3>1, <3>2
  <2>3. IsGroup(h, m + 1)
    <3>1. h = [i \in 0..(m + 1) |-> h[i]]
      OBVIOUS
    <3>. HIDE DEF h
    <3>. QED
      BY <2>2, <3>1 DEF IsGroup
  <2>4. m + 1 \in 0..NSUBEXP
    BY <1>0
  <2>. HIDE DEF h
  <2>. QED
    BY <2>3, <2>4
<1>3. 0..NSUBEXP \subseteq G
  <2>. HIDE DEF G
  <2>. QED
    BY <1>0, <1>1, <1>2, UpTo
<1>4. \E f : IsGroup(f, NSUBEXP)
  BY <1>0, <1>3
<1>5. IsGroup(Group, NSUBEXP)
  <2>1. Group = CHOOSE f : IsGroup(f, NSUBEXP)
    BY DEF Group, IsGroup
  <2>. QED
    BY <1>4, <2>1
<1>. QED
  BY <1>5 DEF IsGroup

-----------------------------------------------------------------------------
(* Code is bytes *)

LEMMA NodeIs ==
  ASSUME NEW op \in Opcodes
  PROVE  Node(op) \in Seq(Cells) /\ Len(Node(op)) = 3
<1>1. Cell(op) \in Cells /\ Cell("hi") \in Cells /\ Cell("lo") \in Cells
  BY DEF Cell, Cells, Bytes
<1>. QED
  BY <1>1 DEF Node

(* g and h are the same point of the first pass and of the second one.      *)
Same(g, h) ==
  /\ g \in Passes /\ h \in Passes
  /\ ~g.emit /\ h.emit /\ g.code = <<>>
  /\ g.rest = h.rest /\ g.npar = h.npar
  /\ g.size = Len(h.code)

LEMMA EmitSame ==
  ASSUME NEW g, NEW h, Same(g, h), NEW cells \in Seq(Cells)
  PROVE  /\ Same(Emit(g, cells), Emit(h, cells))
         /\ Len(Emit(h, cells).code) = Len(h.code) + Len(cells)
         /\ Emit(h, cells).rest = h.rest
<1>1. h.code \o cells \in Seq(Cells) /\ Len(h.code \o cells) = Len(h.code) + Len(cells)
  BY DEF Same, Passes
<1>2. Emit(h, cells) = [h EXCEPT !.code = h.code \o cells]
  BY DEF Emit, Same
<1>3. Emit(g, cells) = [g EXCEPT !.size = g.size + Len(cells)]
  BY DEF Emit, Same
<1>4. g.size + Len(cells) \in Nat
  BY DEF Same, Passes
<1>. QED
  BY <1>1, <1>2, <1>3, <1>4 DEF Same, Passes

LEMMA NodeSame ==
  ASSUME NEW g, NEW h, Same(g, h), NEW op \in Opcodes
  PROVE  /\ Same(regnode(g, op), regnode(h, op))
         /\ Len(regnode(h, op).code) = Len(h.code) + 3
         /\ regnode(h, op).rest = h.rest
BY NodeIs, EmitSame DEF regnode

LEMMA StringSame ==
  ASSUME NEW g, NEW h, Same(g, h), NEW str \in Seq(Alphabet)
  PROVE  /\ Same(regstring(g, str), regstring(h, str))
         /\ Len(regstring(h, str).code) = Len(h.code) + Len(str) + 1
         /\ regstring(h, str).rest = h.rest
<1> DEFINE cells == [i \in DOMAIN str |-> Cell(str[i])]
<1>1. PICK n \in Nat : n = Len(str) /\ DOMAIN str = 1..n
  OBVIOUS
<1>2. \A i \in 1..n : cells[i] \in Cells
  BY <1>1 DEF Cell, Cells, Bytes
<1>3. cells \in Seq(Cells) /\ Len(cells) = n
  <2>1. cells = [i \in 1..n |-> cells[i]]
    BY <1>1
  <2>. HIDE DEF cells
  <2>. QED
    BY <1>2, <2>1
<1>4. Cell(NUL) \in Cells
  BY DEF Cell, Cells, Bytes
<1>5. Append(cells, Cell(NUL)) \in Seq(Cells) /\ Len(Append(cells, Cell(NUL))) = n + 1
  <2>. HIDE DEF cells
  <2>. QED
    BY <1>3, <1>4
<1>6. /\ regstring(g, str) = Emit(g, Append(cells, Cell(NUL)))
      /\ regstring(h, str) = Emit(h, Append(cells, Cell(NUL)))
  BY DEF regstring
<1>7. PICK m \in Nat : m = Len(h.code)
  BY DEF Same, Passes
<1>. HIDE DEF cells
<1>8. /\ Same(Emit(g, Append(cells, Cell(NUL))), Emit(h, Append(cells, Cell(NUL))))
      /\ Len(Emit(h, Append(cells, Cell(NUL))).code) = Len(h.code) + (n + 1)
      /\ Emit(h, Append(cells, Cell(NUL))).rest = h.rest
  BY <1>5, EmitSame
<1>9. PICK r : r = regstring(h, str)
  OBVIOUS
<1>10. Same(regstring(g, str), r) /\ r.rest = h.rest
  BY <1>6, <1>8, <1>9
<1>11. Len(r.code) = Len(h.code) + (n + 1)
  BY <1>6, <1>8, <1>9
<1>12. Len(r.code) = Len(h.code) + Len(str) + 1
  <2>1. m + (n + 1) = m + n + 1
    OBVIOUS
  <2>. QED
    BY <1>1, <1>7, <1>11, <2>1
<1>. QED
  BY <1>9, <1>10, <1>12

(* Setting a next pointer moves nothing, wherever it is.                    *)
LEMMA TailSame ==
  ASSUME NEW g, NEW h, Same(g, h), NEW p, NEW val \in Int
  PROVE  /\ Same(g, regtail(h, p, val))
         /\ Len(regtail(h, p, val).code) = Len(h.code)
         /\ regtail(h, p, val).rest = h.rest
<1>1. CASE p = regdummy
  BY <1>1 DEF regtail
<1>2. CASE p # regdummy
  <2>1. PICK last : last = LastOf(h.code, p)
    OBVIOUS
  <2>2. PICK offset : offset = IF OP(h.code, last) = "BACK" THEN last - val ELSE val - last
    OBVIOUS
  <2> DEFINE c == [h.code EXCEPT ![last] = [h.code[last] EXCEPT !.next = offset]]
  <2>3. regtail(h, p, val) = [h EXCEPT !.code = c]
    BY <1>2, <2>1, <2>2 DEF regtail
  <2>4. PICK n \in Nat : n = Len(h.code) /\ DOMAIN h.code = 1..n
    BY DEF Same, Passes
  <2>5. DOMAIN c = 1..n
    BY <2>4
  <2>6. ASSUME NEW i \in 1..n
        PROVE  c[i] \in Cells
    <3>1. h.code[i] \in Cells
      BY <2>4 DEF Same, Passes
    <3>2. CASE i = last
      <4>1. offset \in Int
        BY <2>2, <3>2
      <4>2. c[i] = [h.code[i] EXCEPT !.next = offset]
        BY <2>4, <3>2
      <4>. HIDE DEF c
      <4>. QED
        BY <3>1, <4>1, <4>2 DEF Cells
    <3>3. CASE i # last
      <4>1. c[i] = h.code[i]
        BY <2>4, <3>3
      <4>. QED
        BY <3>1, <4>1
    <3>. QED
      BY <3>2, <3>3
  <2>7. c = [i \in 1..n |-> c[i]]
    BY <2>5
  <2>. HIDE DEF c
  <2>8. c \in Seq(Cells) /\ Len(c) = n
    BY <2>6, <2>7
  <2>. QED
    BY <2>3, <2>4, <2>8 DEF Same, Passes
<1>. QED
  BY <1>1, <1>2

LEMMA OpTailSame ==
  ASSUME NEW g, NEW h, Same(g, h), NEW p, NEW val \in Int
  PROVE  /\ Same(g, regoptail(h, p, val))
         /\ Len(regoptail(h, p, val).code) = Len(h.code)
         /\ regoptail(h, p, val).rest = h.rest
BY TailSame DEF regoptail

(* In the first pass there is nothing to set.                               *)
LEMMA NoTail ==
  ASSUME NEW g, NEW val
  PROVE  regtail(g, regdummy, val) = g /\ regoptail(g, regdummy, val) = g
BY DEF regtail, regoptail

LEMMA HereIs ==
  ASSUME NEW g, NEW h, Same(g, h)
  PROVE  Here(g) = regdummy /\ Here(h) = Len(h.code) + 1 /\ Here(h) \in Nat \ {0}
BY DEF Here, Same, Passes

(* The same node is hooked to the chain in the second pass only.            *)
LEMMA NodeTailSame ==
  ASSUME NEW g, NEW h, Same(g, h), NEW p, NEW op \in Opcodes
  PROVE  /\ Same(NodeTail(g, regdummy, op), NodeTail(h, p, op))
         /\ Same(NodeOpTail(g, regdummy, op), NodeOpTail(h, p, op))
         /\ Len(NodeTail(h, p, op).code) = Len(h.code) + 3
         /\ Len(NodeOpTail(h, p, op).code) = Len(h.code) + 3
         /\ NodeTail(h, p, op).rest = h.rest
         /\ NodeOpTail(h, p, op).rest = h.rest
<1>1. Here(h) \in Int
  BY HereIs
<1>2. /\ Same(regnode(g, op), regnode(h, op))
      /\ Len(regnode(h, op).code) = Len(h.code) + 3
      /\ regnode(h, op).rest = h.rest
  BY NodeSame
<1>. QED
  BY <1>1, <1>2, TailSame, OpTailSame, NoTail DEF NodeTail, NodeOpTail

(* An insertion takes three bytes, as the first pass counts.                *)
LEMMA InsertSame ==
  ASSUME NEW g, NEW h, Same(g, h), NEW op \in Opcodes, NEW p \in 1..Len(h.code)
  PROVE  /\ Same(reginsert(g, op, regdummy), reginsert(h, op, p))
         /\ Len(reginsert(h, op, p).code) = Len(h.code) + 3
         /\ reginsert(h, op, p).rest = h.rest
<1>1. PICK n \in Nat : n = Len(h.code) /\ h.code \in Seq(Cells)
  BY DEF Same, Passes
<1>0. p \in 1..n
  BY <1>1
<1>2. PICK a : a = SubSeq(h.code, 1, p - 1)
  OBVIOUS
<1>3. PICK b : b = SubSeq(h.code, p, Len(h.code))
  OBVIOUS
<1>4. a \in Seq(Cells) /\ Len(a) = p - 1
  BY <1>1, <1>2
<1>5. b \in Seq(Cells) /\ Len(b) = n - p + 1
  BY <1>1, <1>3
<1>6. PICK c : c = a \o Node(op) \o b
  OBVIOUS
<1>7. c \in Seq(Cells) /\ Len(c) = n + 3
  <2>1. Node(op) \in Seq(Cells) /\ Len(Node(op)) = 3
    BY NodeIs
  <2>2. PICK d : d = a \o Node(op)
    OBVIOUS
  <2>3. d \in Seq(Cells) /\ Len(d) = Len(a) + Len(Node(op))
    BY <1>4, <2>1, <2>2, ConcatProperties
  <2>4. c \in Seq(Cells) /\ Len(c) = Len(d) + Len(b)
    BY <1>5, <1>6, <2>2, <2>3, ConcatProperties
  <2>. QED
    BY <1>0, <1>4, <1>5, <2>1, <2>3, <2>4
<1>8. reginsert(h, op, p) = [h EXCEPT !.code = c]
  BY <1>2, <1>3, <1>6 DEF reginsert, Same
<1>9. reginsert(g, op, regdummy) = [g EXCEPT !.size = g.size + 3]
  BY NodeIs DEF reginsert, Same, Emit
<1>10. n = g.size /\ n + 3 \in Nat
  BY <1>1 DEF Same
<1>. QED
  BY <1>1, <1>7, <1>8, <1>9, <1>10 DEF Same, Passes

-----------------------------------------------------------------------------
(* The parser comes to the same end in both passes *)

(* Outcomes a and b of the two passes agree: both have failed, or both have *)
(* read the same and found the same flags.  The first pass has no place for *)
(* the node, the second one has it in the code, unless there is none; the   *)
(* code has at least n bytes.                                              *)
SameEnd(a, b, n) ==
  /\ a \in Outcomes /\ b \in Outcomes
  /\ a.ok = b.ok
  /\ a.ok =>
       /\ Same(a.g, b.g)
       /\ a.flags = b.flags
       /\ n <= Len(b.g.code)
       /\ \/ a.ret = regdummy /\ b.ret \in 1..Len(b.g.code)
          \/ a.ret = NULL /\ b.ret = NULL

SameNode(a, b, n) == SameEnd(a, b, n) /\ (a.ok => a.ret # NULL)

(* A group is compiled alike in both passes.                                *)
Alike(group) == \A g, h : Same(g, h) => SameNode(group[g], group[h], Len(h.code))

LEMMA FailSame ==
  ASSUME NEW n
  PROVE  SameNode(FAIL, FAIL, n)
BY DEF SameNode, SameEnd, FAIL, Outcomes

LEMMA OutcomeIs ==
  ASSUME NEW r \in Outcomes
  PROVE  /\ r.ok \in BOOLEAN
         /\ ~r.ok => r = FAIL
         /\ r.ok => r.g \in Passes /\ r.ret \in Int /\ r.flags \in SUBSET Flags
<1>1. FAIL.ok = FALSE
  BY DEF FAIL
<1>2. CASE r = FAIL
  BY <1>1, <1>2
<1>3. CASE r \in [ok : {TRUE}, g : Passes, ret : Int, flags : SUBSET Flags]
  <2>1. r.ok = TRUE
    BY <1>3
  <2>. QED
    BY <1>3, <2>1
<1>. QED
  BY <1>2, <1>3 DEF Outcomes

LEMMA MadeIs ==
  ASSUME NEW g \in Passes, NEW ret \in Int, NEW fl \in SUBSET Flags
  PROVE  /\ Made(g, ret, fl) \in Outcomes
         /\ Made(g, ret, fl).ok
         /\ Made(g, ret, fl).g = g
         /\ Made(g, ret, fl).ret = ret
         /\ Made(g, ret, fl).flags = fl
BY DEF Made, Outcomes

LEMMA CodeLength ==
  ASSUME NEW g, NEW h, Same(g, h)
  PROVE  /\ g \in Passes /\ h \in Passes
         /\ Len(h.code) \in Nat
         /\ g.rest = h.rest /\ g.rest \in Seq(Tokens)
BY DEF Same, Passes

(* A node of at least one byte.                                             *)
LEMMA MadeSame ==
  ASSUME NEW g, NEW h, Same(g, h), NEW fl \in SUBSET Flags,
         NEW p \in 1..Len(h.code), NEW n \in 0..Len(h.code)
  PROVE  SameNode(Made(g, regdummy, fl), Made(h, p, fl), n)
<1>1. g \in Passes /\ h \in Passes /\ Len(h.code) \in Nat
  BY CodeLength
<1>2. p \in Int /\ regdummy \in Int /\ regdummy # NULL
  BY <1>1 DEF regdummy, NULL
<1>3. /\ Made(g, regdummy, fl) \in Outcomes
      /\ Made(g, regdummy, fl).ok
      /\ Made(g, regdummy, fl).g = g
      /\ Made(g, regdummy, fl).ret = regdummy
      /\ Made(g, regdummy, fl).flags = fl
  BY <1>1, <1>2, MadeIs
<1>4. /\ Made(h, p, fl) \in Outcomes
      /\ Made(h, p, fl).ok
      /\ Made(h, p, fl).g = h
      /\ Made(h, p, fl).ret = p
      /\ Made(h, p, fl).flags = fl
  BY <1>1, <1>2, MadeIs
<1>5. n <= Len(h.code)
  BY <1>1
<1>. HIDE DEF regdummy, NULL
<1>. QED
  BY <1>2, <1>3, <1>4, <1>5 DEF SameNode, SameEnd

(* A new node, with what is emitted behind it.                              *)
LEMMA MadeHere ==
  ASSUME NEW g, NEW h, Same(g, h), NEW g2, NEW h2, Same(g2, h2),
         Len(h.code) + 3 <= Len(h2.code), NEW fl \in SUBSET Flags
  PROVE  SameNode(Made(g2, Here(g), fl), Made(h2, Here(h), fl), Len(h.code))
<1>1. Here(g) = regdummy /\ Here(h) = Len(h.code) + 1
  BY HereIs
<1>2. PICK n \in Nat : n = Len(h.code)
  BY CodeLength
<1>3. PICK m \in Nat : m = Len(h2.code)
  BY CodeLength
<1>4. n + 1 \in 1..m /\ n \in 0..m
  BY <1>2, <1>3
<1>. QED
  BY <1>1, <1>2, <1>3, <1>4, MadeSame

-----------------------------------------------------------------------------
(* Multipliers *)

(* h2 is h with more code.                                                  *)
Grown(h, h2) == Len(h.code) <= Len(h2.code) /\ h2.rest = h.rest

LEMMA GrownOn ==
  ASSUME NEW f, NEW f2, NEW g, NEW g2, NEW h, NEW h2, Same(f, f2), Same(g, g2), Same(h, h2),
         Grown(f2, g2), Grown(g2, h2)
  PROVE  Grown(f2, h2)
<1>1. Len(f2.code) \in Nat /\ Len(g2.code) \in Nat /\ Len(h2.code) \in Nat
  BY CodeLength
<1>. QED
  BY <1>1 DEF Grown

LEMMA NodeTailGrown ==
  ASSUME NEW g, NEW h, Same(g, h), NEW p, NEW op \in Opcodes
  PROVE  /\ Same(NodeTail(g, regdummy, op), NodeTail(h, p, op))
         /\ Same(NodeOpTail(g, regdummy, op), NodeOpTail(h, p, op))
         /\ Grown(h, NodeTail(h, p, op))
         /\ Grown(h, NodeOpTail(h, p, op))
<1>1. Len(h.code) \in Nat
  BY CodeLength
<1>2. Len(h.code) <= Len(h.code) + 3
  BY <1>1
<1>. QED
  BY <1>2, NodeTailSame DEF Grown

LEMMA InsertGrown ==
  ASSUME NEW g, NEW h, Same(g, h), NEW op \in Opcodes, NEW p \in 1..Len(h.code)
  PROVE  /\ Same(reginsert(g, op, regdummy), reginsert(h, op, p))
         /\ Grown(h, reginsert(h, op, p))
<1>1. Len(h.code) \in Nat
  BY CodeLength
<1>2. Len(h.code) <= Len(h.code) + 3
  BY <1>1
<1>. QED
  BY <1>2, InsertSame DEF Grown

LEMMA TailGrown ==
  ASSUME NEW g, NEW h, Same(g, h), NEW p, NEW val \in Int
  PROVE  /\ Same(g, regtail(h, p, val)) /\ Grown(h, regtail(h, p, val))
         /\ Same(g, regoptail(h, p, val)) /\ Grown(h, regoptail(h, p, val))
<1>1. Len(h.code) \in Nat
  BY CodeLength
<1>. QED
  BY <1>1, TailSame, OpTailSame DEF Grown

LEMMA StarSame ==
  ASSUME NEW g, NEW h, Same(g, h), NEW p \in 1..Len(h.code)
  PROVE  Same(ComplexStar(g, regdummy), ComplexStar(h, p)) /\ Grown(h, ComplexStar(h, p))
<1>0. {"BRANCH", "BACK", "NOTHING"} \subseteq Opcodes /\ p \in Int
  BY CodeLength DEF Opcodes
<1>1. PICK g1, h1 : /\ g1 = reginsert(g, "BRANCH", regdummy)
                    /\ h1 = reginsert(h, "BRANCH", p)
                    /\ Same(g1, h1) /\ Grown(h, h1)
  BY <1>0, InsertGrown
<1>2. PICK g2, h2 : /\ g2 = NodeOpTail(g1, regdummy, "BACK")
                    /\ h2 = NodeOpTail(h1, p, "BACK")
                    /\ Same(g2, h2) /\ Grown(h1, h2)
  BY <1>0, <1>1, NodeTailGrown
<1>3. PICK g3, h3 : /\ g3 = regoptail(g2, regdummy, regdummy)
                    /\ h3 = regoptail(h2, p, p)
                    /\ Same(g3, h3) /\ Grown(h2, h3)
  BY <1>0, <1>2, TailGrown, NoTail
<1>4. PICK g4, h4 : /\ g4 = NodeTail(g3, regdummy, "BRANCH")
                    /\ h4 = NodeTail(h3, p, "BRANCH")
                    /\ Same(g4, h4) /\ Grown(h3, h4)
  BY <1>0, <1>3, NodeTailGrown
<1>5. PICK g5, h5 : /\ g5 = NodeTail(g4, regdummy, "NOTHING")
                    /\ h5 = NodeTail(h4, p, "NOTHING")
                    /\ Same(g5, h5) /\ Grown(h4, h5)
  BY <1>0, <1>4, NodeTailGrown
<1>6. g5 = ComplexStar(g, regdummy) /\ h5 = ComplexStar(h, p)
  BY <1>1, <1>2, <1>3, <1>4, <1>5 DEF ComplexStar
<1>7. Grown(h, h2)
  BY <1>1, <1>2, GrownOn
<1>8. Grown(h2, h4)
  BY <1>2, <1>3, <1>4, GrownOn
<1>9. Grown(h2, h5)
  BY <1>2, <1>4, <1>5, <1>8, GrownOn
<1>10. Grown(h, h5)
  BY <1>2, <1>5, <1>7, <1>9, GrownOn
<1>. QED
  BY <1>5, <1>6, <1>10

LEMMA PlusSame ==
  ASSUME NEW g, NEW h, Same(g, h), NEW p \in 1..Len(h.code)
  PROVE  Same(ComplexPlus(g, regdummy), ComplexPlus(h, p)) /\ Grown(h, ComplexPlus(h, p))
<1>0. {"BRANCH", "BACK", "NOTHING"} \subseteq Opcodes /\ p \in Int
  BY CodeLength DEF Opcodes
<1>1. PICK g1, h1 : /\ g1 = NodeTail(g, regdummy, "BRANCH")
                    /\ h1 = NodeTail(h, p, "BRANCH")
                    /\ Same(g1, h1) /\ Grown(h, h1)
  BY <1>0, NodeTailGrown
<1>2. PICK g2, h2 : /\ g2 = regnode(g1, "BACK")
                    /\ h2 = regnode(h1, "BACK")
                    /\ Same(g2, h2) /\ Len(h2.code) = Len(h1.code) + 3 /\ h2.rest = h1.rest
  <2>1. "BACK" \in Opcodes
    BY <1>0
  <2>. QED
    BY <1>1, <2>1, NodeSame
<1>3. Grown(h1, h2)
  <2>1. Len(h1.code) \in Nat
    BY <1>1, CodeLength
  <2>2. Len(h1.code) <= Len(h1.code) + 3
    BY <2>1
  <2>. QED
    BY <1>2, <2>2 DEF Grown
<1>4. PICK g3, h3 : /\ g3 = regtail(g2, Here(g1), regdummy)
                    /\ h3 = regtail(h2, Here(h1), p)
                    /\ Same(g3, h3) /\ Grown(h2, h3)
  <2>1. Here(g1) = regdummy
    BY <1>1, HereIs
  <2>. QED
    BY <1>0, <1>2, <2>1, TailGrown, NoTail
<1>5. PICK g4, h4 : /\ g4 = NodeTail(g3, Here(g), "BRANCH")
                    /\ h4 = NodeTail(h3, Here(h), "BRANCH")
                    /\ Same(g4, h4) /\ Grown(h3, h4)
  BY <1>0, <1>4, NodeTailGrown, HereIs
<1>6. PICK g5, h5 : /\ g5 = NodeTail(g4, regdummy, "NOTHING")
                    /\ h5 = NodeTail(h4, p, "NOTHING")
                    /\ Same(g5, h5) /\ Grown(h4, h5)
  BY <1>0, <1>5, NodeTailGrown
<1>7. g5 = ComplexPlus(g, regdummy) /\ h5 = ComplexPlus(h, p)
  BY <1>1, <1>2, <1>4, <1>5, <1>6 DEF ComplexPlus
<1>8. Grown(h, h2)
  BY <1>1, <1>2, <1>3, GrownOn
<1>9. Grown(h2, h4)
  BY <1>2, <1>4, <1>5, GrownOn
<1>10. Grown(h2, h5)
  BY <1>2, <1>5, <1>6, <1>9, GrownOn
<1>11. Grown(h, h5)
  BY <1>2, <1>6, <1>8, <1>10, GrownOn
<1>. QED
  BY <1>6, <1>7, <1>11

LEMMA OptionalSame ==
  ASSUME NEW g, NEW h, Same(g, h), NEW p \in 1..Len(h.code)
  PROVE  Same(Optional(g, regdummy), Optional(h, p)) /\ Grown(h, Optional(h, p))
<1>0. {"BRANCH", "BACK", "NOTHING"} \subseteq Opcodes
  BY DEF Opcodes
<1>1. PICK g1, h1 : /\ g1 = reginsert(g, "BRANCH", regdummy)
                    /\ h1 = reginsert(h, "BRANCH", p)
                    /\ Same(g1, h1) /\ Grown(h, h1)
  BY <1>0, InsertGrown
<1>2. PICK g2, h2 : /\ g2 = NodeTail(g1, regdummy, "BRANCH")
                    /\ h2 = NodeTail(h1, p, "BRANCH")
                    /\ Same(g2, h2) /\ Grown(h1, h2)
  BY <1>0, <1>1, NodeTailGrown
<1>3. PICK g3, h3 : /\ g3 = NodeTail(g2, regdummy, "NOTHING")
                    /\ h3 = NodeTail(h2, p, "NOTHING")
                    /\ Same(g3, h3) /\ Grown(h2, h3)
  BY <1>0, <1>2, NodeTailGrown
<1>4. PICK g4, h4 : /\ g4 = regoptail(g3, regdummy, Here(g2))
                    /\ h4 = regoptail(h3, p, Here(h2))
                    /\ Same(g4, h4) /\ Grown(h3, h4)
  <2>1. Here(h2) \in Int
    BY <1>2, HereIs
  <2>. QED
    BY <1>3, <2>1, TailGrown, NoTail
<1>5. g4 = Optional(g, regdummy) /\ h4 = Optional(h, p)
  BY <1>1, <1>2, <1>3, <1>4 DEF Optional
<1>6. Grown(h, h2)
  BY <1>1, <1>2, GrownOn
<1>7. Grown(h2, h4)
  BY <1>2, <1>3, <1>4, GrownOn
<1>8. Grown(h, h4)
  BY <1>2, <1>4, <1>6, <1>7, GrownOn
<1>. QED
  BY <1>4, <1>5, <1>8

LEMMA MultipliedSame ==
  ASSUME NEW g, NEW h, Same(g, h), NEW p \in 1..Len(h.code), NEW op \in Mults, NEW simple \in BOOLEAN
  PROVE  /\ Same(Multiplied(g, op, regdummy, simple), Multiplied(h, op, p, simple))
         /\ Grown(h, Multiplied(h, op, p, simple))
<1>1. CASE op = "*" /\ simple
  <2>1. \A k, ret : Multiplied(k, op, ret, simple) = reginsert(k, "STAR", ret)
    BY <1>1 DEF Multiplied
  <2>2. "STAR" \in Opcodes
    BY DEF Opcodes
  <2>. QED
    BY <2>1, <2>2, InsertGrown
<1>2. CASE op = "*" /\ ~simple
  <2>1. \A k, ret : Multiplied(k, op, ret, simple) = ComplexStar(k, ret)
    BY <1>2 DEF Multiplied
  <2>. QED
    BY <2>1, StarSame
<1>3. CASE op = "+" /\ simple
  <2>1. \A k, ret : Multiplied(k, op, ret, simple) = reginsert(k, "PLUS", ret)
    BY <1>3 DEF Multiplied
  <2>2. "PLUS" \in Opcodes
    BY DEF Opcodes
  <2>. QED
    BY <2>1, <2>2, InsertGrown
<1>4. CASE op = "+" /\ ~simple
  <2>1. \A k, ret : Multiplied(k, op, ret, simple) = ComplexPlus(k, ret)
    BY <1>4 DEF Multiplied
  <2>. QED
    BY <2>1, PlusSame
<1>5. CASE op = "?"
  <2>1. \A k, ret : Multiplied(k, op, ret, simple) = Optional(k, ret)
    BY <1>5 DEF Multiplied
  <2>. QED
    BY <2>1, OptionalSame
<1>. QED
  BY <1>1, <1>2, <1>3, <1>4, <1>5 DEF Mults

-----------------------------------------------------------------------------
(* Atoms *)

LEMMA AdvanceSame ==
  ASSUME NEW g, NEW h, Same(g, h), NEW rest \in Seq(Tokens)
  PROVE  /\ Same([g EXCEPT !.rest = rest], [h EXCEPT !.rest = rest])
         /\ [h EXCEPT !.rest = rest].code = h.code
BY DEF Same, Passes

LEMMA CharIs ==
  ASSUME NEW g, g.rest \in Seq(Tokens)
  PROVE  /\ Char(g) = NUL <=> g.rest = <<>>
         /\ Char(g) # NUL => Char(g) \in Tokens /\ Char(g) = g.rest[1] /\ Tail(g.rest) \in Seq(Tokens)
<1>1. CASE g.rest = <<>>
  BY <1>1 DEF Char
<1>2. CASE g.rest # <<>>
  <2>1. g.rest[1] \in Tokens /\ Tail(g.rest) \in Seq(Tokens)
    BY <1>2
  <2>. QED
    BY <1>2, <2>1, RegexpAssumption DEF Char
<1>. QED
  BY <1>1, <1>2

(* A class is written down character by character.                          *)
LEMMA ClassIs ==
  ASSUME NEW S \in SUBSET Alphabet, IsFiniteSet(S)
  PROVE  SetToSeq(S) \in Seq(Alphabet)
<1>1. PICK n \in Nat : ExistsBijection(1..n, S)
  BY FS_NatBijection
<1>2. Cardinality(S) = n
  BY <1>1, FS_CountingElements
<1>3. \E f \in [1..n -> S] : IsInjective(f)
  BY <1>1 DEF ExistsBijection, Bijection, Injection
<1>4. SetToSeq(S) \in [1..n -> S]
  BY <1>2, <1>3 DEF SetToSeq
<1>5. SetToSeq(S) \in Seq(S)
  BY <1>4
<1>. QED
  BY <1>5

Ordinary(rest) ==
  {k \in 0..Len(rest) : \A i \in 1..k : rest[i] \notin Meta \cup DOMAIN Escape \cup DOMAIN Class}

Stretch(rest) == CHOOSE k \in Ordinary(rest) : k + 1 \notin Ordinary(rest)

LEMMA StretchIs ==
  ASSUME NEW rest \in Seq(Tokens)
  PROVE  /\ Stretch(rest) \in 0..Len(rest)
         /\ Stretch(rest) \in Ordinary(rest)
         /\ Stretch(rest) + 1 \notin Ordinary(rest)
<1>1. PICK n \in Nat : n = Len(rest)
  OBVIOUS
<1>2. PICK o : o = Ordinary(rest)
  OBVIOUS
<1>3. 0 \in o /\ o \subseteq 0..n
  BY <1>1, <1>2 DEF Ordinary
<1>4. \E k \in o : k + 1 \notin o
  <2>1. SUFFICES ASSUME \A k \in o : k + 1 \in o
                 PROVE  FALSE
    OBVIOUS
  <2>2. \A i \in 0..(n - 1) : i \in o => i + 1 \in o
    BY <2>1
  <2>3. 0..n \subseteq o
    BY <1>3, <2>2, UpTo
  <2>4. n \in o
    BY <2>3
  <2>. QED
    BY <1>3, <2>1, <2>4
<1>5. Stretch(rest) \in o /\ Stretch(rest) + 1 \notin o
  BY <1>2, <1>4 DEF Stretch
<1>. QED
  BY <1>1, <1>2, <1>3, <1>5

LEMMA LiteralLength ==
  ASSUME NEW rest
  PROVE  Literal(rest) = IF Stretch(rest) > 1 /\ IsMult(rest, Stretch(rest) + 1)
                           THEN Stretch(rest) - 1 ELSE Stretch(rest)
BY DEF Literal, Stretch, Ordinary

(* A literal is a stretch of ordinary characters.                           *)
LEMMA LiteralIs ==
  ASSUME NEW rest \in Seq(Tokens)
  PROVE  /\ Literal(rest) \in 0..Len(rest)
         /\ SubSeq(rest, 1, Literal(rest)) \in Seq(Alphabet)
         /\ SubSeq(rest, Literal(rest) + 1, Len(rest)) \in Seq(Tokens)
<1>1. PICK n \in Nat : n = Len(rest)
  OBVIOUS
<1>2. PICK len : len = Stretch(rest)
  OBVIOUS
<1>3. len \in 0..n /\ len \in Ordinary(rest)
  BY <1>1, <1>2, StretchIs
<1>4. Literal(rest) = IF len > 1 /\ IsMult(rest, len + 1) THEN len - 1 ELSE len
  BY <1>2, LiteralLength
<1>5. PICK k : k = Literal(rest)
  OBVIOUS
<1>6. k \in 0..n /\ k \in 0..len /\ len \in 0..n
  BY <1>3, <1>4, <1>5
<1>7. ASSUME NEW i \in 1..k
      PROVE  rest[i] \in Alphabet
  <2>1. i \in 1..len /\ i \in 1..n
    BY <1>6
  <2>2. rest[i] \notin Meta \cup DOMAIN Escape \cup DOMAIN Class
    BY <1>3, <2>1 DEF Ordinary
  <2>3. rest[i] \in Tokens
    BY <1>1, <2>1
  <2>. QED
    BY <2>2, <2>3 DEF Tokens
<1>8. SubSeq(rest, 1, k) \in Seq(Alphabet)
  BY <1>6, <1>7, SubSeqProperties
<1>9. SubSeq(rest, k + 1, Len(rest)) \in Seq(Tokens)
  <2>1. \A i \in (k + 1)..n : rest[i] \in Tokens
    BY <1>1, <1>6
  <2>2. k + 1 \in Int
    BY <1>6
  <2>. QED
    BY <1>1, <2>1, <2>2, SubSeqProperties
<1>. QED
  BY <1>1, <1>5, <1>6, <1>8, <1>9

(* What becomes of each kind of token.                                      *)
LEMMA AtomIs ==
  ASSUME NEW g, g.rest \in Seq(Tokens), NEW group, NEW c, c = Char(g)
  PROVE  /\ c = "^" => regatom(g, group) = Made(regnode(Advance(g), "BOL"), Here(g), {})
         /\ c = "$" => regatom(g, group) = Made(regnode(Advance(g), "EOL"), Here(g), {})
         /\ c = "." => regatom(g, group) = Made(regnode(Advance(g), "ANY"), Here(g), Single)
         /\ c = "(" => regatom(g, group) = GroupAtom(group[Advance(g)])
         /\ c \in Mults \cup {NUL, "|", ")"} => regatom(g, group) = FAIL
         /\ c \in DOMAIN Escape =>
              regatom(g, group) = StringNode(Advance(g), "EXACTLY", <<Escape[c]>>, Single)
         /\ c \in DOMAIN Class =>
              regatom(g, group) =
                StringNode(Advance(g), IF Class[c].neg THEN "ANYBUT" ELSE "ANYOF",
                           SetToSeq(Class[c].set), Single)
         /\ c \notin Meta \cup {NUL} \cup DOMAIN Escape \cup DOMAIN Class =>
              regatom(g, group) = OrdinaryAtom(g, Literal(g.rest))
<1>1. NUL \notin Meta \cup DOMAIN Escape \cup DOMAIN Class
  BY RegexpAssumption DEF Tokens
<1>2. DOMAIN Escape \cap Meta = {} /\ DOMAIN Class \cap (Meta \cup DOMAIN Escape) = {}
  BY RegexpAssumption
<1>3. CASE c \in Meta \cup {NUL}
  <2>1. c \notin DOMAIN Escape \cup DOMAIN Class
    BY <1>1, <1>2, <1>3
  <2>. QED
    BY <1>3, <2>1 DEF regatom, Meta, Mults, Anchors, NUL
<1>4. CASE c \notin Meta \cup {NUL}
  <2>1. c \notin {"^", "$", ".", "("} \cup Mults \cup {NUL, "|", ")"}
    BY <1>4 DEF Meta, Anchors
  <2>2. c \in DOMAIN Class => c \notin DOMAIN Escape
    BY <1>2
  <2>. QED
    BY <1>4, <2>1, <2>2 DEF regatom
<1>. QED
  BY <1>3, <1>4

LEMMA StringNodeSame ==
  ASSUME NEW g, NEW h, Same(g, h), NEW op \in Opcodes, NEW str \in Seq(Alphabet),
         NEW fl \in SUBSET Flags
  PROVE  SameNode(StringNode(g, op, str, fl), StringNode(h, op, str, fl), Len(h.code))
<1>1. Len(h.code) \in Nat
  BY CodeLength
<1>2. PICK g1, h1 : /\ g1 = regnode(g, op) /\ h1 = regnode(h, op)
                    /\ Same(g1, h1) /\ Len(h1.code) = Len(h.code) + 3
  BY NodeSame
<1>3. PICK g2, h2 : g2 = regstring(g1, str) /\ h2 = regstring(h1, str)
  OBVIOUS
<1>7. Same(g2, h2) /\ Len(h2.code) = Len(h1.code) + Len(str) + 1
  BY <1>2, <1>3, StringSame
<1>4. Len(str) \in Nat
  OBVIOUS
<1>5. Len(h.code) + 3 <= Len(h2.code)
  BY <1>1, <1>2, <1>4, <1>7
<1>6. SameNode(Made(g2, Here(g), fl), Made(h2, Here(h), fl), Len(h.code))
  BY <1>5, <1>7, MadeHere
<1>. QED
  BY <1>2, <1>3, <1>6 DEF StringNode

LEMMA OrdinaryAtomSame ==
  ASSUME NEW g, NEW h, Same(g, h)
  PROVE  SameNode(OrdinaryAtom(g, Literal(g.rest)), OrdinaryAtom(h, Literal(h.rest)), Len(h.code))
<1>1. PICK rest : rest = g.rest /\ rest = h.rest /\ rest \in Seq(Tokens)
  BY CodeLength
<1>2. PICK k : k = Literal(g.rest)
  OBVIOUS
<1>3. Literal(h.rest) = k
  BY <1>1, <1>2
<1>4. PICK str : str = SubSeq(rest, 1, k) /\ str \in Seq(Alphabet)
  BY <1>1, <1>2, LiteralIs
<1>5. PICK next : next = SubSeq(rest, k + 1, Len(rest)) /\ next \in Seq(Tokens)
  BY <1>1, <1>2, LiteralIs
<1>6. PICK fl : fl = (IF k = 1 THEN Single ELSE {"HASWIDTH"}) /\ fl \in SUBSET Flags
  BY DEF Single, Flags
<1>7. Len(h.code) \in Nat /\ "EXACTLY" \in Opcodes
  BY CodeLength DEF Opcodes
<1>8. PICK g1, h1 : /\ g1 = regnode(g, "EXACTLY") /\ h1 = regnode(h, "EXACTLY")
                    /\ Same(g1, h1) /\ Len(h1.code) = Len(h.code) + 3 /\ h1.rest = h.rest
  BY <1>7, NodeSame
<1>9. PICK g2, h2 : g2 = regstring(g1, str) /\ h2 = regstring(h1, str)
  OBVIOUS
<1>14. Same(g2, h2) /\ Len(h2.code) = Len(h1.code) + Len(str) + 1 /\ h2.rest = h1.rest
  BY <1>4, <1>8, <1>9, StringSame
<1>15. PICK g3, h3 : g3 = [g2 EXCEPT !.rest = next] /\ h3 = [h2 EXCEPT !.rest = next]
  OBVIOUS
<1>10. Same(g3, h3) /\ h3.code = h2.code
  BY <1>5, <1>14, <1>15, AdvanceSame
<1>11. g2.rest = rest /\ h2.rest = rest
  BY <1>1, <1>8, <1>14, CodeLength
<1>12. OrdinaryAtom(g, k) = Made(g3, Here(g), fl) /\ OrdinaryAtom(h, k) = Made(h3, Here(h), fl)
  BY <1>1, <1>4, <1>5, <1>6, <1>8, <1>9, <1>11, <1>15 DEF OrdinaryAtom
<1>13. Len(h.code) + 3 <= Len(h3.code)
  <2>1. Len(str) \in Nat
    BY <1>4
  <2>. QED
    BY <1>7, <1>8, <1>10, <1>14, <2>1
<1>. QED
  <2>1. SameNode(Made(g3, Here(g), fl), Made(h3, Here(h), fl), Len(h.code))
    BY <1>6, <1>10, <1>13, MadeHere
  <2>. QED
    BY <1>2, <1>3, <1>12, <2>1

LEMMA GroupAtomSame ==
  ASSUME NEW a, NEW b, NEW n, SameNode(a, b, n)
  PROVE  SameNode(GroupAtom(a), GroupAtom(b), n)
<1>1. CASE ~a.ok
  BY <1>1, FailSame DEF GroupAtom, SameNode, SameEnd
<1>2. CASE a.ok
  <2>1. /\ a \in [ok : {TRUE}, g : Passes, ret : Int, flags : SUBSET Flags]
        /\ b \in [ok : {TRUE}, g : Passes, ret : Int, flags : SUBSET Flags]
    <3>1. FAIL.ok = FALSE
      BY DEF FAIL
    <3>. QED
      BY <1>2, <3>1 DEF SameNode, SameEnd, Outcomes
  <2>2. PICK fl : fl = a.flags \ {"SIMPLE"} /\ fl \in SUBSET Flags
    BY <2>1
  <2>3. b.flags = a.flags
    BY <1>2 DEF SameNode, SameEnd
  <2>4. PICK a1, b1 : a1 = [a EXCEPT !.flags = fl] /\ b1 = [b EXCEPT !.flags = fl]
    OBVIOUS
  <2>5. /\ a1 \in Outcomes /\ a1.ok /\ a1.g = a.g /\ a1.ret = a.ret /\ a1.flags = fl
        /\ b1 \in Outcomes /\ b1.ok /\ b1.g = b.g /\ b1.ret = b.ret /\ b1.flags = fl
    BY <2>1, <2>2, <2>4 DEF Outcomes
  <2>6. SameNode(a1, b1, n)
    BY <1>2, <2>5 DEF SameNode, SameEnd
  <2>7. b.ok
    BY <1>2 DEF SameNode, SameEnd
  <2>8. GroupAtom(a) = a1 /\ GroupAtom(b) = b1
    BY <1>2, <2>2, <2>3, <2>4, <2>7 DEF GroupAtom
  <2>. QED
    BY <2>6, <2>8
<1>3. a.ok \in BOOLEAN
  BY OutcomeIs DEF SameNode, SameEnd
<1>. QED
  BY <1>1, <1>2

LEMMA AdvanceIs ==
  ASSUME NEW g, NEW h, Same(g, h), Char(g) # NUL
  PROVE  Same(Advance(g), Advance(h)) /\ Advance(h).code = h.code
<1>1. g.rest = h.rest /\ g.rest \in Seq(Tokens)
  BY CodeLength
<1>2. PICK rest \in Seq(Tokens) : rest = Tail(g.rest)
  BY <1>1, CharIs
<1>3. Advance(g) = [g EXCEPT !.rest = rest] /\ Advance(h) = [h EXCEPT !.rest = rest]
  BY <1>1, <1>2 DEF Advance
<1>4. /\ Same([g EXCEPT !.rest = rest], [h EXCEPT !.rest = rest])
      /\ [h EXCEPT !.rest = rest].code = h.code
  BY AdvanceSame
<1>. QED
  BY <1>3, <1>4

LEMMA CharSame ==
  ASSUME NEW g, NEW h, Same(g, h)
  PROVE  Char(g) = Char(h)
BY CodeLength DEF Char

(* An anchor or a dot.                                                      *)
LEMMA PlainSame ==
  ASSUME NEW g, NEW h, Same(g, h), Char(g) # NUL, NEW op \in Opcodes, NEW fl \in SUBSET Flags
  PROVE  SameNode(Made(regnode(Advance(g), op), Here(g), fl),
                  Made(regnode(Advance(h), op), Here(h), fl), Len(h.code))
<1>1. Same(Advance(g), Advance(h)) /\ Advance(h).code = h.code
  BY AdvanceIs
<1>2. /\ Same(regnode(Advance(g), op), regnode(Advance(h), op))
      /\ Len(regnode(Advance(h), op).code) = Len(h.code) + 3
  BY <1>1, NodeSame
<1>3. Len(h.code) \in Nat
  BY CodeLength
<1>4. Len(h.code) + 3 <= Len(regnode(Advance(h), op).code)
  BY <1>2, <1>3
<1>. QED
  BY <1>2, <1>4, MadeHere

LEMMA AtomSame ==
  ASSUME NEW g, NEW h, Same(g, h), NEW group, Alike(group)
  PROVE  SameNode(regatom(g, group), regatom(h, group), Len(h.code))
<1>1. PICK c : c = Char(g) /\ c = Char(h)
  BY CharSame
<1>2. g.rest \in Seq(Tokens) /\ h.rest \in Seq(Tokens)
  BY CodeLength
<1>3. {"BOL", "EOL", "ANY", "EXACTLY", "ANYBUT", "ANYOF"} \subseteq Opcodes
  BY DEF Opcodes
<1>4. Single \in SUBSET Flags /\ {} \in SUBSET Flags
  BY DEF Single, Flags
<1>5. NUL \notin Tokens
  BY RegexpAssumption
<1>6. c # NUL => /\ c \in Tokens
                 /\ Same(Advance(g), Advance(h)) /\ Len(Advance(h).code) = Len(h.code)
  BY <1>1, <1>2, CharIs, AdvanceIs
<1>7. CASE c = "^"
  <2>1. c # NUL
    BY <1>7 DEF NUL
  <2>2. /\ regatom(g, group) = Made(regnode(Advance(g), "BOL"), Here(g), {})
        /\ regatom(h, group) = Made(regnode(Advance(h), "BOL"), Here(h), {})
    BY <1>1, <1>2, <1>7, AtomIs
  <2>. QED
    BY <1>1, <1>3, <1>4, <2>1, <2>2, PlainSame
<1>8. CASE c = "$"
  <2>1. c # NUL
    BY <1>8 DEF NUL
  <2>2. /\ regatom(g, group) = Made(regnode(Advance(g), "EOL"), Here(g), {})
        /\ regatom(h, group) = Made(regnode(Advance(h), "EOL"), Here(h), {})
    BY <1>1, <1>2, <1>8, AtomIs
  <2>. QED
    BY <1>1, <1>3, <1>4, <2>1, <2>2, PlainSame
<1>9. CASE c = "."
  <2>1. c # NUL
    BY <1>9 DEF NUL
  <2>2. /\ regatom(g, group) = Made(regnode(Advance(g), "ANY"), Here(g), Single)
        /\ regatom(h, group) = Made(regnode(Advance(h), "ANY"), Here(h), Single)
    BY <1>1, <1>2, <1>9, AtomIs
  <2>. QED
    BY <1>1, <1>3, <1>4, <2>1, <2>2, PlainSame
<1>10. CASE c = "("
  <2>1. c # NUL
    BY <1>10 DEF NUL
  <2>2. SameNode(group[Advance(g)], group[Advance(h)], Len(h.code))
    BY <1>6, <2>1 DEF Alike
  <2>3. /\ regatom(g, group) = GroupAtom(group[Advance(g)])
        /\ regatom(h, group) = GroupAtom(group[Advance(h)])
    BY <1>1, <1>2, <1>10, AtomIs
  <2>. QED
    BY <2>2, <2>3, GroupAtomSame
<1>11. CASE c \in Mults \cup {NUL, "|", ")"}
  BY <1>1, <1>2, <1>11, AtomIs, FailSame
<1>12. CASE c \in DOMAIN Escape
  <2>1. c # NUL
    BY <1>5, <1>12 DEF Tokens
  <2>2. <<Escape[c]>> \in Seq(Alphabet)
    BY <1>12, RegexpAssumption
  <2>3. SameNode(StringNode(Advance(g), "EXACTLY", <<Escape[c]>>, Single),
                 StringNode(Advance(h), "EXACTLY", <<Escape[c]>>, Single), Len(h.code))
    BY <1>3, <1>4, <1>6, <2>1, <2>2, StringNodeSame
  <2>. QED
    BY <1>1, <1>2, <1>12, <2>3, AtomIs
<1>13. CASE c \in DOMAIN Class
  <2>1. c # NUL
    BY <1>5, <1>13 DEF Tokens
  <2>2. SetToSeq(Class[c].set) \in Seq(Alphabet)
    BY <1>13, RegexpAssumption, ClassIs
  <2>3. PICK op \in Opcodes : op = IF Class[c].neg THEN "ANYBUT" ELSE "ANYOF"
    BY <1>3
  <2>4. SameNode(StringNode(Advance(g), op, SetToSeq(Class[c].set), Single),
                 StringNode(Advance(h), op, SetToSeq(Class[c].set), Single), Len(h.code))
    BY <1>4, <1>6, <2>1, <2>2, StringNodeSame
  <2>. QED
    BY <1>1, <1>2, <1>13, <2>3, <2>4, AtomIs
<1>14. CASE c \notin Meta \cup {NUL} \cup DOMAIN Escape \cup DOMAIN Class
  BY <1>1, <1>2, <1>14, AtomIs, OrdinaryAtomSame
<1>. QED
  BY <1>7, <1>8, <1>9, <1>10, <1>11, <1>12, <1>13, <1>14 DEF Meta, Anchors

-----------------------------------------------------------------------------
(* Pieces *)

LEMMA NodeParts ==
  ASSUME NEW a, NEW b, NEW n, SameNode(a, b, n), a.ok
  PROVE  /\ b.ok /\ Same(a.g, b.g) /\ a.flags = b.flags /\ a.flags \in SUBSET Flags
         /\ n <= Len(b.g.code)
         /\ a.ret = regdummy /\ b.ret \in 1..Len(b.g.code)
BY OutcomeIs DEF SameNode, SameEnd

LEMMA RepeatedSame ==
  ASSUME NEW a, NEW b, NEW n \in Nat, SameNode(a, b, n), a.ok,
         NEW op \in Mults, op = Char(a.g), NEW simple \in BOOLEAN
  PROVE  SameNode(Repeated(a, op, Advance(Multiplied(a.g, op, a.ret, simple))),
                  Repeated(b, op, Advance(Multiplied(b.g, op, b.ret, simple))), n)
<1>1. /\ Same(a.g, b.g) /\ a.flags = b.flags
      /\ n <= Len(b.g.code) /\ a.ret = regdummy /\ b.ret \in 1..Len(b.g.code)
  BY NodeParts
<1>2. PICK g1, h1 : /\ g1 = Multiplied(a.g, op, a.ret, simple)
                    /\ h1 = Multiplied(b.g, op, b.ret, simple)
                    /\ Same(g1, h1) /\ Grown(b.g, h1)
  BY <1>1, MultipliedSame
<1>3. Char(g1) # NUL
  <2>1. g1.rest = a.g.rest
    BY <1>1, <1>2, CodeLength DEF Grown
  <2>2. Char(g1) = op
    BY <2>1 DEF Char
  <2>. QED
    BY <2>2 DEF Mults, NUL
<1>4. PICK g2, h2 : g2 = Advance(g1) /\ h2 = Advance(h1) /\ Same(g2, h2) /\ h2.code = h1.code
  BY <1>2, <1>3, AdvanceIs
<1>5. b.ret \in 1..Len(h2.code) /\ n \in 0..Len(h2.code)
  <2>1. Len(b.g.code) \in Nat /\ Len(h1.code) \in Nat /\ Len(b.g.code) <= Len(h1.code)
    BY <1>1, <1>2, CodeLength DEF Grown
  <2>. QED
    BY <1>1, <1>4, <2>1
<1>6. PICK fl : fl = (IF op = "+" THEN {"HASWIDTH"} ELSE {"SPSTART"}) /\ fl \in SUBSET Flags
  BY DEF Flags
<1>7. SameNode(Made(g2, a.ret, fl), Made(h2, b.ret, fl), n)
  BY <1>1, <1>4, <1>5, <1>6, MadeSame
<1>8. Char(g2) = Char(h2)
  BY <1>4, CharSame
<1>9. CASE CouldBeEmpty(op, a.flags) \/ Char(g2) \in Mults
  BY <1>1, <1>2, <1>4, <1>8, <1>9, FailSame DEF Repeated
<1>10. CASE ~(CouldBeEmpty(op, a.flags) \/ Char(g2) \in Mults)
  <2>1. Repeated(a, op, g2) = Made(g2, a.ret, fl) /\ Repeated(b, op, h2) = Made(h2, b.ret, fl)
    BY <1>1, <1>6, <1>8, <1>10 DEF Repeated
  <2>. QED
    BY <1>2, <1>4, <1>7, <2>1
<1>. QED
  BY <1>9, <1>10

LEMMA PieceSame ==
  ASSUME NEW a, NEW b, NEW n \in Nat, SameNode(a, b, n)
  PROVE  SameNode(Piece(a), Piece(b), n)
<1>1. CASE ~a.ok
  BY <1>1, FailSame DEF Piece, SameNode, SameEnd
<1>2. CASE a.ok
  <2>1. b.ok /\ Same(a.g, b.g) /\ a.flags = b.flags
    BY <1>2, NodeParts
  <2>2. PICK op : op = Char(a.g) /\ op = Char(b.g)
    BY <2>1, CharSame
  <2>3. CASE op \notin Mults
    BY <1>2, <2>1, <2>2, <2>3 DEF Piece
  <2>4. CASE op \in Mults
    <3>1. PICK simple \in BOOLEAN : simple = ("SIMPLE" \in a.flags)
      <4>1. ("SIMPLE" \in a.flags) \in BOOLEAN
        OBVIOUS
      <4>. QED
        BY <4>1, Zenon
    <3>2. /\ Piece(a) = Repeated(a, op, Advance(Multiplied(a.g, op, a.ret, simple)))
          /\ Piece(b) = Repeated(b, op, Advance(Multiplied(b.g, op, b.ret, simple)))
      BY <1>2, <2>1, <2>2, <2>4, <3>1 DEF Piece
    <3>. QED
      BY <1>2, <2>2, <2>4, <3>2, RepeatedSame
  <2>. QED
    BY <2>3, <2>4
<1>. QED
  BY <1>1, <1>2

LEMMA RegpieceSame ==
  ASSUME NEW g, NEW h, Same(g, h), NEW group, Alike(group)
  PROVE  SameNode(regpiece(g, group), regpiece(h, group), Len(h.code))
<1>1. Len(h.code) \in Nat
  BY CodeLength
<1>. QED
  BY <1>1, AtomSame, PieceSame DEF regpiece

-----------------------------------------------------------------------------
(* Branches *)

(* What holds of both passes before a loop and is kept by every round holds *)
(* behind it.                                                              *)
LEMMA LoopSame ==
  ASSUME NEW f, NEW R, \A z \in R : <<f[z[1]], f[z[2]]>> \in R,
         NEW a, NEW b, <<a, b>> \in R, NEW n \in Nat
  PROVE  <<Iterated(f, a, n), Iterated(f, b, n)>> \in R
<1> DEFINE G == {i \in 0..n : <<Iterated(f, a, i), Iterated(f, b, i)>> \in R}
<1>1. 0 \in G
  <2>1. Iterated(f, a, 0) = a /\ Iterated(f, b, 0) = b
    BY IteratedIs
  <2>. QED
    BY <2>1
<1>2. ASSUME NEW i \in 0..(n - 1), i \in G
      PROVE  i + 1 \in G
  <2>1. i \in Nat /\ i + 1 \in 0..n
    OBVIOUS
  <2>2. PICK x, y : x = Iterated(f, a, i) /\ y = Iterated(f, b, i)
    OBVIOUS
  <2>3. Iterated(f, a, i + 1) = f[x] /\ Iterated(f, b, i + 1) = f[y]
    <3>1. /\ Iterated(f, a, i + 1) = f[Iterated(f, a, i)]
          /\ Iterated(f, b, i + 1) = f[Iterated(f, b, i)]
      BY <2>1, IteratedIs
    <3>. QED
      BY <2>2, <3>1
  <2>4. <<x, y>> \in R
    BY <1>2, <2>2
  <2>5. <<f[x], f[y]>> \in R
    <3>1. PICK z \in R : z = <<x, y>>
      BY <2>4
    <3>. QED
      BY <3>1
  <2>. QED
    BY <2>1, <2>3, <2>5
<1>3. 0..n \subseteq G
  <2>. HIDE DEF G
  <2>. QED
    BY <1>1, <1>2, UpTo
<1>. QED
  BY <1>3

LEMMA EndParts ==
  ASSUME NEW a, NEW b, NEW n, SameEnd(a, b, n), a.ok
  PROVE  /\ b.ok /\ Same(a.g, b.g) /\ a.flags = b.flags /\ a.flags \in SUBSET Flags
         /\ n <= Len(b.g.code)
         /\ \/ a.ret = regdummy /\ a.ret # NULL /\ b.ret \in 1..Len(b.g.code) /\ b.ret # NULL
            \/ a.ret = NULL /\ b.ret = NULL
<1>1. a \in Outcomes
  BY DEF SameEnd
<1>2. a.flags \in SUBSET Flags
  BY <1>1, OutcomeIs
<1>3. regdummy # NULL /\ \A p \in 1..Len(b.g.code) : p # NULL
  BY DEF regdummy, NULL
<1>. HIDE DEF regdummy, NULL
<1>. QED
  BY <1>2, <1>3 DEF SameEnd

LEMMA ChainedSame ==
  ASSUME NEW r, NEW t, NEW n \in Nat, SameEnd(r, t, n), r.ok,
         NEW p, NEW q, SameNode(p, q, Len(t.g.code))
  PROVE  SameNode(Chained(r, p), Chained(t, q), n)
<1>1. CASE ~p.ok
  BY <1>1, FailSame DEF Chained, SameNode, SameEnd
<1>2. CASE p.ok
  <2>1. /\ q.ok /\ Same(p.g, q.g) /\ p.flags = q.flags /\ p.flags \in SUBSET Flags
        /\ Len(t.g.code) <= Len(q.g.code)
        /\ p.ret = regdummy /\ q.ret \in 1..Len(q.g.code)
    BY <1>2, NodeParts
  <2>2. /\ t.ok /\ Same(r.g, t.g) /\ r.flags = t.flags /\ r.flags \in SUBSET Flags
        /\ n <= Len(t.g.code)
        /\ \/ r.ret = regdummy /\ r.ret # NULL /\ t.ret # NULL
           \/ r.ret = NULL /\ t.ret = NULL
    BY EndParts
  <2>3. n \in 0..Len(q.g.code) /\ q.ret \in Int
    <3>1. Len(t.g.code) \in Nat /\ Len(q.g.code) \in Nat
      BY <2>1, <2>2, CodeLength
    <3>. QED
      BY <2>1, <2>2, <3>1
  <2>4. CASE r.ret = NULL
    <3>1. PICK fl \in SUBSET Flags : fl = r.flags \cup (p.flags \cap {"HASWIDTH", "SPSTART"})
      BY <2>1, <2>2
    <3>2. Chained(r, p) = Made(p.g, p.ret, fl) /\ Chained(t, q) = Made(q.g, q.ret, fl)
      BY <1>2, <2>1, <2>2, <2>4, <3>1 DEF Chained
    <3>. QED
      BY <2>1, <2>3, <3>2, MadeSame
  <2>5. CASE r.ret # NULL
    <3>1. PICK fl \in SUBSET Flags : fl = r.flags \cup (p.flags \cap {"HASWIDTH"})
      BY <2>1, <2>2
    <3>2. PICK h : h = regtail(q.g, t.ret, q.ret)
      OBVIOUS
    <3>3. Same(p.g, h) /\ Len(h.code) = Len(q.g.code)
      BY <2>1, <2>3, <3>2, TailSame
    <3>4. regtail(p.g, r.ret, p.ret) = p.g
      BY <2>2, <2>5, NoTail
    <3>5. Chained(r, p) = Made(p.g, p.ret, fl) /\ Chained(t, q) = Made(h, q.ret, fl)
      BY <1>2, <2>1, <2>2, <2>5, <3>1, <3>2, <3>4 DEF Chained
    <3>. QED
      BY <2>1, <2>3, <3>3, <3>5, MadeSame
  <2>. QED
    BY <2>4, <2>5
<1>. QED
  BY <1>1, <1>2

LEMMA NextPieceSame ==
  ASSUME NEW r, NEW t, NEW n \in Nat, SameEnd(r, t, n), NEW group, Alike(group)
  PROVE  SameEnd(NextPiece(r, group), NextPiece(t, group), n)
<1>1. CASE ~r.ok
  BY <1>1 DEF NextPiece, SameEnd
<1>2. CASE r.ok
  <2>1. t.ok /\ Same(r.g, t.g)
    BY <1>2, EndParts
  <2>2. Char(r.g) = Char(t.g)
    BY <2>1, CharSame
  <2>3. SameNode(regpiece(r.g, group), regpiece(t.g, group), Len(t.g.code))
    BY <2>1, RegpieceSame
  <2>4. SameNode(Chained(r, regpiece(r.g, group)), Chained(t, regpiece(t.g, group)), n)
    BY <1>2, <2>3, ChainedSame
  <2>. QED
    BY <1>2, <2>1, <2>2, <2>4 DEF NextPiece, SameNode
<1>. QED
  BY <1>1, <1>2

LEMMA BranchSame ==
  ASSUME NEW g, NEW h, Same(g, h), NEW group, Alike(group)
  PROVE  SameNode(regbranch(g, group), regbranch(h, group), Len(h.code))
<1> DEFINE f == [r \in Outcomes |-> NextPiece(r, group)]
<1>1. PICK n \in Nat : n = Len(h.code) + 3
  BY CodeLength
<1>2. PICK g1, h1 : /\ g1 = regnode(g, "BRANCH") /\ h1 = regnode(h, "BRANCH")
                    /\ Same(g1, h1) /\ Len(h1.code) = Len(h.code) + 3
  <2>1. "BRANCH" \in Opcodes
    BY DEF Opcodes
  <2>. QED
    BY <2>1, NodeSame
<1>3. PICK a, b : a = Made(g1, NULL, {}) /\ b = Made(h1, NULL, {})
  OBVIOUS
<1>4. SameEnd(a, b, n)
  <2>1. g1 \in Passes /\ h1 \in Passes /\ {} \in SUBSET Flags /\ NULL \in Int
    BY <1>2, CodeLength DEF NULL
  <2>2. /\ a \in Outcomes /\ a.ok /\ a.g = g1 /\ a.ret = NULL /\ a.flags = {}
        /\ b \in Outcomes /\ b.ok /\ b.g = h1 /\ b.ret = NULL /\ b.flags = {}
    BY <1>3, <2>1, MadeIs
  <2>3. n <= Len(h1.code)
    BY <1>1, <1>2
  <2>. QED
    BY <1>2, <2>2, <2>3 DEF SameEnd
<1>5. PICK k \in Nat : k = Len(g.rest) /\ k = Len(h.rest)
  BY CodeLength
<1> DEFINE R == {z \in Outcomes \X Outcomes : SameEnd(z[1], z[2], n)}
<1>6. PICK x, y : x = Iterated(f, a, k) /\ y = Iterated(f, b, k)
  OBVIOUS
<1>7. SameEnd(x, y, n)
  <2>1. ASSUME NEW z \in R
        PROVE  <<f[z[1]], f[z[2]]>> \in R
    <3>1. PICK r \in Outcomes, t \in Outcomes : z = <<r, t>> /\ SameEnd(r, t, n)
      OBVIOUS
    <3>2. f[r] = NextPiece(r, group) /\ f[t] = NextPiece(t, group)
      OBVIOUS
    <3>3. SameEnd(NextPiece(r, group), NextPiece(t, group), n)
      BY <3>1, NextPieceSame
    <3>4. NextPiece(r, group) \in Outcomes /\ NextPiece(t, group) \in Outcomes
      BY <3>3 DEF SameEnd
    <3>5. z[1] = r /\ z[2] = t
      BY <3>1
    <3>. HIDE DEF f
    <3>. QED
      BY <3>2, <3>3, <3>4, <3>5
  <2>2. <<a, b>> \in R
    BY <1>4 DEF SameEnd
  <2>3. \A u, v : <<u, v>> \in R => SameEnd(u, v, n)
    OBVIOUS
  <2>. HIDE DEF f, R
  <2>4. <<Iterated(f, a, k), Iterated(f, b, k)>> \in R
    BY <2>1, <2>2, LoopSame
  <2>. QED
    BY <1>6, <2>3, <2>4
<1>8. CASE ~x.ok
  <2>1. ~y.ok
    BY <1>7, <1>8 DEF SameEnd
  <2>2. regbranch(g, group) = FAIL /\ regbranch(h, group) = FAIL
    BY <1>2, <1>3, <1>5, <1>6, <1>8, <2>1 DEF regbranch
  <2>. QED
    BY <2>2, FailSame
<1>9. CASE x.ok
  <2>1. /\ y.ok /\ Same(x.g, y.g) /\ x.flags = y.flags /\ x.flags \in SUBSET Flags
        /\ n <= Len(y.g.code) /\ (x.ret = NULL <=> y.ret = NULL)
    BY <1>7, <1>9, EndParts
  <2>2. PICK g2, h2 : /\ g2 = IF x.ret = NULL THEN regnode(x.g, "NOTHING") ELSE x.g
                      /\ h2 = IF y.ret = NULL THEN regnode(y.g, "NOTHING") ELSE y.g
    OBVIOUS
  <2>3. /\ Same(regnode(x.g, "NOTHING"), regnode(y.g, "NOTHING"))
        /\ Len(regnode(y.g, "NOTHING").code) = Len(y.g.code) + 3
    <3>1. "NOTHING" \in Opcodes
      BY DEF Opcodes
    <3>. QED
      BY <2>1, <3>1, NodeSame
  <2>4. Len(y.g.code) \in Nat /\ Len(h.code) \in Nat
    BY <2>1, CodeLength
  <2>5. Same(g2, h2) /\ (Len(h2.code) = Len(y.g.code) \/ Len(h2.code) = Len(y.g.code) + 3)
    BY <2>1, <2>2, <2>3
  <2>6. Len(h.code) + 3 <= Len(h2.code)
    BY <1>1, <2>1, <2>4, <2>5
  <2>7. SameNode(Made(g2, Here(g), x.flags), Made(h2, Here(h), y.flags), Len(h.code))
    BY <2>1, <2>5, <2>6, MadeHere
  <2>8. regbranch(g, group) = Made(g2, Here(g), x.flags)
    BY <1>2, <1>3, <1>5, <1>6, <1>9, <2>2 DEF regbranch
  <2>9. regbranch(h, group) = Made(h2, Here(h), y.flags)
    BY <1>2, <1>3, <1>5, <1>6, <2>1, <2>2 DEF regbranch
  <2>. QED
    BY <2>7, <2>8, <2>9
<1>. QED
  BY <1>8, <1>9

-----------------------------------------------------------------------------
(* Parentheses *)

LEMMA EitherIs ==
  ASSUME NEW x \in SUBSET Flags, NEW y \in SUBSET Flags
  PROVE  Either(x, y) \in SUBSET Flags
BY DEF Either

LEMMA LinkedSame ==
  ASSUME NEW r, NEW t, NEW n \in Nat, SameEnd(r, t, n), r.ok,
         NEW a, NEW b, SameNode(a, b, Len(t.g.code))
  PROVE  SameNode(Linked(r, a), Linked(t, b), n)
<1>1. CASE ~a.ok
  BY <1>1, FailSame DEF Linked, SameNode, SameEnd
<1>2. CASE a.ok
  <2>1. /\ b.ok /\ Same(a.g, b.g) /\ a.flags = b.flags /\ a.flags \in SUBSET Flags
        /\ Len(t.g.code) <= Len(b.g.code)
        /\ a.ret = regdummy /\ b.ret \in 1..Len(b.g.code)
    BY <1>2, NodeParts
  <2>2. /\ t.ok /\ Same(r.g, t.g) /\ r.flags = t.flags /\ r.flags \in SUBSET Flags
        /\ n <= Len(t.g.code)
        /\ \/ r.ret = regdummy /\ r.ret # NULL /\ t.ret \in 1..Len(t.g.code) /\ t.ret # NULL
           \/ r.ret = NULL /\ t.ret = NULL
    BY EndParts
  <2>3. n \in 0..Len(b.g.code) /\ b.ret \in Int
        /\ (t.ret \in 1..Len(t.g.code) => t.ret \in 1..Len(b.g.code))
    <3>1. PICK i \in Nat, j \in Nat : i = Len(t.g.code) /\ j = Len(b.g.code)
      BY <2>1, <2>2, CodeLength
    <3>2. n <= i /\ i <= j /\ b.ret \in 1..j
      BY <2>1, <2>2, <3>1
    <3>3. n \in 0..j /\ 1..i \subseteq 1..j
      BY <3>2
    <3>. QED
      BY <3>1, <3>2, <3>3
  <2>4. PICK fl \in SUBSET Flags : fl = Either(r.flags, a.flags)
    BY <2>1, <2>2, EitherIs
  <2>5. CASE r.ret = NULL
    <3>1. Linked(r, a) = Made(a.g, a.ret, fl) /\ Linked(t, b) = Made(b.g, b.ret, fl)
      BY <1>2, <2>1, <2>2, <2>4, <2>5 DEF Linked
    <3>. QED
      BY <2>1, <2>3, <3>1, MadeSame
  <2>6. CASE r.ret # NULL
    <3>1. PICK h : h = regtail(b.g, t.ret, b.ret)
      OBVIOUS
    <3>2. Same(a.g, h) /\ Len(h.code) = Len(b.g.code)
      BY <2>1, <2>3, <3>1, TailSame
    <3>3. regtail(a.g, r.ret, a.ret) = a.g
      BY <2>2, <2>6, NoTail
    <3>4. Linked(r, a) = Made(a.g, r.ret, fl) /\ Linked(t, b) = Made(h, t.ret, fl)
      BY <1>2, <2>1, <2>2, <2>4, <2>6, <3>1, <3>3 DEF Linked
    <3>. QED
      BY <2>2, <2>3, <2>6, <3>2, <3>4, MadeSame
  <2>. QED
    BY <2>5, <2>6
<1>. QED
  BY <1>1, <1>2

LEMMA NextBranchSame ==
  ASSUME NEW r, NEW t, NEW n \in Nat, SameNode(r, t, n), NEW group, Alike(group)
  PROVE  SameNode(NextBranch(r, group), NextBranch(t, group), n)
<1>1. CASE ~r.ok
  BY <1>1 DEF NextBranch, SameNode, SameEnd
<1>2. CASE r.ok
  <2>1. t.ok /\ Same(r.g, t.g)
    BY <1>2, NodeParts
  <2>2. Char(r.g) = Char(t.g)
    BY <2>1, CharSame
  <2>3. CASE Char(r.g) # "|"
    BY <2>1, <2>2, <2>3 DEF NextBranch
  <2>4. CASE Char(r.g) = "|"
    <3>1. Char(r.g) # NUL
      BY <2>4 DEF NUL
    <3>2. Same(Advance(r.g), Advance(t.g)) /\ Advance(t.g).code = t.g.code
      BY <2>1, <3>1, AdvanceIs
    <3>3. SameNode(regbranch(Advance(r.g), group), regbranch(Advance(t.g), group), Len(t.g.code))
      BY <3>2, BranchSame
    <3>4. SameNode(Linked(r, regbranch(Advance(r.g), group)),
                   Linked(t, regbranch(Advance(t.g), group)), n)
      BY <1>2, <3>3, LinkedSame DEF SameNode
    <3>. QED
      BY <1>2, <2>1, <2>2, <2>4, <3>4 DEF NextBranch
  <2>. QED
    BY <2>3, <2>4
<1>. QED
  BY <1>1, <1>2

IsHook(f, g, br, ender, m) ==
  f = [n \in 0..m |-> IF n = 0 THEN [g |-> g, br |-> br] ELSE Hooked(f[n - 1], ender)]

LEMMA HookExists ==
  ASSUME NEW h, NEW br, NEW ender, NEW m \in Nat
  PROVE  \E f : IsHook(f, h, br, ender, m)
<1> DEFINE G == {i \in 0..m : \E f : IsHook(f, h, br, ender, i)}
<1>1. 0 \in G
  <2>1. PICK x : x = [g |-> h, br |-> br]
    OBVIOUS
  <2>2. PICK f : f = [n \in 0..0 |-> x]
    OBVIOUS
  <2>3. IsHook(f, h, br, ender, 0)
    <3>1. \A n \in 0..0 : x = IF n = 0 THEN [g |-> h, br |-> br] ELSE Hooked(f[n - 1], ender)
      BY <2>1
    <3>. QED
      BY <2>2, <3>1 DEF IsHook
  <2>. QED
    BY <2>3
<1>2. ASSUME NEW i \in 0..(m - 1), i \in G
      PROVE  i + 1 \in G
  <2>1. PICK f : IsHook(f, h, br, ender, i)
    BY <1>2
  <2>2. PICK y : y = Hooked(f[i], ender)
    OBVIOUS
  <2> DEFINE e == [n \in 0..(i + 1) |-> IF n = i + 1 THEN y ELSE f[n]]
  <2>3. ASSUME NEW n \in 0..(i + 1)
        PROVE  e[n] = IF n = 0 THEN [g |-> h, br |-> br] ELSE Hooked(e[n - 1], ender)
    <3>1. CASE n = i + 1
      <4>1. i \in 0..(i + 1) /\ i # i + 1 /\ n - 1 = i /\ n # 0
        BY <3>1
      <4>2. e[n - 1] = f[i] /\ e[n] = y
        BY <3>1, <4>1
      <4>. HIDE DEF e
      <4>. QED
        BY <2>2, <4>1, <4>2
    <3>2. CASE n # i + 1
      <4>1. n \in 0..i /\ e[n] = f[n]
        BY <3>2
      <4>2. f[n] = IF n = 0 THEN [g |-> h, br |-> br] ELSE Hooked(f[n - 1], ender)
        BY <2>1, <4>1 DEF IsHook
      <4>3. n # 0 => n - 1 \in 0..(i + 1) /\ n - 1 # i + 1
        BY <4>1
      <4>4. n # 0 => e[n - 1] = f[n - 1]
        BY <4>3
      <4>. HIDE DEF e
      <4>. QED
        BY <4>1, <4>2, <4>4
    <3>. QED
      BY <3>1, <3>2
  <2>4. IsHook(e, h, br, ender, i + 1)
    <3>1. e = [n \in 0..(i + 1) |-> e[n]]
      OBVIOUS
    <3>. HIDE DEF e
    <3>. QED
      BY <2>3, <3>1 DEF IsHook
  <2>5. i + 1 \in 0..m
    OBVIOUS
  <2>. HIDE DEF e
  <2>. QED
    BY <2>4, <2>5
<1>3. 0..m \subseteq G
  <2>. HIDE DEF G
  <2>. QED
    BY <1>1, <1>2, UpTo
<1>. QED
  BY <1>3

(* Hooking the tails moves nothing, wherever they are.                      *)
LEMMA HookSame ==
  ASSUME NEW g, NEW h, Same(g, h), NEW br, NEW ender \in Int, NEW m \in Nat,
         NEW f, IsHook(f, h, br, ender, m)
  PROVE  Same(g, f[m].g) /\ Len(f[m].g.code) = Len(h.code)
<1>1. f[0] = [g |-> h, br |-> br] /\ \A i \in 0..(m - 1) : f[i + 1] = Hooked(f[i], ender)
  <2>1. ASSUME NEW i \in 0..(m - 1)
        PROVE  f[i + 1] = Hooked(f[i], ender)
    <3>1. i + 1 \in 0..m /\ i + 1 # 0 /\ (i + 1) - 1 = i
      OBVIOUS
    <3>. QED
      BY <3>1 DEF IsHook
  <2>2. 0 \in 0..m
    OBVIOUS
  <2>. QED
    BY <2>1, <2>2 DEF IsHook
<1> DEFINE G == {i \in 0..m : Same(g, f[i].g) /\ Len(f[i].g.code) = Len(h.code)}
<1>2. 0 \in G
  BY <1>1
<1>3. ASSUME NEW i \in 0..(m - 1), i \in G
      PROVE  i + 1 \in G
  <2>1. PICK k : k = f[i] /\ Same(g, k.g) /\ Len(k.g.code) = Len(h.code)
    BY <1>3
  <2>2. PICK y : y = f[i + 1] /\ y = Hooked(k, ender)
    BY <1>1, <2>1
  <2>3. Same(g, y.g) /\ Len(y.g.code) = Len(h.code)
    <3>1. CASE k.br = NULL
      BY <2>1, <2>2, <3>1 DEF Hooked
    <3>2. CASE k.br # NULL
      <4>1. y.g = regoptail(k.g, k.br, ender)
        BY <2>2, <3>2 DEF Hooked
      <4>. QED
        BY <2>1, <4>1, OpTailSame
    <3>. QED
      BY <3>1, <3>2
  <2>4. i + 1 \in 0..m
    OBVIOUS
  <2>. QED
    BY <2>2, <2>3, <2>4
<1>4. 0..m \subseteq G
  <2>. HIDE DEF G
  <2>. QED
    BY <1>2, <1>3, UpTo
<1>. QED
  BY <1>4

LEMMA HookTailsSame ==
  ASSUME NEW g, NEW h, Same(g, h), NEW p, NEW br, NEW e, NEW ender \in Int
  PROVE  /\ Same(HookTails(g, p, e), HookTails(h, br, ender))
         /\ Len(HookTails(h, br, ender).code) = Len(h.code)
<1>1. ASSUME NEW k, NEW q, NEW d, Len(k.code) \in Nat
      PROVE  \E f : IsHook(f, k, q, d, Len(k.code)) /\ HookTails(k, q, d) = f[Len(k.code)].g
  <2> DEFINE f == CHOOSE c : IsHook(c, k, q, d, Len(k.code))
  <2>1. \E c : IsHook(c, k, q, d, Len(k.code))
    BY <1>1, HookExists
  <2>2. IsHook(f, k, q, d, Len(k.code))
    BY <2>1
  <2>3. HookTails(k, q, d) = f[Len(k.code)].g
    BY DEF HookTails, IsHook
  <2>. HIDE DEF f
  <2>. QED
    BY <2>2, <2>3
<1>2. Len(g.code) = 0 /\ Len(h.code) \in Nat
  BY CodeLength DEF Same
<1>3. HookTails(g, p, e) = g
  <2>1. PICK f : IsHook(f, g, p, e, 0) /\ HookTails(g, p, e) = f[0].g
    BY <1>1, <1>2
  <2>2. f[0] = [g |-> g, br |-> p]
    BY <2>1 DEF IsHook
  <2>. QED
    BY <2>1, <2>2
<1>4. Same(g, HookTails(h, br, ender)) /\ Len(HookTails(h, br, ender).code) = Len(h.code)
  BY <1>1, <1>2, HookSame
<1>. QED
  BY <1>3, <1>4

LEMMA TerminatedSame ==
  ASSUME NEW a, NEW b, NEW n, SameNode(a, b, n), a.ok, NEW paren \in BOOLEAN
  PROVE  SameNode(Terminated(a, paren), Terminated(b, paren), n)
<1>1. /\ b.ok /\ Same(a.g, b.g) /\ a.flags = b.flags /\ a.flags \in SUBSET Flags
      /\ n <= Len(b.g.code) /\ a.ret = regdummy /\ b.ret \in 1..Len(b.g.code)
  BY NodeParts
<1>2. Char(a.g) = Char(b.g)
  BY <1>1, CharSame
<1>3. PICK c : c = IF paren THEN ")" ELSE NUL
  OBVIOUS
<1>4. CASE Char(a.g) # c
  BY <1>2, <1>3, <1>4, FailSame DEF Terminated
<1>5. CASE Char(a.g) = c /\ ~paren
  BY <1>2, <1>3, <1>5 DEF Terminated
<1>6. CASE Char(a.g) = c /\ paren
  <2>1. Char(a.g) # NUL
    BY <1>3, <1>6 DEF NUL
  <2>2. PICK g1, h1 : g1 = Advance(a.g) /\ h1 = Advance(b.g)
    OBVIOUS
  <2>3. Same(g1, h1) /\ Len(h1.code) = Len(b.g.code)
    BY <1>1, <2>1, <2>2, AdvanceIs
  <2>4. PICK x, y : x = [a EXCEPT !.g = g1] /\ y = [b EXCEPT !.g = h1]
    OBVIOUS
  <2>5. Terminated(a, paren) = x /\ Terminated(b, paren) = y
    BY <1>2, <1>3, <1>6, <2>2, <2>4 DEF Terminated
  <2>6. /\ a \in [ok : {TRUE}, g : Passes, ret : Int, flags : SUBSET Flags]
        /\ b \in [ok : {TRUE}, g : Passes, ret : Int, flags : SUBSET Flags]
    <3>1. FAIL.ok = FALSE
      BY DEF FAIL
    <3>. QED
      BY <1>1, <3>1 DEF SameNode, SameEnd, Outcomes
  <2>7. g1 \in Passes /\ h1 \in Passes
    BY <2>3, CodeLength
  <2>8. /\ x \in Outcomes /\ x.ok /\ x.g = g1 /\ x.ret = a.ret /\ x.flags = a.flags
        /\ y \in Outcomes /\ y.ok /\ y.g = h1 /\ y.ret = b.ret /\ y.flags = b.flags
    BY <2>4, <2>6, <2>7 DEF Outcomes
  <2>9. regdummy # NULL
    BY DEF regdummy, NULL
  <2>. QED
    BY <1>1, <2>3, <2>5, <2>8, <2>9 DEF SameNode, SameEnd
<1>. QED
  BY <1>4, <1>5, <1>6

LEMMA ClosedSame ==
  ASSUME NEW a, NEW b, NEW n \in Nat, SameNode(a, b, n), a.ok, NEW paren \in BOOLEAN
  PROVE  SameNode(Closed(a, paren), Closed(b, paren), n)
<1>1. /\ Same(a.g, b.g) /\ a.flags = b.flags /\ a.flags \in SUBSET Flags
      /\ n <= Len(b.g.code) /\ a.ret = regdummy /\ b.ret \in 1..Len(b.g.code)
  BY NodeParts
<1>2. PICK op \in Opcodes : op = IF paren THEN "CLOSE" ELSE "END"
  BY DEF Opcodes
<1>3. PICK g1, h1 : g1 = NodeTail(a.g, a.ret, op) /\ h1 = NodeTail(b.g, b.ret, op)
  OBVIOUS
<1>4. Same(g1, h1) /\ Grown(b.g, h1)
  BY <1>1, <1>3, NodeTailGrown
<1>5. PICK g2, h2 : g2 = HookTails(g1, a.ret, Here(a.g)) /\ h2 = HookTails(h1, b.ret, Here(b.g))
  OBVIOUS
<1>6. Same(g2, h2) /\ Len(h2.code) = Len(h1.code)
  <2>1. Here(b.g) \in Int
    BY <1>1, HereIs
  <2>. QED
    BY <1>4, <1>5, <2>1, HookTailsSame
<1>7. b.ret \in 1..Len(h2.code) /\ n \in 0..Len(h2.code)
  <2>1. Len(b.g.code) \in Nat /\ Len(h1.code) \in Nat /\ Len(b.g.code) <= Len(h1.code)
    BY <1>1, <1>4, CodeLength DEF Grown
  <2>. QED
    BY <1>1, <1>6, <2>1
<1>8. SameNode(Made(g2, a.ret, a.flags), Made(h2, b.ret, b.flags), n)
  BY <1>1, <1>6, <1>7, MadeSame
<1>9. Closed(a, paren) = Made(g2, a.ret, a.flags) /\ Closed(b, paren) = Made(h2, b.ret, b.flags)
  BY <1>2, <1>3, <1>5 DEF Closed
<1>. QED
  BY <1>8, <1>9

-----------------------------------------------------------------------------
(* The whole pattern *)

(* What reg() starts with: an opening node, or nothing.                     *)
Opened(g, paren) == IF paren THEN regnode([g EXCEPT !.npar = @ + 1], "OPEN") ELSE g

Open(g, paren) ==
  Made(Opened(g, paren), IF paren THEN Here(g) ELSE NULL, {"HASWIDTH"})

LEMMA OpenSame ==
  ASSUME NEW g, NEW h, Same(g, h), NEW paren \in BOOLEAN
  PROVE  /\ SameEnd(Open(g, paren), Open(h, paren), Len(h.code))
         /\ Open(g, paren).ok
         /\ Same(Opened(g, paren), Opened(h, paren))
         /\ Open(h, paren).g = Opened(h, paren)
<1>1. {"HASWIDTH"} \in SUBSET Flags
  BY DEF Flags
<1>2. Len(h.code) \in Nat
  BY CodeLength
<1>3. CASE paren
  <2>1. PICK g1, h1 : g1 = [g EXCEPT !.npar = @ + 1] /\ h1 = [h EXCEPT !.npar = @ + 1]
    OBVIOUS
  <2>2. Same(g1, h1) /\ h1.code = h.code
    <3>1. PICK m \in Nat : m = g.npar /\ m = h.npar
      BY DEF Same, Passes
    <3>2. PICK k \in Nat : k = m + 1
      OBVIOUS
    <3>3. g1 = [g EXCEPT !.npar = k] /\ h1 = [h EXCEPT !.npar = k]
      BY <2>1, <3>1, <3>2
    <3>. QED
      BY <3>3 DEF Same, Passes
  <2>3. PICK g2, h2 : g2 = regnode(g1, "OPEN") /\ h2 = regnode(h1, "OPEN")
    OBVIOUS
  <2>4. Same(g2, h2) /\ Len(h2.code) = Len(h.code) + 3
    <3>1. "OPEN" \in Opcodes
      BY DEF Opcodes
    <3>. QED
      BY <2>2, <2>3, <3>1, NodeSame
  <2>5. Len(h.code) + 3 <= Len(h2.code)
    BY <1>2, <2>4
  <2>6. SameNode(Made(g2, Here(g), {"HASWIDTH"}), Made(h2, Here(h), {"HASWIDTH"}), Len(h.code))
    BY <1>1, <2>4, <2>5, MadeHere
  <2>7. /\ Opened(g, paren) = g2 /\ Opened(h, paren) = h2
        /\ Open(g, paren) = Made(g2, Here(g), {"HASWIDTH"})
        /\ Open(h, paren) = Made(h2, Here(h), {"HASWIDTH"})
    BY <1>3, <2>1, <2>3 DEF Open, Opened
  <2>8. Open(g, paren).ok /\ Open(h, paren).g = h2
    BY <2>7 DEF Made
  <2>. QED
    BY <2>4, <2>6, <2>7, <2>8 DEF SameNode
<1>4. CASE ~paren
  <2>1. /\ Opened(g, paren) = g /\ Opened(h, paren) = h
        /\ Open(g, paren) = Made(g, NULL, {"HASWIDTH"})
        /\ Open(h, paren) = Made(h, NULL, {"HASWIDTH"})
    BY <1>4 DEF Open, Opened
  <2>2. g \in Passes /\ h \in Passes /\ NULL \in Int
    BY CodeLength DEF NULL
  <2>3. PICK a, b : a = Open(g, paren) /\ b = Open(h, paren)
    OBVIOUS
  <2>4. /\ a \in Outcomes /\ a.ok /\ a.g = g /\ a.ret = NULL /\ a.flags = {"HASWIDTH"}
        /\ b \in Outcomes /\ b.ok /\ b.g = h /\ b.ret = NULL /\ b.flags = {"HASWIDTH"}
    BY <1>1, <2>1, <2>2, <2>3, MadeIs
  <2>5. SameEnd(a, b, Len(h.code))
    BY <1>2, <2>4 DEF SameEnd
  <2>. QED
    BY <2>1, <2>3, <2>4, <2>5
<1>. QED
  BY <1>3, <1>4

LEMMA RegSame ==
  ASSUME NEW g, NEW h, Same(g, h), NEW group, Alike(group), NEW paren \in BOOLEAN
  PROVE  SameNode(reg(g, paren, group), reg(h, paren, group), Len(h.code))
<1> DEFINE f == [r \in Outcomes |-> NextBranch(r, group)]
<1>1. PICK n \in Nat : n = Len(h.code)
  BY CodeLength
<1>2. PICK g1, h1 : g1 = Opened(g, paren) /\ h1 = Opened(h, paren)
  OBVIOUS
<1>3. PICK a, b : /\ a = Linked(Open(g, paren), regbranch(g1, group))
                  /\ b = Linked(Open(h, paren), regbranch(h1, group))
  OBVIOUS
<1>4. SameNode(a, b, n)
  <2>1. Same(g1, h1) /\ Open(h, paren).g = h1
    BY <1>2, OpenSame
  <2>2. SameNode(regbranch(g1, group), regbranch(h1, group), Len(h1.code))
    BY <2>1, BranchSame
  <2>3. SameEnd(Open(g, paren), Open(h, paren), n) /\ Open(g, paren).ok
    BY <1>1, OpenSame
  <2>. QED
    BY <1>3, <2>1, <2>2, <2>3, LinkedSame
<1>5. PICK k \in Nat : k = Len(g.rest) /\ k = Len(h.rest)
  BY CodeLength
<1> DEFINE R == {z \in Outcomes \X Outcomes : SameNode(z[1], z[2], n)}
<1>6. PICK x, y : x = Iterated(f, a, k) /\ y = Iterated(f, b, k)
  OBVIOUS
<1>7. SameNode(x, y, n)
  <2>1. ASSUME NEW z \in R
        PROVE  <<f[z[1]], f[z[2]]>> \in R
    <3>1. PICK r \in Outcomes, t \in Outcomes : z = <<r, t>> /\ SameNode(r, t, n)
      OBVIOUS
    <3>2. f[r] = NextBranch(r, group) /\ f[t] = NextBranch(t, group)
      OBVIOUS
    <3>3. SameNode(NextBranch(r, group), NextBranch(t, group), n)
      BY <3>1, NextBranchSame
    <3>4. NextBranch(r, group) \in Outcomes /\ NextBranch(t, group) \in Outcomes
      BY <3>3 DEF SameNode, SameEnd
    <3>5. z[1] = r /\ z[2] = t
      BY <3>1
    <3>. HIDE DEF f
    <3>. QED
      BY <3>2, <3>3, <3>4, <3>5
  <2>2. <<a, b>> \in R
    BY <1>4 DEF SameNode, SameEnd
  <2>3. \A u, v : <<u, v>> \in R => SameNode(u, v, n)
    OBVIOUS
  <2>. HIDE DEF f, R
  <2>4. <<Iterated(f, a, k), Iterated(f, b, k)>> \in R
    BY <2>1, <2>2, LoopSame
  <2>. QED
    BY <1>6, <2>3, <2>4
<1>8. /\ reg(g, paren, group) = IF (paren /\ g.npar >= NSUBEXP) \/ ~x.ok THEN FAIL
                                ELSE Terminated(Closed(x, paren), paren)
      /\ reg(h, paren, group) = IF (paren /\ h.npar >= NSUBEXP) \/ ~y.ok THEN FAIL
                                ELSE Terminated(Closed(y, paren), paren)
  BY <1>2, <1>3, <1>5, <1>6 DEF reg, Open, Opened
<1>9. x.ok = y.ok /\ g.npar = h.npar
  BY <1>7 DEF SameNode, SameEnd, Same
<1>10. CASE (paren /\ g.npar >= NSUBEXP) \/ ~x.ok
  BY <1>8, <1>9, <1>10, FailSame
<1>11. CASE ~((paren /\ g.npar >= NSUBEXP) \/ ~x.ok)
  <2>1. SameNode(Closed(x, paren), Closed(y, paren), n)
    BY <1>7, <1>11, ClosedSame
  <2>2. Closed(x, paren).ok
    BY DEF Closed, Made
  <2>3. SameNode(Terminated(Closed(x, paren), paren), Terminated(Closed(y, paren), paren), n)
    BY <2>1, <2>2, TerminatedSame
  <2>. QED
    BY <1>1, <1>8, <1>9, <1>11, <2>3
<1>. QED
  BY <1>10, <1>11

(* However deep the parentheses are nested.                                 *)
LEMMA GroupsAlike ==
  ASSUME NEW m \in 0..NSUBEXP
  PROVE  Alike(Group[m])
<1>0. NSUBEXP \in Nat
  BY RegexpAssumption
<1> DEFINE G == {i \in 0..NSUBEXP : Alike(Group[i])}
<1>1. 0 \in G
  <2>1. 0 \in 0..NSUBEXP
    BY <1>0
  <2>2. \A g \in Passes : Group[0][g] = FAIL
    <3>1. PICK n \in 0..NSUBEXP : n = 0
      BY <2>1
    <3>2. Group[n] = [g \in Passes |-> IF n = 0 THEN FAIL ELSE reg(g, TRUE, Group[n - 1])]
      BY GroupIs
    <3>. QED
      BY <3>1, <3>2
  <2>. QED
    BY <2>1, <2>2, CodeLength, FailSame DEF Alike
<1>2. ASSUME NEW i \in 0..(NSUBEXP - 1), i \in G
      PROVE  i + 1 \in G
  <2>1. i + 1 \in 0..NSUBEXP /\ i + 1 # 0 /\ (i + 1) - 1 = i
    BY <1>0
  <2>2. \A g \in Passes : Group[i + 1][g] = reg(g, TRUE, Group[i])
    <3>1. PICK n \in 0..NSUBEXP : n = i + 1 /\ n # 0 /\ n - 1 = i
      BY <2>1
    <3>2. Group[n] = [g \in Passes |-> IF n = 0 THEN FAIL ELSE reg(g, TRUE, Group[n - 1])]
      BY GroupIs
    <3>. QED
      BY <3>1, <3>2
  <2>3. Alike(Group[i])
    BY <1>2
  <2>4. ASSUME NEW g, NEW h, Same(g, h)
        PROVE  SameNode(Group[i + 1][g], Group[i + 1][h], Len(h.code))
    <3>1. SameNode(reg(g, TRUE, Group[i]), reg(h, TRUE, Group[i]), Len(h.code))
      BY <2>3, <2>4, RegSame
    <3>2. g \in Passes /\ h \in Passes
      BY <2>4, CodeLength
    <3>. QED
      BY <2>2, <3>1, <3>2
  <2>5. Alike(Group[i + 1])
    BY <2>4 DEF Alike
  <2>. QED
    BY <2>1, <2>5
<1>3. 0..NSUBEXP \subseteq G
  <2>. HIDE DEF G
  <2>. QED
    BY <1>0, <1>1, <1>2, UpTo
<1>. QED
  BY <1>3

LEMMA CompileSame ==
  ASSUME exp \in Seq(Tokens)
  PROVE  /\ Compile(FALSE).ok \in BOOLEAN
         /\ Compile(FALSE).ok => /\ Compile(TRUE).ok
                                 /\ Compile(TRUE).g.code \in Seq(Cells)
                                 /\ Compile(FALSE).g.size = Len(Compile(TRUE).g.code)
<1>1. Same(Pass(FALSE), Pass(TRUE))
  BY DEF Pass, Same, Passes
<1>2. <<Cell("MAGIC")>> \in Seq(Cells)
  BY DEF Cell, Cells, Bytes
<1>3. PICK g, h : g = Emit(Pass(FALSE), <<Cell("MAGIC")>>) /\ h = Emit(Pass(TRUE), <<Cell("MAGIC")>>)
  OBVIOUS
<1>4. Same(g, h)
  BY <1>1, <1>2, <1>3, EmitSame
<1>5. NSUBEXP \in 0..NSUBEXP
  BY RegexpAssumption
<1>6. SameNode(reg(g, FALSE, Group[NSUBEXP]), reg(h, FALSE, Group[NSUBEXP]), Len(h.code))
  BY <1>4, <1>5, GroupsAlike, RegSame
<1>7. PICK a, b : a = Compile(FALSE) /\ b = Compile(TRUE)
  OBVIOUS
<1>8. SameNode(a, b, Len(h.code))
  BY <1>3, <1>6, <1>7 DEF Compile
<1>9. a.ok \in BOOLEAN
  BY <1>8, OutcomeIs DEF SameNode, SameEnd
<1>10. a.ok => b.ok /\ b.g.code \in Seq(Cells) /\ a.g.size = Len(b.g.code)
  BY <1>8, NodeParts DEF Same, Passes
<1>. QED
  BY <1>7, <1>9, <1>10

-----------------------------------------------------------------------------
(* The memory *)

(* Before the second pass there is no code, and the size is what the first  *)
(* one has found.                                                           *)
SizeInv ==
  /\ exp \in Patterns
  /\ pc \in {"size", "emit"} => code = <<>>
  /\ pc = "emit" => Compile(FALSE).ok /\ size = Compile(FALSE).g.size
  /\ SizeExact

LEMMA SizeInit == Init => SizeInv
BY DEF Init, SizeInv, SizeExact

LEMMA SizeStep ==
  ASSUME SizeInv, [Next]_vars
  PROVE  SizeInv'
<1>0. exp \in Seq(Tokens)
  BY RegexpAssumption DEF SizeInv
<1>1. CASE SizePass
  <2>1. exp' = exp /\ code' = <<>> /\ code = <<>>
    BY <1>1 DEF SizePass, SizeInv
  <2>2. pc' = "emit" => Compile(FALSE).ok /\ size' = Compile(FALSE).g.size
    BY <1>1 DEF SizePass
  <2>3. Compile(FALSE)' = Compile(FALSE)
    BY <2>1 DEF Compile, Pass
  <2>. QED
    BY <2>1, <2>2, <2>3 DEF SizeInv, SizeExact
<1>2. CASE NoMemory
  BY <1>2 DEF NoMemory, SizeInv, SizeExact
<1>3. CASE EmitPass
  <2>1. exp' = exp /\ size' = size /\ pc' = "dig" /\ code' = Compile(TRUE).g.code
    BY <1>3 DEF EmitPass
  <2>2. Compile(FALSE).ok /\ size = Compile(FALSE).g.size
    BY <1>3 DEF EmitPass, SizeInv
  <2>3. Len(code') = size'
    BY <1>0, <2>1, <2>2, CompileSame
  <2>. QED
    BY <2>1, <2>3 DEF SizeInv, SizeExact
<1>4. CASE Dig \/ Exec \/ Must \/ TryOnce \/ TryStart \/ TryEverywhere
  <2>1. exp' = exp /\ size' = size /\ code' = code
    BY <1>4 DEF Dig, Exec, Must, TryOnce, TryStart, TryEverywhere
  <2>2. pc' \notin {"size", "emit"}
    BY <1>4 DEF Dig, Exec, Must, TryOnce, TryStart, TryEverywhere, Answer, Try
  <2>. QED
    BY <2>1, <2>2 DEF SizeInv, SizeExact
<1>5. CASE UNCHANGED vars
  <2>1. exp' = exp /\ size' = size /\ code' = code /\ pc' = pc
    BY <1>5 DEF vars
  <2>2. Compile(FALSE)' = Compile(FALSE)
    BY <2>1 DEF Compile, Pass
  <2>. QED
    BY <2>1, <2>2 DEF SizeInv, SizeExact
<1>. QED
  BY <1>1, <1>2, <1>3, <1>4, <1>5 DEF Next

(* The second pass of regcomp() fills the memory allocated after the first  *)
(* one exactly, whatever the pattern is and however deep its groups are     *)
(* nested.                                                                  *)
THEOREM FillsItsMemory == Spec => []SizeExact
<1>1. SizeInv /\ [Next]_vars => SizeInv'
  BY SizeStep
<1>2. SizeInv => SizeExact
  BY DEF SizeInv
<1>. QED
  BY SizeInit, <1>1, <1>2, PTL DEF Spec

-----------------------------------------------------------------------------
(* Functions that are defined by recursion over what is smaller *)

(* Body[<<f, p>>] depends on f only for what is smaller than p.             *)
Descends(Body, S, V, measure) ==
  /\ V # {}
  /\ measure \in [S -> Nat]
  /\ Body \in [[S -> V] \X S -> V]
  /\ \A f, h \in [S -> V], p \in S :
       (\A q \in S : measure[q] < measure[p] => f[q] = h[q]) => Body[<<f, p>>] = Body[<<h, p>>]

Solvable(Body, S, V) == \E f \in [S -> V] : \A p \in S : f[p] = Body[<<f, p>>]

(* Then there is a function with f[p] = Body[<<f, p>>].                     *)
LEMMA Recursion ==
  ASSUME NEW S, NEW V, NEW measure, NEW Body, Descends(Body, S, V, measure)
  PROVE  Solvable(Body, S, V)
<1>. /\ V # {}
     /\ measure \in [S -> Nat]
     /\ Body \in [[S -> V] \X S -> V]
  BY DEF Descends
<1>0. PICK v \in V : TRUE
  OBVIOUS
<1> DEFINE F == [f \in [S -> V] |-> [p \in S |-> Body[<<f, p>>]]]
           x == [p \in S |-> v]
           a(n) == Iterated(F, x, n)
<1>1. ASSUME NEW f \in [S -> V]
      PROVE  F[f] \in [S -> V] /\ \A p \in S : F[f][p] = Body[<<f, p>>]
  OBVIOUS
<1>2. x \in [S -> V]
  OBVIOUS
<1>. HIDE DEF F, x
<1>3. a(0) = x /\ \A n \in Nat : a(n + 1) = F[a(n)]
  BY IteratedIs
<1>. HIDE DEF a
<1>4. ASSUME NEW n \in Nat
      PROVE  a(n) \in [S -> V]
  <2> DEFINE G == {i \in 0..n : a(i) \in [S -> V]}
  <2>1. 0 \in G
    BY <1>2, <1>3
  <2>2. ASSUME NEW i \in 0..(n - 1), i \in G
        PROVE  i + 1 \in G
    <3>1. i \in Nat /\ i + 1 \in 0..n
      OBVIOUS
    <3>. QED
      BY <1>1, <1>3, <2>2, <3>1
  <2>3. 0..n \subseteq G
    <3>. HIDE DEF G
    <3>. QED
      BY <2>1, <2>2, UpTo
  <2>. QED
    BY <2>3
<1>5. ASSUME NEW n \in Nat, NEW p \in S, measure[p] < n
      PROVE  a(n + 1)[p] = a(n)[p]
  <2> DEFINE G == {i \in 0..n : \A q \in S : measure[q] < i => a(i + 1)[q] = a(i)[q]}
  <2>1. 0 \in G
    OBVIOUS
  <2>2. ASSUME NEW i \in 0..(n - 1), i \in G
        PROVE  i + 1 \in G
    <3>1. i \in Nat /\ i + 1 \in 0..n
      OBVIOUS
    <3>2. ASSUME NEW q \in S, measure[q] < i + 1
          PROVE  a((i + 1) + 1)[q] = a(i + 1)[q]
      <4>1. PICK f, h : f = a(i) /\ h = a(i + 1)
        OBVIOUS
      <4>2. f \in [S -> V] /\ h \in [S -> V]
        BY <1>4, <3>1, <4>1
      <4>3. \A t \in S : measure[t] < measure[q] => h[t] = f[t]
        <5>1. ASSUME NEW t \in S, measure[t] < measure[q]
              PROVE  h[t] = f[t]
          <6>1. measure[t] < i
            BY <3>1, <3>2, <5>1
          <6>. QED
            BY <2>2, <4>1, <6>1
        <5>. QED
          BY <5>1
      <4>4. a(i + 1)[q] = Body[<<f, q>>] /\ a((i + 1) + 1)[q] = Body[<<h, q>>]
        <5>1. i + 1 \in Nat
          BY <3>1
        <5>2. a(i + 1) = F[f] /\ a((i + 1) + 1) = F[h]
          BY <1>3, <3>1, <4>1, <5>1
        <5>3. F[f][q] = Body[<<f, q>>] /\ F[h][q] = Body[<<h, q>>]
          BY <1>1, <4>2
        <5>. QED
          BY <5>2, <5>3
      <4>5. Body[<<h, q>>] = Body[<<f, q>>]
        BY <4>2, <4>3 DEF Descends
      <4>. QED
        BY <4>4, <4>5
    <3>. QED
      BY <3>1, <3>2
  <2>3. 0..n \subseteq G
    <3>. HIDE DEF G
    <3>. QED
      BY <2>1, <2>2, UpTo
  <2>. QED
    BY <1>5, <2>3
<1>6. ASSUME NEW p \in S, NEW k \in Nat, NEW n \in 0..k, measure[p] < n
      PROVE  a(k)[p] = a(n)[p]
  <2> DEFINE G == {i \in 0..k : i >= n => a(i)[p] = a(n)[p]}
  <2>1. 0 \in G
    BY <1>6
  <2>2. ASSUME NEW i \in 0..(k - 1), i \in G
        PROVE  i + 1 \in G
    <3>1. i \in Nat /\ i + 1 \in 0..k
      OBVIOUS
    <3>2. CASE i >= n
      <4>1. measure[p] < i
        BY <1>6, <3>1, <3>2
      <4>2. a(i + 1)[p] = a(i)[p]
        BY <1>5, <3>1, <4>1
      <4>. QED
        BY <2>2, <3>1, <3>2, <4>2
    <3>3. CASE i < n
      <4>1. i + 1 >= n => i + 1 = n
        BY <3>3
      <4>. QED
        BY <3>1, <4>1
    <3>. QED
      BY <3>2, <3>3
  <2>3. 0..k \subseteq G
    <3>. HIDE DEF G
    <3>. QED
      BY <2>1, <2>2, UpTo
  <2>4. k \in G
    BY <2>3
  <2>. QED
    BY <2>4
<1> DEFINE f == [p \in S |-> a(measure[p] + 1)[p]]
<1>7. f \in [S -> V]
  <2>1. ASSUME NEW p \in S
        PROVE  a(measure[p] + 1)[p] \in V
    <3>1. measure[p] + 1 \in Nat
      OBVIOUS
    <3>. QED
      BY <1>4, <3>1
  <2>. QED
    BY <2>1
<1>8. ASSUME NEW p \in S
      PROVE  f[p] = Body[<<f, p>>]
  <2>1. PICK k \in Nat : k = measure[p]
    OBVIOUS
  <2>2. PICK h : h = a(k)
    OBVIOUS
  <2>3. h \in [S -> V]
    BY <1>4, <2>2
  <2>4. f[p] = Body[<<h, p>>]
    <3>1. f[p] = a(k + 1)[p]
      BY <2>1
    <3>2. a(k + 1) = F[h]
      BY <1>3, <2>2
    <3>. HIDE DEF f
    <3>. QED
      BY <1>1, <2>3, <3>1, <3>2
  <2>5. ASSUME NEW q \in S, measure[q] < measure[p]
        PROVE  f[q] = h[q]
    <3>1. measure[q] + 1 \in 0..k /\ measure[q] < measure[q] + 1
      BY <2>1, <2>5
    <3>2. a(k)[q] = a(measure[q] + 1)[q]
      BY <1>6, <3>1
    <3>3. f[q] = a(measure[q] + 1)[q]
      OBVIOUS
    <3>. HIDE DEF f
    <3>. QED
      BY <2>2, <3>2, <3>3
  <2>. HIDE DEF f
  <2>6. Body[<<f, p>>] = Body[<<h, p>>]
    BY <1>7, <2>3, <2>5 DEF Descends
  <2>. QED
    BY <2>4, <2>6
<1>. HIDE DEF f
<1>. QED
  BY <1>7, <1>8 DEF Solvable

-----------------------------------------------------------------------------
(* Parentheses in a pattern *)

LEMMA MinIs ==
  ASSUME NEW n \in Nat, NEW B \in SUBSET (1..n), B # {}
  PROVE  Min(B) \in B /\ Min(B) \in 1..n /\ \A k \in B : Min(B) <= k
<1>1. PICK a \in B : \A i \in 0..(a - 1) : i \notin B
  <2>1. B \in SUBSET (0..n)
    OBVIOUS
  <2>. QED
    BY <2>1, LeastIndex
<1>2. \A k \in B : a <= k
  <2>1. SUFFICES ASSUME NEW k \in B, k < a
                 PROVE  FALSE
    OBVIOUS
  <2>2. k \in 0..(a - 1)
    BY <2>1
  <2>. QED
    BY <1>1, <2>2
<1>3. \E x \in B : \A y \in B : x <= y
  BY <1>2
<1>. QED
  BY <1>3 DEF Min

(* how many "(" are among the first k tokens *)
Opens(p, k) == Count(SubSeq(p, 1, k), "(")

LEMMA CountIs ==
  ASSUME NEW p \in Seq(Tokens), NEW tok, NEW k \in 0..Len(p)
  PROVE  Count(SubSeq(p, 1, k), tok) = Cardinality({i \in 1..k : p[i] = tok})
<1>1. PICK q : q = SubSeq(p, 1, k)
  OBVIOUS
<1>2. Len(q) = k /\ \A i \in 1..k : q[i] = p[i]
  BY <1>1
<1>3. {i \in 1..Len(q) : q[i] = tok} = {i \in 1..k : p[i] = tok}
  BY <1>2
<1>. QED
  BY <1>1, <1>3 DEF Count

LEMMA CountStep ==
  ASSUME NEW p \in Seq(Tokens), NEW tok
  PROVE  /\ Count(SubSeq(p, 1, 0), tok) = 0
         /\ \A k \in 0..Len(p) : Count(SubSeq(p, 1, k), tok) \in Nat
         /\ \A k \in 1..Len(p) :
              Count(SubSeq(p, 1, k), tok) =
                Count(SubSeq(p, 1, k - 1), tok) + (IF p[k] = tok THEN 1 ELSE 0)
<1> DEFINE A(k) == {i \in 1..k : p[i] = tok}
<1>1. \A k \in 0..Len(p) : IsFiniteSet(A(k))
  <2>1. ASSUME NEW k \in 0..Len(p)
        PROVE  IsFiniteSet(A(k))
    <3>1. IsFiniteSet(1..k)
      BY FS_Interval
    <3>2. A(k) \subseteq 1..k
      OBVIOUS
    <3>. QED
      BY <3>1, <3>2, FS_Subset
  <2>. QED
    BY <2>1
<1>2. \A k \in 0..Len(p) : Count(SubSeq(p, 1, k), tok) = Cardinality(A(k))
  BY CountIs
<1>3. \A k \in 0..Len(p) : Count(SubSeq(p, 1, k), tok) \in Nat
  BY <1>1, <1>2, FS_CardinalityType
<1>4. Count(SubSeq(p, 1, 0), tok) = 0
  <2>1. A(0) = {} /\ 0 \in 0..Len(p)
    OBVIOUS
  <2>. QED
    BY <1>2, <2>1, FS_EmptySet
<1>5. ASSUME NEW k \in 1..Len(p)
      PROVE  Count(SubSeq(p, 1, k), tok) =
               Count(SubSeq(p, 1, k - 1), tok) + (IF p[k] = tok THEN 1 ELSE 0)
  <2>1. k \in 0..Len(p) /\ k - 1 \in 0..Len(p)
    OBVIOUS
  <2>2. CASE p[k] = tok
    <3>1. A(k) = A(k - 1) \cup {k} /\ k \notin A(k - 1)
      BY <2>2
    <3>2. Cardinality(A(k)) = Cardinality(A(k - 1)) + 1
      <4>. HIDE DEF A
      <4>. QED
        BY <1>1, <2>1, <3>1, FS_AddElement
    <3>. QED
      BY <1>2, <2>1, <2>2, <3>2
  <2>3. CASE p[k] # tok
    <3>1. A(k) = A(k - 1)
      BY <2>3
    <3>2. Count(SubSeq(p, 1, k), tok) = Count(SubSeq(p, 1, k - 1), tok)
      BY <1>2, <2>1, <3>1
    <3>3. Count(SubSeq(p, 1, k - 1), tok) \in Nat
      BY <1>3, <2>1
    <3>. QED
      BY <2>3, <3>2, <3>3
  <2>. QED
    BY <2>2, <2>3
<1>. QED
  BY <1>3, <1>4, <1>5

LEMMA DepthStep ==
  ASSUME NEW p \in Seq(Tokens)
  PROVE  /\ Depth(p, 1) = 0
         /\ \A k \in 1..(Len(p) + 1) : Depth(p, k) \in Int
         /\ \A k \in 1..Len(p) :
              Depth(p, k + 1) = CASE p[k] = "(" -> Depth(p, k) + 1
                                  [] p[k] = ")" -> Depth(p, k) - 1
                                  [] OTHER      -> Depth(p, k)
<1> DEFINE a(k) == Count(SubSeq(p, 1, k), "(")
           b(k) == Count(SubSeq(p, 1, k), ")")
<1>1. /\ a(0) = 0 /\ b(0) = 0
      /\ \A k \in 0..Len(p) : a(k) \in Nat /\ b(k) \in Nat
      /\ \A k \in 1..Len(p) : /\ a(k) = a(k - 1) + (IF p[k] = "(" THEN 1 ELSE 0)
                              /\ b(k) = b(k - 1) + (IF p[k] = ")" THEN 1 ELSE 0)
  BY CountStep
<1>2. \A k : Depth(p, k) = a(k - 1) - b(k - 1)
  BY DEF Depth
<1>3. PICK n \in Nat : n = Len(p)
  OBVIOUS
<1>. HIDE DEF a, b
<1>4. Depth(p, 1) = 0
  BY <1>1, <1>2
<1>5. ASSUME NEW k \in 1..(n + 1)
      PROVE  Depth(p, k) \in Int
  <2>1. k - 1 \in 0..n
    OBVIOUS
  <2>. QED
    BY <1>1, <1>2, <1>3, <2>1
<1>6. ASSUME NEW k \in 1..n
      PROVE  Depth(p, k + 1) = CASE p[k] = "(" -> Depth(p, k) + 1
                                 [] p[k] = ")" -> Depth(p, k) - 1
                                 [] OTHER      -> Depth(p, k)
  <2>1. (k + 1) - 1 = k /\ k - 1 \in 0..n
    OBVIOUS
  <2>2. Depth(p, k + 1) = a(k) - b(k) /\ Depth(p, k) = a(k - 1) - b(k - 1)
    BY <1>2, <2>1
  <2>3. a(k - 1) \in Nat /\ b(k - 1) \in Nat
    BY <1>1, <1>3, <2>1
  <2>4. /\ a(k) = a(k - 1) + (IF p[k] = "(" THEN 1 ELSE 0)
        /\ b(k) = b(k - 1) + (IF p[k] = ")" THEN 1 ELSE 0)
    BY <1>1, <1>3
  <2>5. PICK x \in Nat, y \in Nat : x = a(k - 1) /\ y = b(k - 1) /\ Depth(p, k) = x - y
    BY <2>2, <2>3
  <2>6. CASE p[k] = "("
    <3>1. Depth(p, k + 1) = (x + 1) - (y + 0)
      BY <2>2, <2>4, <2>5, <2>6
    <3>. QED
      BY <2>5, <2>6, <3>1
  <2>7. CASE p[k] = ")"
    <3>1. Depth(p, k + 1) = (x + 0) - (y + 1)
      BY <2>2, <2>4, <2>5, <2>7
    <3>. QED
      BY <2>5, <2>7, <3>1
  <2>8. CASE p[k] \notin {"(", ")"}
    <3>1. Depth(p, k + 1) = (x + 0) - (y + 0)
      BY <2>2, <2>4, <2>5, <2>8
    <3>. QED
      BY <2>5, <2>8, <3>1
  <2>. QED
    BY <2>6, <2>7, <2>8
<1>. QED
  BY <1>3, <1>4, <1>5, <1>6

LEMMA OpensStep ==
  ASSUME NEW p \in Seq(Tokens)
  PROVE  /\ Opens(p, 0) = 0
         /\ \A k \in 0..Len(p) : Opens(p, k) \in Nat
         /\ \A k \in 1..Len(p) : Opens(p, k) = Opens(p, k - 1) + (IF p[k] = "(" THEN 1 ELSE 0)
BY CountStep DEF Opens

LEMMA OpensGrow ==
  ASSUME NEW p \in Seq(Tokens), NEW j \in 0..Len(p), NEW i \in 0..j
  PROVE  Opens(p, i) <= Opens(p, j)
<1> DEFINE G == {k \in 0..j : k >= i => Opens(p, i) <= Opens(p, k)}
<1>1. 0 \in G
  BY OpensStep
<1>2. ASSUME NEW k \in 0..(j - 1), k \in G
      PROVE  k + 1 \in G
  <2>1. k + 1 \in 0..j /\ k + 1 \in 1..Len(p) /\ (k + 1) - 1 = k /\ k \in 0..Len(p) /\ i \in 0..Len(p)
    OBVIOUS
  <2>2. Opens(p, k + 1) >= Opens(p, k) /\ Opens(p, k) \in Nat /\ Opens(p, i) \in Nat
    BY <2>1, OpensStep
  <2>3. CASE k >= i
    BY <1>2, <2>1, <2>2, <2>3, OpensStep
  <2>4. CASE k < i
    <3>1. k + 1 >= i => k + 1 = i
      BY <2>4
    <3>. QED
      BY <2>1, <2>2, <3>1
  <2>. QED
    BY <2>3, <2>4
<1>3. 0..j \subseteq G
  <2>. HIDE DEF G
  <2>. QED
    BY <1>1, <1>2, UpTo
<1>4. j \in G
  BY <1>3
<1>. QED
  BY <1>4

(* A piece of a pattern.                                                    *)
LEMMA PieceIs ==
  ASSUME NEW p \in Seq(Tokens), NEW i \in 1..(Len(p) + 1), NEW j \in (i - 1)..Len(p),
         NEW q, q = SubSeq(p, i, j)
  PROVE  /\ q \in Seq(Tokens)
         /\ Len(q) = j - i + 1
         /\ \A k \in 1..(j - i + 1) : q[k] = p[i + k - 1]
<1>1. \A k \in i..j : p[k] \in Tokens
  OBVIOUS
<1>2. i \in Int /\ j \in Int
  OBVIOUS
<1>3. /\ SubSeq(p, i, j) \in Seq(Tokens)
      /\ Len(SubSeq(p, i, j)) = IF i <= j THEN j - i + 1 ELSE 0
      /\ \A k \in 1..(j - i + 1) : SubSeq(p, i, j)[k] = p[i + k - 1]
  BY <1>1, <1>2, SubSeqProperties
<1>. QED
  BY <1>3

LEMMA PieceOfPiece ==
  ASSUME NEW p \in Seq(Tokens), NEW i \in 1..(Len(p) + 1), NEW j \in (i - 1)..Len(p),
         NEW a \in 1..(j - i + 2), NEW b \in (a - 1)..(j - i + 1)
  PROVE  SubSeq(SubSeq(p, i, j), a, b) = SubSeq(p, i + a - 1, i + b - 1)
<1>1. CASE b < a
  <2>1. a \in Int /\ b \in Int /\ i + a - 1 \in Int /\ i + b - 1 \in Int /\ i + b - 1 < i + a - 1
    BY <1>1
  <2>. QED
    BY <1>1, <2>1, SubSeqEmpty
<1>2. CASE a <= b
  <2>1. i \in 1..Len(p) /\ j \in 1..Len(p) /\ a \in 1..(j - i + 1) /\ b \in 1..(j - i + 1)
    BY <1>2
  <2>. QED
    BY <2>1, SubSeqOfSubSeq
<1>. QED
  BY <1>1, <1>2

(* In a piece of a pattern, depth is counted from where the piece begins.   *)
LEMMA DepthOfPiece ==
  ASSUME NEW p \in Seq(Tokens), NEW i \in 1..(Len(p) + 1), NEW j \in (i - 1)..Len(p),
         NEW q, q = SubSeq(p, i, j)
  PROVE  \A k \in 1..(j - i + 2) : Depth(q, k) = Depth(p, i + k - 1) - Depth(p, i)
<1>1. PICK n \in Nat : n = j - i + 1
  OBVIOUS
<1>2. q \in Seq(Tokens) /\ Len(q) = n /\ \A k \in 1..n : q[k] = p[i + k - 1]
  BY <1>1, PieceIs
<1> DEFINE G == {k \in 0..n : Depth(q, k + 1) = Depth(p, i + k) - Depth(p, i)}
<1>3. Depth(p, i) \in Int
  BY DepthStep
<1>4. 0 \in G
  <2>1. Depth(q, 1) = 0
    BY <1>2, DepthStep
  <2>2. i + 0 = i /\ 0 + 1 = 1
    OBVIOUS
  <2>. QED
    BY <1>3, <2>1, <2>2
<1>5. ASSUME NEW k \in 0..(n - 1), k \in G
      PROVE  k + 1 \in G
  <2>1. k + 1 \in 0..n /\ k + 1 \in 1..n /\ i + k \in 1..Len(p) /\ i + (k + 1) - 1 = i + k
    BY <1>1
  <2>2. q[k + 1] = p[i + k]
    BY <1>2, <2>1
  <2>3. Depth(p, i + k) \in Int
    BY <2>1, DepthStep
  <2>4. Depth(p, (i + k) + 1) = CASE p[i + k] = "(" -> Depth(p, i + k) + 1
                                  [] p[i + k] = ")" -> Depth(p, i + k) - 1
                                  [] OTHER          -> Depth(p, i + k)
    BY <2>1, DepthStep
  <2>5. Depth(q, (k + 1) + 1) = CASE q[k + 1] = "(" -> Depth(q, k + 1) + 1
                                  [] q[k + 1] = ")" -> Depth(q, k + 1) - 1
                                  [] OTHER          -> Depth(q, k + 1)
    BY <1>2, <2>1, DepthStep
  <2>6. Depth(q, k + 1) = Depth(p, i + k) - Depth(p, i)
    BY <1>5
  <2>7. Depth(q, (k + 1) + 1) = Depth(p, (i + k) + 1) - Depth(p, i)
    <3>1. PICK d \in Int : d = Depth(p, i)
      BY <1>3
    <3>2. PICK x \in Int : x = Depth(p, i + k)
      BY <2>3
    <3>3. CASE p[i + k] = "("
      <4>1. Depth(p, (i + k) + 1) = x + 1 /\ Depth(q, (k + 1) + 1) = (x - d) + 1
        BY <2>2, <2>4, <2>5, <2>6, <3>1, <3>2, <3>3
      <4>. QED
        BY <3>1, <4>1
    <3>4. CASE p[i + k] = ")"
      <4>1. Depth(p, (i + k) + 1) = x - 1 /\ Depth(q, (k + 1) + 1) = (x - d) - 1
        BY <2>2, <2>4, <2>5, <2>6, <3>1, <3>2, <3>4
      <4>. QED
        BY <3>1, <4>1
    <3>5. CASE p[i + k] \notin {"(", ")"}
      <4>1. Depth(p, (i + k) + 1) = x /\ Depth(q, (k + 1) + 1) = x - d
        BY <2>2, <2>4, <2>5, <2>6, <3>1, <3>2, <3>5
      <4>. QED
        BY <3>1, <4>1
    <3>. QED
      BY <3>3, <3>4, <3>5
  <2>8. (i + k) + 1 = i + (k + 1)
    OBVIOUS
  <2>. QED
    BY <2>1, <2>7, <2>8
<1>6. 0..n \subseteq G
  <2>. HIDE DEF G
  <2>. QED
    BY <1>4, <1>5, UpTo
<1>7. ASSUME NEW k \in 1..(j - i + 2)
      PROVE  Depth(q, k) = Depth(p, i + k - 1) - Depth(p, i)
  <2>1. k - 1 \in 0..n /\ (k - 1) + 1 = k /\ i + (k - 1) = i + k - 1
    BY <1>1
  <2>. QED
    BY <1>6, <2>1
<1>. QED
  BY <1>7

-----------------------------------------------------------------------------
(* Bars, groups and atoms, by their places in a pattern *)

(* There is no bar at the depth of i from i up to b.                        *)
NoBar(p, i, b) == \A k \in i..(b - 1) : ~(p[k] = "|" /\ Depth(p, k) = Depth(p, i))

(* What is in parentheses from i on ends before c.                          *)
Closes(p, i, c) ==
  /\ c \in i..Len(p)
  /\ p[c] = ")" /\ Depth(p, c) = Depth(p, i)
  /\ \A k \in i..(c - 1) : ~(p[k] = ")" /\ Depth(p, k) = Depth(p, i))

(* The first bar of a piece, or that it has none.                           *)
LEMMA BarsOfPiece ==
  ASSUME NEW p \in Seq(Tokens), NEW i \in 1..(Len(p) + 1), NEW j \in (i - 1)..Len(p),
         NEW q, q = SubSeq(p, i, j)
  PROVE  /\ NoBar(p, i, j + 1) => Bars(q) = {}
         /\ \A b \in i..j :
              NoBar(p, i, b) /\ p[b] = "|" /\ Depth(p, b) = Depth(p, i)
                => Bars(q) # {} /\ Min(Bars(q)) = b - i + 1
<1>1. PICK n \in Nat : n = j - i + 1
  OBVIOUS
<1>2. q \in Seq(Tokens) /\ Len(q) = n /\ \A k \in 1..n : q[k] = p[i + k - 1]
  BY <1>1, PieceIs
<1>3. \A k \in 1..n : Depth(q, k) = Depth(p, i + k - 1) - Depth(p, i)
  <2>1. \A k \in 1..n : k \in 1..(j - i + 2)
    BY <1>1
  <2>. QED
    BY <2>1, DepthOfPiece
<1>4. \A k \in 1..n : i + k - 1 \in i..j /\ i + k - 1 \in 1..(Len(p) + 1)
  BY <1>1
<1>5. \A k \in 1..(Len(p) + 1) : Depth(p, k) \in Int
  BY DepthStep
<1>6. ASSUME NEW k \in 1..n
      PROVE  k \in Bars(q) <=> p[i + k - 1] = "|" /\ Depth(p, i + k - 1) = Depth(p, i)
  <2>1. Depth(p, i + k - 1) \in Int /\ Depth(p, i) \in Int
    BY <1>4, <1>5
  <2>. QED
    BY <1>2, <1>3, <2>1 DEF Bars
<1>7. Bars(q) \in SUBSET (1..n)
  BY <1>2 DEF Bars
<1>8. ASSUME NoBar(p, i, j + 1)
      PROVE  Bars(q) = {}
  <2>1. \A k \in 1..n : k \notin Bars(q)
    <3>1. (j + 1) - 1 = j
      OBVIOUS
    <3>. QED
      BY <1>4, <1>6, <1>8, <3>1 DEF NoBar
  <2>. QED
    BY <1>7, <2>1
<1>9. ASSUME NEW b \in i..j, NoBar(p, i, b), p[b] = "|", Depth(p, b) = Depth(p, i)
      PROVE  Bars(q) # {} /\ Min(Bars(q)) = b - i + 1
  <2>1. b - i + 1 \in 1..n /\ i + (b - i + 1) - 1 = b
    BY <1>1
  <2>2. b - i + 1 \in Bars(q)
    BY <1>6, <1>9, <2>1
  <2>3. /\ Min(Bars(q)) \in Bars(q) /\ Min(Bars(q)) \in 1..n
        /\ \A k \in Bars(q) : Min(Bars(q)) <= k
    BY <1>7, <2>2, MinIs
  <2>4. PICK m \in 1..n : m = Min(Bars(q))
    BY <2>3
  <2>5. m <= b - i + 1
    BY <2>2, <2>3, <2>4
  <2>6. ~(m < b - i + 1)
    <3>1. SUFFICES ASSUME m < b - i + 1
                   PROVE  FALSE
      OBVIOUS
    <3>2. i + m - 1 \in i..(b - 1)
      BY <3>1
    <3>3. p[i + m - 1] = "|" /\ Depth(p, i + m - 1) = Depth(p, i)
      BY <1>6, <2>3, <2>4
    <3>. QED
      BY <1>9, <3>2, <3>3 DEF NoBar
  <2>. QED
    BY <2>1, <2>2, <2>4, <2>5, <2>6
<1>. QED
  BY <1>8, <1>9

(* The end of a group at the beginning of a piece, or that it has none.     *)
LEMMA ClosingOfPiece ==
  ASSUME NEW p \in Seq(Tokens), NEW i \in 1..Len(p), NEW j \in i..Len(p),
         p[i] = "(", NEW q, q = SubSeq(p, i, j)
  PROVE  /\ (\A c \in (i + 1)..j : ~Closes(p, i + 1, c)) => Closing(q) = {}
         /\ \A c \in (i + 1)..j :
              Closes(p, i + 1, c) => Closing(q) # {} /\ Min(Closing(q)) = c - i + 1
<1>1. PICK n \in Nat : n = j - i + 1
  OBVIOUS
<1>0. i \in 1..(Len(p) + 1) /\ j \in (i - 1)..Len(p)
  OBVIOUS
<1>2. q \in Seq(Tokens) /\ Len(q) = n /\ \A k \in 1..n : q[k] = p[i + k - 1]
  BY <1>0, <1>1, PieceIs
<1>3. \A k \in 1..n : Depth(q, k) = Depth(p, i + k - 1) - Depth(p, i)
  <2>1. \A k \in 1..n : k \in 1..(j - i + 2)
    BY <1>1
  <2>. QED
    BY <1>0, <2>1, DepthOfPiece
<1>4. \A k \in 1..n : i + k - 1 \in i..j /\ i + k - 1 \in 1..(Len(p) + 1)
  BY <1>1
<1>5. Depth(p, i + 1) = Depth(p, i) + 1 /\ Depth(p, i) \in Int
  BY DepthStep
<1>6. ASSUME NEW k \in 1..n
      PROVE  k \in Closing(q) <=> p[i + k - 1] = ")" /\ Depth(p, i + k - 1) = Depth(p, i + 1)
  <2>1. Depth(p, i + k - 1) \in Int
    BY <1>4, DepthStep
  <2>. QED
    BY <1>2, <1>3, <1>5, <2>1 DEF Closing
<1>7. Closing(q) \in SUBSET (1..n)
  BY <1>2 DEF Closing
<1>8. ASSUME NEW k \in Closing(q)
      PROVE  k \in 2..n /\ i + k - 1 \in (i + 1)..j
  <2>1. k \in 1..n
    BY <1>7
  <2>2. k # 1
    <3>1. i + 1 - 1 = i
      OBVIOUS
    <3>. QED
      BY <1>6, <2>1, <3>1
  <2>. QED
    BY <1>1, <2>1, <2>2
<1>9. ASSUME Closing(q) # {}
      PROVE  \E c \in (i + 1)..j : Closes(p, i + 1, c) /\ Min(Closing(q)) = c - i + 1
  <2>1. /\ Min(Closing(q)) \in Closing(q)
        /\ \A k \in Closing(q) : Min(Closing(q)) <= k
    BY <1>7, <1>9, MinIs
  <2>2. PICK m : m = Min(Closing(q))
    OBVIOUS
  <2>3. m \in 2..n /\ i + m - 1 \in (i + 1)..j
    BY <1>8, <2>1, <2>2
  <2>4. PICK c \in (i + 1)..j : c = i + m - 1
    BY <2>3
  <2>5. p[c] = ")" /\ Depth(p, c) = Depth(p, i + 1)
    <3>1. m \in 1..n /\ m \in Closing(q)
      BY <2>1, <2>2, <2>3
    <3>2. p[i + m - 1] = ")" /\ Depth(p, i + m - 1) = Depth(p, i + 1)
      BY <1>6, <3>1
    <3>. QED
      BY <2>4, <3>2
  <2>6. ASSUME NEW k \in (i + 1)..(c - 1), p[k] = ")" /\ Depth(p, k) = Depth(p, i + 1)
        PROVE  FALSE
    <3>1. k - i + 1 \in 1..n /\ i + (k - i + 1) - 1 = k /\ k - i + 1 < m
      BY <1>1, <2>3, <2>4
    <3>2. k - i + 1 \in Closing(q)
      BY <1>6, <2>6, <3>1
    <3>. QED
      BY <2>1, <2>2, <2>3, <3>1, <3>2
  <2>7. Closes(p, i + 1, c)
    BY <2>5, <2>6 DEF Closes
  <2>8. m = c - i + 1
    BY <2>3, <2>4
  <2>. QED
    BY <2>2, <2>7, <2>8
<1>10. ASSUME NEW c \in (i + 1)..j, Closes(p, i + 1, c)
       PROVE  Closing(q) # {} /\ Min(Closing(q)) = c - i + 1
  <2>1. c - i + 1 \in 1..n /\ i + (c - i + 1) - 1 = c
    BY <1>1
  <2>2. c - i + 1 \in Closing(q)
    BY <1>6, <1>10, <2>1 DEF Closes
  <2>3. PICK e \in (i + 1)..j : Closes(p, i + 1, e) /\ Min(Closing(q)) = e - i + 1
    BY <1>9, <2>2
  <2>4. c = e
    <3>1. ~(c < e)
      <4>1. c < e => c \in (i + 1)..(e - 1)
        OBVIOUS
      <4>. QED
        BY <1>10, <2>3, <4>1 DEF Closes
    <3>2. ~(e < c)
      <4>1. e < c => e \in (i + 1)..(c - 1)
        OBVIOUS
      <4>. QED
        BY <1>10, <2>3, <4>1 DEF Closes
    <3>. QED
      BY <3>1, <3>2
  <2>. QED
    BY <2>2, <2>3, <2>4
<1>. QED
  BY <1>9, <1>10

-----------------------------------------------------------------------------
(* The two recursive definitions *)

Shorter(q, p) == q \in Seq(Tokens) /\ Len(q) < Len(p)

LEMMA SubSeqShorter ==
  ASSUME NEW p \in Seq(Tokens), p # <<>>, NEW a \in 1..(Len(p) + 2), NEW b \in 0..Len(p),
         a > 1 \/ b < Len(p)
  PROVE  Shorter(SubSeq(p, a, b), p)
<1>1. a \in Int /\ b \in Int /\ \A k \in a..b : p[k] \in Tokens
  OBVIOUS
<1>2. /\ SubSeq(p, a, b) \in Seq(Tokens)
      /\ Len(SubSeq(p, a, b)) = IF a <= b THEN b - a + 1 ELSE 0
  BY <1>1, SubSeqProperties
<1>3. Len(p) \in Nat /\ Len(p) # 0
  OBVIOUS
<1>. QED
  BY <1>2, <1>3 DEF Shorter

LEMMA PartsShorter ==
  ASSUME NEW p \in Seq(Tokens), p # <<>>
  PROVE  /\ Bars(p) # {} => Shorter(Before(p), p) /\ Shorter(After(p), p)
         /\ AtomLen(p) > 0 => Shorter(Inside(p), p) /\ Shorter(Rest(p), p)
<1>1. PICK n \in Nat : n = Len(p) /\ n >= 1
  OBVIOUS
<1>2. ASSUME Bars(p) # {}
      PROVE  Shorter(Before(p), p) /\ Shorter(After(p), p)
  <2>1. Bars(p) \in SUBSET (1..n)
    BY <1>1 DEF Bars
  <2>2. PICK m \in 1..n : m = Min(Bars(p))
    BY <1>2, <2>1, MinIs
  <2>3. m - 1 \in 0..n /\ m - 1 < n /\ 1 \in 1..(n + 2)
    OBVIOUS
  <2>4. Shorter(SubSeq(p, 1, m - 1), p)
    BY <1>1, <2>3, SubSeqShorter
  <2>5. m + 1 \in 1..(n + 2) /\ m + 1 > 1 /\ n \in 0..n
    OBVIOUS
  <2>6. Shorter(SubSeq(p, m + 1, n), p)
    BY <1>1, <2>5, SubSeqShorter
  <2>. QED
    BY <1>1, <2>2, <2>4, <2>6 DEF Before, After
<1>3. ASSUME AtomLen(p) > 0
      PROVE  Shorter(Inside(p), p) /\ Shorter(Rest(p), p)
  <2>1. PICK a \in 1..n : a = AtomLen(p)
    <3>1. CASE p[1] # "("
      BY <1>1, <3>1 DEF AtomLen
    <3>2. CASE p[1] = "(" /\ Closing(p) # {}
      <4>1. Closing(p) \in SUBSET (1..n)
        BY <1>1 DEF Closing
      <4>2. Min(Closing(p)) \in 1..n
        BY <3>2, <4>1, MinIs
      <4>. QED
        BY <3>2, <4>2 DEF AtomLen
    <3>3. CASE p[1] = "(" /\ Closing(p) = {}
      BY <1>3, <3>3 DEF AtomLen
    <3>. QED
      BY <3>1, <3>2, <3>3
  <2>2. a - 1 \in 0..n /\ 2 \in 1..(n + 2) /\ 2 > 1
    BY <1>1
  <2>3. Shorter(SubSeq(p, 2, a - 1), p)
    BY <1>1, <2>2, SubSeqShorter
  <2>4. PICK b \in {a + 1, a + 2} : Rest(p) = SubSeq(p, b, n)
    BY <1>1, <2>1 DEF Rest
  <2>5. b \in 1..(n + 2) /\ b > 1 /\ n \in 0..n
    OBVIOUS
  <2>6. Shorter(SubSeq(p, b, n), p)
    BY <1>1, <2>5, SubSeqShorter
  <2>. QED
    BY <2>1, <2>3, <2>4, <2>6 DEF Inside
<1>. QED
  BY <1>2, <1>3

(* What Nullable says of p if f says what it says of shorter patterns.      *)
NullableBody(f, p) ==
  IF p = <<>> THEN TRUE
  ELSE IF Bars(p) # {} THEN f[Before(p)] \/ f[After(p)]
  ELSE /\ AtomLen(p) > 0
       /\ \/ Mult(p) \in {"*", "?"}
          \/ p[1] \in Anchors
          \/ p[1] = "(" /\ f[Inside(p)]
       /\ f[Rest(p)]

LEMMA NullableIs == \A p \in Seq(Tokens) : Nullable[p] = NullableBody(Nullable, p)
<1> DEFINE S == Seq(Tokens)
           V == BOOLEAN
           B == [z \in [S -> V] \X S |-> NullableBody(z[1], z[2])]
           length == [p \in S |-> Len(p)]
<1>1. ASSUME NEW f, NEW p
      PROVE  NullableBody(f, p) \in BOOLEAN
  BY DEF NullableBody
<1>2. B \in [[S -> V] \X S -> V]
  BY <1>1
<1>3. length \in [S -> Nat]
  OBVIOUS
<1>4. ASSUME NEW f \in [S -> V], NEW h \in [S -> V], NEW p \in S,
             \A q \in S : length[q] < length[p] => f[q] = h[q]
      PROVE  B[<<f, p>>] = B[<<h, p>>]
  <2>1. B[<<f, p>>] = NullableBody(f, p) /\ B[<<h, p>>] = NullableBody(h, p)
    OBVIOUS
  <2>2. \A q : Shorter(q, p) => f[q] = h[q]
    BY <1>4 DEF Shorter
  <2>3. NullableBody(f, p) = NullableBody(h, p)
    <3>1. CASE p = <<>>
      BY <3>1 DEF NullableBody
    <3>2. CASE p # <<>> /\ Bars(p) # {}
      <4>1. f[Before(p)] = h[Before(p)] /\ f[After(p)] = h[After(p)]
        BY <2>2, <3>2, PartsShorter
      <4>. QED
        BY <3>2, <4>1 DEF NullableBody
    <3>3. CASE p # <<>> /\ Bars(p) = {}
      <4>1. CASE AtomLen(p) > 0
        <5>1. f[Inside(p)] = h[Inside(p)] /\ f[Rest(p)] = h[Rest(p)]
          BY <2>2, <3>3, <4>1, PartsShorter
        <5>. QED
          BY <3>3, <4>1, <5>1 DEF NullableBody
      <4>2. CASE ~(AtomLen(p) > 0)
        BY <3>3, <4>2 DEF NullableBody
      <4>. QED
        BY <4>1, <4>2
    <3>. QED
      BY <3>1, <3>2, <3>3
  <2>. QED
    BY <2>1, <2>3
<1>5. V # {}
  OBVIOUS
<1>6. \E f \in [S -> V] : \A p \in S : f[p] = B[<<f, p>>]
  <2>. HIDE DEF B, length, S, V
  <2>1. Descends(B, S, V, length)
    BY <1>2, <1>3, <1>4, <1>5 DEF Descends
  <2>. QED
    BY <2>1, Recursion DEF Solvable
<1>7. \E f : f = [p \in S |-> NullableBody(f, p)]
  <2>1. PICK f \in [S -> V] : \A p \in S : f[p] = B[<<f, p>>]
    BY <1>6
  <2>2. \A p \in S : f[p] = NullableBody(f, p)
    BY <2>1
  <2>. QED
    BY <2>2
<1>8. Nullable = CHOOSE f : f = [p \in S |-> NullableBody(f, p)]
  BY DEF Nullable, NullableBody
<1>9. Nullable = [p \in S |-> NullableBody(Nullable, p)]
  BY <1>7, <1>8
<1>. QED
  BY <1>9

(* The same of WellFormed.                                                  *)
WellFormedBody(f, p) ==
  IF p = <<>> THEN TRUE
  ELSE IF Bars(p) # {} THEN f[Before(p)] /\ f[After(p)]
  ELSE /\ AtomLen(p) > 0
       /\ p[1] \notin Mults \cup {")"}
       /\ p[1] = "(" => f[Inside(p)]
       /\ Mult(p) \in {"*", "+"} =>
            p[1] \notin Anchors /\ (p[1] = "(" => ~Nullable[Inside(p)])
       /\ Mult(p) # "once" => ~IsMult(p, AtomLen(p) + 2)
       /\ f[Rest(p)]

LEMMA WellFormedIs == \A p \in Seq(Tokens) : WellFormed[p] = WellFormedBody(WellFormed, p)
<1> DEFINE S == Seq(Tokens)
           V == BOOLEAN
           B == [z \in [S -> V] \X S |-> WellFormedBody(z[1], z[2])]
           length == [p \in S |-> Len(p)]
<1>1. ASSUME NEW f, NEW p
      PROVE  WellFormedBody(f, p) \in BOOLEAN
  BY DEF WellFormedBody
<1>2. B \in [[S -> V] \X S -> V]
  BY <1>1
<1>3. length \in [S -> Nat]
  OBVIOUS
<1>4. ASSUME NEW f \in [S -> V], NEW h \in [S -> V], NEW p \in S,
             \A q \in S : length[q] < length[p] => f[q] = h[q]
      PROVE  B[<<f, p>>] = B[<<h, p>>]
  <2>1. B[<<f, p>>] = WellFormedBody(f, p) /\ B[<<h, p>>] = WellFormedBody(h, p)
    OBVIOUS
  <2>2. \A q : Shorter(q, p) => f[q] = h[q]
    BY <1>4 DEF Shorter
  <2>3. WellFormedBody(f, p) = WellFormedBody(h, p)
    <3>1. CASE p = <<>>
      BY <3>1 DEF WellFormedBody
    <3>2. CASE p # <<>> /\ Bars(p) # {}
      <4>1. f[Before(p)] = h[Before(p)] /\ f[After(p)] = h[After(p)]
        BY <2>2, <3>2, PartsShorter
      <4>. QED
        BY <3>2, <4>1 DEF WellFormedBody
    <3>3. CASE p # <<>> /\ Bars(p) = {}
      <4>1. CASE AtomLen(p) > 0
        <5>1. f[Inside(p)] = h[Inside(p)] /\ f[Rest(p)] = h[Rest(p)]
          BY <2>2, <3>3, <4>1, PartsShorter
        <5>. QED
          BY <3>3, <4>1, <5>1 DEF WellFormedBody
      <4>2. CASE ~(AtomLen(p) > 0)
        BY <3>3, <4>2 DEF WellFormedBody
      <4>. QED
        BY <4>1, <4>2
    <3>. QED
      BY <3>1, <3>2, <3>3
  <2>. QED
    BY <2>1, <2>3
<1>5. V # {}
  OBVIOUS
<1>6. \E f \in [S -> V] : \A p \in S : f[p] = B[<<f, p>>]
  <2>. HIDE DEF B, length, S, V
  <2>1. Descends(B, S, V, length)
    BY <1>2, <1>3, <1>4, <1>5 DEF Descends
  <2>. QED
    BY <2>1, Recursion DEF Solvable
<1>7. \E f : f = [p \in S |-> WellFormedBody(f, p)]
  <2>1. PICK f \in [S -> V] : \A p \in S : f[p] = B[<<f, p>>]
    BY <1>6
  <2>2. \A p \in S : f[p] = WellFormedBody(f, p)
    BY <2>1
  <2>. QED
    BY <2>2
<1>8. WellFormed = CHOOSE f : f = [p \in S |-> WellFormedBody(f, p)]
  BY DEF WellFormed, WellFormedBody
<1>9. WellFormed = [p \in S |-> WellFormedBody(WellFormed, p)]
  BY <1>7, <1>8
<1>. QED
  BY <1>9

-----------------------------------------------------------------------------
(* Pieces of a pattern *)

(* Tokens i to j of p are a pattern; it may match the empty string.         *)
Formed(p, i, j) == WellFormed[SubSeq(p, i, j)]

Blank(p, i, j) == Nullable[SubSeq(p, i, j)]

LEMMA EmptyPiece ==
  ASSUME NEW p \in Seq(Tokens), NEW i \in 1..(Len(p) + 1)
  PROVE  Formed(p, i, i - 1) /\ Blank(p, i, i - 1)
<1>1. i \in Int /\ i - 1 \in Int /\ i - 1 < i
  OBVIOUS
<1>2. SubSeq(p, i, i - 1) = <<>>
  BY <1>1, SubSeqEmpty
<1>3. <<>> \in Seq(Tokens)
  OBVIOUS
<1>4. WellFormed[<<>>] = TRUE /\ Nullable[<<>>] = TRUE
  BY <1>3, WellFormedIs, NullableIs DEF WellFormedBody, NullableBody
<1>. QED
  BY <1>2, <1>4 DEF Formed, Blank

(* A bar is between two patterns.                                           *)
LEMMA BarSplits ==
  ASSUME NEW p \in Seq(Tokens), NEW i \in 1..Len(p), NEW j \in i..Len(p), NEW b \in i..j,
         NoBar(p, i, b), p[b] = "|", Depth(p, b) = Depth(p, i)
  PROVE  /\ Formed(p, i, j) <=> Formed(p, i, b - 1) /\ Formed(p, b + 1, j)
         /\ Blank(p, i, j) <=> Blank(p, i, b - 1) \/ Blank(p, b + 1, j)
<1>1. i \in 1..(Len(p) + 1) /\ j \in (i - 1)..Len(p)
  OBVIOUS
<1>2. PICK q : q = SubSeq(p, i, j)
  OBVIOUS
<1>3. q \in Seq(Tokens) /\ Len(q) = j - i + 1
  BY <1>1, <1>2, PieceIs
<1>4. Bars(q) # {} /\ Min(Bars(q)) = b - i + 1
  BY <1>1, <1>2, BarsOfPiece
<1>5. q # <<>>
  <2>1. j - i + 1 # 0
    OBVIOUS
  <2>. QED
    BY <1>3, <2>1
<1>6. Before(q) = SubSeq(p, i, b - 1)
  <2>1. 1 \in 1..(j - i + 2) /\ b - i \in (1 - 1)..(j - i + 1) /\ (b - i + 1) - 1 = b - i
    OBVIOUS
  <2>2. SubSeq(q, 1, b - i) = SubSeq(p, i + 1 - 1, i + (b - i) - 1)
    BY <1>1, <1>2, <2>1, PieceOfPiece
  <2>3. i + 1 - 1 = i /\ i + (b - i) - 1 = b - 1
    OBVIOUS
  <2>. QED
    BY <1>4, <2>1, <2>2, <2>3 DEF Before
<1>7. After(q) = SubSeq(p, b + 1, j)
  <2> DEFINE a == b - i + 2
             e == j - i + 1
  <2>1. a \in 1..(j - i + 2) /\ e \in (a - 1)..(j - i + 1) /\ (b - i + 1) + 1 = a
    OBVIOUS
  <2>2. i + a - 1 = b + 1 /\ i + e - 1 = j
    OBVIOUS
  <2>. HIDE DEF a
  <2>3. SubSeq(q, a, e) = SubSeq(p, i + a - 1, i + e - 1)
    BY <1>1, <1>2, <2>1, PieceOfPiece
  <2>. QED
    BY <1>3, <1>4, <2>1, <2>2, <2>3 DEF After
<1>8. WellFormed[q] = (WellFormed[Before(q)] /\ WellFormed[After(q)])
  BY <1>3, <1>4, <1>5, WellFormedIs DEF WellFormedBody
<1>9. Nullable[q] = (Nullable[Before(q)] \/ Nullable[After(q)])
  BY <1>3, <1>4, <1>5, NullableIs DEF NullableBody
<1>. QED
  BY <1>2, <1>6, <1>7, <1>8, <1>9 DEF Formed, Blank

(* The atom that begins at m ends at t.                                     *)
AtomEnds(p, m, t) == IF p[m] = "(" THEN Closes(p, m + 1, t) ELSE t = m

(* what is behind the atom that ends at t, and behind its multiplier        *)
Behind(p, t) == IF IsMult(p, t + 1) THEN t + 2 ELSE t + 1

(* A piece without bars is an atom, perhaps a multiplier, and the rest.     *)
LEMMA AtomSplits ==
  ASSUME NEW p \in Seq(Tokens), NEW m \in 1..Len(p), NEW j \in m..Len(p), NEW t \in m..j,
         NoBar(p, m, j + 1), AtomEnds(p, m, t), ~IsMult(p, j + 1)
  PROVE  /\ Behind(p, t) \in (m + 1)..(j + 1)
         /\ Formed(p, m, j) <=>
              /\ p[m] \notin Mults \cup {")"}
              /\ p[m] = "(" => Formed(p, m + 1, t - 1)
              /\ IsMult(p, t + 1) /\ p[t + 1] \in {"*", "+"} =>
                   p[m] \notin Anchors /\ (p[m] = "(" => ~Blank(p, m + 1, t - 1))
              /\ IsMult(p, t + 1) => ~IsMult(p, t + 2)
              /\ Formed(p, Behind(p, t), j)
         /\ Blank(p, m, j) <=>
              /\ \/ IsMult(p, t + 1) /\ p[t + 1] \in {"*", "?"}
                 \/ p[m] \in Anchors
                 \/ p[m] = "(" /\ Blank(p, m + 1, t - 1)
              /\ Blank(p, Behind(p, t), j)
<1>1. m \in 1..(Len(p) + 1) /\ j \in (m - 1)..Len(p)
  OBVIOUS
<1>2. PICK q : q = SubSeq(p, m, j)
  OBVIOUS
<1>3. q \in Seq(Tokens) /\ Len(q) = j - m + 1 /\ \A k \in 1..(j - m + 1) : q[k] = p[m + k - 1]
  BY <1>1, <1>2, PieceIs
<1>4. q # <<>> /\ q[1] = p[m]
  <2>1. j - m + 1 # 0 /\ 1 \in 1..(j - m + 1) /\ m + 1 - 1 = m
    OBVIOUS
  <2>. QED
    BY <1>3, <2>1
<1>5. Bars(q) = {}
  BY <1>1, <1>2, BarsOfPiece
<1>6. PICK a \in 1..(j - m + 1) : a = t - m + 1
  OBVIOUS
<1>7. AtomLen(q) = a /\ (p[m] = "(" => t \in (m + 1)..j)
  <2>1. CASE p[m] = "("
    <3>1. t \in (m + 1)..j /\ Closes(p, m + 1, t)
      BY <2>1 DEF AtomEnds, Closes
    <3>2. Closing(q) # {} /\ Min(Closing(q)) = t - m + 1
      BY <1>2, <2>1, <3>1, ClosingOfPiece
    <3>. QED
      BY <1>4, <1>6, <2>1, <3>1, <3>2 DEF AtomLen
  <2>2. CASE p[m] # "("
    <3>1. t = m /\ a = 1
      BY <1>6, <2>2 DEF AtomEnds
    <3>. QED
      BY <1>4, <2>2, <3>1 DEF AtomLen
  <2>. QED
    BY <2>1, <2>2
<1>8. ASSUME NEW k \in m..(j + 1), NEW l, l = k - m + 1
      PROVE  (IsMult(q, l) <=> IsMult(p, k)) /\ (IsMult(p, k) => k <= j /\ q[l] = p[k])
  <2>1. CASE k <= j
    <3>1. l \in 1..(j - m + 1) /\ m + l - 1 = k /\ l <= Len(q) /\ k <= Len(p)
      BY <1>3, <1>8, <2>1
    <3>2. q[l] = p[k]
      BY <1>3, <3>1
    <3>. QED
      BY <2>1, <3>1, <3>2 DEF IsMult
  <2>2. CASE k = j + 1
    <3>1. ~(l <= Len(q))
      BY <1>3, <1>8, <2>2
    <3>. QED
      BY <2>2, <3>1 DEF IsMult
  <2>. QED
    BY <2>1, <2>2
<1>9. (IsMult(q, a + 1) <=> IsMult(p, t + 1)) /\ (IsMult(p, t + 1) => t + 1 <= j /\ q[a + 1] = p[t + 1])
  <2>1. t + 1 \in m..(j + 1) /\ a + 1 = (t + 1) - m + 1
    BY <1>6
  <2>. QED
    BY <1>8, <2>1
<1>10. IsMult(p, t + 1) => (IsMult(q, a + 2) <=> IsMult(p, t + 2))
  <2>1. IsMult(p, t + 1) => t + 2 \in m..(j + 1) /\ a + 2 = (t + 2) - m + 1
    BY <1>6, <1>9
  <2>. QED
    BY <1>8, <2>1
<1>11. PICK n : n = Behind(p, t)
  OBVIOUS
<1>12. n \in (m + 1)..(j + 1)
  BY <1>9, <1>11 DEF Behind
<1>13. Mult(q) = IF IsMult(p, t + 1) THEN p[t + 1] ELSE "once"
  BY <1>7, <1>9 DEF Mult
<1>14. IsMult(p, t + 1) => p[t + 1] \in Mults /\ p[t + 1] # "once"
  BY DEF IsMult, Mults
<1>15. Rest(q) = SubSeq(p, n, j)
  <2>1. a + (IF Mult(q) = "once" THEN 1 ELSE 2) = n - m + 1
    BY <1>6, <1>11, <1>13, <1>14 DEF Behind
  <2> DEFINE b == n - m + 1
             e == j - m + 1
  <2>2. b \in 1..(j - m + 2) /\ e \in (b - 1)..(j - m + 1)
    BY <1>12
  <2>3. m + b - 1 = n /\ m + e - 1 = j
    BY <1>12
  <2>4. b = a + (IF Mult(q) = "once" THEN 1 ELSE 2)
    BY <2>1
  <2>. HIDE DEF b
  <2>5. SubSeq(q, b, e) = SubSeq(p, m + b - 1, m + e - 1)
    BY <1>1, <1>2, <2>2, PieceOfPiece
  <2>. QED
    BY <1>3, <1>7, <2>3, <2>4, <2>5 DEF Rest
<1>16. p[m] = "(" => Inside(q) = SubSeq(p, m + 1, t - 1)
  <2>1. SUFFICES ASSUME p[m] = "("
                 PROVE  Inside(q) = SubSeq(p, m + 1, t - 1)
    OBVIOUS
  <2>2. 2 \in 1..(j - m + 2) /\ a - 1 \in (2 - 1)..(j - m + 1)
    BY <1>6, <1>7, <2>1
  <2>3. SubSeq(q, 2, a - 1) = SubSeq(p, m + 2 - 1, m + (a - 1) - 1)
    BY <1>1, <1>2, <2>2, PieceOfPiece
  <2>4. m + 2 - 1 = m + 1 /\ m + (a - 1) - 1 = t - 1
    BY <1>6
  <2>. QED
    BY <1>7, <2>3, <2>4 DEF Inside
<1>17. a > 0
  OBVIOUS
<1>18. WellFormed[q] <=> /\ p[m] \notin Mults \cup {")"}
                         /\ p[m] = "(" => WellFormed[Inside(q)]
                         /\ Mult(q) \in {"*", "+"} =>
                              p[m] \notin Anchors /\ (p[m] = "(" => ~Nullable[Inside(q)])
                         /\ Mult(q) # "once" => ~IsMult(q, a + 2)
                         /\ WellFormed[Rest(q)]
  BY <1>3, <1>4, <1>5, <1>7, <1>17, WellFormedIs DEF WellFormedBody
<1>19. Nullable[q] <=> /\ \/ Mult(q) \in {"*", "?"}
                          \/ p[m] \in Anchors
                          \/ p[m] = "(" /\ Nullable[Inside(q)]
                       /\ Nullable[Rest(q)]
  BY <1>3, <1>4, <1>5, <1>7, <1>17, NullableIs DEF NullableBody
<1>20. /\ Mult(q) \in {"*", "+"} <=> IsMult(p, t + 1) /\ p[t + 1] \in {"*", "+"}
       /\ Mult(q) \in {"*", "?"} <=> IsMult(p, t + 1) /\ p[t + 1] \in {"*", "?"}
       /\ Mult(q) # "once" <=> IsMult(p, t + 1)
  BY <1>13, <1>14
<1>. QED
  BY <1>2, <1>10, <1>11, <1>12, <1>15, <1>16, <1>18, <1>19, <1>20 DEF Formed, Blank

(* An opening parenthesis without a closing one.                            *)
LEMMA Unclosed ==
  ASSUME NEW p \in Seq(Tokens), NEW m \in 1..Len(p), NEW j \in m..Len(p), NoBar(p, m, j + 1),
         p[m] = "(", \A c \in (m + 1)..j : ~Closes(p, m + 1, c)
  PROVE  ~Formed(p, m, j)
<1>1. m \in 1..(Len(p) + 1) /\ j \in (m - 1)..Len(p)
  OBVIOUS
<1>2. PICK q : q = SubSeq(p, m, j)
  OBVIOUS
<1>3. q \in Seq(Tokens) /\ Len(q) = j - m + 1 /\ \A k \in 1..(j - m + 1) : q[k] = p[m + k - 1]
  BY <1>1, <1>2, PieceIs
<1>4. q # <<>> /\ q[1] = p[m]
  <2>1. j - m + 1 # 0 /\ 1 \in 1..(j - m + 1) /\ m + 1 - 1 = m
    OBVIOUS
  <2>. QED
    BY <1>3, <2>1
<1>5. Bars(q) = {} /\ Closing(q) = {}
  BY <1>1, <1>2, BarsOfPiece, ClosingOfPiece
<1>6. ~(AtomLen(q) > 0)
  <2>1. AtomLen(q) = 0
    BY <1>4, <1>5 DEF AtomLen
  <2>. QED
    BY <2>1
<1>7. WellFormed[q] = FALSE
  BY <1>3, <1>4, <1>5, <1>6, WellFormedIs DEF WellFormedBody
<1>. QED
  BY <1>2, <1>7 DEF Formed

(* Nothing can begin with a multiplier or a closing parenthesis.            *)
LEMMA Stray ==
  ASSUME NEW p \in Seq(Tokens), NEW m \in 1..Len(p), NEW j \in m..Len(p), NoBar(p, m, j + 1),
         p[m] \in Mults \cup {")"}
  PROVE  ~Formed(p, m, j)
<1>1. m \in 1..(Len(p) + 1) /\ j \in (m - 1)..Len(p)
  OBVIOUS
<1>2. PICK q : q = SubSeq(p, m, j)
  OBVIOUS
<1>3. q \in Seq(Tokens) /\ Len(q) = j - m + 1 /\ \A k \in 1..(j - m + 1) : q[k] = p[m + k - 1]
  BY <1>1, <1>2, PieceIs
<1>4. q # <<>> /\ q[1] = p[m]
  <2>1. j - m + 1 # 0 /\ 1 \in 1..(j - m + 1) /\ m + 1 - 1 = m
    OBVIOUS
  <2>. QED
    BY <1>3, <2>1
<1>5. Bars(q) = {}
  BY <1>1, <1>2, BarsOfPiece
<1>6. WellFormed[q] = FALSE
  BY <1>3, <1>4, <1>5, WellFormedIs DEF WellFormedBody
<1>. QED
  BY <1>2, <1>6 DEF Formed

-----------------------------------------------------------------------------
(* Branches *)

(* The branch that goes on at i ends before b.                              *)
BranchEnds(p, i, b) ==
  /\ b \in i..(Len(p) + 1)
  /\ NoBar(p, i, b)
  /\ b <= Len(p) => p[b] \in {"|", ")"} /\ Depth(p, b) = Depth(p, i)

LEMMA BranchOn ==
  ASSUME NEW p \in Seq(Tokens), NEW i \in 1..(Len(p) + 1), NEW b, BranchEnds(p, i, b),
         NEW m \in i..b, Depth(p, m) = Depth(p, i)
  PROVE  /\ BranchEnds(p, m, b)
         /\ ~IsMult(p, b)
         /\ NoBar(p, m, (b - 1) + 1)
         /\ b \in 1..(Len(p) + 1) /\ m \in 1..(Len(p) + 1)
<1>1. b \in i..(Len(p) + 1) /\ Len(p) \in Nat
  BY DEF BranchEnds
<1>2. (b - 1) + 1 = b /\ \A k \in m..(b - 1) : k \in i..(b - 1)
  BY <1>1
<1>3. b \in m..(Len(p) + 1) /\ b \in 1..(Len(p) + 1) /\ m \in 1..(Len(p) + 1)
  BY <1>1
<1>4. NoBar(p, m, b)
  BY <1>2 DEF BranchEnds, NoBar
<1>5. b <= Len(p) => p[b] \in {"|", ")"} /\ Depth(p, b) = Depth(p, m)
  BY DEF BranchEnds
<1>6. ~IsMult(p, b)
  BY <1>5 DEF IsMult, Mults
<1>7. BranchEnds(p, m, b)
  BY <1>3, <1>4, <1>5 DEF BranchEnds
<1>. QED
  BY <1>2, <1>3, <1>4, <1>6, <1>7

(* Inside of parentheses it is not less deep than at their beginning.       *)
LEMMA Enclosed ==
  ASSUME NEW p \in Seq(Tokens), NEW i \in 1..Len(p), NEW c, Closes(p, i, c), NEW k \in i..c
  PROVE  Depth(p, k) >= Depth(p, i)
<1>1. c \in i..Len(p)
  BY DEF Closes
<1>2. PICK n \in Nat : n = c - i
  BY <1>1
<1> DEFINE G == {x \in 0..n : Depth(p, i + x) >= Depth(p, i)}
<1>3. Depth(p, i) \in Int
  BY DepthStep
<1>4. 0 \in G
  <2>1. i + 0 = i
    OBVIOUS
  <2>. QED
    BY <1>3, <2>1
<1>5. ASSUME NEW x \in 0..(n - 1), x \in G
      PROVE  x + 1 \in G
  <2>1. x + 1 \in 0..n /\ i + x \in i..(c - 1) /\ i + x \in 1..Len(p) /\ (i + x) + 1 = i + (x + 1)
    BY <1>1, <1>2
  <2>2. PICK y \in 1..Len(p) : y = i + x
    BY <2>1
  <2>0. y \in 1..(Len(p) + 1)
    OBVIOUS
  <2>3. Depth(p, y) \in Int /\ Depth(p, y + 1) = CASE p[y] = "(" -> Depth(p, y) + 1
                                                  [] p[y] = ")" -> Depth(p, y) - 1
                                                  [] OTHER      -> Depth(p, y)
    BY <2>0, DepthStep
  <2>4. ~(p[y] = ")" /\ Depth(p, y) = Depth(p, i))
    BY <2>1, <2>2 DEF Closes
  <2>5. Depth(p, y) >= Depth(p, i)
    BY <1>5, <2>2
  <2>6. Depth(p, y + 1) >= Depth(p, i)
    BY <1>3, <2>3, <2>4, <2>5
  <2>. QED
    BY <2>1, <2>2, <2>6
<1>6. 0..n \subseteq G
  <2>. HIDE DEF G
  <2>. QED
    BY <1>2, <1>4, <1>5, UpTo
<1>7. k - i \in 0..n /\ i + (k - i) = k
  BY <1>1, <1>2
<1>. QED
  BY <1>6, <1>7

(* Parentheses do not reach beyond the branch they are in.                  *)
LEMMA GroupInBranch ==
  ASSUME NEW p \in Seq(Tokens), NEW m \in 1..Len(p), NEW b, BranchEnds(p, m, b), m < b,
         p[m] = "(", NEW c, Closes(p, m + 1, c)
  PROVE  c \in (m + 1)..(b - 1) /\ Depth(p, c + 1) = Depth(p, m)
<1>1. c \in (m + 1)..Len(p) /\ b \in m..(Len(p) + 1) /\ m + 1 \in 1..Len(p)
  BY DEF Closes, BranchEnds
<1>2. Depth(p, m) \in Int /\ Depth(p, m + 1) = Depth(p, m) + 1
  BY DepthStep
<1>3. Depth(p, c) = Depth(p, m + 1) /\ p[c] = ")"
  BY DEF Closes
<1>4. Depth(p, c + 1) = Depth(p, c) - 1
  BY <1>1, <1>3, DepthStep
<1>5. ~(b <= c)
  <2>1. SUFFICES ASSUME b <= c
                 PROVE  FALSE
    OBVIOUS
  <2>2. b \in (m + 1)..c /\ b <= Len(p)
    BY <1>1, <2>1
  <2>3. Depth(p, b) >= Depth(p, m + 1)
    BY <1>1, <2>2, Enclosed
  <2>4. Depth(p, b) = Depth(p, m)
    BY <2>2 DEF BranchEnds
  <2>. QED
    BY <1>2, <2>3, <2>4
<1>. QED
  BY <1>1, <1>2, <1>3, <1>4, <1>5

LEMMA LevelStep ==
  ASSUME NEW p \in Seq(Tokens), NEW m \in 1..Len(p), p[m] \notin {"(", ")"}
  PROVE  Depth(p, m + 1) = Depth(p, m)
BY DepthStep

(* Behind an atom, and behind its multiplier, it is as deep as before.      *)
LEMMA LevelBehind ==
  ASSUME NEW p \in Seq(Tokens), NEW m \in 1..Len(p), NEW b, BranchEnds(p, m, b), m < b,
         NEW t, AtomEnds(p, m, t), p[m] # ")"
  PROVE  /\ t \in m..(b - 1) /\ t + 1 \in (m + 1)..b
         /\ Depth(p, t + 1) = Depth(p, m)
         /\ IsMult(p, t + 1) => Depth(p, t + 2) = Depth(p, m) /\ t + 1 < b /\ t + 2 \in (m + 1)..b
<1>1. b \in m..(Len(p) + 1)
  BY DEF BranchEnds
<1>2. t \in m..(b - 1) /\ Depth(p, t + 1) = Depth(p, m)
  <2>1. CASE p[m] = "("
    <3>1. t \in (m + 1)..(b - 1) /\ Depth(p, t + 1) = Depth(p, m)
      BY <2>1, GroupInBranch DEF AtomEnds
    <3>. QED
      BY <3>1
  <2>2. CASE p[m] # "("
    <3>1. t = m
      BY <2>2 DEF AtomEnds
    <3>2. p[m] \notin {"(", ")"}
      BY <2>2
    <3>3. Depth(p, m + 1) = Depth(p, m)
      BY <3>2, LevelStep
    <3>. QED
      BY <1>1, <3>1, <3>3
  <2>. QED
    BY <2>1, <2>2
<1>3. t + 1 \in (m + 1)..b
  BY <1>1, <1>2
<1>4. ASSUME IsMult(p, t + 1)
      PROVE  Depth(p, t + 2) = Depth(p, m) /\ t + 1 < b /\ t + 2 \in (m + 1)..b
  <2>1. t + 1 \in 1..Len(p) /\ p[t + 1] \in Mults
    BY <1>1, <1>3, <1>4 DEF IsMult
  <2>2. p[t + 1] \notin {"(", ")", "|"}
    BY <2>1 DEF Mults
  <2>3. Depth(p, (t + 1) + 1) = Depth(p, t + 1) /\ (t + 1) + 1 = t + 2
    BY <1>2, <2>1, <2>2, LevelStep
  <2>4. t + 1 # b
    BY <2>1, <2>2 DEF BranchEnds
  <2>. QED
    BY <1>1, <1>2, <1>3, <2>3, <2>4
<1>. QED
  BY <1>2, <1>3, <1>4

(* Ordinary characters, with no multiplier behind them.                     *)
LEMMA RunSplits ==
  ASSUME NEW p \in Seq(Tokens), NEW m \in 1..Len(p), NEW b, BranchEnds(p, m, b),
         NEW n \in (m + 1)..(Len(p) + 1), \A k \in m..(n - 1) : p[k] \notin Meta, ~IsMult(p, n)
  PROVE  /\ n \in (m + 1)..b /\ Depth(p, n) = Depth(p, m)
         /\ Formed(p, m, b - 1) <=> Formed(p, n, b - 1)
         /\ ~Blank(p, m, b - 1)
<1>1. b \in m..(Len(p) + 1)
  BY DEF BranchEnds
<1>2. n <= b
  <2>1. SUFFICES ASSUME b < n
                 PROVE  FALSE
    BY <1>1
  <2>2. b <= Len(p) /\ b \in m..(n - 1)
    BY <1>1, <2>1
  <2>3. p[b] \in Meta
    BY <2>2 DEF BranchEnds, Meta
  <2>. QED
    BY <2>2, <2>3
<1>3. PICK l \in Nat : l = n - m
  OBVIOUS
<1>4. ASSUME NEW x \in m..(n - 1), Depth(p, x) = Depth(p, m)
      PROVE  /\ Depth(p, x + 1) = Depth(p, m)
             /\ Formed(p, x, b - 1) <=> Formed(p, x + 1, b - 1)
             /\ ~Blank(p, x, b - 1)
  <2>1. m \in 1..(Len(p) + 1) /\ x \in m..b /\ x \in 1..Len(p) /\ b - 1 \in x..Len(p) /\ x \in x..(b - 1)
    BY <1>1, <1>2
  <2>2. NoBar(p, x, (b - 1) + 1) /\ ~IsMult(p, b) /\ (b - 1) + 1 = b
    BY <1>1, <1>4, <2>1, BranchOn
  <2>3. p[x] \notin Mults \cup Anchors \cup {"(", ")"}
    BY DEF Meta
  <2>4. ~IsMult(p, x + 1)
    <3>1. CASE x + 1 = n
      BY <3>1
    <3>2. CASE x + 1 # n
      <4>1. x + 1 \in m..(n - 1)
        BY <3>2
      <4>2. p[x + 1] \notin Mults
        BY <4>1 DEF Meta
      <4>. QED
        BY <4>2 DEF IsMult
    <3>. QED
      BY <3>1, <3>2
  <2>5. AtomEnds(p, x, x)
    BY <2>3 DEF AtomEnds
  <2>6. Behind(p, x) = x + 1
    BY <2>4 DEF Behind
  <2>7. PICK j : j = b - 1 /\ j + 1 = b
    BY <2>2
  <2>8. /\ Formed(p, x, j) <=>
              /\ p[x] \notin Mults \cup {")"}
              /\ p[x] = "(" => Formed(p, x + 1, x - 1)
              /\ IsMult(p, x + 1) /\ p[x + 1] \in {"*", "+"} =>
                   p[x] \notin Anchors /\ (p[x] = "(" => ~Blank(p, x + 1, x - 1))
              /\ IsMult(p, x + 1) => ~IsMult(p, x + 2)
              /\ Formed(p, Behind(p, x), j)
        /\ Blank(p, x, j) <=>
              /\ \/ IsMult(p, x + 1) /\ p[x + 1] \in {"*", "?"}
                 \/ p[x] \in Anchors
                 \/ p[x] = "(" /\ Blank(p, x + 1, x - 1)
              /\ Blank(p, Behind(p, x), j)
    BY <2>1, <2>2, <2>5, <2>7, AtomSplits
  <2>9. Depth(p, x + 1) = Depth(p, x)
    BY <2>1, <2>3, LevelStep
  <2>. QED
    BY <1>4, <2>3, <2>4, <2>6, <2>7, <2>8, <2>9
<1> DEFINE G == {x \in 0..l : /\ Depth(p, m + x) = Depth(p, m)
                              /\ Formed(p, m, b - 1) <=> Formed(p, m + x, b - 1)}
<1>5. 0 \in G
  <2>1. m + 0 = m
    OBVIOUS
  <2>. QED
    BY <2>1
<1>6. ASSUME NEW x \in 0..(l - 1), x \in G
      PROVE  x + 1 \in G
  <2>1. x + 1 \in 0..l /\ m + x \in m..(n - 1) /\ (m + x) + 1 = m + (x + 1)
    BY <1>3
  <2>. QED
    BY <1>4, <1>6, <2>1
<1>7. 0..l \subseteq G
  <2>. HIDE DEF G
  <2>. QED
    BY <1>5, <1>6, UpTo
<1>8. l \in 0..l /\ m + l = n /\ m \in m..(n - 1)
  BY <1>3
<1>9. l \in G
  BY <1>7, <1>8
<1>. QED
  BY <1>2, <1>4, <1>8, <1>9

(* What Literal finds where an ordinary character is.                       *)
LEMMA LiteralAt ==
  ASSUME NEW p \in Seq(Tokens), NEW m \in 1..Len(p),
         p[m] \notin Meta \cup DOMAIN Escape \cup DOMAIN Class,
         NEW len, len = Literal(SubSeq(p, m, Len(p)))
  PROVE  /\ len \in 1..(Len(p) - m + 1)
         /\ \A k \in m..(m + len - 1) : p[k] \notin Meta
         /\ len = 1 \/ ~IsMult(p, m + len)
<1>1. PICK q : q = SubSeq(p, m, Len(p))
  OBVIOUS
<1>2. PICK n \in Nat : n = Len(p) - m + 1 /\ n >= 1
  <2>1. Len(p) - m + 1 \in Nat /\ Len(p) - m + 1 >= 1
    OBVIOUS
  <2>. QED
    BY <2>1
<1>3. q \in Seq(Tokens) /\ Len(q) = n /\ \A k \in 1..n : q[k] = p[m + k - 1]
  <2>1. m \in 1..(Len(p) + 1) /\ Len(p) \in (m - 1)..Len(p)
    OBVIOUS
  <2>. QED
    BY <1>1, <1>2, <2>1, PieceIs
<1>4. PICK e : e = Stretch(q)
  OBVIOUS
<1>5. e \in 0..n /\ e \in Ordinary(q) /\ e + 1 \notin Ordinary(q)
  BY <1>3, <1>4, StretchIs
<1>6. \A k \in 1..e : q[k] \notin Meta
  BY <1>5 DEF Ordinary
<1>7. e >= 1
  <2>1. SUFFICES ASSUME e = 0
                 PROVE  FALSE
    BY <1>5
  <2>2. q[1] = p[m] /\ m + 1 - 1 = m
    <3>1. 1 \in 1..n /\ m + 1 - 1 = m
      BY <1>2
    <3>. QED
      BY <1>3, <3>1
  <2>3. 1 \in 0..n /\ \A i \in 1..1 : i = 1
    BY <1>2
  <2>4. 1 \in Ordinary(q)
    BY <1>3, <2>2, <2>3 DEF Ordinary
  <2>5. e + 1 = 1
    BY <2>1
  <2>. QED
    BY <1>5, <2>4, <2>5
<1>8. len = IF e > 1 /\ IsMult(q, e + 1) THEN e - 1 ELSE e
  BY <1>1, <1>4, LiteralLength
<1>9. len \in 1..e
  BY <1>5, <1>7, <1>8
<1>10. ASSUME NEW k \in m..(m + len - 1)
       PROVE  p[k] \notin Meta
  <2>1. k - m + 1 \in 1..e /\ k - m + 1 \in 1..n /\ m + (k - m + 1) - 1 = k
    BY <1>5, <1>9
  <2>. QED
    BY <1>3, <1>6, <2>1
<1>11. \A k \in 1..(n + 1) : IsMult(q, k) <=> IsMult(p, m + k - 1)
  <2>1. ASSUME NEW k \in 1..(n + 1)
        PROVE  IsMult(q, k) <=> IsMult(p, m + k - 1)
    <3>1. k <= n <=> m + k - 1 <= Len(p)
      BY <1>2
    <3>. QED
      BY <1>3, <3>1 DEF IsMult
  <2>. QED
    BY <2>1
<1>12. len = 1 \/ ~IsMult(p, m + len)
  <2>1. SUFFICES ASSUME len # 1
                 PROVE  ~IsMult(p, m + len)
    OBVIOUS
  <2>2. ~IsMult(q, len + 1)
    <3>1. CASE len = e
      BY <1>5, <1>7, <1>8, <2>1, <3>1
    <3>2. CASE len # e
      <4>1. len + 1 = e /\ e \in 1..e
        BY <1>5, <1>7, <1>8, <3>2
      <4>2. q[e] \notin Mults
        BY <1>6, <4>1 DEF Meta
      <4>. QED
        BY <4>1, <4>2 DEF IsMult
    <3>. QED
      BY <3>1, <3>2
  <2>3. len + 1 \in 1..(n + 1) /\ m + (len + 1) - 1 = m + len
    BY <1>5, <1>9
  <2>. QED
    BY <1>11, <2>2, <2>3
<1>13. len \in 1..n
  BY <1>5, <1>9
<1>. QED
  BY <1>2, <1>10, <1>12, <1>13

-----------------------------------------------------------------------------
(* The first pass *)

FirstPass(g) == g \in Passes /\ ~g.emit /\ g.code = <<>>

(* h has not read more than g.                                              *)
Kept(g, h) == FirstPass(h) /\ h.rest = g.rest /\ h.npar = g.npar

LEMMA EmitKept ==
  ASSUME NEW g, FirstPass(g), NEW cells \in Seq(Cells)
  PROVE  Kept(g, Emit(g, cells))
<1>1. PICK n \in Nat : n = g.size + Len(cells)
  <2>1. g.size + Len(cells) \in Nat
    BY DEF FirstPass, Passes
  <2>. QED
    BY <2>1
<1>2. Emit(g, cells) = [g EXCEPT !.size = n]
  BY <1>1 DEF Emit, FirstPass
<1>. QED
  BY <1>2 DEF Kept, FirstPass, Passes

LEMMA KeptOn ==
  ASSUME NEW g, NEW h, NEW e, Kept(g, h), Kept(h, e)
  PROVE  Kept(g, e)
BY DEF Kept

(* Nothing is hooked in the first pass, and inserting is emitting.          *)
LEMMA NodeKept ==
  ASSUME NEW g, FirstPass(g), NEW op \in Opcodes
  PROVE  /\ Kept(g, regnode(g, op))
         /\ Here(g) = regdummy
         /\ NodeTail(g, regdummy, op) = regnode(g, op)
         /\ NodeOpTail(g, regdummy, op) = regnode(g, op)
         /\ reginsert(g, op, regdummy) = regnode(g, op)
<1>1. Kept(g, regnode(g, op))
  BY NodeIs, EmitKept DEF regnode
<1>2. Here(g) = regdummy
  BY DEF Here, FirstPass
<1>3. NodeTail(g, regdummy, op) = regnode(g, op) /\ NodeOpTail(g, regdummy, op) = regnode(g, op)
  BY NoTail DEF NodeTail, NodeOpTail
<1>4. reginsert(g, op, regdummy) = regnode(g, op)
  BY DEF reginsert, regnode, FirstPass
<1>. QED
  BY <1>1, <1>2, <1>3, <1>4

LEMMA StringKept ==
  ASSUME NEW g, FirstPass(g), NEW str \in Seq(Alphabet)
  PROVE  Kept(g, regstring(g, str))
<1>1. PICK cells : cells = [i \in DOMAIN str |-> Cell(str[i])]
  OBVIOUS
<1>2. cells \in Seq(Cells)
  <2>1. PICK n \in Nat : n = Len(str) /\ DOMAIN str = 1..n
    OBVIOUS
  <2>2. \A i \in 1..n : Cell(str[i]) \in Cells
    BY <2>1 DEF Cell, Cells, Bytes
  <2>. QED
    BY <1>1, <2>1, <2>2
<1>3. Append(cells, Cell(NUL)) \in Seq(Cells)
  <2>1. Cell(NUL) \in Cells
    BY DEF Cell, Cells, Bytes
  <2>. QED
    BY <1>2, <2>1
<1>. QED
  BY <1>1, <1>3, EmitKept DEF regstring

LEMMA MultipliedKept ==
  ASSUME NEW g, FirstPass(g), NEW op \in Mults, NEW simple
  PROVE  Kept(g, Multiplied(g, op, regdummy, simple))
<1>1. {"BRANCH", "BACK", "NOTHING", "STAR", "PLUS"} \subseteq Opcodes
  BY DEF Opcodes
<1>2. ASSUME NEW h, FirstPass(h), NEW node \in Opcodes
      PROVE  /\ Kept(h, regnode(h, node))
             /\ FirstPass(regnode(h, node))
             /\ Here(h) = regdummy
             /\ NodeTail(h, regdummy, node) = regnode(h, node)
             /\ NodeOpTail(h, regdummy, node) = regnode(h, node)
             /\ reginsert(h, node, regdummy) = regnode(h, node)
  BY <1>2, NodeKept DEF Kept
<1>3. CASE op = "*" /\ simple
  <2>1. Multiplied(g, op, regdummy, simple) = regnode(g, "STAR")
    BY <1>1, <1>2, <1>3 DEF Multiplied
  <2>. QED
    BY <1>1, <1>2, <2>1
<1>4. CASE op = "+" /\ simple
  <2>1. Multiplied(g, op, regdummy, simple) = regnode(g, "PLUS")
    BY <1>1, <1>2, <1>4 DEF Multiplied
  <2>. QED
    BY <1>1, <1>2, <2>1
<1>5. CASE op = "*" /\ ~simple
  <2>1. PICK a : a = regnode(g, "BRANCH")
    OBVIOUS
  <2>2. PICK b : b = regnode(a, "BACK")
    OBVIOUS
  <2>3. PICK c : c = regnode(b, "BRANCH")
    OBVIOUS
  <2>4. PICK d : d = regnode(c, "NOTHING")
    OBVIOUS
  <2>5. Kept(g, a) /\ FirstPass(a)
    BY <1>1, <1>2, <2>1
  <2>6. Kept(a, b) /\ FirstPass(b)
    BY <1>1, <1>2, <2>2, <2>5
  <2>7. Kept(b, c) /\ FirstPass(c)
    BY <1>1, <1>2, <2>3, <2>6
  <2>8. Kept(c, d) /\ FirstPass(d)
    BY <1>1, <1>2, <2>4, <2>7
  <2>9. Kept(g, d)
    BY <2>5, <2>6, <2>7, <2>8, KeptOn
  <2>10. reginsert(g, "BRANCH", regdummy) = a
    BY <1>1, <1>2, <2>1
  <2>11. regoptail(NodeOpTail(a, regdummy, "BACK"), regdummy, regdummy) = b
    BY <1>1, <1>2, <2>2, <2>5, NoTail
  <2>12. NodeTail(b, regdummy, "BRANCH") = c /\ NodeTail(c, regdummy, "NOTHING") = d
    BY <1>1, <1>2, <2>3, <2>4, <2>6, <2>7
  <2>13. ComplexStar(g, regdummy) = d
    BY <2>10, <2>11, <2>12 DEF ComplexStar
  <2>. QED
    BY <1>5, <2>9, <2>13 DEF Multiplied
<1>6. CASE op = "+" /\ ~simple
  <2>1. PICK a : a = regnode(g, "BRANCH")
    OBVIOUS
  <2>2. PICK b : b = regnode(a, "BACK")
    OBVIOUS
  <2>3. PICK c : c = regnode(b, "BRANCH")
    OBVIOUS
  <2>4. PICK d : d = regnode(c, "NOTHING")
    OBVIOUS
  <2>5. Kept(g, a) /\ FirstPass(a)
    BY <1>1, <1>2, <2>1
  <2>6. Kept(a, b) /\ FirstPass(b)
    BY <1>1, <1>2, <2>2, <2>5
  <2>7. Kept(b, c) /\ FirstPass(c)
    BY <1>1, <1>2, <2>3, <2>6
  <2>8. Kept(c, d) /\ FirstPass(d)
    BY <1>1, <1>2, <2>4, <2>7
  <2>9. Kept(g, d)
    BY <2>5, <2>6, <2>7, <2>8, KeptOn
  <2>10. NodeTail(g, regdummy, "BRANCH") = a
    BY <1>1, <1>2, <2>1
  <2>11. regtail(regnode(a, "BACK"), Here(a), regdummy) = b
    BY <1>1, <1>2, <2>2, <2>5, NoTail
  <2>12. NodeTail(b, Here(g), "BRANCH") = c /\ NodeTail(c, regdummy, "NOTHING") = d
    BY <1>1, <1>2, <2>3, <2>4, <2>6, <2>7
  <2>13. ComplexPlus(g, regdummy) = d
    BY <2>10, <2>11, <2>12 DEF ComplexPlus
  <2>. QED
    BY <1>6, <2>9, <2>13 DEF Multiplied
<1>7. CASE op = "?"
  <2>1. PICK a : a = regnode(g, "BRANCH")
    OBVIOUS
  <2>2. PICK b : b = regnode(a, "BRANCH")
    OBVIOUS
  <2>3. PICK c : c = regnode(b, "NOTHING")
    OBVIOUS
  <2>4. Kept(g, a) /\ FirstPass(a)
    BY <1>1, <1>2, <2>1
  <2>5. Kept(a, b) /\ FirstPass(b)
    BY <1>1, <1>2, <2>2, <2>4
  <2>6. Kept(b, c) /\ FirstPass(c)
    BY <1>1, <1>2, <2>3, <2>5
  <2>7. Kept(g, c)
    BY <2>4, <2>5, <2>6, KeptOn
  <2>8. reginsert(g, "BRANCH", regdummy) = a /\ NodeTail(a, regdummy, "BRANCH") = b
    BY <1>1, <1>2, <2>1, <2>2, <2>4
  <2>9. regoptail(NodeTail(b, regdummy, "NOTHING"), regdummy, Here(b)) = c
    BY <1>1, <1>2, <2>3, <2>5, NoTail
  <2>10. Optional(g, regdummy) = c
    BY <2>8, <2>9 DEF Optional
  <2>. QED
    BY <1>7, <2>7, <2>10 DEF Multiplied
<1>. QED
  BY <1>3, <1>4, <1>5, <1>6, <1>7 DEF Mults

-----------------------------------------------------------------------------
(* What the first pass has read *)

(* g is where token m of p is next.                                         *)
Faces(p, g, m) ==
  /\ FirstPass(g)
  /\ m \in 1..(Len(p) + 1)
  /\ g.rest = SubSeq(p, m, Len(p))

(* Outside of the parentheses it has counted it is where m is.              *)
Stands(p, g, m) == Faces(p, g, m) /\ g.npar = 1 + Opens(p, m - 1) /\ g.npar <= NSUBEXP

LEMMA FacesOn ==
  ASSUME NEW p \in Seq(Tokens), NEW g, NEW m, Faces(p, g, m)
  PROVE  /\ FirstPass(g) /\ g.rest \in Seq(Tokens)
         /\ m = Len(p) + 1 => Char(g) = NUL
         /\ m # Len(p) + 1 => /\ m \in 1..Len(p) /\ Char(g) = p[m] /\ Char(g) # NUL
                              /\ Faces(p, Advance(g), m + 1)
                              /\ Advance(g).npar = g.npar
<1>1. FirstPass(g) /\ g.rest \in Seq(Tokens) /\ m \in 1..(Len(p) + 1) /\ g.rest = SubSeq(p, m, Len(p))
  BY DEF Faces, FirstPass, Passes
<1>2. Len(p) \in (m - 1)..Len(p)
  BY <1>1
<1>3. Len(g.rest) = Len(p) - m + 1 /\ \A k \in 1..(Len(p) - m + 1) : g.rest[k] = p[m + k - 1]
  BY <1>1, <1>2, PieceIs
<1>4. CASE m = Len(p) + 1
  <2>1. Len(g.rest) = 0
    BY <1>3, <1>4
  <2>2. g.rest = <<>>
    BY <1>1, <2>1
  <2>. QED
    BY <1>1, <1>4, <2>2 DEF Char
<1>5. CASE m # Len(p) + 1
  <2>1. m \in 1..Len(p) /\ Len(p) - m + 1 # 0 /\ 1 \in 1..(Len(p) - m + 1) /\ m + 1 - 1 = m
    BY <1>1, <1>5
  <2>2. g.rest # <<>> /\ g.rest[1] = p[m]
    BY <1>3, <2>1
  <2>3. Char(g) = p[m] /\ Char(g) # NUL
    BY <1>1, <2>2, CharIs DEF Char
  <2>4. PICK rest \in Seq(Tokens) : rest = Tail(g.rest)
    <3>1. Tail(g.rest) \in Seq(Tokens)
      BY <1>1, <2>2, HeadTailProperties
    <3>. QED
      BY <3>1
  <2>5. rest = SubSeq(p, m + 1, Len(p))
    <3>1. Len(p) \in m..Len(p)
      BY <2>1
    <3>. QED
      BY <1>1, <2>1, <2>4, <3>1, HeadTailOfSubSeq
  <2>6. Advance(g) = [g EXCEPT !.rest = rest]
    BY <2>4 DEF Advance
  <2>7. FirstPass(Advance(g)) /\ Advance(g).rest = rest /\ Advance(g).npar = g.npar
    BY <1>1, <2>6 DEF FirstPass, Passes
  <2>8. m + 1 \in 1..(Len(p) + 1)
    BY <2>1
  <2>9. Faces(p, Advance(g), m + 1)
    BY <2>5, <2>7, <2>8 DEF Faces
  <2>. QED
    BY <1>1, <1>5, <2>1, <2>3, <2>7, <2>9
<1>. QED
  BY <1>1, <1>4, <1>5

LEMMA FacesMult ==
  ASSUME NEW p \in Seq(Tokens), NEW g, NEW m, Faces(p, g, m)
  PROVE  Char(g) \in Mults <=> IsMult(p, m)
<1>1. m \in 1..(Len(p) + 1) /\ Len(p) \in Nat
  BY DEF Faces
<1>0. m = Len(p) + 1 => Char(g) = NUL
  BY FacesOn
<1>2. CASE m = Len(p) + 1
  <2>1. Char(g) = NUL
    BY <1>0, <1>2
  <2>2. NUL \notin Mults
    BY RegexpAssumption DEF Tokens, Meta
  <2>3. ~(m <= Len(p))
    BY <1>1, <1>2
  <2>. QED
    BY <2>1, <2>2, <2>3 DEF IsMult
<1>3. CASE m # Len(p) + 1
  <2>1. Char(g) = p[m]
    BY <1>3, FacesOn
  <2>2. m <= Len(p)
    BY <1>1, <1>3
  <2>. QED
    BY <2>1, <2>2 DEF IsMult
<1>. QED
  BY <1>2, <1>3

LEMMA KeptStands ==
  ASSUME NEW p, NEW g, NEW m, NEW h, Kept(g, h)
  PROVE  (Faces(p, g, m) => Faces(p, h, m)) /\ (Stands(p, g, m) => Stands(p, h, m))
BY DEF Kept, Faces, Stands

(* One token that opens nothing.                                            *)
LEMMA StandsOn ==
  ASSUME NEW p \in Seq(Tokens), NEW g, NEW m \in 1..Len(p), Stands(p, g, m), p[m] # "("
  PROVE  Stands(p, Advance(g), m + 1)
<1>1. m # Len(p) + 1 /\ m \in 0..Len(p) /\ (m + 1) - 1 = m
  OBVIOUS
<1>2. Faces(p, Advance(g), m + 1) /\ Advance(g).npar = g.npar
  BY <1>1, FacesOn DEF Stands
<1>3. Opens(p, m) = Opens(p, m - 1)
  <2>1. m - 1 \in 0..Len(p)
    OBVIOUS
  <2>. QED
    BY <2>1, OpensStep
<1>. QED
  BY <1>1, <1>2, <1>3 DEF Stands

(* Where reg() begins with a group: behind "(", which is not counted yet.   *)
GroupAt(p, g, i) ==
  /\ Faces(p, g, i)
  /\ i \in 2..(Len(p) + 1) /\ p[i - 1] = "("
  /\ g.npar = Opens(p, i - 1) /\ g.npar <= NSUBEXP

(* A pass refuses what is in tokens i to j.                                 *)
Refused(p, i, j) == ~Formed(p, i, j) \/ Opens(p, j) >= NSUBEXP

(* Outcome r of the group is right: the group is read to its end, or there  *)
(* is none, or what is in it is refused.                                    *)
GroupRead(p, i, r) ==
  /\ r \in Outcomes
  /\ r.ok => /\ r.ret = regdummy
             /\ \E c : /\ Closes(p, i, c) /\ Stands(p, r.g, c + 1)
                       /\ Formed(p, i, c - 1)
                       /\ "HASWIDTH" \in r.flags <=> ~Blank(p, i, c - 1)
  /\ ~r.ok => \A c : Closes(p, i, c) => Refused(p, i, c - 1)

(* group does so for what is in at least level parentheses.                 *)
Good(group, p, level) == \A g, i : GroupAt(p, g, i) /\ level <= g.npar => GroupRead(p, i, group[g])

LEMMA GroupBehind ==
  ASSUME NEW p \in Seq(Tokens), NEW g, NEW m \in 1..Len(p), Stands(p, g, m), p[m] = "("
  PROVE  GroupAt(p, Advance(g), m + 1) /\ Advance(g).npar = g.npar
<1>1. m # Len(p) + 1 /\ m - 1 \in 0..Len(p) /\ (m + 1) - 1 = m
  OBVIOUS
<1>2. Faces(p, Advance(g), m + 1) /\ Advance(g).npar = g.npar
  BY <1>1, FacesOn DEF Stands
<1>3. Opens(p, m) = 1 + Opens(p, m - 1)
  BY <1>1, OpensStep
<1>4. m + 1 \in 2..(Len(p) + 1)
  OBVIOUS
<1>. QED
  BY <1>1, <1>2, <1>3, <1>4 DEF GroupAt, Stands

-----------------------------------------------------------------------------
(* An atom *)

(* The single atom that begins at m is a legal one; it ends at t.           *)
SingleRead(p, m, t, fl) ==
  /\ AtomEnds(p, m, t)
  /\ p[m] \notin Mults \cup {")"}
  /\ p[m] = "(" => Formed(p, m + 1, t - 1)
  /\ "HASWIDTH" \in fl <=> p[m] \notin Anchors /\ (p[m] = "(" => ~Blank(p, m + 1, t - 1))

(* Several ordinary characters with no multiplier behind them.              *)
RunRead(p, m, t, fl) ==
  /\ t >= m
  /\ \A k \in m..t : p[k] \notin Meta
  /\ ~IsMult(p, t + 1)
  /\ "HASWIDTH" \in fl

AtomRead(p, m, b, a) ==
  /\ a.ok
  /\ a.ret = regdummy
  /\ \E t \in m..(b - 1) : /\ Stands(p, a.g, t + 1)
                           /\ SingleRead(p, m, t, a.flags) \/ RunRead(p, m, t, a.flags)

(* An anchor, a dot, an escape or a class: a node for one token.            *)
LEMMA TokenRead ==
  ASSUME NEW p \in Seq(Tokens), NEW g, NEW m \in 1..Len(p), Stands(p, g, m), p[m] # "(",
         p[m] \notin Mults \cup {")"}, NEW b, b > m, b \in Int,
         NEW fl \in SUBSET Flags, "HASWIDTH" \in fl <=> p[m] \notin Anchors,
         NEW h, Kept(Advance(g), h), NEW a, a = Made(h, regdummy, fl)
  PROVE  a \in Outcomes /\ AtomRead(p, m, b, a)
<1>1. Stands(p, Advance(g), m + 1)
  BY StandsOn
<1>2. Stands(p, h, m + 1)
  BY <1>1, KeptStands
<1>3. h \in Passes /\ regdummy \in Int
  BY <1>2 DEF Stands, Faces, FirstPass, regdummy
<1>4. a \in Outcomes /\ a.ok /\ a.g = h /\ a.ret = regdummy /\ a.flags = fl
  <2>. HIDE DEF regdummy
  <2>. QED
    BY <1>3, MadeIs
<1>5. SingleRead(p, m, m, fl)
  BY DEF SingleRead, AtomEnds
<1>6. m \in m..(b - 1)
  OBVIOUS
<1>. QED
  BY <1>2, <1>4, <1>5, <1>6 DEF AtomRead

LEMMA OpensRun ==
  ASSUME NEW p \in Seq(Tokens), NEW m \in 1..Len(p), NEW n \in (m + 1)..(Len(p) + 1),
         \A k \in m..(n - 1) : p[k] # "("
  PROVE  Opens(p, n - 1) = Opens(p, m - 1)
<1>1. PICK l \in Nat : l = n - m
  OBVIOUS
<1> DEFINE G == {x \in 0..l : Opens(p, (m - 1) + x) = Opens(p, m - 1)}
<1>2. 0 \in G
  <2>1. (m - 1) + 0 = m - 1
    OBVIOUS
  <2>. QED
    BY <2>1
<1>3. ASSUME NEW x \in 0..(l - 1), x \in G
      PROVE  x + 1 \in G
  <2>1. x + 1 \in 0..l /\ m + x \in m..(n - 1) /\ m + x \in 1..Len(p)
    BY <1>1
  <2>2. (m - 1) + (x + 1) = m + x /\ (m + x) - 1 = (m - 1) + x /\ (m - 1) + x \in 0..Len(p)
    BY <2>1
  <2>3. Opens(p, m + x) = Opens(p, (m + x) - 1)
    <3>1. PICK y \in 1..Len(p) : y = m + x /\ y - 1 \in 0..Len(p)
      BY <2>1
    <3>2. p[y] # "("
      BY <2>1, <3>1
    <3>3. Opens(p, y - 1) \in Nat
      BY <3>1, OpensStep
    <3>4. Opens(p, y) = Opens(p, y - 1) + 0
      BY <3>2, OpensStep
    <3>. QED
      BY <3>1, <3>3, <3>4
  <2>. QED
    BY <1>3, <2>1, <2>2, <2>3
<1>4. 0..l \subseteq G
  <2>. HIDE DEF G
  <2>. QED
    BY <1>2, <1>3, UpTo
<1>5. l \in 0..l /\ (m - 1) + l = n - 1
  BY <1>1
<1>6. l \in G
  BY <1>4, <1>5
<1>7. Opens(p, (m - 1) + l) = Opens(p, m - 1)
  BY <1>6
<1>. QED
  BY <1>5, <1>7

(* A literal.                                                               *)
LEMMA OrdinaryRead ==
  ASSUME NEW p \in Seq(Tokens), NEW g, NEW m \in 1..Len(p), Stands(p, g, m),
         p[m] \notin Meta \cup DOMAIN Escape \cup DOMAIN Class,
         NEW b, BranchEnds(p, m, b), m < b,
         NEW a, a = OrdinaryAtom(g, Literal(g.rest))
  PROVE  a \in Outcomes /\ AtomRead(p, m, b, a)
<1>1. /\ FirstPass(g) /\ g \in Passes /\ g.rest = SubSeq(p, m, Len(p))
      /\ g.npar = 1 + Opens(p, m - 1) /\ g.npar <= NSUBEXP /\ Here(g) = regdummy
  BY DEF Stands, Faces, FirstPass, Here
<1>2. PICK len : len = Literal(g.rest)
  OBVIOUS
<1>3. /\ len \in 1..(Len(p) - m + 1)
      /\ \A k \in m..(m + len - 1) : p[k] \notin Meta
      /\ len = 1 \/ ~IsMult(p, m + len)
  BY <1>1, <1>2, LiteralAt
<1>4. PICK t : t = m + len - 1
  OBVIOUS
<1>5. t \in m..Len(p) /\ t + 1 = m + len /\ t + 1 \in (m + 1)..(Len(p) + 1) /\ (t + 1) - 1 = t
  BY <1>3, <1>4
<1>6. b \in m..(Len(p) + 1)
  BY DEF BranchEnds
<1>7. len # 1 => t \in m..(b - 1)
  <2>1. SUFFICES ASSUME len # 1
                 PROVE  t \in m..(b - 1)
    OBVIOUS
  <2>2. PICK n \in (m + 1)..(Len(p) + 1) : n = t + 1 /\ n - 1 = t
    BY <1>5
  <2>3. n \in (m + 1)..b
    BY <1>3, <1>4, <1>5, <2>1, <2>2, RunSplits
  <2>. QED
    BY <1>6, <2>2, <2>3
<1>8. t \in m..(b - 1)
  <2>1. len = 1 => t = m
    BY <1>4
  <2>. QED
    BY <1>6, <1>7, <2>1
<1>9. PICK str : str = SubSeq(g.rest, 1, len)
  OBVIOUS
<1>10. str \in Seq(Alphabet)
  <2>1. g.rest \in Seq(Tokens)
    BY <1>1 DEF Passes
  <2>. QED
    BY <1>2, <1>9, <2>1, LiteralIs
<1>11. PICK h : h = regstring(regnode(g, "EXACTLY"), str)
  OBVIOUS
<1>12. Kept(g, h)
  <2>1. "EXACTLY" \in Opcodes
    BY DEF Opcodes
  <2>2. Kept(g, regnode(g, "EXACTLY"))
    BY <1>1, <2>1, NodeKept
  <2>3. Kept(regnode(g, "EXACTLY"), h)
    BY <1>10, <1>11, <2>2, StringKept DEF Kept
  <2>. QED
    BY <2>2, <2>3, KeptOn
<1>13. PICK rest : rest = SubSeq(g.rest, len + 1, Len(g.rest))
  OBVIOUS
<1>14. rest = SubSeq(p, t + 1, Len(p)) /\ rest \in Seq(Tokens)
  <2>1. m \in 1..(Len(p) + 1) /\ Len(p) \in (m - 1)..Len(p)
    OBVIOUS
  <2>2. Len(g.rest) = Len(p) - m + 1
    BY <1>1, <2>1, PieceIs
  <2>3. PICK e : e = Len(p) - m + 1
    OBVIOUS
  <2>4. len + 1 \in 1..(Len(p) - m + 2) /\ e \in ((len + 1) - 1)..(Len(p) - m + 1)
    BY <1>3, <2>3
  <2>5. SubSeq(SubSeq(p, m, Len(p)), len + 1, e) = SubSeq(p, m + (len + 1) - 1, m + e - 1)
    <3>1. PICK j : j = Len(p)
      OBVIOUS
    <3>2. PICK x : x = len + 1
      OBVIOUS
    <3>3. j \in (m - 1)..Len(p) /\ x \in 1..(j - m + 2) /\ e \in (x - 1)..(j - m + 1)
      BY <2>1, <2>4, <3>1, <3>2
    <3>4. SubSeq(SubSeq(p, m, j), x, e) = SubSeq(p, m + x - 1, m + e - 1)
      BY <2>1, <3>3, PieceOfPiece
    <3>. QED
      BY <3>1, <3>2, <3>4
  <2>6. m + (len + 1) - 1 = t + 1 /\ m + e - 1 = Len(p)
    BY <1>3, <1>4, <2>3
  <2>7. rest = SubSeq(p, t + 1, Len(p))
    BY <1>1, <1>13, <2>2, <2>3, <2>5, <2>6
  <2>8. t + 1 \in 1..(Len(p) + 1) /\ Len(p) \in ((t + 1) - 1)..Len(p)
    BY <1>5
  <2>. QED
    BY <2>7, <2>8, PieceIs
<1>15. PICK h2 : h2 = [h EXCEPT !.rest = rest]
  OBVIOUS
<1>16. FirstPass(h2) /\ h2.rest = rest /\ h2.npar = g.npar
  BY <1>12, <1>14, <1>15 DEF Kept, FirstPass, Passes
<1>17. Stands(p, h2, t + 1)
  <2>1. Opens(p, (t + 1) - 1) = Opens(p, m - 1)
    <3>1. \A k \in m..((t + 1) - 1) : p[k] # "("
      BY <1>3, <1>4, <1>5 DEF Meta
    <3>. QED
      BY <1>5, <3>1, OpensRun
  <2>2. t + 1 \in 1..(Len(p) + 1)
    BY <1>5
  <2>. QED
    BY <1>1, <1>14, <1>16, <2>1, <2>2 DEF Stands, Faces
<1>18. PICK fl : fl = IF len = 1 THEN Single ELSE {"HASWIDTH"}
  OBVIOUS
<1>19. fl \in SUBSET Flags /\ "HASWIDTH" \in fl
  BY <1>18 DEF Flags, Single
<1>20. h.rest = g.rest
  BY <1>12 DEF Kept
<1>21. a = Made(h2, regdummy, fl)
  <2>1. h2 = [h EXCEPT !.rest = SubSeq(@, len + 1, Len(@))]
    BY <1>13, <1>15, <1>20
  <2>. QED
    BY <1>1, <1>2, <1>9, <1>11, <1>18, <2>1 DEF OrdinaryAtom
<1>22. a \in Outcomes /\ a.ok /\ a.g = h2 /\ a.ret = regdummy /\ a.flags = fl
  <2>1. h2 \in Passes /\ regdummy \in Int
    BY <1>16 DEF FirstPass, regdummy
  <2>. HIDE DEF regdummy
  <2>. QED
    BY <1>19, <1>21, <2>1, MadeIs
<1>23. SingleRead(p, m, t, fl) \/ RunRead(p, m, t, fl)
  <2>1. CASE len = 1
    <3>1. t = m
      BY <1>4, <2>1
    <3>2. p[m] \notin Mults \cup Anchors \cup {"(", ")"}
      BY DEF Meta
    <3>. QED
      BY <1>19, <3>1, <3>2 DEF SingleRead, AtomEnds
  <2>2. CASE len # 1
    BY <1>3, <1>4, <1>5, <1>19, <2>2 DEF RunRead
  <2>. QED
    BY <2>1, <2>2
<1>. QED
  BY <1>8, <1>17, <1>22, <1>23 DEF AtomRead

(* A group.                                                                 *)
LEMMA GroupAtomRead ==
  ASSUME NEW p \in Seq(Tokens), NEW g, NEW m \in 1..Len(p), Stands(p, g, m), p[m] = "(",
         NEW b, BranchEnds(p, m, b), m < b,
         NEW group, NEW level, Good(group, p, level), level <= g.npar,
         NEW a, a = GroupAtom(group[Advance(g)])
  PROVE  a \in Outcomes /\ (AtomRead(p, m, b, a) \/ (a = FAIL /\ Refused(p, m, b - 1)))
<1>1. PICK r : r = group[Advance(g)]
  OBVIOUS
<1>2. GroupRead(p, m + 1, r)
  <2>1. GroupAt(p, Advance(g), m + 1) /\ Advance(g).npar = g.npar
    BY GroupBehind
  <2>. QED
    BY <1>1, <2>1 DEF Good
<1>3. r \in Outcomes
  BY <1>2 DEF GroupRead
<1>4. /\ b \in m..(Len(p) + 1) /\ m \in 1..(Len(p) + 1) /\ b - 1 \in m..Len(p)
      /\ NoBar(p, m, (b - 1) + 1) /\ ~IsMult(p, (b - 1) + 1) /\ Opens(p, b - 1) \in Nat
  <2>1. b \in m..(Len(p) + 1)
    BY DEF BranchEnds
  <2>2. (b - 1) + 1 = b /\ b - 1 \in m..Len(p) /\ m \in m..b /\ m \in 1..(Len(p) + 1)
    BY <2>1
  <2>3. NoBar(p, m, (b - 1) + 1) /\ ~IsMult(p, b)
    BY <2>2, BranchOn
  <2>4. b - 1 \in 0..Len(p)
    BY <2>2
  <2>. QED
    BY <2>1, <2>2, <2>3, <2>4, OpensStep
<1>5. CASE r.ok
  <2>1. r.g \in Passes /\ r.ret \in Int /\ r.flags \in SUBSET Flags
    BY <1>3, <1>5, OutcomeIs
  <2>2. PICK c : /\ r.ret = regdummy
                 /\ Closes(p, m + 1, c) /\ Stands(p, r.g, c + 1)
                 /\ Formed(p, m + 1, c - 1)
                 /\ "HASWIDTH" \in r.flags <=> ~Blank(p, m + 1, c - 1)
    BY <1>2, <1>5 DEF GroupRead
  <2>3. PICK fl : fl = r.flags \ {"SIMPLE"}
    OBVIOUS
  <2>4. a.ok /\ a.g = r.g /\ a.ret = regdummy /\ a.flags = fl /\ a \in Outcomes
    <3>1. r \in [ok : {TRUE}, g : Passes, ret : Int, flags : SUBSET Flags]
      <4>1. FAIL.ok = FALSE
        BY DEF FAIL
      <4>. QED
        BY <1>3, <1>5, <4>1 DEF Outcomes
    <3>2. a = [r EXCEPT !.flags = fl]
      BY <1>1, <1>5, <2>3 DEF GroupAtom
    <3>3. fl \in SUBSET Flags
      BY <2>1, <2>3
    <3>4. /\ a \in [ok : {TRUE}, g : Passes, ret : Int, flags : SUBSET Flags]
          /\ a.ok = TRUE /\ a.g = r.g /\ a.ret = r.ret /\ a.flags = fl
      BY <3>1, <3>2, <3>3
    <3>. QED
      BY <2>2, <3>4 DEF Outcomes
  <2>5. c \in m..(b - 1)
    BY GroupInBranch, <2>2
  <2>6. SingleRead(p, m, c, fl)
    BY <2>2, <2>3 DEF SingleRead, AtomEnds, Mults, Anchors
  <2>7. AtomRead(p, m, b, a)
    BY <2>2, <2>4, <2>5, <2>6 DEF AtomRead
  <2>8. a \in Outcomes
    BY <2>4
  <2>. QED
    BY <2>7, <2>8
<1>6. CASE ~r.ok
  <2>1. a = FAIL /\ a \in Outcomes
    BY <1>1, <1>6 DEF GroupAtom, Outcomes
  <2>2. PICK j \in m..Len(p) : j = b - 1
    BY <1>4
  <2>3. CASE \E c : Closes(p, m + 1, c)
    <3>1. PICK c : Closes(p, m + 1, c)
      BY <2>3
    <3>2. c \in (m + 1)..(b - 1)
      BY <3>1, GroupInBranch
    <3>3. Refused(p, m + 1, c - 1)
      BY <1>2, <1>6, <3>1 DEF GroupRead
    <3>4. CASE Opens(p, c - 1) >= NSUBEXP
      <4>1. j \in 0..Len(p) /\ c - 1 \in 0..j
        BY <2>2, <3>2
      <4>2. Opens(p, c - 1) <= Opens(p, j) /\ Opens(p, c - 1) \in Nat /\ Opens(p, j) \in Nat
        BY <4>1, OpensGrow, OpensStep
      <4>3. Opens(p, j) >= NSUBEXP
        BY <3>4, <4>2, RegexpAssumption
      <4>. QED
        BY <2>1, <2>2, <4>3 DEF Refused
    <3>5. CASE ~Formed(p, m + 1, c - 1)
      <4>1. c \in m..j /\ AtomEnds(p, m, c)
        BY <2>2, <3>1, <3>2 DEF AtomEnds
      <4>2. Formed(p, m, j) => Formed(p, m + 1, c - 1)
        BY <1>4, <2>2, <4>1, AtomSplits
      <4>. QED
        BY <2>1, <2>2, <3>5, <4>2 DEF Refused
    <3>. QED
      BY <3>3, <3>4, <3>5 DEF Refused
  <2>4. CASE ~\E c : Closes(p, m + 1, c)
    <3>1. ~Formed(p, m, j)
      BY <1>4, <2>2, <2>4, Unclosed
    <3>. QED
      BY <2>1, <2>2, <3>1 DEF Refused
  <2>. QED
    BY <2>3, <2>4
<1>. QED
  BY <1>5, <1>6

(* Any atom.                                                                *)
LEMMA RegatomRead ==
  ASSUME NEW p \in Seq(Tokens), NEW g, NEW m \in 1..Len(p), Stands(p, g, m),
         p[m] \notin {"|", ")"}, NEW b, BranchEnds(p, m, b), m < b,
         NEW group, NEW level, Good(group, p, level), level <= g.npar,
         NEW a, a = regatom(g, group)
  PROVE  a \in Outcomes /\ (AtomRead(p, m, b, a) \/ (a = FAIL /\ Refused(p, m, b - 1)))
<1>0. Faces(p, g, m) /\ m # Len(p) + 1
  BY DEF Stands
<1>1. /\ FirstPass(g) /\ g.rest \in Seq(Tokens) /\ Char(g) = p[m] /\ Char(g) # NUL
      /\ Faces(p, Advance(g), m + 1)
  BY <1>0, FacesOn
<1>2. PICK c : c = p[m]
  OBVIOUS
<1>3. c = Char(g) /\ c # NUL
  BY <1>1, <1>2
<1>4. PICK h : h = Advance(g)
  OBVIOUS
<1>5. FirstPass(h) /\ Here(h) = regdummy /\ Here(g) = regdummy
  BY <1>1, <1>4 DEF Faces, Here, FirstPass
<1>6. b > m /\ b \in Int /\ b \in m..(Len(p) + 1)
  BY DEF BranchEnds
<1>7. DOMAIN Escape \cap Meta = {} /\ DOMAIN Class \cap Meta = {}
  BY RegexpAssumption
<1>8. CASE c = "("
  <2>1. a = GroupAtom(group[Advance(g)])
    BY <1>1, <1>3, <1>8, AtomIs
  <2>. QED
    BY <1>2, <1>8, <2>1, GroupAtomRead
<1>9. CASE c \in Mults
  <2>1. a = FAIL
    BY <1>1, <1>3, <1>9, AtomIs
  <2>2. PICK j \in m..Len(p) : j = b - 1 /\ j + 1 = b
    BY <1>6
  <2>3. NoBar(p, m, j + 1)
    BY <2>2 DEF BranchEnds
  <2>4. ~Formed(p, m, j)
    BY <1>2, <1>9, <2>3, Stray
  <2>. QED
    BY <2>1, <2>2, <2>4 DEF Refused, Outcomes
<1>10. ASSUME NEW op \in Opcodes
       PROVE  Kept(h, regnode(h, op))
  BY <1>5, NodeKept
<1>11. ASSUME NEW op \in Opcodes, NEW str \in Seq(Alphabet)
       PROVE  Kept(h, regstring(regnode(h, op), str))
  <2>1. Kept(h, regnode(h, op))
    BY <1>10
  <2>2. Kept(regnode(h, op), regstring(regnode(h, op), str))
    BY <2>1, StringKept DEF Kept
  <2>. QED
    BY <2>1, <2>2, KeptOn
<1>12. ASSUME c \notin Mults \cup {"(", ")"}, NEW e, Kept(h, e),
              \/ c \in Anchors /\ a = Made(e, regdummy, {})
              \/ c \notin Anchors /\ a = Made(e, regdummy, Single)
       PROVE  a \in Outcomes /\ AtomRead(p, m, b, a)
  <2>1. PICK fl : fl = IF c \in Anchors THEN {} ELSE Single
    OBVIOUS
  <2>2. fl \in SUBSET Flags /\ ("HASWIDTH" \in fl <=> p[m] \notin Anchors)
    BY <1>2, <2>1 DEF Single, Flags
  <2>3. a = Made(e, regdummy, fl)
    BY <1>12, <2>1
  <2>4. p[m] # "(" /\ p[m] \notin Mults \cup {")"} /\ Kept(Advance(g), e)
    BY <1>2, <1>4, <1>12
  <2>. QED
    BY <1>6, <2>2, <2>3, <2>4, TokenRead
<1>13. CASE c \in Anchors
  <2>1. PICK op \in Opcodes : a = Made(regnode(h, op), regdummy, {})
    <3>1. {"BOL", "EOL"} \subseteq Opcodes
      BY DEF Opcodes
    <3>2. \/ a = Made(regnode(h, "BOL"), regdummy, {})
          \/ a = Made(regnode(h, "EOL"), regdummy, {})
      BY <1>1, <1>3, <1>4, <1>5, <1>13, AtomIs DEF Anchors
    <3>. QED
      BY <3>1, <3>2
  <2>2. c \notin Mults \cup {"(", ")"}
    BY <1>13 DEF Anchors, Mults
  <2>. QED
    BY <1>10, <1>12, <1>13, <2>1, <2>2
<1>14. CASE c = "."
  <2>1. "ANY" \in Opcodes
    BY DEF Opcodes
  <2>2. a = Made(regnode(h, "ANY"), regdummy, Single)
    BY <1>1, <1>3, <1>4, <1>5, <1>14, AtomIs
  <2>3. c \notin Mults \cup {"(", ")"} /\ c \notin Anchors
    BY <1>14 DEF Anchors, Mults
  <2>. QED
    BY <1>10, <1>12, <2>1, <2>2, <2>3
<1>15. ASSUME c \in DOMAIN Escape \/ c \in DOMAIN Class
       PROVE  c \notin Mults \cup {"(", ")"} /\ c \notin Anchors
  BY <1>7, <1>15 DEF Meta
<1>16. CASE c \in DOMAIN Escape
  <2>1. "EXACTLY" \in Opcodes
    BY DEF Opcodes
  <2>2. PICK str \in Seq(Alphabet) : str = <<Escape[c]>>
    <3>1. PICK x \in Alphabet : x = Escape[c]
      BY <1>16, RegexpAssumption
    <3>2. <<x>> \in Seq(Alphabet)
      OBVIOUS
    <3>. QED
      BY <3>1, <3>2
  <2>3. a = Made(regstring(regnode(h, "EXACTLY"), str), regdummy, Single)
    <3>1. a = StringNode(Advance(g), "EXACTLY", <<Escape[c]>>, Single)
      BY <1>1, <1>3, <1>16, AtomIs
    <3>2. a = StringNode(h, "EXACTLY", str, Single)
      BY <1>4, <2>2, <3>1
    <3>. QED
      BY <1>5, <3>2 DEF StringNode
  <2>. QED
    BY <1>11, <1>12, <1>15, <1>16, <2>1, <2>3
<1>17. CASE c \in DOMAIN Class
  <2>1. PICK op \in Opcodes : op = IF Class[c].neg THEN "ANYBUT" ELSE "ANYOF"
    BY DEF Opcodes
  <2>2. PICK str \in Seq(Alphabet) : str = SetToSeq(Class[c].set)
    <3>1. Class[c].set \in SUBSET Alphabet /\ IsFiniteSet(Class[c].set)
      BY <1>17, RegexpAssumption
    <3>. QED
      BY <3>1, ClassIs
  <2>3. a = Made(regstring(regnode(h, op), str), regdummy, Single)
    <3>1. a = StringNode(Advance(g), IF Class[c].neg THEN "ANYBUT" ELSE "ANYOF",
                         SetToSeq(Class[c].set), Single)
      BY <1>1, <1>3, <1>17, AtomIs
    <3>2. a = StringNode(h, op, str, Single)
      BY <1>4, <2>1, <2>2, <3>1
    <3>. QED
      BY <1>5, <3>2 DEF StringNode
  <2>. QED
    BY <1>11, <1>12, <1>15, <1>17, <2>3
<1>18. CASE c \notin Meta \cup DOMAIN Escape \cup DOMAIN Class
  <2>1. a = OrdinaryAtom(g, Literal(g.rest))
    BY <1>1, <1>3, <1>18, AtomIs
  <2>2. p[m] \notin Meta \cup DOMAIN Escape \cup DOMAIN Class
    BY <1>2, <1>18
  <2>3. a \in Outcomes /\ AtomRead(p, m, b, a)
    BY <2>1, <2>2, OrdinaryRead
  <2>. QED
    BY <2>3
<1>19. c \in Meta => c \in {".", "("} \cup Anchors \cup Mults
  BY <1>2 DEF Meta
<1>. QED
  BY <1>8, <1>9, <1>13, <1>14, <1>16, <1>17, <1>18, <1>19

-----------------------------------------------------------------------------
(* A piece *)

(* From i to m, in the branch that ends before b, all is well: tokens i to b *)
(* are a pattern if those behind m are one, and r has the flags of what is   *)
(* between i and m.                                                         *)
Moved(p, i, b, r, m) ==
  /\ r \in Outcomes /\ r.ok
  /\ m \in i..b
  /\ Stands(p, r.g, m) /\ Depth(p, m) = Depth(p, i)
  /\ Formed(p, i, b - 1) <=> Formed(p, m, b - 1)
  /\ ~Blank(p, i, b - 1) <=> "HASWIDTH" \in r.flags \/ ~Blank(p, m, b - 1)

LEMMA RepeatedRead ==
  ASSUME NEW p \in Seq(Tokens), NEW m \in 1..Len(p), NEW b, BranchEnds(p, m, b), m < b,
         NEW a \in Outcomes, a.ok, a.ret = regdummy, NEW t \in m..(b - 1),
         Stands(p, a.g, t + 1), SingleRead(p, m, t, a.flags), IsMult(p, t + 1),
         NEW r, r = Piece(a)
  PROVE  \/ r = FAIL /\ ~Formed(p, m, b - 1)
         \/ r.ret = regdummy /\ \E n \in (m + 1)..b : Moved(p, m, b, r, n)
<1>1. b \in m..(Len(p) + 1)
  BY DEF BranchEnds
<1>2. PICK j \in m..Len(p) : j = b - 1 /\ j + 1 = b
  BY <1>1
<1>3. /\ t + 1 \in 1..Len(p) /\ p[t + 1] \in Mults /\ p[t + 1] # "("
      /\ Depth(p, t + 2) = Depth(p, m) /\ t + 2 \in (m + 1)..b
      /\ AtomEnds(p, m, t) /\ p[m] \notin Mults \cup {")"} /\ t \in m..j
  <2>1. AtomEnds(p, m, t) /\ p[m] \notin Mults \cup {")"}
    BY DEF SingleRead
  <2>2. Depth(p, t + 2) = Depth(p, m) /\ t + 1 < b /\ t + 2 \in (m + 1)..b
    BY <2>1, LevelBehind
  <2>3. t + 1 <= Len(p) /\ p[t + 1] \in Mults
    BY DEF IsMult
  <2>4. p[t + 1] # "("
    BY <2>3 DEF Mults
  <2>. QED
    BY <1>1, <1>2, <2>1, <2>2, <2>3, <2>4
<1>4. NoBar(p, m, j + 1) /\ ~IsMult(p, j + 1)
  <2>1. m \in 1..(Len(p) + 1) /\ m \in m..b
    BY <1>1
  <2>2. NoBar(p, m, (b - 1) + 1) /\ ~IsMult(p, b)
    BY <2>1, BranchOn
  <2>. QED
    BY <1>2, <2>2
<1>5. PICK n : n = t + 2
  OBVIOUS
<1>6. PICK op : op = p[t + 1]
  OBVIOUS
<1>7. /\ Formed(p, m, j) <=>
           /\ p[m] \notin Mults \cup {")"}
           /\ p[m] = "(" => Formed(p, m + 1, t - 1)
           /\ IsMult(p, t + 1) /\ p[t + 1] \in {"*", "+"} =>
                p[m] \notin Anchors /\ (p[m] = "(" => ~Blank(p, m + 1, t - 1))
           /\ IsMult(p, t + 1) => ~IsMult(p, t + 2)
           /\ Formed(p, Behind(p, t), j)
      /\ Blank(p, m, j) <=>
           /\ \/ IsMult(p, t + 1) /\ p[t + 1] \in {"*", "?"}
              \/ p[m] \in Anchors
              \/ p[m] = "(" /\ Blank(p, m + 1, t - 1)
           /\ Blank(p, Behind(p, t), j)
  BY <1>3, <1>4, AtomSplits
<1>8. Behind(p, t) = n
  BY <1>5 DEF Behind
<1>9. /\ p[m] = "(" => Formed(p, m + 1, t - 1)
      /\ "HASWIDTH" \in a.flags <=> p[m] \notin Anchors /\ (p[m] = "(" => ~Blank(p, m + 1, t - 1))
  BY DEF SingleRead
<1>10. /\ Formed(p, m, j) <=> /\ op \in {"*", "+"} => "HASWIDTH" \in a.flags
                              /\ ~IsMult(p, n)
                              /\ Formed(p, n, j)
       /\ ~Blank(p, m, j) <=> \/ op = "+" /\ "HASWIDTH" \in a.flags
                              \/ ~Blank(p, n, j)
  BY <1>3, <1>5, <1>6, <1>7, <1>8, <1>9 DEF Mults
<1>11. FirstPass(a.g) /\ Char(a.g) = op
  <2>1. Faces(p, a.g, t + 1) /\ t + 1 # Len(p) + 1
    BY <1>3 DEF Stands
  <2>. QED
    BY <1>6, <2>1, FacesOn
<1>12. PICK h : h = Multiplied(a.g, op, regdummy, "SIMPLE" \in a.flags)
  OBVIOUS
<1>13. Stands(p, Advance(h), n)
  <2>1. Kept(a.g, h)
    <3>1. op \in Mults
      BY <1>3, <1>6
    <3>. QED
      BY <1>11, <1>12, <3>1, MultipliedKept
  <2>2. Stands(p, h, t + 1)
    BY <2>1, KeptStands
  <2>3. Stands(p, Advance(h), (t + 1) + 1) /\ (t + 1) + 1 = n
    BY <1>3, <1>5, <2>2, StandsOn
  <2>. QED
    BY <2>3
<1>14. PICK e : e = Advance(h)
  OBVIOUS
<1>15. r = Repeated(a, op, e)
  BY <1>3, <1>6, <1>11, <1>12, <1>14 DEF Piece
<1>16. Char(e) \in Mults <=> IsMult(p, n)
  <2>1. Faces(p, e, n)
    BY <1>13, <1>14 DEF Stands
  <2>. QED
    BY <2>1, FacesMult
<1>17. CASE CouldBeEmpty(op, a.flags) \/ Char(e) \in Mults
  <2>1. r = FAIL
    BY <1>15, <1>17 DEF Repeated
  <2>2. ~Formed(p, m, j)
    BY <1>3, <1>6, <1>10, <1>16, <1>17 DEF CouldBeEmpty, Mults
  <2>. QED
    BY <1>2, <2>1, <2>2
<1>18. CASE ~(CouldBeEmpty(op, a.flags) \/ Char(e) \in Mults)
  <2>1. PICK fl : fl = IF op = "+" THEN {"HASWIDTH"} ELSE {"SPSTART"}
    OBVIOUS
  <2>2. r = Made(e, regdummy, fl)
    BY <1>15, <1>18, <2>1 DEF Repeated
  <2>3. fl \in SUBSET Flags /\ ("HASWIDTH" \in fl <=> op = "+")
    BY <2>1 DEF Flags
  <2>4. r \in Outcomes /\ r.ok /\ r.g = e /\ r.ret = regdummy /\ r.flags = fl
    <3>1. e \in Passes /\ regdummy \in Int
      BY <1>13, <1>14 DEF Stands, Faces, FirstPass, regdummy
    <3>. HIDE DEF regdummy
    <3>. QED
      BY <2>2, <2>3, <3>1, MadeIs
  <2>5. /\ Formed(p, m, j) <=> Formed(p, n, j)
        /\ ~Blank(p, m, j) <=> op = "+" \/ ~Blank(p, n, j)
    BY <1>3, <1>6, <1>10, <1>16, <1>18 DEF CouldBeEmpty, Mults
  <2>6. n \in (m + 1)..b /\ n \in m..b /\ Depth(p, n) = Depth(p, m)
    BY <1>1, <1>3, <1>5
  <2>7. Moved(p, m, b, r, n)
    BY <1>2, <1>13, <1>14, <2>3, <2>4, <2>5, <2>6 DEF Moved
  <2>. QED
    BY <2>4, <2>6, <2>7
<1>. QED
  BY <1>17, <1>18

LEMMA PieceRead ==
  ASSUME NEW p \in Seq(Tokens), NEW g, NEW m \in 1..Len(p), Stands(p, g, m),
         p[m] \notin {"|", ")"}, NEW b, BranchEnds(p, m, b), m < b,
         NEW group, NEW level, Good(group, p, level), level <= g.npar,
         NEW r, r = regpiece(g, group)
  PROVE  \/ r = FAIL /\ Refused(p, m, b - 1)
         \/ r.ret = regdummy /\ \E n \in (m + 1)..b : Moved(p, m, b, r, n)
<1>1. PICK a : a = regatom(g, group)
  OBVIOUS
<1>2. a \in Outcomes /\ (AtomRead(p, m, b, a) \/ (a = FAIL /\ Refused(p, m, b - 1)))
  BY <1>1, RegatomRead
<1>3. r = Piece(a)
  BY <1>1 DEF regpiece
<1>4. CASE a = FAIL /\ Refused(p, m, b - 1)
  BY <1>3, <1>4 DEF Piece, FAIL
<1>5. CASE AtomRead(p, m, b, a)
  <2>1. PICK t \in m..(b - 1) : /\ a.ok /\ a.ret = regdummy
                                /\ Stands(p, a.g, t + 1)
                                /\ SingleRead(p, m, t, a.flags) \/ RunRead(p, m, t, a.flags)
    BY <1>5 DEF AtomRead
  <2>2. CASE SingleRead(p, m, t, a.flags) /\ IsMult(p, t + 1)
    <3>1. \/ r = FAIL /\ ~Formed(p, m, b - 1)
          \/ r.ret = regdummy /\ \E n \in (m + 1)..b : Moved(p, m, b, r, n)
      BY <1>2, <1>3, <2>1, <2>2, RepeatedRead
    <3>. QED
      BY <3>1 DEF Refused
  <2>3. CASE ~IsMult(p, t + 1)
    <3>1. PICK n : n = t + 1
      OBVIOUS
    <3>2. b \in m..(Len(p) + 1) /\ t \in m..Len(p) /\ n \in (m + 1)..(Len(p) + 1) /\ n - 1 = t
      BY <3>1 DEF BranchEnds
    <3>3. r = a
      <4>1. Faces(p, a.g, n)
        BY <2>1, <3>1 DEF Stands
      <4>2. Char(a.g) \notin Mults
        BY <2>3, <3>1, <4>1, FacesMult
      <4>. QED
        BY <1>3, <2>1, <4>2 DEF Piece
    <3>4. PICK j \in m..Len(p) : j = b - 1 /\ j + 1 = b /\ t \in m..j
      BY <3>2
    <3>5. CASE RunRead(p, m, t, a.flags)
      <4>1. \A k \in m..(n - 1) : p[k] \notin Meta
        BY <3>2, <3>5 DEF RunRead
      <4>2. /\ n \in (m + 1)..b /\ Depth(p, n) = Depth(p, m)
            /\ Formed(p, m, b - 1) <=> Formed(p, n, b - 1)
            /\ ~Blank(p, m, b - 1)
        BY <2>3, <3>1, <3>2, <4>1, RunSplits
      <4>3. n \in m..b /\ "HASWIDTH" \in a.flags
        BY <3>2, <3>5, <4>2 DEF RunRead
      <4>4. Moved(p, m, b, r, n)
        BY <1>2, <2>1, <3>1, <3>3, <4>2, <4>3 DEF Moved
      <4>. QED
        BY <2>1, <3>3, <4>2, <4>4
    <3>6. CASE SingleRead(p, m, t, a.flags)
      <4>1. /\ AtomEnds(p, m, t) /\ p[m] \notin Mults \cup {")"}
            /\ p[m] = "(" => Formed(p, m + 1, t - 1)
            /\ "HASWIDTH" \in a.flags <=>
                 p[m] \notin Anchors /\ (p[m] = "(" => ~Blank(p, m + 1, t - 1))
        BY <3>6 DEF SingleRead
      <4>2. n \in (m + 1)..b /\ n \in m..b /\ Depth(p, n) = Depth(p, m)
        BY <3>1, <3>2, <4>1, LevelBehind
      <4>3. NoBar(p, m, j + 1) /\ ~IsMult(p, j + 1)
        <5>1. m \in 1..(Len(p) + 1) /\ m \in m..b
          BY <3>2
        <5>2. NoBar(p, m, (b - 1) + 1) /\ ~IsMult(p, b)
          BY <5>1, BranchOn
        <5>. QED
          BY <3>4, <5>2
      <4>4. /\ Formed(p, m, j) <=>
                 /\ p[m] \notin Mults \cup {")"}
                 /\ p[m] = "(" => Formed(p, m + 1, t - 1)
                 /\ IsMult(p, t + 1) /\ p[t + 1] \in {"*", "+"} =>
                      p[m] \notin Anchors /\ (p[m] = "(" => ~Blank(p, m + 1, t - 1))
                 /\ IsMult(p, t + 1) => ~IsMult(p, t + 2)
                 /\ Formed(p, Behind(p, t), j)
            /\ Blank(p, m, j) <=>
                 /\ \/ IsMult(p, t + 1) /\ p[t + 1] \in {"*", "?"}
                    \/ p[m] \in Anchors
                    \/ p[m] = "(" /\ Blank(p, m + 1, t - 1)
                 /\ Blank(p, Behind(p, t), j)
        BY <3>4, <4>1, <4>3, AtomSplits
      <4>5. Behind(p, t) = n
        BY <2>3, <3>1 DEF Behind
      <4>6. /\ Formed(p, m, j) <=> Formed(p, n, j)
            /\ ~Blank(p, m, j) <=> "HASWIDTH" \in a.flags \/ ~Blank(p, n, j)
        BY <2>3, <4>1, <4>4, <4>5
      <4>7. Moved(p, m, b, r, n)
        BY <1>2, <2>1, <3>1, <3>3, <3>4, <4>2, <4>6 DEF Moved
      <4>. QED
        BY <2>1, <3>3, <4>2, <4>7
    <3>. QED
      BY <2>1, <3>5, <3>6
  <2>4. IsMult(p, t + 1) => ~RunRead(p, m, t, a.flags)
    BY DEF RunRead
  <2>. QED
    BY <2>1, <2>2, <2>3, <2>4
<1>. QED
  BY <1>2, <1>4, <1>5

-----------------------------------------------------------------------------
(* A branch *)

(* What leads from R[k] to R[k + 1] leads from R[0] to R[n] in n rounds.     *)
LEMMA LoopReads ==
  ASSUME NEW f, NEW R, NEW n \in Nat, NEW x \in R[0],
         \A k \in 0..(n - 1) : \A y \in R[k] : f[y] \in R[k + 1]
  PROVE  Iterated(f, x, n) \in R[n]
<1> DEFINE G == {k \in 0..n : Iterated(f, x, k) \in R[k]}
<1>1. 0 \in G
  BY IteratedIs
<1>2. ASSUME NEW k \in 0..(n - 1), k \in G
      PROVE  k + 1 \in G
  <2>1. k \in Nat /\ k + 1 \in 0..n
    OBVIOUS
  <2>2. Iterated(f, x, k + 1) = f[Iterated(f, x, k)]
    BY <2>1, IteratedIs
  <2>. QED
    BY <1>2, <2>1, <2>2
<1>3. 0..n \subseteq G
  <2>. HIDE DEF G
  <2>. QED
    BY <1>1, <1>2, UpTo
<1>. QED
  BY <1>3

(* No piece begins at m.                                                    *)
Stopped(p, m) == m = Len(p) + 1 \/ p[m] \in {"|", ")"}

LEMMA FacesStop ==
  ASSUME NEW p \in Seq(Tokens), NEW g, NEW m, Faces(p, g, m)
  PROVE  Char(g) \in {NUL, "|", ")"} <=> Stopped(p, m)
<1>1. m = Len(p) + 1 => Char(g) = NUL
  BY FacesOn
<1>2. m # Len(p) + 1 => Char(g) = p[m] /\ Char(g) # NUL
  BY FacesOn
<1>. QED
  BY <1>1, <1>2 DEF Stopped

LEMMA NparGrows ==
  ASSUME NEW p \in Seq(Tokens), NEW g, NEW i, Stands(p, g, i),
         NEW h, NEW m, Stands(p, h, m), i <= m
  PROVE  g.npar \in Nat /\ h.npar \in Nat /\ g.npar <= h.npar
<1>1. m - 1 \in 0..Len(p) /\ i - 1 \in 0..(m - 1) /\ i - 1 \in 0..Len(p)
  BY DEF Stands, Faces
<1>2. Opens(p, i - 1) <= Opens(p, m - 1) /\ Opens(p, i - 1) \in Nat /\ Opens(p, m - 1) \in Nat
  BY <1>1, OpensGrow, OpensStep
<1>. QED
  BY <1>2 DEF Stands

(* Before a round of the loop over the pieces.                              *)
PiecesRead(p, i, b, y, k) ==
  \/ y = FAIL /\ Refused(p, i, b - 1)
  \/ /\ y.ret \in {NULL, regdummy}
     /\ \E m \in i..b : Moved(p, i, b, y, m) /\ (Stopped(p, m) \/ i + k <= m)

LEMMA NextPieceRead ==
  ASSUME NEW p \in Seq(Tokens), NEW g, NEW i, Stands(p, g, i), NEW b, BranchEnds(p, i, b),
         NEW group, NEW level \in Int, Good(group, p, level), level <= g.npar,
         NEW k \in Nat, NEW y, PiecesRead(p, i, b, y, k)
  PROVE  PiecesRead(p, i, b, NextPiece(y, group), k + 1)
<1>1. CASE y = FAIL /\ Refused(p, i, b - 1)
  <2>1. ~y.ok
    BY <1>1 DEF FAIL
  <2>. QED
    BY <1>1, <2>1 DEF NextPiece, PiecesRead
<1>2. CASE ~(y = FAIL /\ Refused(p, i, b - 1))
  <2>1. PICK m \in i..b : /\ y.ret \in {NULL, regdummy}
                          /\ Moved(p, i, b, y, m) /\ (Stopped(p, m) \/ i + k <= m)
    BY <1>2 DEF PiecesRead
  <2>2. /\ y \in Outcomes /\ y.ok /\ Stands(p, y.g, m) /\ Depth(p, m) = Depth(p, i)
        /\ Formed(p, i, b - 1) <=> Formed(p, m, b - 1)
        /\ ~Blank(p, i, b - 1) <=> "HASWIDTH" \in y.flags \/ ~Blank(p, m, b - 1)
    BY <2>1 DEF Moved
  <2>3. i \in 1..(Len(p) + 1) /\ b \in i..(Len(p) + 1) /\ m \in 1..(Len(p) + 1)
    BY <2>2 DEF Stands, Faces, BranchEnds
  <2>4. Char(y.g) \in {NUL, "|", ")"} <=> Stopped(p, m)
    BY <2>2, FacesStop DEF Stands
  <2>5. CASE Stopped(p, m)
    <3>1. NextPiece(y, group) = y
      BY <2>4, <2>5 DEF NextPiece
    <3>. QED
      BY <2>1, <2>5, <3>1 DEF PiecesRead
  <2>6. CASE ~Stopped(p, m)
    <3>1. m \in 1..Len(p) /\ p[m] \notin {"|", ")"}
      BY <2>3, <2>6 DEF Stopped
    <3>2. m < b
      <4>1. m # b
        BY <3>1 DEF BranchEnds
      <4>. QED
        BY <2>1, <2>3, <4>1
    <3>3. BranchEnds(p, m, b)
      BY <2>2, <2>3, BranchOn
    <3>4. level <= y.g.npar
      BY <2>2, <2>3, NparGrows
    <3>5. PICK r : r = regpiece(y.g, group)
      OBVIOUS
    <3>6. \/ r = FAIL /\ Refused(p, m, b - 1)
          \/ r.ret = regdummy /\ \E n \in (m + 1)..b : Moved(p, m, b, r, n)
      BY <2>2, <3>1, <3>2, <3>3, <3>4, <3>5, PieceRead
    <3>7. NextPiece(y, group) = Chained(y, r)
      BY <2>2, <2>4, <2>6, <3>5 DEF NextPiece
    <3>8. CASE r = FAIL /\ Refused(p, m, b - 1)
      <4>1. NextPiece(y, group) = FAIL
        BY <3>7, <3>8 DEF Chained, FAIL
      <4>2. Refused(p, i, b - 1)
        BY <2>2, <3>8 DEF Refused
      <4>. QED
        BY <4>1, <4>2 DEF PiecesRead
    <3>9. CASE r.ret = regdummy /\ \E n \in (m + 1)..b : Moved(p, m, b, r, n)
      <4>1. PICK n \in (m + 1)..b : r.ret = regdummy /\ Moved(p, m, b, r, n)
        BY <3>9
      <4>2. /\ r \in Outcomes /\ r.ok /\ Stands(p, r.g, n) /\ Depth(p, n) = Depth(p, m)
            /\ Formed(p, m, b - 1) <=> Formed(p, n, b - 1)
            /\ ~Blank(p, m, b - 1) <=> "HASWIDTH" \in r.flags \/ ~Blank(p, n, b - 1)
        BY <4>1 DEF Moved
      <4>3. y.flags \in SUBSET Flags /\ r.flags \in SUBSET Flags /\ r.g \in Passes
        BY <2>2, <4>2, OutcomeIs
      <4>4. PICK fl : fl = y.flags \cup (r.flags \cap (IF y.ret = NULL THEN {"HASWIDTH", "SPSTART"}
                                                                       ELSE {"HASWIDTH"}))
        OBVIOUS
      <4>5. fl \in SUBSET Flags /\ ("HASWIDTH" \in fl <=> "HASWIDTH" \in y.flags \/ "HASWIDTH" \in r.flags)
        BY <4>3, <4>4
      <4>6. PICK e : e = Made(r.g, regdummy, fl)
        OBVIOUS
      <4>7. NextPiece(y, group) = e
        <5>1. CASE y.ret = NULL
          BY <3>7, <4>1, <4>2, <4>4, <4>6, <5>1 DEF Chained
        <5>2. CASE y.ret # NULL
          <6>1. y.ret = regdummy
            BY <2>1, <5>2
          <6>2. regtail(r.g, y.ret, r.ret) = r.g
            BY <6>1, NoTail
          <6>. QED
            BY <3>7, <4>1, <4>2, <4>4, <4>6, <5>2, <6>2 DEF Chained
        <5>. QED
          BY <5>1, <5>2
      <4>8. e \in Outcomes /\ e.ok /\ e.g = r.g /\ e.ret = regdummy /\ e.flags = fl
        <5>1. regdummy \in Int
          BY DEF regdummy
        <5>. HIDE DEF regdummy
        <5>. QED
          BY <4>3, <4>5, <4>6, <5>1, MadeIs
      <4>9. n \in i..b
        BY <2>3
      <4>10. Moved(p, i, b, e, n)
        BY <2>2, <4>2, <4>5, <4>8, <4>9 DEF Moved
      <4>11. i + (k + 1) <= n
        BY <2>1, <2>3, <2>6
      <4>. QED
        BY <4>7, <4>8, <4>9, <4>10, <4>11 DEF PiecesRead
    <3>. QED
      BY <3>6, <3>8, <3>9
  <2>. QED
    BY <2>5, <2>6
<1>. QED
  BY <1>1, <1>2

LEMMA PiecesOutcome ==
  ASSUME NEW p, NEW i, NEW b, NEW y, NEW k, PiecesRead(p, i, b, y, k)
  PROVE  y \in Outcomes
BY DEF PiecesRead, Moved, Outcomes

LEMMA BranchRead ==
  ASSUME NEW p \in Seq(Tokens), NEW g, NEW i, Stands(p, g, i), NEW b, BranchEnds(p, i, b),
         NEW group, NEW level \in Int, Good(group, p, level), level <= g.npar,
         NEW r, r = regbranch(g, group)
  PROVE  \/ r = FAIL /\ Refused(p, i, b - 1)
         \/ r.ret = regdummy /\ \E m \in i..b : Moved(p, i, b, r, m) /\ Stopped(p, m)
<1>1. /\ FirstPass(g) /\ g \in Passes /\ Here(g) = regdummy
      /\ i \in 1..(Len(p) + 1) /\ g.rest = SubSeq(p, i, Len(p))
  BY DEF Stands, Faces, FirstPass, Here
<1>2. b \in i..(Len(p) + 1)
  BY DEF BranchEnds
<1>3. PICK n \in Nat : n = Len(g.rest) /\ i + n = Len(p) + 1
  <2>1. Len(p) \in (i - 1)..Len(p)
    BY <1>1
  <2>2. Len(g.rest) = Len(p) - i + 1
    BY <1>1, <2>1, PieceIs
  <2>3. Len(p) - i + 1 \in Nat /\ i + (Len(p) - i + 1) = Len(p) + 1
    BY <1>1
  <2>. QED
    BY <2>2, <2>3
<1>4. PICK f : f = [y \in Outcomes |-> NextPiece(y, group)]
  OBVIOUS
<1>5. PICK x : x = Made(regnode(g, "BRANCH"), NULL, {})
  OBVIOUS
<1>6. PICK R : R = [k \in Nat |-> {y \in Outcomes : PiecesRead(p, i, b, y, k)}]
  OBVIOUS
<1>7. {"BRANCH", "NOTHING"} \subseteq Opcodes
  BY DEF Opcodes
<1>8. x \in R[0]
  <2>1. Kept(g, regnode(g, "BRANCH"))
    BY <1>1, <1>7, NodeKept
  <2>2. Stands(p, regnode(g, "BRANCH"), i) /\ regnode(g, "BRANCH") \in Passes
    BY <2>1, KeptStands DEF Kept, FirstPass
  <2>3. x \in Outcomes /\ x.ok /\ x.g = regnode(g, "BRANCH") /\ x.ret = NULL /\ x.flags = {}
    <3>1. NULL \in Int /\ {} \in SUBSET Flags
      BY DEF NULL
    <3>. HIDE DEF NULL
    <3>. QED
      BY <1>5, <2>2, <3>1, MadeIs
  <2>4. i \in i..b
    BY <1>1, <1>2
  <2>5. Moved(p, i, b, x, i)
    BY <2>2, <2>3, <2>4 DEF Moved
  <2>6. i + 0 <= i
    BY <1>1
  <2>7. PiecesRead(p, i, b, x, 0)
    BY <2>3, <2>4, <2>5, <2>6 DEF PiecesRead
  <2>. QED
    BY <1>6, <2>3, <2>7
<1>9. ASSUME NEW k \in 0..(n - 1), NEW y \in R[k]
      PROVE  f[y] \in R[k + 1]
  <2>1. k \in Nat /\ k + 1 \in Nat
    OBVIOUS
  <2>2. y \in Outcomes /\ PiecesRead(p, i, b, y, k)
    BY <1>6, <1>9, <2>1
  <2>3. PiecesRead(p, i, b, NextPiece(y, group), k + 1)
    BY <2>1, <2>2, NextPieceRead
  <2>4. NextPiece(y, group) \in Outcomes
    BY <2>3, PiecesOutcome
  <2>. QED
    BY <1>4, <1>6, <2>1, <2>2, <2>3, <2>4
<1>10. PICK y : y = Iterated(f, x, n)
  OBVIOUS
<1>11. PiecesRead(p, i, b, y, n)
  <2>1. y \in R[n]
    BY <1>8, <1>9, <1>10, LoopReads
  <2>. QED
    BY <1>6, <2>1
<1>12. r = IF ~y.ok THEN FAIL
           ELSE Made(IF y.ret = NULL THEN regnode(y.g, "NOTHING") ELSE y.g, Here(g), y.flags)
  BY <1>3, <1>4, <1>5, <1>10 DEF regbranch
<1>13. CASE y = FAIL /\ Refused(p, i, b - 1)
  <2>1. ~y.ok
    BY <1>13 DEF FAIL
  <2>. QED
    BY <1>12, <1>13, <2>1
<1>14. CASE ~(y = FAIL /\ Refused(p, i, b - 1))
  <2>1. PICK m \in i..b : /\ y.ret \in {NULL, regdummy}
                          /\ Moved(p, i, b, y, m) /\ (Stopped(p, m) \/ i + n <= m)
    BY <1>11, <1>14 DEF PiecesRead
  <2>2. /\ y \in Outcomes /\ y.ok /\ Stands(p, y.g, m) /\ Depth(p, m) = Depth(p, i)
        /\ Formed(p, i, b - 1) <=> Formed(p, m, b - 1)
        /\ ~Blank(p, i, b - 1) <=> "HASWIDTH" \in y.flags \/ ~Blank(p, m, b - 1)
    BY <2>1 DEF Moved
  <2>3. Stopped(p, m)
    <3>1. i + n <= m => m = Len(p) + 1
      BY <1>1, <1>2, <1>3, <2>1
    <3>. QED
      BY <2>1, <3>1 DEF Stopped
  <2>4. PICK h : h = IF y.ret = NULL THEN regnode(y.g, "NOTHING") ELSE y.g
    OBVIOUS
  <2>5. Stands(p, h, m)
    <3>1. FirstPass(y.g)
      BY <2>2 DEF Stands, Faces
    <3>2. Kept(y.g, regnode(y.g, "NOTHING"))
      BY <1>7, <3>1, NodeKept
    <3>3. Stands(p, regnode(y.g, "NOTHING"), m)
      BY <2>2, <3>2, KeptStands
    <3>. QED
      BY <2>2, <2>4, <3>3
  <2>6. r = Made(h, regdummy, y.flags)
    BY <1>1, <1>12, <2>2, <2>4
  <2>7. r \in Outcomes /\ r.ok /\ r.g = h /\ r.ret = regdummy /\ r.flags = y.flags
    <3>1. h \in Passes /\ y.flags \in SUBSET Flags /\ regdummy \in Int
      BY <2>2, <2>5, OutcomeIs DEF Stands, Faces, FirstPass, regdummy
    <3>. HIDE DEF regdummy
    <3>. QED
      BY <2>6, <3>1, MadeIs
  <2>8. Moved(p, i, b, r, m)
    BY <2>2, <2>5, <2>7 DEF Moved
  <2>. QED
    BY <2>3, <2>7, <2>8
<1>. QED
  BY <1>13, <1>14

-----------------------------------------------------------------------------
(* Branches, one after the other *)

(* What is between parentheses, or the whole pattern, ends before e.        *)
RegionEnds(p, i, e) ==
  /\ e \in i..(Len(p) + 1)
  /\ e <= Len(p) => p[e] = ")" /\ Depth(p, e) = Depth(p, i)

LEMMA FirstBar ==
  ASSUME NEW p \in Seq(Tokens), NEW i \in 1..(Len(p) + 1), NEW e, RegionEnds(p, i, e)
  PROVE  \E b \in i..e : /\ BranchEnds(p, i, b)
                         /\ b # e => p[b] = "|" /\ Depth(p, b) = Depth(p, i)
<1>1. e \in i..(Len(p) + 1) /\ Len(p) \in Nat
  BY DEF RegionEnds
<1> DEFINE B == {k \in i..(e - 1) : p[k] = "|" /\ Depth(p, k) = Depth(p, i)}
<1>2. CASE B = {}
  <2>1. NoBar(p, i, e)
    BY <1>2 DEF NoBar
  <2>2. BranchEnds(p, i, e) /\ e \in i..e
    BY <1>1, <2>1 DEF BranchEnds, RegionEnds
  <2>. QED
    BY <2>2
<1>3. CASE B # {}
  <2>1. B \in SUBSET (0..e) /\ e \in Nat
    BY <1>1
  <2>2. PICK b \in B : \A k \in 0..(b - 1) : k \notin B
    <3>. HIDE DEF B
    <3>. QED
      BY <1>3, <2>1, LeastIndex
  <2>3. b \in i..e /\ b # e /\ b \in i..(Len(p) + 1) /\ p[b] = "|" /\ Depth(p, b) = Depth(p, i)
    BY <1>1
  <2>4. NoBar(p, i, b)
    <3>1. ASSUME NEW k \in i..(b - 1), p[k] = "|", Depth(p, k) = Depth(p, i)
          PROVE  FALSE
      <4>1. k \in 0..(b - 1) /\ k \in i..(e - 1)
        BY <1>1, <2>3
      <4>. QED
        BY <2>2, <3>1, <4>1
    <3>. QED
      BY <3>1 DEF NoBar
  <2>5. BranchEnds(p, i, b)
    BY <2>3, <2>4 DEF BranchEnds
  <2>. QED
    BY <2>3, <2>5
<1>. QED
  BY <1>2, <1>3

(* The branches from i to m are read: to the end, to a bar behind which     *)
(* another one has to follow, or to a closing parenthesis too many.         *)
Ended(p, i, e, r, m) ==
  /\ r \in Outcomes /\ r.ok /\ r.ret = regdummy
  /\ m \in i..e
  /\ Stands(p, r.g, m) /\ Depth(p, m) = Depth(p, i)
  /\ \/ /\ m = e
        /\ Formed(p, i, e - 1)
        /\ "HASWIDTH" \in r.flags <=> ~Blank(p, i, e - 1)
     \/ /\ m < e /\ p[m] = "|"
        /\ Formed(p, i, e - 1) <=> Formed(p, m + 1, e - 1)
        /\ ~Blank(p, i, e - 1) <=> "HASWIDTH" \in r.flags /\ ~Blank(p, m + 1, e - 1)
     \/ /\ m < e /\ p[m] = ")"
        /\ ~Formed(p, i, e - 1)

LEMMA FirstBranch ==
  ASSUME NEW p \in Seq(Tokens), NEW g, NEW i, Stands(p, g, i), NEW e, RegionEnds(p, i, e),
         NEW group, NEW level \in Int, Good(group, p, level), level <= g.npar,
         NEW r, r = regbranch(g, group)
  PROVE  (r = FAIL /\ Refused(p, i, e - 1)) \/ (\E m : Ended(p, i, e, r, m))
<1>1. i \in 1..(Len(p) + 1) /\ e \in i..(Len(p) + 1)
  BY DEF Stands, Faces, RegionEnds
<1>2. PICK b \in i..e : /\ BranchEnds(p, i, b)
                        /\ b # e => p[b] = "|" /\ Depth(p, b) = Depth(p, i)
  BY <1>1, FirstBar
<1>3. PICK j : j = e - 1
  OBVIOUS
<1>4. b # e => /\ i \in 1..Len(p) /\ j \in i..Len(p) /\ b \in i..j
               /\ Formed(p, i, j) <=> Formed(p, i, b - 1) /\ Formed(p, b + 1, j)
               /\ Blank(p, i, j) <=> Blank(p, i, b - 1) \/ Blank(p, b + 1, j)
  <2>1. SUFFICES ASSUME b # e
                 PROVE  /\ i \in 1..Len(p) /\ j \in i..Len(p) /\ b \in i..j
                        /\ Formed(p, i, j) <=> Formed(p, i, b - 1) /\ Formed(p, b + 1, j)
                        /\ Blank(p, i, j) <=> Blank(p, i, b - 1) \/ Blank(p, b + 1, j)
    OBVIOUS
  <2>2. i \in 1..Len(p) /\ j \in i..Len(p) /\ b \in i..j
    BY <1>1, <1>3, <2>1
  <2>3. NoBar(p, i, b) /\ p[b] = "|" /\ Depth(p, b) = Depth(p, i)
    BY <1>2, <2>1 DEF BranchEnds
  <2>. QED
    BY <2>2, <2>3, BarSplits
<1>5. Formed(p, i, j) => Formed(p, i, b - 1)
  <2>1. b = e => b - 1 = j
    BY <1>3
  <2>. QED
    BY <1>4, <2>1
<1>6. \/ r = FAIL /\ Refused(p, i, b - 1)
      \/ r.ret = regdummy /\ \E m \in i..b : Moved(p, i, b, r, m) /\ Stopped(p, m)
  BY <1>2, BranchRead
<1>7. CASE r = FAIL /\ Refused(p, i, b - 1)
  <2>1. Opens(p, b - 1) >= NSUBEXP => Opens(p, j) >= NSUBEXP
    <3>1. j \in 0..Len(p) /\ b - 1 \in 0..j
      BY <1>1, <1>3
    <3>2. Opens(p, b - 1) <= Opens(p, j) /\ Opens(p, b - 1) \in Nat /\ Opens(p, j) \in Nat
      BY <3>1, OpensGrow, OpensStep
    <3>. QED
      BY <3>2, RegexpAssumption
  <2>2. Refused(p, i, j)
    BY <1>5, <1>7, <2>1 DEF Refused
  <2>. QED
    BY <1>3, <1>7, <2>2
<1>8. CASE r.ret = regdummy /\ \E m \in i..b : Moved(p, i, b, r, m) /\ Stopped(p, m)
  <2>1. PICK m \in i..b : r.ret = regdummy /\ Moved(p, i, b, r, m) /\ Stopped(p, m)
    BY <1>8
  <2>2. /\ r \in Outcomes /\ r.ok /\ Stands(p, r.g, m) /\ Depth(p, m) = Depth(p, i)
        /\ Formed(p, i, b - 1) <=> Formed(p, m, b - 1)
        /\ ~Blank(p, i, b - 1) <=> "HASWIDTH" \in r.flags \/ ~Blank(p, m, b - 1)
    BY <2>1 DEF Moved
  <2>3. m \in i..e /\ m \in 1..(Len(p) + 1)
    BY <1>1
  <2>4. CASE m = b
    <3>1. Formed(p, m, b - 1) /\ Blank(p, m, b - 1)
      BY <2>3, <2>4, EmptyPiece
    <3>2. Formed(p, i, b - 1) /\ (~Blank(p, i, b - 1) <=> "HASWIDTH" \in r.flags)
      BY <2>2, <3>1
    <3>3. CASE b = e
      <4>1. Ended(p, i, e, r, m)
        BY <2>1, <2>2, <2>3, <2>4, <3>2, <3>3 DEF Ended
      <4>. QED
        BY <4>1
    <3>4. CASE b # e
      <4>1. m < e /\ p[m] = "|"
        BY <1>1, <1>2, <2>4, <3>4
      <4>2. /\ Formed(p, i, j) <=> Formed(p, m + 1, j)
            /\ ~Blank(p, i, j) <=> "HASWIDTH" \in r.flags /\ ~Blank(p, m + 1, j)
        BY <1>4, <2>4, <3>2, <3>4
      <4>3. Ended(p, i, e, r, m)
        BY <1>3, <2>1, <2>2, <2>3, <4>1, <4>2 DEF Ended
      <4>. QED
        BY <4>3
    <3>. QED
      BY <3>3, <3>4
  <2>5. CASE m # b
    <3>1. m < b /\ m < e /\ m \in 1..Len(p) /\ m \in i..(b - 1)
      BY <1>1, <2>3, <2>5
    <3>2. p[m] # "|"
      BY <1>2, <2>2, <3>1 DEF BranchEnds, NoBar
    <3>3. p[m] = ")"
      BY <2>1, <3>1, <3>2 DEF Stopped
    <3>4. PICK c \in m..Len(p) : c = b - 1 /\ c + 1 = b
      BY <1>1, <3>1
    <3>5. NoBar(p, m, c + 1)
      <4>1. NoBar(p, m, (b - 1) + 1)
        BY <1>1, <1>2, <2>2, BranchOn
      <4>. QED
        BY <3>4, <4>1
    <3>6. ~Formed(p, m, c)
      BY <3>1, <3>3, <3>5, Stray
    <3>7. ~Formed(p, i, j)
      BY <1>5, <2>2, <3>4, <3>6
    <3>8. Ended(p, i, e, r, m)
      BY <1>3, <2>1, <2>2, <2>3, <3>1, <3>3, <3>7 DEF Ended
    <3>. QED
      BY <3>8
  <2>. QED
    BY <2>4, <2>5
<1>. QED
  BY <1>6, <1>7, <1>8

(* Before a round of the loop over the branches.                            *)
BranchesRead(p, i, e, y, k) ==
  \/ y = FAIL /\ Refused(p, i, e - 1)
  \/ \E m : Ended(p, i, e, y, m) /\ (Char(y.g) # "|" \/ i + k <= m)

LEMMA NextBranchRead ==
  ASSUME NEW p \in Seq(Tokens), NEW g, NEW i, Stands(p, g, i), NEW e, RegionEnds(p, i, e),
         NEW group, NEW level \in Int, Good(group, p, level), level <= g.npar,
         NEW k \in Nat, NEW y, BranchesRead(p, i, e, y, k)
  PROVE  BranchesRead(p, i, e, NextBranch(y, group), k + 1)
<1>1. CASE y = FAIL /\ Refused(p, i, e - 1)
  <2>1. ~y.ok
    BY <1>1 DEF FAIL
  <2>. QED
    BY <1>1, <2>1 DEF NextBranch, BranchesRead
<1>2. CASE ~(y = FAIL /\ Refused(p, i, e - 1))
  <2>1. PICK m : Ended(p, i, e, y, m) /\ (Char(y.g) # "|" \/ i + k <= m)
    BY <1>2 DEF BranchesRead
  <2>2. /\ y \in Outcomes /\ y.ok /\ y.ret = regdummy /\ m \in i..e
        /\ Stands(p, y.g, m) /\ Depth(p, m) = Depth(p, i)
    BY <2>1 DEF Ended
  <2>3. i \in 1..(Len(p) + 1) /\ e \in i..(Len(p) + 1) /\ m \in 1..(Len(p) + 1)
    BY <2>2 DEF Stands, Faces, RegionEnds
  <2>4. CASE Char(y.g) # "|"
    <3>1. NextBranch(y, group) = y
      BY <2>4 DEF NextBranch
    <3>. QED
      BY <2>1, <2>4, <3>1 DEF BranchesRead
  <2>5. CASE Char(y.g) = "|"
    <3>0. Faces(p, y.g, m) /\ NUL # "|"
      <4>1. "|" \in Tokens
        BY DEF Tokens, Meta
      <4>. QED
        BY <2>2, <4>1, RegexpAssumption DEF Stands
    <3>1. m \in 1..Len(p) /\ p[m] = "|"
      <4>1. m = Len(p) + 1 => Char(y.g) = NUL
        BY <3>0, FacesOn
      <4>2. m # Len(p) + 1 => Char(y.g) = p[m]
        BY <3>0, FacesOn
      <4>. QED
        BY <2>3, <2>5, <3>0, <4>1, <4>2
    <3>2. m # e
      BY <3>1 DEF RegionEnds
    <3>3. /\ Formed(p, i, e - 1) <=> Formed(p, m + 1, e - 1)
          /\ ~Blank(p, i, e - 1) <=> "HASWIDTH" \in y.flags /\ ~Blank(p, m + 1, e - 1)
      BY <2>1, <3>1, <3>2 DEF Ended
    <3>4. PICK n : n = m + 1
      OBVIOUS
    <3>5. n \in 1..(Len(p) + 1) /\ e \in n..(Len(p) + 1) /\ n \in i..e
      BY <2>2, <2>3, <3>1, <3>2, <3>4
    <3>6. Depth(p, n) = Depth(p, i)
      <4>1. p[m] \notin {"(", ")"}
        BY <3>1
      <4>. QED
        BY <2>2, <3>1, <3>4, <4>1, LevelStep
    <3>7. PICK h : h = Advance(y.g)
      OBVIOUS
    <3>8. Stands(p, h, n)
      <4>1. p[m] # "("
        BY <3>1
      <4>. QED
        BY <2>2, <3>1, <3>4, <3>7, <4>1, StandsOn
    <3>9. RegionEnds(p, n, e)
      BY <3>5, <3>6 DEF RegionEnds
    <3>10. level <= h.npar
      BY <3>5, <3>8, NparGrows
    <3>11. PICK r : r = regbranch(h, group)
      OBVIOUS
    <3>12. (r = FAIL /\ Refused(p, n, e - 1)) \/ (\E l : Ended(p, n, e, r, l))
      BY <3>8, <3>9, <3>10, <3>11, FirstBranch
    <3>13. NextBranch(y, group) = Linked(y, r)
      BY <2>2, <2>5, <3>7, <3>11 DEF NextBranch
    <3>14. CASE r = FAIL /\ Refused(p, n, e - 1)
      <4>1. NextBranch(y, group) = FAIL
        BY <3>13, <3>14 DEF Linked, FAIL
      <4>2. Refused(p, i, e - 1)
        BY <3>3, <3>4, <3>14 DEF Refused
      <4>. QED
        BY <4>1, <4>2 DEF BranchesRead
    <3>15. CASE \E l : Ended(p, n, e, r, l)
      <4>1. PICK l : Ended(p, n, e, r, l)
        BY <3>15
      <4>2. /\ r \in Outcomes /\ r.ok /\ r.ret = regdummy /\ l \in n..e
            /\ Stands(p, r.g, l) /\ Depth(p, l) = Depth(p, n)
        BY <4>1 DEF Ended
      <4>3. y.flags \in SUBSET Flags /\ r.flags \in SUBSET Flags /\ r.g \in Passes
        BY <2>2, <4>2, OutcomeIs
      <4>4. PICK fl : fl = Either(y.flags, r.flags)
        OBVIOUS
      <4>5. /\ fl \in SUBSET Flags
            /\ "HASWIDTH" \in fl <=> "HASWIDTH" \in y.flags /\ "HASWIDTH" \in r.flags
        BY <4>3, <4>4 DEF Either
      <4>6. PICK x : x = Made(r.g, regdummy, fl)
        OBVIOUS
      <4>7. NextBranch(y, group) = x
        <5>1. regtail(r.g, y.ret, r.ret) = r.g
          BY <2>2, NoTail
        <5>2. y.ret # NULL
          BY <2>2 DEF regdummy, NULL
        <5>. QED
          BY <2>2, <3>13, <4>2, <4>4, <4>6, <5>1, <5>2 DEF Linked
      <4>8. x \in Outcomes /\ x.ok /\ x.g = r.g /\ x.ret = regdummy /\ x.flags = fl
        <5>1. regdummy \in Int
          BY DEF regdummy
        <5>. HIDE DEF regdummy
        <5>. QED
          BY <4>3, <4>5, <4>6, <5>1, MadeIs
      <4>9. l \in i..e /\ Depth(p, l) = Depth(p, i) /\ i + (k + 1) <= l
        BY <2>1, <2>3, <2>5, <3>4, <3>5, <3>6, <4>2
      <4>10. \/ /\ l = e
                /\ Formed(p, i, e - 1)
                /\ "HASWIDTH" \in fl <=> ~Blank(p, i, e - 1)
             \/ /\ l < e /\ p[l] = "|"
                /\ Formed(p, i, e - 1) <=> Formed(p, l + 1, e - 1)
                /\ ~Blank(p, i, e - 1) <=> "HASWIDTH" \in fl /\ ~Blank(p, l + 1, e - 1)
             \/ /\ l < e /\ p[l] = ")"
                /\ ~Formed(p, i, e - 1)
        BY <3>3, <3>4, <4>1, <4>5 DEF Ended
      <4>11. Ended(p, i, e, x, l)
        BY <4>2, <4>8, <4>9, <4>10 DEF Ended
      <4>. QED
        BY <4>7, <4>9, <4>11 DEF BranchesRead
    <3>. QED
      BY <3>12, <3>14, <3>15
  <2>. QED
    BY <2>4, <2>5
<1>. QED
  BY <1>1, <1>2

LEMMA BranchesOutcome ==
  ASSUME NEW p, NEW i, NEW e, NEW y, NEW k, BranchesRead(p, i, e, y, k)
  PROVE  y \in Outcomes
BY DEF BranchesRead, Ended, Outcomes

(* The opening node, or nothing, and the first branch.                      *)
LEMMA FirstLinked ==
  ASSUME NEW p \in Seq(Tokens), NEW g, NEW i, Stands(p, g, i), NEW e, RegionEnds(p, i, e),
         NEW group, NEW level \in Int, Good(group, p, level), level <= g.npar,
         NEW ret \in {NULL, regdummy},
         NEW x, x = Linked(Made(g, ret, {"HASWIDTH"}), regbranch(g, group))
  PROVE  BranchesRead(p, i, e, x, 0)
<1>1. PICK b : b = regbranch(g, group)
  OBVIOUS
<1>2. PICK a : a = Made(g, ret, {"HASWIDTH"})
  OBVIOUS
<1>3. a.ret = ret /\ a.flags = {"HASWIDTH"} /\ x = Linked(a, b)
  BY <1>1, <1>2 DEF Made
<1>4. (b = FAIL /\ Refused(p, i, e - 1)) \/ (\E m : Ended(p, i, e, b, m))
  BY <1>1, FirstBranch
<1>5. CASE b = FAIL /\ Refused(p, i, e - 1)
  <2>1. x = FAIL
    BY <1>3, <1>5 DEF Linked, FAIL
  <2>. QED
    BY <1>5, <2>1 DEF BranchesRead
<1>6. CASE \E m : Ended(p, i, e, b, m)
  <2>1. PICK m : Ended(p, i, e, b, m)
    BY <1>6
  <2>2. /\ b \in Outcomes /\ b.ok /\ b.ret = regdummy /\ m \in i..e
        /\ Stands(p, b.g, m) /\ Depth(p, m) = Depth(p, i)
    BY <2>1 DEF Ended
  <2>3. b.flags \in SUBSET Flags /\ b.g \in Passes
    BY <2>2, OutcomeIs
  <2>4. PICK fl : fl = Either({"HASWIDTH"}, b.flags)
    OBVIOUS
  <2>5. fl \in SUBSET Flags /\ ("HASWIDTH" \in fl <=> "HASWIDTH" \in b.flags)
    BY <2>3, <2>4 DEF Either, Flags
  <2>6. x = Made(b.g, regdummy, fl)
    <3>1. regtail(b.g, regdummy, b.ret) = b.g
      BY NoTail
    <3>2. ret # NULL => ret = regdummy
      OBVIOUS
    <3>. QED
      BY <1>3, <2>2, <2>4, <3>1, <3>2 DEF Linked
  <2>7. x \in Outcomes /\ x.ok /\ x.g = b.g /\ x.ret = regdummy /\ x.flags = fl
    <3>1. regdummy \in Int
      BY DEF regdummy
    <3>. HIDE DEF regdummy
    <3>. QED
      BY <2>3, <2>5, <2>6, <3>1, MadeIs
  <2>8. Ended(p, i, e, x, m)
    BY <2>1, <2>2, <2>5, <2>7 DEF Ended
  <2>9. i + 0 <= m
    <3>1. i \in Int
      BY DEF Stands, Faces
    <3>. QED
      BY <2>2, <3>1
  <2>. QED
    BY <2>8, <2>9 DEF BranchesRead
<1>. QED
  BY <1>4, <1>5, <1>6

(* All the branches from where reg() begins with them.                      *)
Branches(g, ret, group) ==
  Iterated([r \in Outcomes |-> NextBranch(r, group)],
           Linked(Made(g, ret, {"HASWIDTH"}), regbranch(g, group)), Len(g.rest))

(* They are read to their end, or to a closing parenthesis too many.        *)
WholeRegion(p, i, e, y) ==
  \/ y = FAIL /\ Refused(p, i, e - 1)
  \/ \E m : Ended(p, i, e, y, m) /\ Char(y.g) # "|"

LEMMA RegionRead ==
  ASSUME NEW p \in Seq(Tokens), NEW g, NEW i, Stands(p, g, i), NEW e, RegionEnds(p, i, e),
         NEW group, NEW level \in Int, Good(group, p, level), level <= g.npar,
         NEW ret \in {NULL, regdummy}
  PROVE  WholeRegion(p, i, e, Branches(g, ret, group))
<1>0. PICK n : n = Len(g.rest)
  OBVIOUS
<1>8. PICK f : f = [r \in Outcomes |-> NextBranch(r, group)]
  OBVIOUS
<1>9. PICK x : x = Linked(Made(g, ret, {"HASWIDTH"}), regbranch(g, group))
  OBVIOUS
<1>10. PICK y : y = Iterated(f, x, n)
  OBVIOUS
<1>11. Branches(g, ret, group) = y
  BY <1>0, <1>8, <1>9, <1>10 DEF Branches
<1>1. i \in 1..(Len(p) + 1) /\ g.rest = SubSeq(p, i, Len(p))
  BY DEF Stands, Faces
<1>2. n \in Nat /\ i + n = Len(p) + 1
  <2>1. Len(p) \in (i - 1)..Len(p)
    BY <1>1
  <2>2. Len(g.rest) = Len(p) - i + 1
    BY <1>1, <2>1, PieceIs
  <2>3. Len(p) - i + 1 \in Nat /\ i + (Len(p) - i + 1) = Len(p) + 1
    BY <1>1
  <2>. QED
    BY <1>0, <2>2, <2>3
<1>3. PICK R : R = [k \in Nat |-> {r \in Outcomes : BranchesRead(p, i, e, r, k)}]
  OBVIOUS
<1>4. x \in R[0]
  <2>1. BranchesRead(p, i, e, x, 0)
    BY <1>9, FirstLinked
  <2>2. x \in Outcomes
    BY <2>1, BranchesOutcome
  <2>. QED
    BY <1>3, <2>1, <2>2
<1>5. ASSUME NEW k \in 0..(n - 1), NEW r \in R[k]
      PROVE  f[r] \in R[k + 1]
  <2>1. k \in Nat /\ k + 1 \in Nat
    OBVIOUS
  <2>2. r \in Outcomes /\ BranchesRead(p, i, e, r, k)
    BY <1>3, <1>5, <2>1
  <2>3. BranchesRead(p, i, e, NextBranch(r, group), k + 1)
    BY <2>1, <2>2, NextBranchRead
  <2>4. NextBranch(r, group) \in Outcomes
    BY <2>3, BranchesOutcome
  <2>. QED
    BY <1>3, <1>8, <2>1, <2>2, <2>3, <2>4
<1>6. BranchesRead(p, i, e, y, n)
  <2>1. y \in R[n]
    BY <1>2, <1>4, <1>5, <1>10, LoopReads
  <2>. QED
    BY <1>2, <1>3, <2>1
<1>7. ASSUME NEW m, Ended(p, i, e, y, m), i + n <= m
      PROVE  Char(y.g) # "|"
  <2>1. Faces(p, y.g, m) /\ m \in 1..(Len(p) + 1)
    BY <1>7 DEF Ended, Stands, Faces
  <2>2. m = Len(p) + 1
    BY <1>1, <1>2, <1>7, <2>1
  <2>3. Char(y.g) = NUL
    <3>1. m = Len(p) + 1 => Char(y.g) = NUL
      BY <2>1, FacesOn
    <3>. QED
      BY <2>2, <3>1
  <2>4. NUL # "|"
    BY RegexpAssumption DEF Tokens, Meta
  <2>. QED
    BY <2>3, <2>4
<1>12. WholeRegion(p, i, e, y)
  BY <1>6, <1>7 DEF BranchesRead, WholeRegion
<1>. QED
  BY <1>11, <1>12

-----------------------------------------------------------------------------
(* The closing node *)

(* In the first pass there are no tails to be hooked.                       *)
LEMMA NothingHooked ==
  ASSUME NEW g, FirstPass(g), NEW br, NEW ender
  PROVE  HookTails(g, br, ender) = g
<1>1. Len(g.code) = 0
  BY DEF FirstPass
<1> DEFINE f == CHOOSE c : IsHook(c, g, br, ender, 0)
<1>2. \E c : IsHook(c, g, br, ender, 0)
  BY HookExists
<1>3. IsHook(f, g, br, ender, 0)
  BY <1>2
<1>4. HookTails(g, br, ender) = f[0].g
  BY <1>1 DEF HookTails, IsHook
<1>. HIDE DEF f
<1>5. f[0] = [g |-> g, br |-> br]
  BY <1>3 DEF IsHook
<1>. QED
  BY <1>4, <1>5

LEMMA ClosedKept ==
  ASSUME NEW r \in Outcomes, r.ok, r.ret = regdummy, FirstPass(r.g), NEW paren \in BOOLEAN
  PROVE  \E h : /\ Kept(r.g, h) /\ Closed(r, paren) \in Outcomes /\ Closed(r, paren).ok
                /\ Closed(r, paren).g = h /\ Closed(r, paren).ret = regdummy
                /\ Closed(r, paren).flags = r.flags
<1>1. PICK op \in Opcodes : op = IF paren THEN "CLOSE" ELSE "END"
  BY DEF Opcodes
<1>2. PICK h : h = regnode(r.g, op)
  OBVIOUS
<1>3. Kept(r.g, h) /\ NodeTail(r.g, regdummy, op) = h
  BY <1>2, NodeKept
<1>4. PICK ender : ender = Here(r.g)
  OBVIOUS
<1>5. HookTails(h, regdummy, ender) = h
  BY <1>3, NothingHooked DEF Kept
<1>6. Closed(r, paren) = Made(h, regdummy, r.flags)
  BY <1>1, <1>3, <1>4, <1>5 DEF Closed
<1>7. h \in Passes /\ r.flags \in SUBSET Flags /\ regdummy \in Int
  BY <1>3, OutcomeIs DEF Kept, FirstPass, regdummy
<1>8. PICK x : x = Made(h, regdummy, r.flags)
  OBVIOUS
<1>9. x \in Outcomes /\ x.ok /\ x.g = h /\ x.ret = regdummy /\ x.flags = r.flags
  <2>. HIDE DEF regdummy
  <2>. QED
    BY <1>7, <1>8, MadeIs
<1>. QED
  BY <1>3, <1>6, <1>8, <1>9

-----------------------------------------------------------------------------
(* A group *)

(* A closing parenthesis at the depth of i is the end of what is in         *)
(* parentheses from i on, or there is an earlier one.                       *)
LEMMA FirstClose ==
  ASSUME NEW p \in Seq(Tokens), NEW i \in 1..(Len(p) + 1), NEW m \in i..Len(p),
         p[m] = ")", Depth(p, m) = Depth(p, i)
  PROVE  \E c \in i..m : Closes(p, i, c)
<1> DEFINE B == {k \in i..m : p[k] = ")" /\ Depth(p, k) = Depth(p, i)}
<1>1. B \in SUBSET (0..m) /\ m \in B /\ m \in Nat
  OBVIOUS
<1>2. PICK c \in B : \A k \in 0..(c - 1) : k \notin B
  <2>. HIDE DEF B
  <2>. QED
    BY <1>1, LeastIndex
<1>3. c \in i..m /\ c \in i..Len(p) /\ p[c] = ")" /\ Depth(p, c) = Depth(p, i)
  OBVIOUS
<1>4. ASSUME NEW k \in i..(c - 1), p[k] = ")" /\ Depth(p, k) = Depth(p, i)
      PROVE  FALSE
  <2>1. k \in 0..(c - 1) /\ k \in i..m
    BY <1>3
  <2>. QED
    BY <1>2, <1>4, <2>1
<1>5. Closes(p, i, c)
  BY <1>3, <1>4 DEF Closes
<1>. QED
  BY <1>3, <1>5

LEMMA ClosesOnce ==
  ASSUME NEW p \in Seq(Tokens), NEW i \in 1..(Len(p) + 1), NEW c, Closes(p, i, c),
         NEW d, Closes(p, i, d)
  PROVE  c = d
<1>1. c \in i..Len(p) /\ d \in i..Len(p)
  BY DEF Closes
<1>2. c < d => c \in i..(d - 1)
  BY <1>1
<1>3. d < c => d \in i..(c - 1)
  BY <1>1
<1>4. ~(c < d) /\ ~(d < c)
  BY <1>2, <1>3 DEF Closes
<1>. QED
  BY <1>1, <1>4

(* Where the region of a group ends.                                        *)
LEMMA GroupEnds ==
  ASSUME NEW p \in Seq(Tokens), NEW i \in 1..(Len(p) + 1)
  PROVE  \E e : /\ RegionEnds(p, i, e)
                /\ Closes(p, i, e) \/ (e = Len(p) + 1 /\ \A c : ~Closes(p, i, c))
<1>1. CASE \E c : Closes(p, i, c)
  <2>1. PICK c : Closes(p, i, c)
    BY <1>1
  <2>2. RegionEnds(p, i, c)
    BY <2>1 DEF Closes, RegionEnds
  <2>. QED
    BY <2>1, <2>2
<1>2. CASE \A c : ~Closes(p, i, c)
  <2>1. Len(p) + 1 \in i..(Len(p) + 1) /\ ~(Len(p) + 1 <= Len(p))
    OBVIOUS
  <2>2. RegionEnds(p, i, Len(p) + 1)
    BY <2>1 DEF RegionEnds
  <2>. QED
    BY <1>2, <2>2
<1>. QED
  BY <1>1, <1>2

(* The group is opened.                                                     *)
LEMMA GroupOpened ==
  ASSUME NEW p \in Seq(Tokens), NEW g, NEW i, GroupAt(p, g, i), g.npar < NSUBEXP
  PROVE  /\ Stands(p, Opened(g, TRUE), i)
         /\ Opened(g, TRUE).rest = g.rest
         /\ Opened(g, TRUE).npar = g.npar + 1
         /\ Here(g) = regdummy
<1>1. FirstPass(g) /\ Faces(p, g, i)
  BY DEF GroupAt, Faces
<1>2. PICK n \in Nat : n = g.npar
  BY <1>1 DEF FirstPass, Passes
<1>0. PICK k \in Nat : k = n + 1
  OBVIOUS
<1>3. PICK h : h = [g EXCEPT !.npar = k]
  OBVIOUS
<1>4. h = [g EXCEPT !.npar = @ + 1]
  BY <1>0, <1>2, <1>3
<1>5. FirstPass(h) /\ h.rest = g.rest /\ h.npar = n + 1
  BY <1>0, <1>1, <1>3 DEF FirstPass, Passes
<1>6. "OPEN" \in Opcodes
  BY DEF Opcodes
<1>7. PICK o : o = regnode(h, "OPEN")
  OBVIOUS
<1>8. Kept(h, o)
  BY <1>5, <1>6, <1>7, NodeKept
<1>9. Opened(g, TRUE) = o
  BY <1>4, <1>7 DEF Opened
<1>10. FirstPass(o) /\ o.rest = g.rest /\ o.npar = n + 1
  BY <1>5, <1>8 DEF Kept
<1>11. n + 1 <= NSUBEXP /\ n + 1 = 1 + n
  BY <1>2, RegexpAssumption
<1>12. n = Opens(p, i - 1)
  BY <1>2 DEF GroupAt
<1>13. Stands(p, o, i)
  BY <1>1, <1>10, <1>11, <1>12 DEF Stands, Faces
<1>. QED
  BY <1>1, <1>2, <1>9, <1>10, <1>13 DEF Here, FirstPass

LEMMA GroupRegRead ==
  ASSUME NEW p \in Seq(Tokens), NEW g, NEW i, GroupAt(p, g, i),
         NEW group, NEW level \in Int, Good(group, p, level), level <= g.npar + 1
  PROVE  GroupRead(p, i, reg(g, TRUE, group))
<1>1. /\ i \in 1..(Len(p) + 1) /\ FirstPass(g) /\ g.npar \in Nat /\ g.npar = Opens(p, i - 1)
      /\ i - 1 \in 0..Len(p)
  BY DEF GroupAt, Faces, FirstPass, Passes
<1>2. CASE g.npar >= NSUBEXP
  <2>1. reg(g, TRUE, group) = FAIL
    BY <1>2 DEF reg
  <2>2. ASSUME NEW c, Closes(p, i, c)
        PROVE  Refused(p, i, c - 1)
    <3>1. c - 1 \in 0..Len(p) /\ i - 1 \in 0..(c - 1)
      BY <1>1, <2>2 DEF Closes
    <3>2. Opens(p, i - 1) <= Opens(p, c - 1) /\ Opens(p, c - 1) \in Nat
      BY <3>1, OpensGrow, OpensStep
    <3>3. Opens(p, c - 1) >= NSUBEXP
      BY <1>1, <1>2, <3>2, RegexpAssumption
    <3>. QED
      BY <3>3 DEF Refused
  <2>3. FAIL \in Outcomes /\ ~FAIL.ok
    BY DEF FAIL, Outcomes
  <2>. QED
    BY <2>1, <2>2, <2>3 DEF GroupRead
<1>3. CASE g.npar < NSUBEXP
  <2>1. PICK o : o = Opened(g, TRUE)
    OBVIOUS
  <2>2. Stands(p, o, i) /\ o.rest = g.rest /\ level <= o.npar /\ Here(g) = regdummy
    BY <1>3, <2>1, GroupOpened
  <2>3. PICK e : /\ RegionEnds(p, i, e)
                 /\ Closes(p, i, e) \/ (e = Len(p) + 1 /\ \A c : ~Closes(p, i, c))
    BY <1>1, GroupEnds
  <2>4. PICK ret \in {NULL, regdummy} : ret = regdummy
    OBVIOUS
  <2>5. PICK y : y = Branches(o, ret, group)
    OBVIOUS
  <2>9. (y = FAIL /\ Refused(p, i, e - 1)) \/ (\E m : Ended(p, i, e, y, m) /\ Char(y.g) # "|")
    <3>1. WholeRegion(p, i, e, Branches(o, ret, group))
      BY <2>2, <2>3, RegionRead
    <3>. QED
      BY <2>5, <3>1 DEF WholeRegion
  <2>10. reg(g, TRUE, group) = IF ~y.ok THEN FAIL ELSE Terminated(Closed(y, TRUE), TRUE)
    <3>1. ~(g.npar >= NSUBEXP)
      BY <1>1, <1>3, RegexpAssumption
    <3>2. o = regnode([g EXCEPT !.npar = @ + 1], "OPEN")
      BY <2>1 DEF Opened
    <3>3. y = Iterated([r \in Outcomes |-> NextBranch(r, group)],
                       Linked(Made(o, Here(g), {"HASWIDTH"}), regbranch(o, group)), Len(g.rest))
      BY <2>2, <2>4, <2>5 DEF Branches
    <3>. QED
      BY <3>1, <3>2, <3>3 DEF reg
  <2>11. CASE y = FAIL /\ Refused(p, i, e - 1)
    <3>1. FAIL \in Outcomes /\ ~FAIL.ok
      BY DEF FAIL, Outcomes
    <3>2. reg(g, TRUE, group) = FAIL
      BY <2>10, <2>11, <3>1
    <3>3. \A c : Closes(p, i, c) => c = e
      BY <1>1, <2>3, ClosesOnce
    <3>. QED
      BY <2>11, <3>1, <3>2, <3>3 DEF GroupRead
  <2>12. CASE \E m : Ended(p, i, e, y, m) /\ Char(y.g) # "|"
    <3>1. PICK m : Ended(p, i, e, y, m) /\ Char(y.g) # "|"
      BY <2>12
    <3>2. /\ y \in Outcomes /\ y.ok /\ y.ret = regdummy /\ m \in i..e
          /\ Stands(p, y.g, m) /\ Depth(p, m) = Depth(p, i) /\ FirstPass(y.g)
      BY <3>1 DEF Ended, Stands, Faces
    <3>3. PICK z : z = Closed(y, TRUE)
      OBVIOUS
    <3>4. PICK h : Kept(y.g, h) /\ z \in Outcomes /\ z.ok /\ z.g = h /\ z.ret = regdummy /\ z.flags = y.flags
      BY <3>2, <3>3, ClosedKept
    <3>5. Stands(p, h, m) /\ Faces(p, h, m)
      BY <3>2, <3>4, KeptStands DEF Stands
    <3>6. reg(g, TRUE, group) = Terminated(z, TRUE)
      BY <2>10, <3>2, <3>3
    <3>7. m = e
      <4>1. SUFFICES ASSUME m # e
                     PROVE  FALSE
        OBVIOUS
      <4>2. m < e /\ m \in i..Len(p) /\ m \in 1..Len(p) /\ m # Len(p) + 1
        BY <1>1, <2>3, <3>2, <4>1 DEF RegionEnds
      <4>3. p[m] \in {"|", ")"}
        BY <3>1, <4>1 DEF Ended
      <4>4. p[m] # "|"
        <5>1. Char(y.g) = p[m]
          BY <3>2, <4>2, FacesOn DEF Stands
        <5>. QED
          BY <3>1, <5>1
      <4>5. PICK c \in i..m : Closes(p, i, c)
        BY <1>1, <3>2, <4>2, <4>3, <4>4, FirstClose
      <4>6. c = e
        BY <1>1, <2>3, <4>5, ClosesOnce
      <4>. QED
        BY <4>2, <4>5, <4>6
    <3>8. Formed(p, i, e - 1) /\ ("HASWIDTH" \in y.flags <=> ~Blank(p, i, e - 1))
      <4>1. ~(m < e)
        BY <1>1, <2>3, <3>7 DEF RegionEnds
      <4>. QED
        BY <3>1, <4>1 DEF Ended
    <3>9. CASE Closes(p, i, e)
      <4>1. e \in 1..Len(p) /\ e # Len(p) + 1 /\ p[e] = ")"
        BY <1>1, <3>9 DEF Closes
      <4>2. Char(h) = ")"
        BY <3>5, <3>7, <4>1, FacesOn
      <4>3. PICK k : k = Advance(h)
        OBVIOUS
      <4>4. Stands(p, k, e + 1)
        BY <3>5, <3>7, <4>1, <4>3, StandsOn
      <4>5. PICK w : w = [z EXCEPT !.g = k]
        OBVIOUS
      <4>6. Terminated(z, TRUE) = w
        BY <3>4, <4>2, <4>3, <4>5 DEF Terminated
      <4>7. w \in Outcomes /\ w.ok /\ w.g = k /\ w.ret = regdummy /\ w.flags = y.flags
        <5>1. k \in Passes
          BY <4>4 DEF Stands, Faces, FirstPass
        <5>2. z \in [ok : {TRUE}, g : Passes, ret : Int, flags : SUBSET Flags]
          <6>1. FAIL.ok = FALSE
            BY DEF FAIL
          <6>. QED
            BY <3>4, <6>1 DEF Outcomes
        <5>3. w \in Outcomes /\ w.ok /\ w.g = k /\ w.ret = z.ret /\ w.flags = z.flags
          BY <4>5, <5>1, <5>2 DEF Outcomes
        <5>. QED
          BY <3>4, <5>3
      <4>. QED
        BY <3>6, <3>8, <3>9, <4>4, <4>6, <4>7 DEF GroupRead
    <3>10. CASE e = Len(p) + 1 /\ \A c : ~Closes(p, i, c)
      <4>1. Char(h) = NUL
        <5>1. m = Len(p) + 1 => Char(h) = NUL
          BY <3>5, FacesOn
        <5>. QED
          BY <3>7, <3>10, <5>1
      <4>2. NUL # ")"
        BY RegexpAssumption DEF Tokens, Meta
      <4>3. Terminated(z, TRUE) = FAIL
        BY <3>4, <4>1, <4>2 DEF Terminated
      <4>4. FAIL \in Outcomes /\ ~FAIL.ok
        BY DEF FAIL, Outcomes
      <4>. QED
        BY <3>6, <3>10, <4>3, <4>4 DEF GroupRead
    <3>. QED
      BY <2>3, <3>9, <3>10
  <2>. QED
    BY <2>9, <2>11, <2>12
<1>4. g.npar >= NSUBEXP \/ g.npar < NSUBEXP
  BY <1>1, RegexpAssumption
<1>. QED
  BY <1>2, <1>3, <1>4

(* However deep the parentheses are nested: a group at level n is inside of *)
(* NSUBEXP - n others, at most.                                             *)
LEMMA GroupsGood ==
  ASSUME NEW p \in Seq(Tokens), NEW m \in 0..NSUBEXP
  PROVE  Good(Group[m], p, NSUBEXP - m)
<1>0. NSUBEXP \in Nat
  BY RegexpAssumption
<1> DEFINE G == {n \in 0..NSUBEXP : Good(Group[n], p, NSUBEXP - n)}
<1>1. 0 \in G
  <2>1. PICK n \in 0..NSUBEXP : n = 0
    BY <1>0
  <2>2. Group[n] = [g \in Passes |-> IF n = 0 THEN FAIL ELSE reg(g, TRUE, Group[n - 1])]
    BY GroupIs
  <2>3. ASSUME NEW g, NEW i, GroupAt(p, g, i), NSUBEXP - n <= g.npar
        PROVE  GroupRead(p, i, Group[n][g])
    <3>1. g \in Passes /\ g.npar = Opens(p, i - 1) /\ i \in 1..(Len(p) + 1) /\ g.npar \in Nat
      BY <2>3 DEF GroupAt, Faces, FirstPass, Passes
    <3>2. Group[n][g] = FAIL
      BY <2>1, <2>2, <3>1
    <3>3. ASSUME NEW c, Closes(p, i, c)
          PROVE  Refused(p, i, c - 1)
      <4>1. c - 1 \in 0..Len(p) /\ i - 1 \in 0..(c - 1)
        BY <3>1, <3>3 DEF Closes
      <4>2. Opens(p, i - 1) <= Opens(p, c - 1) /\ Opens(p, c - 1) \in Nat
        BY <4>1, OpensGrow, OpensStep
      <4>3. Opens(p, c - 1) >= NSUBEXP
        BY <1>0, <2>1, <2>3, <3>1, <4>2
      <4>. QED
        BY <4>3 DEF Refused
    <3>4. FAIL \in Outcomes /\ ~FAIL.ok
      BY DEF FAIL, Outcomes
    <3>. QED
      BY <3>2, <3>3, <3>4 DEF GroupRead
  <2>4. Good(Group[n], p, NSUBEXP - n)
    BY <2>3 DEF Good
  <2>. QED
    BY <2>1, <2>4
<1>2. ASSUME NEW k \in 0..(NSUBEXP - 1), k \in G
      PROVE  k + 1 \in G
  <2>1. PICK n \in 0..NSUBEXP : n = k + 1 /\ n # 0 /\ n - 1 = k
    BY <1>0
  <2>2. Group[n] = [g \in Passes |-> IF n = 0 THEN FAIL ELSE reg(g, TRUE, Group[n - 1])]
    BY GroupIs
  <2>3. ASSUME NEW g, NEW i, GroupAt(p, g, i), NSUBEXP - n <= g.npar
        PROVE  GroupRead(p, i, Group[n][g])
    <3>1. g \in Passes /\ g.npar \in Nat
      BY <2>3 DEF GroupAt, Faces, FirstPass, Passes
    <3>2. Group[n][g] = reg(g, TRUE, Group[k])
      BY <2>1, <2>2, <3>1
    <3>3. Good(Group[k], p, NSUBEXP - k)
      BY <1>2
    <3>4. NSUBEXP - k \in Int /\ NSUBEXP - k <= g.npar + 1
      BY <1>0, <2>1, <2>3, <3>1
    <3>5. GroupRead(p, i, reg(g, TRUE, Group[k]))
      BY <2>3, <3>3, <3>4, GroupRegRead
    <3>. QED
      BY <3>2, <3>5
  <2>4. Good(Group[n], p, NSUBEXP - n)
    BY <2>3 DEF Good
  <2>. QED
    BY <2>1, <2>4
<1>3. 0..NSUBEXP \subseteq G
  <2>. HIDE DEF G
  <2>. QED
    BY <1>0, <1>1, <1>2, UpTo
<1>. QED
  BY <1>3

-----------------------------------------------------------------------------
(* The whole pattern *)

LEMMA WholeRead ==
  ASSUME NEW p \in Seq(Tokens), NEW g, Stands(p, g, 1), NEW group, Good(group, p, 0)
  PROVE  reg(g, FALSE, group).ok <=> Formed(p, 1, Len(p)) /\ Opens(p, Len(p)) < NSUBEXP
<1>1. PICK i \in 1..(Len(p) + 1) : i = 1
  OBVIOUS
<1>2. PICK e : e = Len(p) + 1
  OBVIOUS
<1>3. Stands(p, g, i) /\ e - 1 = Len(p) /\ Opens(p, Len(p)) \in Nat /\ NSUBEXP \in Nat
  BY <1>1, <1>2, OpensStep, RegexpAssumption
<1>4. RegionEnds(p, i, e)
  <2>1. e \in i..(Len(p) + 1) /\ ~(e <= Len(p))
    BY <1>1, <1>2
  <2>. QED
    BY <2>1 DEF RegionEnds
<1>5. 0 \in Int /\ 0 <= g.npar
  BY DEF Stands, Faces, FirstPass, Passes
<1>6. PICK ret \in {NULL, regdummy} : ret = NULL
  OBVIOUS
<1>7. PICK y : y = Branches(g, ret, group)
  OBVIOUS
<1>11. (y = FAIL /\ Refused(p, i, e - 1)) \/ (\E m : Ended(p, i, e, y, m) /\ Char(y.g) # "|")
  <2>1. WholeRegion(p, i, e, Branches(g, ret, group))
    BY <1>3, <1>4, <1>5, RegionRead
  <2>. QED
    BY <1>7, <2>1 DEF WholeRegion
<1>12. reg(g, FALSE, group) = IF ~y.ok THEN FAIL ELSE Terminated(Closed(y, FALSE), FALSE)
  BY <1>6, <1>7 DEF reg, Branches
<1>13. CASE y = FAIL /\ Refused(p, i, e - 1)
  <2>1. ~FAIL.ok
    BY DEF FAIL
  <2>2. reg(g, FALSE, group) = FAIL
    BY <1>12, <1>13, <2>1
  <2>3. ~Formed(p, 1, Len(p)) \/ Opens(p, Len(p)) >= NSUBEXP
    BY <1>1, <1>3, <1>13 DEF Refused
  <2>4. ~(Formed(p, 1, Len(p)) /\ Opens(p, Len(p)) < NSUBEXP)
    BY <1>3, <2>3
  <2>. QED
    BY <2>1, <2>2, <2>4
<1>14. CASE \E m : Ended(p, i, e, y, m) /\ Char(y.g) # "|"
  <2>1. PICK m : Ended(p, i, e, y, m) /\ Char(y.g) # "|"
    BY <1>14
  <2>2. /\ y \in Outcomes /\ y.ok /\ y.ret = regdummy /\ m \in i..e
        /\ Stands(p, y.g, m) /\ FirstPass(y.g)
    BY <2>1 DEF Ended, Stands, Faces
  <2>3. PICK z : z = Closed(y, FALSE)
    OBVIOUS
  <2>4. PICK h : Kept(y.g, h) /\ z.ok /\ z.g = h
    BY <2>2, <2>3, ClosedKept
  <2>5. Stands(p, h, m) /\ Faces(p, h, m)
    BY <2>2, <2>4, KeptStands DEF Stands
  <2>6. reg(g, FALSE, group) = IF Char(h) # NUL THEN FAIL ELSE z
    BY <1>12, <2>2, <2>3, <2>4 DEF Terminated
  <2>7. m = Len(p) + 1 => Char(h) = NUL
    BY <2>5, FacesOn
  <2>8. m # Len(p) + 1 => Char(h) # NUL /\ Char(y.g) = p[m]
    BY <2>2, <2>5, FacesOn DEF Stands
  <2>9. CASE m = e
    <3>1. Formed(p, i, e - 1)
      BY <1>1, <1>2, <2>1, <2>9 DEF Ended
    <3>2. h.npar = 1 + Opens(p, Len(p)) /\ h.npar <= NSUBEXP
      BY <1>3, <2>5, <2>9 DEF Stands
    <3>3. Opens(p, Len(p)) < NSUBEXP
      BY <1>3, <3>2
    <3>. QED
      BY <1>1, <1>2, <1>3, <2>4, <2>6, <2>7, <2>9, <3>1, <3>3
  <2>10. CASE m # e
    <3>1. Char(h) # NUL /\ Char(y.g) = p[m]
      BY <1>2, <2>8, <2>10
    <3>2. ~Formed(p, i, e - 1)
      BY <2>1, <2>10, <3>1 DEF Ended
    <3>3. ~FAIL.ok
      BY DEF FAIL
    <3>. QED
      BY <1>1, <1>3, <2>6, <3>1, <3>2, <3>3
  <2>. QED
    BY <2>9, <2>10
<1>. QED
  BY <1>11, <1>13, <1>14

(* The first pass gives out code for the legal patterns only.               *)
LEMMA CompileRead ==
  ASSUME exp \in Seq(Tokens)
  PROVE  Compile(FALSE).ok <=> Legal(exp)
<1>1. PICK p \in Seq(Tokens) : p = exp
  OBVIOUS
<1>2. PICK k : k = Pass(FALSE)
  OBVIOUS
<1>3. FirstPass(k) /\ k.rest = p /\ k.npar = 1
  BY <1>1, <1>2 DEF Pass, FirstPass, Passes
<1>4. PICK g : g = Emit(k, <<Cell("MAGIC")>>)
  OBVIOUS
<1>5. Kept(k, g)
  <2>1. <<Cell("MAGIC")>> \in Seq(Cells)
    BY DEF Cell, Cells, Bytes
  <2>. QED
    BY <1>3, <1>4, <2>1, EmitKept
<1>6. SubSeq(p, 1, Len(p)) = p
  BY SubSeqFull
<1>7. Stands(p, g, 1)
  <2>1. FirstPass(g) /\ g.rest = SubSeq(p, 1, Len(p)) /\ g.npar = 1
    BY <1>3, <1>5, <1>6 DEF Kept
  <2>2. 1 \in 1..(Len(p) + 1) /\ 1 - 1 = 0 /\ Opens(p, 0) = 0 /\ 1 <= NSUBEXP
    BY OpensStep, RegexpAssumption
  <2>. QED
    BY <2>1, <2>2 DEF Stands, Faces
<1>8. Good(Group[NSUBEXP], p, 0)
  <2>1. NSUBEXP \in 0..NSUBEXP /\ NSUBEXP - NSUBEXP = 0
    BY RegexpAssumption
  <2>2. Good(Group[NSUBEXP], p, NSUBEXP - NSUBEXP)
    BY <2>1, GroupsGood
  <2>. QED
    BY <2>1, <2>2
<1>9. reg(g, FALSE, Group[NSUBEXP]).ok <=> Formed(p, 1, Len(p)) /\ Opens(p, Len(p)) < NSUBEXP
  BY <1>7, <1>8, WholeRead
<1>10. Formed(p, 1, Len(p)) = WellFormed[p] /\ Opens(p, Len(p)) = Count(p, "(")
  BY <1>6 DEF Formed, Opens
<1>11. Compile(FALSE) = reg(g, FALSE, Group[NSUBEXP])
  BY <1>2, <1>4 DEF Compile
<1>. QED
  BY <1>1, <1>9, <1>10, <1>11 DEF Legal

-----------------------------------------------------------------------------
(* The verdict on the pattern *)

LegalInv == exp \in Patterns /\ RefusesIllegal

LEMMA LegalInit == Init => LegalInv
BY DEF Init, LegalInv, RefusesIllegal

LEMMA LegalStep ==
  ASSUME LegalInv, [Next]_vars
  PROVE  LegalInv'
<1>0. exp \in Seq(Tokens) /\ MaxSize \in Nat
  BY RegexpAssumption DEF LegalInv
<1>1. CASE SizePass
  <2>1. PICK r : r = Compile(FALSE)
    OBVIOUS
  <2>2. /\ exp' = exp
        /\ pc' = IF r.ok /\ r.g.size < MaxSize THEN "emit" ELSE "refused"
        /\ size' = IF r.ok THEN r.g.size ELSE 0
    BY <1>1, <2>1 DEF SizePass
  <2>3. r.ok <=> Legal(exp)
    BY <1>0, <2>1, CompileRead
  <2>4. r.ok => r.g.size \in Nat
    <3>1. SUFFICES ASSUME r.ok
                   PROVE  r.g.size \in Nat
      OBVIOUS
    <3>2. PICK c : c = Compile(TRUE).g.code
      OBVIOUS
    <3>3. c \in Seq(Cells) /\ r.g.size = Len(c)
      BY <1>0, <2>1, <3>1, <3>2, CompileSame
    <3>. QED
      BY <3>3
  <2>5. Legal(exp)' = Legal(exp)
    BY <2>2
  <2>6. CASE r.ok /\ r.g.size < MaxSize
    BY <2>2, <2>3, <2>5, <2>6 DEF LegalInv, RefusesIllegal
  <2>7. CASE r.ok /\ ~(r.g.size < MaxSize)
    <3>1. size' >= MaxSize /\ pc' = "refused"
      BY <1>0, <2>2, <2>4, <2>7
    <3>. QED
      BY <2>2, <3>1 DEF LegalInv, RefusesIllegal
  <2>8. CASE ~r.ok
    BY <2>2, <2>3, <2>5, <2>8 DEF LegalInv, RefusesIllegal
  <2>. QED
    BY <2>6, <2>7, <2>8 DEF LegalInv
<1>2. CASE NoMemory
  BY <1>2 DEF NoMemory, LegalInv, RefusesIllegal
<1>3. CASE EmitPass \/ Dig \/ Exec \/ Must \/ TryOnce \/ TryStart \/ TryEverywhere
  <2>1. exp' = exp
    BY <1>3 DEF EmitPass, Dig, Exec, Must, TryOnce, TryStart, TryEverywhere
  <2>2. pc' \notin {"refused", "emit"}
    BY <1>3 DEF EmitPass, Dig, Exec, Must, TryOnce, TryStart, TryEverywhere, Answer, Try
  <2>. QED
    BY <2>1, <2>2 DEF LegalInv, RefusesIllegal
<1>4. CASE UNCHANGED vars
  BY <1>4 DEF vars, LegalInv, RefusesIllegal
<1>. QED
  BY <1>1, <1>2, <1>3, <1>4 DEF Next

(* regcomp() refuses exactly what is no regular expression, has too many    *)
(* groups or would take too much code, whatever the pattern is: its         *)
(* recursive descent, with flags instead of look-ahead, decides the same as *)
(* taking the pattern apart from the outside does.                          *)
THEOREM RefusesWhatIsIllegal == Spec => []RefusesIllegal
<1>1. LegalInv /\ [Next]_vars => LegalInv'
  BY LegalStep
<1>2. LegalInv => RefusesIllegal
  BY DEF LegalInv
<1>. QED
  BY LegalInit, <1>1, <1>2, PTL DEF Spec
=============================================================================
