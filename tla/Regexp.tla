------------------------------- MODULE Regexp -------------------------------
(***************************************************************************)
(* The regular expressions of src/mod/regexp.c.  regcomp() compiles a       *)
(* pattern in two passes: the first one only adds up how much code there    *)
(* will be, the second one emits it into memory of exactly that size, as    *)
(* nodes with relative "next" pointers.  regexec() then looks for a match,  *)
(* with three shortcuts regcomp() has dug out of the code.  One cell of     *)
(* code is one byte; the two bytes of a pointer are one number.            *)
(***************************************************************************)
EXTENDS RegexLanguage

CONSTANTS
  Patterns,  \* the patterns to be compiled
  Texts,     \* the texts to be searched
  MaxSize    \* "small enough for pointer-storage convention": 32767

VARIABLES
  pc,      \* where regcomp() or regexec() is
  exp,     \* the pattern
  size,    \* regsize after the first pass
  code,    \* r->program
  flags,   \* what the second pass found out about the pattern
  opt,     \* r->regstart, r->reganch and r->regmust
  string,  \* the text
  s,       \* where in it regexec() is
  result   \* regexec()'s answer

vars == <<pc, exp, size, code, flags, opt, string, s, result>>

NUL == "NUL"

ASSUME RegexpAssumption ==
  /\ NSUBEXP \in Nat \ {0}
  /\ NUL \notin Tokens
  /\ DOMAIN Escape \cap Meta = {}
  /\ DOMAIN Class \cap (Meta \cup DOMAIN Escape) = {}
  /\ \A tok \in DOMAIN Escape : Escape[tok] \in Alphabet
  /\ \A tok \in DOMAIN Class : Class[tok].set \subseteq Alphabet /\ IsFiniteSet(Class[tok].set)
  /\ Patterns \subseteq Seq(Tokens)
  /\ MaxSize \in Nat

-----------------------------------------------------------------------------
(* Emitting code.  The state of a pass, struct match_globals: what is left  *)
(* of the pattern (regparse), how many () were seen (regnpar), and either   *)
(* the size so far (regcode == &regdummy) or the code so far.              *)

NULL == 0

regdummy == -1

Opcodes == {"END", "BOL", "EOL", "ANY", "ANYOF", "ANYBUT", "BRANCH", "BACK", "EXACTLY",
            "NOTHING", "STAR", "PLUS", "OPEN", "CLOSE"}

Bytes == Opcodes \cup Alphabet \cup {NUL, "MAGIC", "hi", "lo"}

(* a byte of code; the one that begins a node has the node's next pointer *)
Cells == [byte : Bytes, next : Int]

Cell(byte) == [byte |-> byte, next |-> 0]

Node(op) == <<Cell(op), Cell("hi"), Cell("lo")>>

Passes == [rest : Seq(Tokens), npar : Nat, emit : BOOLEAN, size : Nat, code : Seq(Cells)]

Pass(emit) == [rest |-> exp, npar |-> 1, emit |-> emit, size |-> 0, code |-> <<>>]

Char(g) == IF g.rest = <<>> THEN NUL ELSE g.rest[1]

Advance(g) == [g EXCEPT !.rest = Tail(@)]

Emit(g, cells) ==
  IF g.emit THEN [g EXCEPT !.code = @ \o cells]
            ELSE [g EXCEPT !.size = @ + Len(cells)]

(* where the next node will be *)
Here(g) == IF g.emit THEN Len(g.code) + 1 ELSE regdummy

regnode(g, op) == Emit(g, Node(op))

(* a string with its NUL *)
regstring(g, str) == Emit(g, Append([i \in DOMAIN str |-> Cell(str[i])], Cell(NUL)))

(* fault: the first pass forgets to count the inserted node *)
reginsertUncounted(g, op, opnd) ==
  IF g.emit
    THEN [g EXCEPT !.code = SubSeq(@, 1, opnd - 1) \o Node(op) \o SubSeq(@, opnd, Len(@))]
    ELSE g

reginsert(g, op, opnd) ==
  IF g.emit
    THEN [g EXCEPT !.code = SubSeq(@, 1, opnd - 1) \o Node(op) \o SubSeq(@, opnd, Len(@))]
    ELSE Emit(g, Node(op))

OP(c, p) == c[p].byte

OPERAND(p) == p + 3

regnext(c, p) ==
  IF p = regdummy \/ c[p].next = 0
    THEN NULL
    ELSE IF OP(c, p) = "BACK" THEN p - c[p].next ELSE p + c[p].next

LastOf(c, p) ==
  LET last[q \in DOMAIN c] == IF regnext(c, q) = NULL THEN q ELSE last[regnext(c, q)]
  IN last[p]

regtail(g, p, val) ==
  IF p = regdummy
    THEN g
    ELSE LET last == LastOf(g.code, p)
         IN [g EXCEPT !.code[last].next =
               IF OP(g.code, last) = "BACK" THEN last - val ELSE val - last]

regoptail(g, p, val) ==
  IF p \in {NULL, regdummy} \/ OP(g.code, p) # "BRANCH" THEN g ELSE regtail(g, OPERAND(p), val)

(* emit a node and hook it to the end of the chain that begins at p, or to  *)
(* the end of the operand of p                                             *)
NodeTail(g, p, op) == regtail(regnode(g, op), p, Here(g))

NodeOpTail(g, p, op) == regoptail(regnode(g, op), p, Here(g))

-----------------------------------------------------------------------------
(* The parser.  Each function returns the state it leaves, the node it has  *)
(* made and the flags of what it has read, or fails.  A parameter group is  *)
(* what reg() does with a parenthesis, as a function of the state behind it. *)

Flags == {"HASWIDTH", "SIMPLE", "SPSTART"}

FAIL == [ok |-> FALSE]

Outcomes == {FAIL} \cup [ok : {TRUE}, g : Passes, ret : Int, flags : SUBSET Flags]

Made(g, ret, fl) == [ok |-> TRUE, g |-> g, ret |-> ret, flags |-> fl]

Single == {"HASWIDTH", "SIMPLE"}

(* a loop that makes at most n rounds *)
Iterated(f, x, n) ==
  LET round[i \in 0..n] == IF i = 0 THEN x ELSE f[round[i - 1]] IN round[n]

(* the ordinary characters from here on; the last one is left alone if it   *)
(* is not the only one and a multiplier follows                            *)
Literal(rest) ==
  LET ordinary == {k \in 0..Len(rest) :
                     \A i \in 1..k : rest[i] \notin Meta \cup DOMAIN Escape \cup DOMAIN Class}
      len == CHOOSE k \in ordinary : k + 1 \notin ordinary
  IN IF len > 1 /\ IsMult(rest, len + 1) THEN len - 1 ELSE len

(* a node, with the string str as its operand *)
StringNode(g, op, str, fl) == Made(regstring(regnode(g, op), str), Here(g), fl)

OrdinaryAtom(g, len) ==
  Made([regstring(regnode(g, "EXACTLY"), SubSeq(g.rest, 1, len))
          EXCEPT !.rest = SubSeq(@, len + 1, Len(@))],
       Here(g),
       IF len = 1 THEN Single ELSE {"HASWIDTH"})

GroupAtom(r) == IF r.ok THEN [r EXCEPT !.flags = @ \ {"SIMPLE"}] ELSE FAIL

regatom(g, group) ==
  LET c == Char(g)
      h == Advance(g)
  IN CASE c = "^" -> Made(regnode(h, "BOL"), Here(g), {})
       [] c = "$" -> Made(regnode(h, "EOL"), Here(g), {})
       [] c = "." -> Made(regnode(h, "ANY"), Here(g), Single)
       [] c = "(" -> GroupAtom(group[h])
       [] c \in Mults \cup {NUL, "|", ")"} -> FAIL
       [] c \in DOMAIN Escape -> StringNode(h, "EXACTLY", <<Escape[c]>>, Single)
       [] c \in DOMAIN Class ->
            StringNode(h, IF Class[c].neg THEN "ANYBUT" ELSE "ANYOF", SetToSeq(Class[c].set), Single)
       [] OTHER -> OrdinaryAtom(g, Literal(g.rest))

(* x* as (x&|), where & means "self" *)
ComplexStar(g, ret) ==
  LET looped == regoptail(NodeOpTail(reginsert(g, "BRANCH", ret), ret, "BACK"), ret, ret)
  IN NodeTail(NodeTail(looped, ret, "BRANCH"), ret, "NOTHING")

(* x+ as x(&|) *)
ComplexPlus(g, ret) ==
  LET either == NodeTail(g, ret, "BRANCH")
      looped == regtail(regnode(either, "BACK"), Here(either), ret)
  IN NodeTail(NodeTail(looped, Here(g), "BRANCH"), ret, "NOTHING")

(* x? as (x|) *)
Optional(g, ret) ==
  LET either == NodeTail(reginsert(g, "BRANCH", ret), ret, "BRANCH")
  IN regoptail(NodeTail(either, ret, "NOTHING"), ret, Here(either))

Multiplied(g, op, ret, simple) ==
  CASE op = "*" /\ simple  -> reginsert(g, "STAR", ret)
    [] op = "*" /\ ~simple -> ComplexStar(g, ret)
    [] op = "+" /\ simple  -> reginsert(g, "PLUS", ret)
    [] op = "+" /\ ~simple -> ComplexPlus(g, ret)
    [] op = "?"            -> Optional(g, ret)

(* fault: the operand of + may be empty *)
EmptyRefused(op, fl) == op = "*" /\ "HASWIDTH" \notin fl

(* "*+ operand could be empty" *)
CouldBeEmpty(op, fl) == op # "?" /\ "HASWIDTH" \notin fl

(* atom a with its multiplier op; b is the state behind it *)
Repeated(a, op, b) ==
  IF CouldBeEmpty(op, a.flags) \/ Char(b) \in Mults
    THEN FAIL
    ELSE Made(b, a.ret, IF op = "+" THEN {"HASWIDTH"} ELSE {"SPSTART"})

(* what becomes of atom a *)
Piece(a) ==
  LET op == Char(a.g)
  IN IF ~a.ok THEN FAIL
     ELSE IF op \notin Mults THEN a
     ELSE Repeated(a, op, Advance(Multiplied(a.g, op, a.ret, "SIMPLE" \in a.flags)))

regpiece(g, group) == Piece(regatom(g, group))

(* piece p behind the pieces r, the last of which is r.ret *)
Chained(r, p) ==
  IF ~p.ok THEN FAIL
  ELSE IF r.ret = NULL
         THEN Made(p.g, p.ret, r.flags \cup (p.flags \cap {"HASWIDTH", "SPSTART"}))
         ELSE Made(regtail(p.g, r.ret, p.ret), p.ret, r.flags \cup (p.flags \cap {"HASWIDTH"}))

NextPiece(r, group) ==
  IF ~r.ok \/ Char(r.g) \in {NUL, "|", ")"} THEN r ELSE Chained(r, regpiece(r.g, group))

regbranch(g, group) ==
  LET pieces == Iterated([r \in Outcomes |-> NextPiece(r, group)],
                         Made(regnode(g, "BRANCH"), NULL, {}), Len(g.rest))
  IN IF ~pieces.ok THEN FAIL
     ELSE Made(IF pieces.ret = NULL THEN regnode(pieces.g, "NOTHING") ELSE pieces.g,
               Here(g), pieces.flags)

(* the flags of x|y *)
Either(x, y) == (x \cap y \cap {"HASWIDTH"}) \cup ((x \cup y) \cap {"SPSTART"})

(* branch b behind what r has, which begins at r.ret *)
Linked(r, b) ==
  IF ~b.ok THEN FAIL
  ELSE Made(IF r.ret = NULL THEN b.g ELSE regtail(b.g, r.ret, b.ret),
            IF r.ret = NULL THEN b.ret ELSE r.ret,
            Either(r.flags, b.flags))

NextBranch(r, group) ==
  IF ~r.ok \/ Char(r.g) # "|" THEN r ELSE Linked(r, regbranch(Advance(r.g), group))

(* the tail of branch h.br goes to the closing node, if there is a branch   *)
Hooked(h, ender) ==
  IF h.br = NULL
    THEN h
    ELSE [g  |-> regoptail(h.g, h.br, ender),
          br |-> regnext(regoptail(h.g, h.br, ender).code, h.br)]

(* those of all branches from br on, which are not more than there is code  *)
HookTails(g, br, ender) ==
  LET hook[n \in 0..Len(g.code)] ==
        IF n = 0 THEN [g |-> g, br |-> br] ELSE Hooked(hook[n - 1], ender)
  IN hook[Len(g.code)].g

(* "unmatched ()" *)
Terminated(r, paren) ==
  IF Char(r.g) # (IF paren THEN ")" ELSE NUL) THEN FAIL
  ELSE IF paren THEN [r EXCEPT !.g = Advance(@)] ELSE r

(* the closing node, with the branches r hooked to it *)
Closed(r, paren) ==
  Made(HookTails(NodeTail(r.g, r.ret, IF paren THEN "CLOSE" ELSE "END"), r.ret, Here(r.g)),
       r.ret, r.flags)

reg(g, paren, group) ==
  LET opened == IF paren THEN regnode([g EXCEPT !.npar = @ + 1], "OPEN") ELSE g
      open == Made(opened, IF paren THEN Here(g) ELSE NULL, {"HASWIDTH"})
      branches == Iterated([r \in Outcomes |-> NextBranch(r, group)],
                           Linked(open, regbranch(opened, group)), Len(g.rest))
  IN IF (paren /\ g.npar >= NSUBEXP) \/ ~branches.ok THEN FAIL
     ELSE Terminated(Closed(branches, paren), paren)

(* reg() for a parenthesis, when at most n are open in it; more than        *)
(* NSUBEXP - 1 cannot be                                                   *)
Group[n \in 0..NSUBEXP] ==
  [g \in Passes |-> IF n = 0 THEN FAIL ELSE reg(g, TRUE, Group[n - 1])]

-----------------------------------------------------------------------------
(* regcomp() *)

Compile(emit) == reg(Emit(Pass(emit), <<Cell("MAGIC")>>), FALSE, Group[NSUBEXP])

NoOpt == [regstart |-> NUL, reganch |-> FALSE, regmust |-> <<>>]

Init ==
  /\ pc = "size"
  /\ exp \in Patterns
  /\ size = 0
  /\ code = <<>>
  /\ flags = {}
  /\ opt = NoOpt
  /\ string = <<>>
  /\ s = 1
  /\ result = FALSE

(* the first pass: the pattern is refused if it is none or if its code would *)
(* be too big                                                              *)
SizePass ==
  /\ pc = "size"
  /\ \E r \in {Compile(FALSE)} :
       /\ pc' = IF r.ok /\ r.g.size < MaxSize THEN "emit" ELSE "refused"
       /\ size' = IF r.ok THEN r.g.size ELSE 0
  /\ UNCHANGED <<exp, code, flags, opt, string, s, result>>

(* kmalloc() fails *)
NoMemory ==
  /\ pc = "emit"
  /\ pc' = "nomemory"
  /\ UNCHANGED <<exp, size, code, flags, opt, string, s, result>>

EmitPass ==
  /\ pc = "emit"
  /\ pc' = "dig"
  /\ \E r \in {Compile(TRUE)} : code' = r.g.code /\ flags' = r.flags
  /\ UNCHANGED <<exp, size, opt, string, s, result>>

(* the string that is the operand of node p *)
Literally(p) ==
  LET str[i \in DOMAIN code] ==
        IF code[i].byte = NUL THEN <<>> ELSE <<code[i].byte>> \o str[i + 1]
  IN str[OPERAND(p)]

(* the longest literal string from scan on, the last one of several *)
Longest(scan) ==
  LET longest[p \in 0..Len(code)] ==
        IF p = NULL THEN <<>>
        ELSE LET next == longest[regnext(code, p)]
             IN IF OP(code, p) = "EXACTLY" /\ Len(Literally(p)) > Len(next)
                  THEN Literally(p) ELSE next
  IN longest[scan]

First == 2  \* r->program + 1, the first BRANCH

(* fault: what is not required of the other choices is required *)
AnyChoice == TRUE

(* only one top-level choice *)
OneChoice == OP(code, regnext(code, First)) = "END"

(* the information for the optimizations *)
Dig ==
  /\ pc = "dig"
  /\ pc' = "ready"
  /\ LET scan == OPERAND(First)
     IN opt' = IF ~OneChoice THEN NoOpt
               ELSE [regstart |-> IF OP(code, scan) = "EXACTLY" THEN code[OPERAND(scan)].byte ELSE NUL,
                     reganch  |-> OP(code, scan) = "BOL",
                     regmust  |-> IF "SPSTART" \in flags THEN Longest(scan) ELSE <<>>]
  /\ UNCHANGED <<exp, size, code, flags, string, s, result>>

-----------------------------------------------------------------------------
(* regmatch(): where the match ends that begins at node scan and position  *)
(* i of the text, NULL if there is none                                    *)

(* how far the simple operand at node p matches from i on *)
regrepeat(p, i) ==
  LET fits(k) == CASE OP(code, p) = "ANY"     -> TRUE
                   [] OP(code, p) = "EXACTLY" -> string[k] = code[OPERAND(p)].byte
                   [] OP(code, p) = "ANYOF"   -> string[k] \in ToSet(Literally(p))
                   [] OP(code, p) = "ANYBUT"  -> string[k] \notin ToSet(Literally(p))
      runs == {n \in 0..(Len(string) + 1 - i) : \A k \in i..(i + n - 1) : fits(k)}
  IN CHOOSE n \in runs : n + 1 \notin runs

(* at i the text has a character, one of cs *)
At(i, cs) == i <= Len(string) /\ string[i] \in cs

(* BRANCH: the choices from scan on, one after the other; match has the     *)
(* ends of the matches of their operands                                   *)
FirstOf(scan, match) ==
  LET first[p \in 0..Len(code)] ==
        IF p = NULL \/ OP(code, p) # "BRANCH" THEN NULL
        ELSE IF match[OPERAND(p)] # NULL THEN match[OPERAND(p)]
        ELSE first[regnext(code, p)]
  IN first[scan]

(* STAR and PLUS: as many repetitions as possible, but not less than min,   *)
(* so that there is a match behind them; a look at the next character comes *)
(* first if it is known                                                    *)
BackUp(scan, i, match) ==
  LET next == regnext(code, scan)
      min == IF OP(code, scan) = "STAR" THEN 0 ELSE 1
      fits(k) == OP(code, next) = "EXACTLY" => At(k, {code[OPERAND(next)].byte})
      ends == {k \in (i + min)..(i + regrepeat(OPERAND(scan), i)) : fits(k) /\ match[k] # NULL}
  IN IF ends = {} THEN NULL ELSE match[Max(ends)]

regmatch[scan \in 0..Len(code), i \in 1..(Len(string) + 1)] ==
  LET next == regnext(code, scan)
      op == OP(code, scan)
      str == Literally(scan)
      go(cond, j) == IF cond THEN regmatch[next, j] ELSE NULL
  IN CASE scan = NULL      -> NULL
       [] op = "END"       -> i
       [] op = "BOL"       -> go(i = 1, i)
       [] op = "EOL"       -> go(i = Len(string) + 1, i)
       [] op = "ANY"       -> go(i <= Len(string), i + 1)
       [] op = "EXACTLY"   -> go(IsPrefix(str, SubSeq(string, i, Len(string))), i + Len(str))
       [] op = "ANYOF"     -> go(At(i, ToSet(str)), i + 1)
       [] op = "ANYBUT"    -> go(At(i, Alphabet \ ToSet(str)), i + 1)
       [] op \in {"NOTHING", "BACK", "OPEN", "CLOSE"} -> go(TRUE, i)
       [] op = "BRANCH"    -> IF OP(code, next) # "BRANCH" THEN regmatch[OPERAND(scan), i]
                              ELSE FirstOf(scan, [p \in 1..Len(code) |-> regmatch[p, i]])
       [] op \in {"STAR", "PLUS"} ->
            BackUp(scan, i, [k \in 1..(Len(string) + 1) |-> regmatch[next, k]])

regtry(i) == regmatch[First, i] # NULL

-----------------------------------------------------------------------------
(* regexec() *)

Exec ==
  /\ pc = "ready"
  /\ pc' = "must"
  /\ string' \in Texts
  /\ UNCHANGED <<exp, size, code, flags, opt, s, result>>

Answer(r) == pc' = "done" /\ result' = r /\ UNCHANGED s

(* regmust: the string that must appear, if there is one *)
Must ==
  /\ pc = "must"
  /\ IF \E i \in 1..(Len(string) + 1) : IsPrefix(opt.regmust, SubSeq(string, i, Len(string)))
       THEN pc' = "search" /\ UNCHANGED <<s, result>>
       ELSE Answer(FALSE)
  /\ UNCHANGED <<exp, size, code, flags, opt, string>>

(* reganch: an anchored match need be tried only once *)
TryOnce ==
  /\ pc = "search"
  /\ opt.reganch
  /\ Answer(regtry(1))
  /\ UNCHANGED <<exp, size, code, flags, opt, string>>

Try(i, final) ==
  IF regtry(i) \/ final
    THEN Answer(regtry(i))
    ELSE s' = i + 1 /\ UNCHANGED <<pc, result>>

(* regstart: only where the text has the character the match must start with *)
TryStart ==
  /\ pc = "search"
  /\ ~opt.reganch /\ opt.regstart # NUL
  /\ LET here == {i \in s..Len(string) : string[i] = opt.regstart}
     IN IF here = {}
          THEN Answer(FALSE)
          ELSE Try(CHOOSE i \in here : \A j \in here : i <= j, FALSE)
  /\ UNCHANGED <<exp, size, code, flags, opt, string>>

(* everywhere, the end of the text included *)
TryEverywhere ==
  /\ pc = "search"
  /\ ~opt.reganch /\ opt.regstart = NUL
  /\ Try(s, s = Len(string) + 1)
  /\ UNCHANGED <<exp, size, code, flags, opt, string>>

-----------------------------------------------------------------------------
(* The specification *)

Next ==
  \/ SizePass
  \/ NoMemory
  \/ EmitPass
  \/ Dig
  \/ Exec
  \/ Must
  \/ TryOnce
  \/ TryStart
  \/ TryEverywhere

Spec == Init /\ [][Next]_vars

-----------------------------------------------------------------------------
(* Properties *)

(* regcomp() refuses exactly the sequences of tokens that are no patterns,  *)
(* and patterns of which the code would be too big.                        *)
RefusesIllegal ==
  /\ pc = "refused" => ~Legal(exp) \/ size >= MaxSize
  /\ pc = "emit" => Legal(exp) /\ size < MaxSize

(* The second pass of regcomp() fills the memory allocated after the first  *)
(* one and not one byte more.                                              *)
SizeExact == code # <<>> => Len(code) = size

(* regexec() says yes exactly if a piece of the text is in the language of  *)
(* the pattern: neither the code, nor backtracking, nor one of the three    *)
(* shortcuts loses a match or finds one that is not there.                 *)
VerdictRight == pc = "done" => (result <=> Found(exp, string))
=============================================================================
