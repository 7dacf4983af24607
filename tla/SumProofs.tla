----------------------------- MODULE SumProofs -----------------------------
(***************************************************************************)
(* Induction over finite sets and numbers as a least counterexample, and    *)
(* what recursive definitions give by it: a function can be repeated, and   *)
(* SumFunctionOnSet of module Functions is well defined and does not depend *)
(* on the order in which it takes the elements.                            *)
(***************************************************************************)
EXTENDS Integers, FiniteSets, Functions, FiniteSetTheorems, TLAPS

-----------------------------------------------------------------------------
(* Induction *)

(* Among some subsets of a finite set there is one without another below.   *)
LEMMA LeastSubset ==
  ASSUME NEW S, IsFiniteSet(S), NEW B \in SUBSET (SUBSET S), B # {}
  PROVE  \E T \in B : \A U \in SUBSET T : U # T => U \notin B
<1> DEFINE R == StrictSubsetOrdering(S)
<1>1. B \subseteq FiniteSubsetsOf(S)
  BY FS_Subset DEF FiniteSubsetsOf
<1>2. IsWellFoundedOn(R, FiniteSubsetsOf(S))
  BY FS_StrictSubsetOrderingWellFounded
<1>3. PICK T \in B : \A U \in B : ~ (<<U, T>> \in R)
  <2>. HIDE DEF R
  <2>. QED
    BY <1>1, <1>2, WFMin
<1>4. \A U \in SUBSET T : U # T /\ U \in B => <<U, T>> \in R
  BY DEF StrictSubsetOrdering
<1>5. \A U \in SUBSET T : U # T => U \notin B
  BY <1>3, <1>4
<1>. QED
  BY <1>5

(* Among some numbers up to n there is a least one. *)
LEMMA LeastIndex ==
  ASSUME NEW n \in Nat, NEW B \in SUBSET (0..n), B # {}
  PROVE  \E a \in B : \A i \in 0..(a - 1) : i \notin B
<1> DEFINE C == {0..i : i \in B}
<1>1. PICK T \in C : \A U \in SUBSET T : U # T => U \notin C
  <2>1. C \in SUBSET (SUBSET (0..n))
    OBVIOUS
  <2>2. C # {}
    <3>1. PICK i \in B : TRUE
      OBVIOUS
    <3>2. 0..i \in C
      OBVIOUS
    <3>. QED
      BY <3>2
  <2>3. IsFiniteSet(0..n)
    BY FS_Interval
  <2>. HIDE DEF C
  <2>. QED
    BY <2>1, <2>2, <2>3, LeastSubset
<1>2. PICK a \in B : T = 0..a
  OBVIOUS
<1>3. ASSUME NEW i \in 0..(a - 1), i \in B
      PROVE  FALSE
  <2>1. a \in 0..a /\ a \notin 0..i /\ 0..i \subseteq 0..a
    OBVIOUS
  <2>2. 0..i \in C
    BY <1>3
  <2>. HIDE DEF C
  <2>. QED
    BY <1>1, <1>2, <2>1, <2>2
<1>. QED
  BY <1>3

(* Induction up to n, over the set of the numbers it holds of. *)
LEMMA UpTo ==
  ASSUME NEW n \in Nat, NEW G, 0 \in G, \A i \in 0..(n - 1) : i \in G => i + 1 \in G
  PROVE  0..n \subseteq G
<1> DEFINE B == {i \in 0..n : i \notin G}
<1>1. SUFFICES ASSUME B # {}
               PROVE  FALSE
  OBVIOUS
<1>2. PICK a \in B : \A i \in 0..(a - 1) : i \notin B
  <2>. HIDE DEF B
  <2>1. B \in SUBSET (0..n)
    BY DEF B
  <2>. QED
    BY <1>1, <2>1, LeastIndex
<1>3. a - 1 \in 0..(n - 1) /\ (a - 1) + 1 = a /\ a - 1 \in 0..(a - 1)
  OBVIOUS
<1>. QED
  BY <1>2, <1>3

(* g is f repeated from x on, n times *)
Repeats(g, f, x, n) ==
  g = [i \in 0..n |-> IF i = 0 THEN x ELSE f[g[i - 1]]]

(* A function can be repeated. *)
LEMMA Iterate ==
  ASSUME NEW f, NEW x, NEW n \in Nat
  PROVE  \E g : Repeats(g, f, x, n)
<1> DEFINE G == {m \in 0..n : \E g : Repeats(g, f, x, m)}
<1>1. 0 \in G
  <2>1. Repeats([i \in 0..0 |-> x], f, x, 0)
    BY DEF Repeats
  <2>. QED
    BY <2>1
<1>2. ASSUME NEW m \in 0..(n - 1), m \in G
      PROVE  m + 1 \in G
  <2>1. PICK g : Repeats(g, f, x, m)
    BY <1>2
  <2> DEFINE h == [i \in 0..(m + 1) |-> IF i = m + 1 THEN f[g[m]] ELSE g[i]]
  <2>2. ASSUME NEW i \in 0..(m + 1)
        PROVE  h[i] = IF i = 0 THEN x ELSE f[h[i - 1]]
    <3>1. CASE i = m + 1
      <4>1. m \in 0..(m + 1) /\ m # m + 1 /\ i - 1 = m /\ i # 0
        BY <3>1
      <4>. QED
        BY <3>1, <4>1
    <3>2. CASE i # m + 1
      <4>1. i \in 0..m /\ h[i] = g[i]
        BY <3>2
      <4>2. g[i] = IF i = 0 THEN x ELSE f[g[i - 1]]
        BY <2>1, <4>1 DEF Repeats
      <4>3. i # 0 => i - 1 \in 0..(m + 1) /\ i - 1 # m + 1
        BY <4>1
      <4>. QED
        BY <4>1, <4>2, <4>3
    <3>. QED
      BY <3>1, <3>2
  <2>3. Repeats(h, f, x, m + 1)
    <3>1. h = [i \in 0..(m + 1) |-> h[i]]
      OBVIOUS
    <3>. HIDE DEF h
    <3>. QED
      BY <2>2, <3>1 DEF Repeats
  <2>4. m + 1 \in 0..n
    OBVIOUS
  <2>. HIDE DEF h
  <2>. QED
    BY <2>3, <2>4
<1>3. 0..n \subseteq G
  <2>. HIDE DEF G
  <2>. QED
    BY <1>1, <1>2, UpTo
<1>. QED
  BY <1>3

-----------------------------------------------------------------------------
(* The recursion behind SumFunctionOnSet *)

Pick(s) == CHOOSE x \in s : TRUE

LEMMA PickIn ==
  ASSUME NEW s, s # {}
  PROVE  Pick(s) \in s
BY DEF Pick

(* g has the sums of f over all subsets of S *)
IsSum(g, f, S) ==
  g = [s \in SUBSET S |-> IF s = {} THEN 0 ELSE f[Pick(s)] + g[s \ {Pick(s)}]]

SumTable(f, S) == CHOOSE g : IsSum(g, f, S)

LEMMA SumIsTable ==
  ASSUME NEW f, NEW S
  PROVE  SumFunctionOnSet(f, S) = SumTable(f, S)[S]
BY DEF SumFunctionOnSet, FoldFunctionOnSet, MapThenFoldSet, SumTable, IsSum, Pick

(* Two tables agree where both are defined. *)
LEMMA SumsAgree ==
  ASSUME NEW f, NEW A, NEW B, NEW g, NEW h, IsSum(g, f, A), IsSum(h, f, B),
         NEW S, IsFiniteSet(S), S \subseteq A, S \subseteq B
  PROVE  g[S] = h[S]
<1> DEFINE Bad == {s \in SUBSET S : g[s] # h[s]}
<1>1. ASSUME NEW s \in SUBSET S
      PROVE  /\ g[s] = IF s = {} THEN 0 ELSE f[Pick(s)] + g[s \ {Pick(s)}]
             /\ h[s] = IF s = {} THEN 0 ELSE f[Pick(s)] + h[s \ {Pick(s)}]
  BY DEF IsSum
<1>2. SUFFICES ASSUME Bad # {}
               PROVE  FALSE
  BY DEF Bad
<1>3. PICK T \in Bad : \A U \in SUBSET T : U # T => U \notin Bad
  <2>1. Bad \in SUBSET (SUBSET S)
    OBVIOUS
  <2>. HIDE DEF Bad
  <2>. QED
    BY <1>2, <2>1, LeastSubset
<1>4. T # {} /\ T \in SUBSET S
  BY <1>1
<1>5. Pick(T) \in T
  BY <1>4, PickIn
<1>6. T \ {Pick(T)} \notin Bad /\ T \ {Pick(T)} \in SUBSET S
  BY <1>3, <1>4, <1>5
<1>. QED
  BY <1>1, <1>4, <1>6

(* There is a table. *)
LEMMA SumExists ==
  ASSUME NEW f, NEW S, IsFiniteSet(S)
  PROVE  IsSum(SumTable(f, S), f, S)
<1> DEFINE Bad == {s \in SUBSET S : ~ \E g : IsSum(g, f, s)}
<1>1. SUFFICES Bad = {}
  BY DEF SumTable
<1>2. SUFFICES ASSUME Bad # {}
               PROVE  FALSE
  OBVIOUS
<1>3. PICK T \in Bad : \A U \in SUBSET T : U # T => U \notin Bad
  <2>1. Bad \in SUBSET (SUBSET S)
    OBVIOUS
  <2>. HIDE DEF Bad
  <2>. QED
    BY <1>2, <2>1, LeastSubset
<1> DEFINE v(s) == SumTable(f, s)[s]
           G == [s \in SUBSET T |-> IF s = {} THEN 0 ELSE f[Pick(s)] + v(s \ {Pick(s)})]
<1>4. ASSUME NEW s \in SUBSET T, s # T
      PROVE  IsSum(SumTable(f, s), f, s) /\ IsFiniteSet(s)
  <2>1. \E g : IsSum(g, f, s)
    BY <1>3, <1>4
  <2>. QED
    BY <2>1, FS_Subset DEF SumTable
<1>5. ASSUME NEW s \in SUBSET T, s # T
      PROVE  v(s) = G[s]
  <2>1. SumTable(f, s)[s] =
          IF s = {} THEN 0 ELSE f[Pick(s)] + SumTable(f, s)[s \ {Pick(s)}]
    <3> DEFINE g == SumTable(f, s)
    <3>1. g = [u \in SUBSET s |-> IF u = {} THEN 0 ELSE f[Pick(u)] + g[u \ {Pick(u)}]]
      BY <1>4, <1>5 DEF IsSum
    <3>. HIDE DEF g
    <3>2. g[s] = IF s = {} THEN 0 ELSE f[Pick(s)] + g[s \ {Pick(s)}]
      BY <3>1
    <3>. QED
      BY <3>2 DEF g
  <2>2. CASE s = {}
    BY <2>1, <2>2
  <2>3. CASE s # {}
    <3> DEFINE r == s \ {Pick(s)}
    <3>1. r \in SUBSET s /\ r \in SUBSET T /\ r # T
      BY <1>5
    <3>2. SumTable(f, s)[r] = SumTable(f, r)[r]
      <4>. HIDE DEF r
      <4>1. IsSum(SumTable(f, s), f, s) /\ IsSum(SumTable(f, r), f, r) /\ IsFiniteSet(r)
        BY <1>4, <1>5, <3>1
      <4>. QED
        BY <4>1, <3>1, SumsAgree
    <3>. QED
      BY <2>1, <2>3, <3>2
  <2>. QED
    BY <2>2, <2>3
<1>6. ASSUME NEW s \in SUBSET T
      PROVE  G[s] = IF s = {} THEN 0 ELSE f[Pick(s)] + G[s \ {Pick(s)}]
  <2>1. CASE s # {}
    <3>1. s \ {Pick(s)} \in SUBSET T /\ s \ {Pick(s)} # T
      BY <2>1, PickIn
    <3>. QED
      BY <1>5, <3>1
  <2>. QED
    BY <2>1
<1>7. IsSum(G, f, T)
  <2>1. G = [s \in SUBSET T |-> G[s]]
    OBVIOUS
  <2>. HIDE DEF G
  <2>. QED
    BY <1>6, <2>1 DEF IsSum
<1>. QED
  BY <1>3, <1>7

-----------------------------------------------------------------------------
(* Sums *)

LEMMA SumEmpty ==
  ASSUME NEW f
  PROVE  SumFunctionOnSet(f, {}) = 0
<1>1. IsSum(SumTable(f, {}), f, {})
  BY SumExists, FS_EmptySet
<1>2. SumTable(f, {})[{}] = 0
  BY <1>1 DEF IsSum
<1>. QED
  BY <1>2, SumIsTable

LEMMA SumPick ==
  ASSUME NEW f, NEW S, IsFiniteSet(S), S # {}
  PROVE  SumFunctionOnSet(f, S) = f[Pick(S)] + SumFunctionOnSet(f, S \ {Pick(S)})
<1> DEFINE r == S \ {Pick(S)}
<1>1. IsFiniteSet(r) /\ r \subseteq S
  BY FS_Subset
<1>2. IsSum(SumTable(f, S), f, S) /\ IsSum(SumTable(f, r), f, r)
  BY <1>1, SumExists
<1>3. SumTable(f, S)[S] = f[Pick(S)] + SumTable(f, S)[r]
  BY <1>2 DEF IsSum
<1>4. SumTable(f, S)[r] = SumTable(f, r)[r]
  BY <1>1, <1>2, SumsAgree
<1>. QED
  BY <1>3, <1>4, SumIsTable

(* A sum of natural numbers is one. *)
LEMMA SumType ==
  ASSUME NEW f, NEW S, IsFiniteSet(S), \A x \in S : f[x] \in Nat
  PROVE  SumFunctionOnSet(f, S) \in Nat
<1> DEFINE Bad == {s \in SUBSET S : SumFunctionOnSet(f, s) \notin Nat}
<1>1. SUFFICES ASSUME Bad # {}
               PROVE  FALSE
  OBVIOUS
<1>2. PICK T \in Bad : \A U \in SUBSET T : U # T => U \notin Bad
  <2>1. Bad \in SUBSET (SUBSET S)
    OBVIOUS
  <2>. HIDE DEF Bad
  <2>. QED
    BY <1>1, <2>1, LeastSubset
<1>3. T # {} /\ T \in SUBSET S /\ IsFiniteSet(T)
  <2>1. SumFunctionOnSet(f, {}) = 0
    BY SumEmpty
  <2>. QED
    BY <2>1, FS_Subset
<1>4. Pick(T) \in T
  BY <1>3, PickIn
<1>5. SumFunctionOnSet(f, T \ {Pick(T)}) \in Nat
  BY <1>2, <1>3, <1>4
<1>6. SumFunctionOnSet(f, T) = f[Pick(T)] + SumFunctionOnSet(f, T \ {Pick(T)})
  BY <1>3, SumPick
<1>. QED
  BY <1>3, <1>4, <1>5, <1>6

(* Whichever element is taken first, the sum is the same. *)
LEMMA SumTake ==
  ASSUME NEW f, NEW S, IsFiniteSet(S), \A x \in S : f[x] \in Nat, NEW x \in S
  PROVE  SumFunctionOnSet(f, S) = f[x] + SumFunctionOnSet(f, S \ {x})
<1> DEFINE Sum(s) == SumFunctionOnSet(f, s)
           Bad == {s \in SUBSET S : \E y \in s : Sum(s) # f[y] + Sum(s \ {y})}
<1>1. SUFFICES ASSUME Bad # {}
               PROVE  FALSE
  OBVIOUS
<1>2. PICK T \in Bad : \A U \in SUBSET T : U # T => U \notin Bad
  <2>1. Bad \in SUBSET (SUBSET S)
    OBVIOUS
  <2>. HIDE DEF Bad
  <2>. QED
    BY <1>1, <2>1, LeastSubset
<1>3. PICK y \in T : Sum(T) # f[y] + Sum(T \ {y})
  OBVIOUS
<1>4. T \in SUBSET S /\ IsFiniteSet(T) /\ T # {}
  BY FS_Subset
<1> DEFINE p == Pick(T)
<1>5. p \in T /\ Sum(T) = f[p] + Sum(T \ {p})
  BY <1>4, PickIn, SumPick
<1>. HIDE DEF p, Sum
<1>6. p # y
  BY <1>3, <1>5
<1>7. Sum(T \ {p}) = f[y] + Sum((T \ {p}) \ {y})
  BY <1>2, <1>4, <1>5, <1>6
<1>8. Sum(T \ {y}) = f[p] + Sum((T \ {y}) \ {p})
  BY <1>2, <1>4, <1>5, <1>6
<1>9. (T \ {y}) \ {p} = (T \ {p}) \ {y} /\ IsFiniteSet((T \ {p}) \ {y})
  BY <1>4, FS_Subset
<1>10. f[p] \in Nat /\ f[y] \in Nat /\ Sum((T \ {p}) \ {y}) \in Nat
  <2>1. \A z \in (T \ {p}) \ {y} : f[z] \in Nat
    BY <1>4
  <2>. QED
    BY <1>4, <1>5, <1>9, <2>1, SumType DEF Sum
<1>. QED
  <2> DEFINE rest == Sum((T \ {p}) \ {y})
  <2>1. Sum(T) = f[p] + (f[y] + rest) /\ Sum(T \ {y}) = f[p] + rest
    BY <1>5, <1>7, <1>8, <1>9
  <2>2. rest \in Nat /\ f[p] \in Nat /\ f[y] \in Nat
    BY <1>10
  <2>. HIDE DEF rest
  <2>. QED
    BY <1>3, <2>1, <2>2

(* One element more *)
LEMMA SumAdd ==
  ASSUME NEW f, NEW S, IsFiniteSet(S), \A y \in S : f[y] \in Nat,
         NEW x, x \notin S, f[x] \in Nat
  PROVE  SumFunctionOnSet(f, S \cup {x}) = f[x] + SumFunctionOnSet(f, S)
<1>1. IsFiniteSet(S \cup {x}) /\ (S \cup {x}) \ {x} = S
  BY FS_AddElement
<1>2. \A y \in S \cup {x} : f[y] \in Nat
  OBVIOUS
<1>. QED
  BY <1>1, <1>2, SumTake

LEMMA SumOne ==
  ASSUME NEW f, NEW x, f[x] \in Nat
  PROVE  SumFunctionOnSet(f, {x}) = f[x]
<1>1. SumFunctionOnSet(f, {} \cup {x}) = f[x] + SumFunctionOnSet(f, {})
  BY SumAdd, FS_EmptySet
<1>2. {} \cup {x} = {x}
  OBVIOUS
<1>. QED
  BY <1>1, <1>2, SumEmpty

(* A sum of zeros is zero. *)
LEMMA SumZero ==
  ASSUME NEW f, NEW S, IsFiniteSet(S), \A x \in S : f[x] = 0
  PROVE  SumFunctionOnSet(f, S) = 0
<1> DEFINE Bad == {s \in SUBSET S : SumFunctionOnSet(f, s) # 0}
<1>1. SUFFICES ASSUME Bad # {}
               PROVE  FALSE
  OBVIOUS
<1>2. PICK T \in Bad : \A U \in SUBSET T : U # T => U \notin Bad
  <2>1. Bad \in SUBSET (SUBSET S)
    OBVIOUS
  <2>. HIDE DEF Bad
  <2>. QED
    BY <1>1, <2>1, LeastSubset
<1>3. T # {} /\ T \in SUBSET S /\ IsFiniteSet(T)
  BY SumEmpty, FS_Subset
<1>4. Pick(T) \in T
  BY <1>3, PickIn
<1>5. SumFunctionOnSet(f, T \ {Pick(T)}) = 0
  BY <1>2, <1>3, <1>4
<1>. QED
  BY <1>3, <1>4, <1>5, SumPick

(* Of two functions the smaller one has the smaller sum. *)
LEMMA SumMonotonic ==
  ASSUME NEW f, NEW g, NEW S, IsFiniteSet(S),
         \A x \in S : f[x] \in Nat /\ g[x] \in Nat /\ f[x] <= g[x]
  PROVE  SumFunctionOnSet(f, S) <= SumFunctionOnSet(g, S)
<1> DEFINE F(s) == SumFunctionOnSet(f, s)
           G(s) == SumFunctionOnSet(g, s)
           Bad == {s \in SUBSET S : ~ (F(s) <= G(s))}
<1>1. SUFFICES ASSUME Bad # {}
               PROVE  FALSE
  OBVIOUS
<1>2. PICK T \in Bad : \A U \in SUBSET T : U # T => U \notin Bad
  <2>1. Bad \in SUBSET (SUBSET S)
    OBVIOUS
  <2>. HIDE DEF Bad
  <2>. QED
    BY <1>1, <2>1, LeastSubset
<1>3. T # {} /\ T \in SUBSET S /\ IsFiniteSet(T)
  <2>1. F({}) = 0 /\ G({}) = 0
    BY SumEmpty
  <2>. HIDE DEF F, G
  <2>2. T \in SUBSET S /\ ~ (F(T) <= G(T))
    OBVIOUS
  <2>3. T # {}
    BY <2>1, <2>2
  <2>. QED
    BY <2>2, <2>3, FS_Subset
<1>4. PICK x \in T : TRUE
  BY <1>3
<1>5. F(T) = f[x] + F(T \ {x}) /\ G(T) = g[x] + G(T \ {x})
  BY <1>3, SumTake
<1>6. F(T \ {x}) \in Nat /\ G(T \ {x}) \in Nat
  BY <1>3, FS_Subset, SumType
<1>7. F(T \ {x}) <= G(T \ {x})
  BY <1>2, <1>3
<1>. QED
  BY <1>3, <1>5, <1>6, <1>7

(* The sum depends on nothing but the values. *)
LEMMA SumSame ==
  ASSUME NEW f, NEW g, NEW S, IsFiniteSet(S),
         \A x \in S : f[x] \in Nat /\ g[x] = f[x]
  PROVE  SumFunctionOnSet(f, S) = SumFunctionOnSet(g, S)
<1>1. /\ SumFunctionOnSet(f, S) <= SumFunctionOnSet(g, S)
      /\ SumFunctionOnSet(g, S) <= SumFunctionOnSet(f, S)
  BY SumMonotonic
<1>2. SumFunctionOnSet(f, S) \in Nat /\ SumFunctionOnSet(g, S) \in Nat
  BY SumType
<1>. QED
  BY <1>1, <1>2

(* More elements do not make it smaller. *)
LEMMA SumSubset ==
  ASSUME NEW f, NEW T, IsFiniteSet(T), \A x \in T : f[x] \in Nat, NEW S \in SUBSET T
  PROVE  SumFunctionOnSet(f, S) <= SumFunctionOnSet(f, T)
<1> DEFINE Sum(s) == SumFunctionOnSet(f, s)
           Bad == {s \in SUBSET T : \E u \in SUBSET s : ~ (Sum(u) <= Sum(s))}
<1>1. SUFFICES ASSUME Bad # {}
               PROVE  FALSE
  OBVIOUS
<1>2. PICK B \in Bad : \A U \in SUBSET B : U # B => U \notin Bad
  <2>1. Bad \in SUBSET (SUBSET T)
    OBVIOUS
  <2>. HIDE DEF Bad
  <2>. QED
    BY <1>1, <2>1, LeastSubset
<1>3. PICK u \in SUBSET B : ~ (Sum(u) <= Sum(B))
  OBVIOUS
<1>4. B \in SUBSET T /\ IsFiniteSet(B) /\ \A s \in SUBSET B : Sum(s) \in Nat
  BY FS_Subset, SumType
<1>. HIDE DEF Sum
<1>5. PICK x \in B : x \notin u
  BY <1>3, <1>4
<1>6. Sum(u) <= Sum(B \ {x})
  BY <1>2, <1>4, <1>5
<1>7. Sum(B) = f[x] + Sum(B \ {x}) /\ f[x] \in Nat
  BY <1>4, SumTake DEF Sum
<1>. QED
  BY <1>3, <1>4, <1>6, <1>7

(* What changes at one element changes the sum by as much. *)
LEMMA SumChange ==
  ASSUME NEW f, NEW g, NEW S, IsFiniteSet(S), NEW x \in S, NEW k \in Nat,
         \A y \in S : f[y] \in Nat,
         \A y \in S : g[y] = IF y = x THEN f[y] + k ELSE f[y]
  PROVE  SumFunctionOnSet(g, S) = SumFunctionOnSet(f, S) + k
<1> DEFINE r == S \ {x}
<1>1. IsFiniteSet(r) /\ \A y \in r : f[y] \in Nat /\ g[y] = f[y]
  BY FS_Subset
<1>2. SumFunctionOnSet(f, r) = SumFunctionOnSet(g, r) /\ SumFunctionOnSet(f, r) \in Nat
  BY <1>1, SumSame, SumType
<1>3. SumFunctionOnSet(f, S) = f[x] + SumFunctionOnSet(f, r)
  BY SumTake
<1>4. SumFunctionOnSet(g, S) = g[x] + SumFunctionOnSet(g, r)
  BY SumTake
<1>. QED
  BY <1>2, <1>3, <1>4
=============================================================================
