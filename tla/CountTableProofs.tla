-------------------------- MODULE CountTableProofs --------------------------
(***************************************************************************)
(* What adding and removing a row does to the rows of a name, for tables of *)
(* any size.                                                               *)
(***************************************************************************)
EXTENDS CountTable, FiniteSetTheorems, FunctionTheorems, TLAPS

-----------------------------------------------------------------------------
(* Sets of indices *)

(* A set of numbers that is not empty has a least element. *)
LEMMA HasMin ==
  ASSUME NEW S \in SUBSET Nat, S # {}
  PROVE  Min(S) \in S /\ \A y \in S : Min(S) <= y
<1> DEFINE Below(x) == S \cap (0..x)
           T == {Below(x) : x \in S}
           R == StrictSubsetOrdering(Nat)
<1>1. T \subseteq FiniteSubsetsOf(Nat)
  <2>1. SUFFICES ASSUME NEW x \in S
                 PROVE  Below(x) \in SUBSET Nat /\ IsFiniteSet(Below(x))
    BY DEF FiniteSubsetsOf
  <2>2. IsFiniteSet(0..x)
    BY FS_Interval
  <2>3. IsFiniteSet(Below(x))
    BY <2>2, FS_Subset
  <2>. QED
    BY <2>3
<1>2. T # {}
  OBVIOUS
<1>3. IsWellFoundedOn(R, FiniteSubsetsOf(Nat))
  BY FS_StrictSubsetOrderingWellFounded
<1>4. PICK B \in T : \A C \in T : ~ (<<C, B>> \in R)
  <2>. HIDE DEF T, R
  <2>. QED
    BY <1>1, <1>2, <1>3, WFMin
<1>5. PICK a \in S : B = Below(a)
  OBVIOUS
<1>6. ASSUME NEW y \in S, y < a
      PROVE  FALSE
  <2>1. Below(y) \in T /\ Below(y) \subseteq B /\ a \in B /\ a \notin Below(y)
    BY <1>5, <1>6
  <2>2. <<Below(y), B>> \in R
    BY <2>1, <1>5 DEF StrictSubsetOrdering
  <2>. QED
    BY <1>4, <2>1, <2>2
<1>7. \A y \in S : a <= y
  BY <1>6
<1>. QED
  BY <1>7 DEF Min

(* what becomes of a set of indices when index r goes and those behind it   *)
(* move up by one                                                          *)
Shift(S, r) == {IF i < r THEN i ELSE i - 1 : i \in S \ {r}}

(* Moving up loses none of them. *)
LEMMA ShiftCount ==
  ASSUME NEW S \in SUBSET (Nat \ {0}), IsFiniteSet(S), NEW r \in Nat
  PROVE  /\ IsFiniteSet(Shift(S, r))
         /\ Cardinality(Shift(S, r)) =
              IF r \in S THEN Cardinality(S) - 1 ELSE Cardinality(S)
<1> DEFINE f == [i \in S \ {r} |-> IF i < r THEN i ELSE i - 1]
<1>1. f \in Bijection(S \ {r}, Shift(S, r))
  <2>1. f \in [S \ {r} -> Shift(S, r)]
    BY DEF Shift
  <2>2. \A i, j \in S \ {r} : f[i] = f[j] => i = j
    OBVIOUS
  <2>3. \A k \in Shift(S, r) : \E i \in S \ {r} : f[i] = k
    BY DEF Shift
  <2>. QED
    BY <2>1, <2>2, <2>3, Fun_IsBij
<1>2. ExistsBijection(S \ {r}, Shift(S, r))
  BY <1>1 DEF ExistsBijection
<1>3. /\ IsFiniteSet(S \ {r})
      /\ Cardinality(S \ {r}) = IF r \in S THEN Cardinality(S) - 1 ELSE Cardinality(S)
  BY FS_RemoveElement
<1>. QED
  BY <1>2, <1>3, FS_Bijection

(* A set in which everything before r stayed and everything behind r moved  *)
(* up by one is the shifted one.                                           *)
LEMMA IsShift ==
  ASSUME NEW n \in Nat, NEW r \in 1..n, NEW P \in SUBSET (1..n), NEW Q \in SUBSET (1..(n - 1)),
         \A i \in 1..(n - 1) : i \in Q <=> (IF i < r THEN i ELSE i + 1) \in P
  PROVE  Q = Shift(P, r)
<1>1. ASSUME NEW i \in Q
      PROVE  i \in Shift(P, r)
  <2>1. CASE i < r
    BY <2>1 DEF Shift
  <2>2. CASE ~(i < r)
    <3>1. i + 1 \in P \ {r} /\ ~(i + 1 < r) /\ (i + 1) - 1 = i
      BY <2>2
    <3>. QED
      BY <3>1 DEF Shift
  <2>. QED
    BY <2>1, <2>2
<1>2. ASSUME NEW j \in P \ {r}
      PROVE  (IF j < r THEN j ELSE j - 1) \in Q
  <2>1. CASE j < r
    BY <2>1
  <2>2. CASE ~(j < r)
    <3>1. j - 1 \in 1..(n - 1) /\ ~(j - 1 < r) /\ (j - 1) + 1 = j
      BY <2>2
    <3>. QED
      BY <2>2, <3>1
  <2>. QED
    BY <2>1, <2>2
<1>3. Shift(P, r) \subseteq Q
  BY <1>2 DEF Shift
<1>. QED
  BY <1>1, <1>3

-----------------------------------------------------------------------------
(* Tables *)

TablesOf(N) ==
  [slot : [Slots -> [name : N, active : Nat, inactive : Nat]], n : 0..MaxProto]

(* A row that is added is one more of its name. *)
LEMMA AddNamed ==
  ASSUME NEW N, NEW t \in TablesOf(N), ~Full(t), NEW name, NEW x
  PROVE  /\ AddProto(t, name).n = t.n + 1
         /\ Named(AddProto(t, name), x) =
              IF x = name THEN Named(t, x) \cup {t.n + 1} ELSE Named(t, x)
<1> DEFINE u == AddProto(t, name)
<1>1. /\ u.n = t.n + 1
      /\ u.slot = [t.slot EXCEPT ![t.n + 1].name = name]
      /\ t.n + 1 \in Slots
  BY MaxProtoAssumption DEF AddProto, TablesOf, Full, Slots
<1>2. \A i \in 1..t.n : u.slot[i] = t.slot[i]
  BY <1>1, MaxProtoAssumption DEF TablesOf, Slots
<1>3. u.slot[t.n + 1].name = name
  <2>1. t.slot[t.n + 1] \in [name : N, active : Nat, inactive : Nat]
    BY <1>1 DEF TablesOf
  <2>2. u.slot[t.n + 1] = [t.slot[t.n + 1] EXCEPT !.name = name]
    BY <1>1 DEF TablesOf
  <2>. QED
    BY <2>1, <2>2
<1>4. 1..u.n = 1..t.n \cup {t.n + 1}
  BY <1>1 DEF TablesOf
<1>. HIDE DEF u
<1>. QED
  BY <1>1, <1>2, <1>3, <1>4 DEF Named, u

(* A row that goes takes itself out of the rows of its name, and moves the  *)
(* others.                                                                 *)
LEMMA DropNamed ==
  ASSUME NEW N, NEW t \in TablesOf(N), NEW r \in 1..t.n, NEW x
  PROVE  Named(DropRow(t, r), x) = Shift(Named(t, x), r)
<1> DEFINE u == DropRow(t, r)
<1>1. u.n = t.n - 1 /\ t.n \in Nat /\ t.n \in 1..MaxProto /\ MaxProto \in Nat
  BY MaxProtoAssumption DEF DropRow, TablesOf
<1>2. ASSUME NEW i \in 1..u.n
      PROVE  u.slot[i] = IF i < r THEN t.slot[i] ELSE t.slot[i + 1]
  <2>1. i \in Slots /\ i # t.n /\ i < t.n
    BY <1>1 DEF Slots
  <2>. QED
    BY <2>1 DEF DropRow
<1>. HIDE DEF u
<1>3. Named(u, x) \in SUBSET (1..(t.n - 1)) /\ Named(t, x) \in SUBSET (1..t.n)
  BY <1>1 DEF Named
<1>4. \A i \in 1..(t.n - 1) :
        i \in Named(u, x) <=> (IF i < r THEN i ELSE i + 1) \in Named(t, x)
  BY <1>1, <1>2 DEF Named
<1>5. Named(u, x) = Shift(Named(t, x), r)
  BY <1>1, <1>3, <1>4, IsShift
<1>. QED
  BY <1>5 DEF u

(* The rows of a name are finitely many; if there is one, the first is      *)
(* looked up.                                                              *)
LEMMA NamedFacts ==
  ASSUME NEW N, NEW t \in TablesOf(N), NEW x
  PROVE  /\ Named(t, x) \in SUBSET (Nat \ {0})
         /\ IsFiniteSet(Named(t, x))
         /\ Cardinality(Named(t, x)) \in Nat
         /\ Named(t, x) # {} => Lookup(t, x) \in Named(t, x)
         /\ Lookup(t, x) \in 0..t.n
<1>1. Named(t, x) \in SUBSET (1..t.n) /\ t.n \in Nat
  BY DEF Named, TablesOf
<1>2. IsFiniteSet(1..t.n)
  BY <1>1, FS_Interval
<1>3. IsFiniteSet(Named(t, x)) /\ Cardinality(Named(t, x)) \in Nat
  BY <1>1, <1>2, FS_Subset, FS_CardinalityType
<1>4. Named(t, x) # {} => Lookup(t, x) \in Named(t, x)
  <2>1. Named(t, x) \in SUBSET Nat
    BY <1>1
  <2>. QED
    BY <2>1, HasMin DEF Lookup
<1>. QED
  BY <1>1, <1>3, <1>4 DEF Lookup

(* What adding or dropping does to the number of rows of a name.            *)
LEMMA CountNamed ==
  ASSUME NEW N, NEW t \in TablesOf(N), NEW x
  PROVE  /\ \A name : ~Full(t) =>
              Cardinality(Named(AddProto(t, name), x)) =
                Cardinality(Named(t, x)) + (IF x = name THEN 1 ELSE 0)
         /\ \A name : Named(t, name) # {} =>
              Cardinality(Named(RemoveProto(t, name), x)) =
                Cardinality(Named(t, x)) - (IF x = name THEN 1 ELSE 0)
<1>1. /\ t.n \in Nat /\ Named(t, x) \in SUBSET (1..t.n)
      /\ IsFiniteSet(Named(t, x)) /\ Cardinality(Named(t, x)) \in Nat
  <2>1. t.n \in Nat /\ Named(t, x) \in SUBSET (1..t.n)
    BY MaxProtoAssumption DEF TablesOf, Named
  <2>. QED
    BY <2>1, NamedFacts
<1>2. ASSUME NEW name, ~Full(t)
      PROVE  Cardinality(Named(AddProto(t, name), x)) =
               Cardinality(Named(t, x)) + (IF x = name THEN 1 ELSE 0)
  <2>1. t.n + 1 \notin Named(t, x)
    BY <1>1
  <2>2. Cardinality(Named(t, x) \cup {t.n + 1}) = Cardinality(Named(t, x)) + 1
    BY <1>1, <2>1, FS_AddElement
  <2>. QED
    BY <1>1, <1>2, <2>2, AddNamed
<1>3. ASSUME NEW name, Named(t, name) # {}
      PROVE  Cardinality(Named(RemoveProto(t, name), x)) =
               Cardinality(Named(t, x)) - (IF x = name THEN 1 ELSE 0)
  <2> DEFINE r == Lookup(t, name)
  <2>1. r \in Named(t, name)
    BY <1>3, NamedFacts
  <2>2. r \in 1..t.n /\ (r \in Named(t, x) <=> x = name)
    BY <2>1 DEF Named
  <2>. HIDE DEF r
  <2>3. Named(DropRow(t, r), x) = Shift(Named(t, x), r)
    BY <2>2, DropNamed
  <2>4. r \in Nat /\ Named(t, x) \in SUBSET (Nat \ {0})
    BY <1>1, <2>2
  <2>5. Cardinality(Shift(Named(t, x), r)) =
          IF r \in Named(t, x) THEN Cardinality(Named(t, x)) - 1 ELSE Cardinality(Named(t, x))
    BY <1>1, <2>4, ShiftCount
  <2>6. RemoveProto(t, name) = DropRow(t, r)
    BY DEF RemoveProto, r
  <2>. QED
    BY <1>1, <2>2, <2>3, <2>5, <2>6
<1>. QED
  BY <1>2, <1>3

-----------------------------------------------------------------------------
(* Looking a name up *)

(* It is the first row of the name, if there is one. *)
LEMMA LookupFacts ==
  ASSUME NEW N, NEW t \in TablesOf(N), NEW x
  PROVE  /\ Lookup(t, x) \in 0..t.n /\ t.n \in Nat /\ t.n <= MaxProto
         /\ Lookup(t, x) = 0 <=> Named(t, x) = {}
         /\ Lookup(t, x) # 0 => /\ Lookup(t, x) \in Named(t, x)
                                /\ t.slot[Lookup(t, x)].name = x
         /\ \A i \in Named(t, x) : Lookup(t, x) <= i
<1>1. t.n \in Nat /\ t.n <= MaxProto
  BY MaxProtoAssumption DEF TablesOf
<1>2. /\ Named(t, x) \in SUBSET (Nat \ {0}) /\ Lookup(t, x) \in 0..t.n
      /\ Named(t, x) # {} => Lookup(t, x) \in Named(t, x)
  BY NamedFacts
<1>3. CASE Named(t, x) = {}
  <2>1. Lookup(t, x) = 0
    BY <1>3 DEF Lookup
  <2>. QED
    BY <1>1, <1>2, <1>3, <2>1
<1>4. CASE Named(t, x) # {}
  <2>1. Lookup(t, x) = Min(Named(t, x))
    BY <1>4 DEF Lookup
  <2>2. \A i \in Named(t, x) : Min(Named(t, x)) <= i
    BY <1>2, <1>4, HasMin
  <2>3. Lookup(t, x) # 0 /\ Lookup(t, x) \in Named(t, x)
    BY <1>2, <1>4
  <2>4. t.slot[Lookup(t, x)].name = x
    BY <2>3 DEF Named
  <2>. QED
    BY <1>1, <1>2, <1>4, <2>1, <2>2, <2>3, <2>4
<1>. QED
  BY <1>3, <1>4

(* Only the first row of a name is found. *)
LEMMA LookupIs ==
  ASSUME NEW N, NEW t \in TablesOf(N), NEW x,
         NEW i \in Named(t, x), \A j \in Named(t, x) : i <= j
  PROVE  Lookup(t, x) = i
<1>1. Lookup(t, x) \in Named(t, x) /\ Lookup(t, x) <= i
  BY LookupFacts
<1>2. i <= Lookup(t, x)
  BY <1>1
<1>3. Named(t, x) \in SUBSET (Nat \ {0})
  BY NamedFacts
<1>. QED
  BY <1>1, <1>2, <1>3

(* What a table counts has no influence on what is found in it. *)
LEMMA LookupSame ==
  ASSUME NEW t, NEW u, u.n = t.n, \A i \in 1..t.n : u.slot[i].name = t.slot[i].name, NEW x
  PROVE  Named(u, x) = Named(t, x) /\ Lookup(u, x) = Lookup(t, x)
<1>1. Named(u, x) = Named(t, x)
  BY DEF Named
<1>. QED
  BY <1>1 DEF Lookup

(* A new name is found in the new row, every other name where it was; a     *)
(* further row of a name is not found.                                     *)
LEMMA LookupAdd ==
  ASSUME NEW N, NEW t \in TablesOf(N), ~Full(t), NEW name,
         NEW x, AddProto(t, name) \in TablesOf(N)
  PROVE  Lookup(AddProto(t, name), x) =
           IF x = name /\ Lookup(t, name) = 0 THEN t.n + 1 ELSE Lookup(t, x)
<1> DEFINE u == AddProto(t, name)
<1>1. Named(u, x) = IF x = name THEN Named(t, x) \cup {t.n + 1} ELSE Named(t, x)
  BY AddNamed
<1>. HIDE DEF u
<1>2. CASE x = name /\ Lookup(t, name) = 0
  <2>1. Named(t, x) = {} /\ t.n \in Nat
    BY <1>2, LookupFacts
  <2>2. Named(u, x) = {t.n + 1}
    BY <1>1, <1>2, <2>1
  <2>3. t.n + 1 \in Named(u, x) /\ \A j \in Named(u, x) : t.n + 1 <= j
    BY <2>1, <2>2
  <2>. QED
    BY <1>2, <2>3, LookupIs DEF u
<1>3. CASE x = name /\ Lookup(t, name) # 0
  <2>1. Named(u, x) = Named(t, x) \cup {t.n + 1} /\ t.n \in Nat
    BY <1>1, <1>3, LookupFacts
  <2>2. /\ Lookup(t, x) \in Named(t, x) /\ Lookup(t, x) \in 0..t.n
        /\ \A i \in Named(t, x) : Lookup(t, x) <= i
    BY <1>3, LookupFacts
  <2> DEFINE l == Lookup(t, x)
  <2>3. l \in Named(u, x) /\ l <= t.n + 1
    BY <2>1, <2>2
  <2>4. \A j \in Named(u, x) : l <= j
    BY <2>1, <2>2, <2>3
  <2>. HIDE DEF l
  <2>5. Lookup(u, x) = l
    BY <2>3, <2>4, LookupIs DEF u
  <2>. QED
    BY <1>3, <2>5 DEF u, l
<1>4. CASE x # name
  BY <1>1, <1>4 DEF Lookup, u
<1>. QED
  BY <1>2, <1>3, <1>4

(* A row that goes is one of those in use, also if the name was not found.  *)
LEMMA LeavingFacts ==
  ASSUME NEW N, NEW t \in TablesOf(N), t.n > 0, NEW name
  PROVE  /\ Leaving(t, name) \in 1..t.n
         /\ RemoveProto(t, name) = DropRow(t, Leaving(t, name))
<1>1. Lookup(t, name) \in 0..t.n /\ t.n \in Nat
  BY LookupFacts
<1>2. CASE Lookup(t, name) # 0
  BY <1>1, <1>2 DEF Leaving, RemoveProto
<1>3. CASE Lookup(t, name) = 0
  <2>1. Leaving(t, name) = t.n /\ RemoveProto(t, name) = DropRow(t, 0)
    BY <1>3 DEF Leaving, RemoveProto
  <2>2. \A i \in Slots : ~(i >= t.n /\ i < t.n) /\ ~(0 > 0)
    BY <1>1 DEF Slots
  <2>3. DropRow(t, 0) = DropRow(t, t.n)
    BY <2>2 DEF DropRow
  <2>. QED
    BY <1>1, <2>1, <2>3
<1>. QED
  BY <1>2, <1>3

(* When a row goes, a name found in another one is found where that has     *)
(* moved to, with the counts it had; a name found in the row that goes has   *)
(* no row any more, or one that was not found before.                       *)
LEMMA LookupDrop ==
  ASSUME NEW N, NEW t \in TablesOf(N), NEW r \in 1..t.n, NEW x
  PROVE  /\ Lookup(t, x) = 0 => Lookup(DropRow(t, r), x) = 0
         /\ Lookup(t, x) \notin {0, r} =>
              /\ Lookup(DropRow(t, r), x) =
                   IF Lookup(t, x) < r THEN Lookup(t, x) ELSE Lookup(t, x) - 1
              /\ DropRow(t, r).slot[Lookup(DropRow(t, r), x)] = t.slot[Lookup(t, x)]
         /\ Lookup(t, x) = r /\ Lookup(DropRow(t, r), x) # 0 =>
              \E j \in Named(t, x) \ {r} :
                DropRow(t, r).slot[Lookup(DropRow(t, r), x)] = t.slot[j]
<1> DEFINE l == Lookup(t, x)
           k == IF l < r THEN l ELSE l - 1
           u == DropRow(t, r)
<1>1. /\ r \in 1..t.n /\ l \in 0..t.n /\ t.n \in Nat /\ t.n <= MaxProto
      /\ \A i \in Named(t, x) : l <= i
      /\ l # 0 => l \in Named(t, x)
  BY LookupFacts DEF Named
<1>2. u = DropRow(t, r) /\ u.n = t.n - 1
  BY DEF DropRow
<1>. HIDE DEF l, u
<1>3. Named(u, x) = Shift(Named(t, x), r)
  BY <1>1, <1>2, DropNamed
<1>4. CASE l = 0
  <2>1. Named(t, x) = {}
    BY <1>4, LookupFacts DEF l
  <2>2. Named(u, x) = {}
    BY <1>3, <2>1 DEF Shift
  <2>3. Lookup(u, x) = 0
    BY <2>2 DEF Lookup
  <2>. QED
    BY <1>1, <1>4, <2>3 DEF l, u
<1>5. CASE l \notin {0, r}
  <2>1. k \in Named(u, x)
    BY <1>1, <1>3, <1>5 DEF Shift
  <2>2. ASSUME NEW j \in Named(u, x)
        PROVE  k <= j
    <3>1. PICK i \in Named(t, x) \ {r} : j = IF i < r THEN i ELSE i - 1
      BY <1>3 DEF Shift
    <3>2. i \in Nat /\ l <= i
      BY <1>1, <3>1, NamedFacts
    <3>. QED
      BY <1>1, <1>5, <3>1, <3>2
  <2>3. Lookup(u, x) = k
    <3>1. Lookup(u, x) = Min(Named(u, x))
      BY <2>1 DEF Lookup
    <3>2. Named(u, x) \in SUBSET Nat
      BY <1>1, <1>2 DEF Named
    <3>3. Min(Named(u, x)) \in Named(u, x) /\ Min(Named(u, x)) <= k
      BY <2>1, <3>2, HasMin
    <3>4. k <= Min(Named(u, x)) /\ Min(Named(u, x)) \in Nat
      BY <2>2, <3>2, <3>3
    <3>5. k \in Nat
      BY <2>1, <3>2
    <3>. HIDE DEF k
    <3>. QED
      BY <3>1, <3>3, <3>4, <3>5
  <2>4. u.slot[k] = t.slot[l]
    <3>1. k \in Slots /\ k < t.n
      BY <1>1, <1>5, MaxProtoAssumption DEF Slots
    <3>2. u.slot[k] = IF k >= r THEN t.slot[k + 1] ELSE t.slot[k]
      BY <1>1, <1>2, <3>1 DEF DropRow
    <3>. QED
      BY <1>1, <1>5, <3>2
  <2>. HIDE DEF k
  <2>. QED
    BY <1>1, <1>5, <2>3, <2>4 DEF k, l, u
<1>6. CASE l = r
  <2>1. CASE Named(u, x) = {}
    BY <1>1, <1>6, <2>1 DEF Lookup, l, u
  <2>2. CASE Named(u, x) # {}
    <3>1. PICK m : m = Lookup(u, x)
      OBVIOUS
    <3>2. Named(u, x) \in SUBSET Nat /\ Named(u, x) \in SUBSET (1..(t.n - 1))
      BY <1>1, <1>2 DEF Named
    <3>3. m \in Named(u, x)
      BY <2>2, <3>1, <3>2, HasMin DEF Lookup
    <3>4. PICK i \in Named(t, x) \ {r} : m = IF i < r THEN i ELSE i - 1
      BY <1>3, <3>3 DEF Shift
    <3>5. m \in Slots /\ m < t.n /\ m \in Nat /\ i \in Nat
      BY <1>1, <3>2, <3>3, NamedFacts, MaxProtoAssumption DEF Slots
    <3>6. u.slot[m] = IF m >= r THEN t.slot[m + 1] ELSE t.slot[m]
      BY <1>1, <1>2, <3>5 DEF DropRow
    <3>7. u.slot[m] = t.slot[i]
      BY <1>1, <3>4, <3>5, <3>6
    <3>. QED
      BY <1>1, <1>6, <3>1, <3>7 DEF l, u
  <2>. QED
    BY <2>1, <2>2
<1>. QED
  BY <1>4, <1>5, <1>6

-----------------------------------------------------------------------------
(* A table to start with has its names, once each is enough, and nothing    *)
(* else.                                                                   *)
LEMMA TableOfFacts ==
  ASSUME NEW names, IsFiniteSet(names), Cardinality(names) <= MaxProto
  PROVE  /\ TableOf(names).n = Cardinality(names) /\ TableOf(names).n \in 0..MaxProto
         /\ \E g \in [Slots -> names \cup {NoName}] :
              TableOf(names) = [slot |-> [i \in Slots |-> [ZeroRow EXCEPT !.name = g[i]]],
                                n |-> Cardinality(names)]
         /\ \A i \in Slots : i > TableOf(names).n => TableOf(names).slot[i] = ZeroRow
         /\ \A i \in 1..TableOf(names).n : TableOf(names).slot[i].name \in names
         /\ \A n \in names : Named(TableOf(names), n) # {}
         /\ \A n \in names : \A i, j \in Named(TableOf(names), n) : i = j
<1> DEFINE k == Cardinality(names)
           f == CHOOSE f \in [1..k -> names] : {f[i] : i \in 1..k} = names
           g == [i \in Slots |-> IF i <= k THEN f[i] ELSE NoName]
           t == TableOf(names)
<1>1. k \in Nat /\ MaxProto \in Nat /\ k <= MaxProto /\ k \in 0..MaxProto
  BY MaxProtoAssumption, FS_CardinalityType
<1>2. \E h \in [1..k -> names] : {h[i] : i \in 1..k} = names
  <2>1. PICK h : h \in Bijection(1..k, names)
    BY FS_CardinalityType DEF ExistsBijection
  <2>2. h \in [1..k -> names] /\ \A x \in names : \E i \in 1..k : h[i] = x
    BY <2>1, Fun_IsSurj DEF Bijection, Surjection
  <2>3. {h[i] : i \in 1..k} = names
    BY <2>2
  <2>. QED
    BY <2>2, <2>3
<1>3. f \in [1..k -> names] /\ {f[i] : i \in 1..k} = names
  BY <1>2
<1>4. t = [slot |-> [i \in Slots |-> [ZeroRow EXCEPT !.name = IF i <= k THEN f[i] ELSE NoName]],
           n |-> k]
  BY DEF TableOf
<1>. HIDE DEF f, t
<1>5. g \in [Slots -> names \cup {NoName}]
  BY <1>1, <1>3 DEF Slots
<1>6. \A i \in Slots : g[i] = IF i <= k THEN f[i] ELSE NoName
  OBVIOUS
<1>7. \A i \in 1..k : g[i] = f[i] /\ i \in Slots
  BY <1>1 DEF Slots
<1>8. \A i \in Slots : i > k => g[i] = NoName
  BY <1>1 DEF Slots
<1>9. t = [slot |-> [i \in Slots |-> [ZeroRow EXCEPT !.name = g[i]]], n |-> k]
  BY <1>4
<1>. HIDE DEF g, k
<1>10. \A i \in Slots : i > k => t.slot[i] = ZeroRow
  BY <1>8, <1>9 DEF ZeroRow
<1>11. \A i \in 1..k : t.slot[i].name = f[i]
  BY <1>7, <1>9 DEF ZeroRow
<1>12. ASSUME NEW n \in names
       PROVE  Named(t, n) # {}
  <2>1. PICK i \in 1..k : f[i] = n
    BY <1>3
  <2>. QED
    BY <1>9, <1>11, <2>1 DEF Named
<1>13. ASSUME NEW n \in names, NEW i \in Named(t, n), NEW j \in Named(t, n)
       PROVE  i = j
  <2>1. i \in 1..k /\ j \in 1..k /\ f[i] = f[j]
    BY <1>9, <1>11, <1>13 DEF Named
  <2>2. f \in Surjection(1..k, names)
    BY <1>3, Fun_IsSurj
  <2>3. IsFiniteSet(1..k) /\ Cardinality(1..k) = Cardinality(names)
    <3>1. IsFiniteSet(1..k) /\ Cardinality(1..k) = k
      BY <1>1, FS_Interval
    <3>. QED
      BY <3>1 DEF k
  <2>4. f \in Injection(1..k, names)
    BY <2>2, <2>3, FS_SurjSameCardinalityImpliesInj
  <2>. QED
    BY <2>1, <2>4 DEF Injection, IsInjective
<1>14. t.n = k /\ t.n \in 0..MaxProto
  BY <1>1, <1>9
<1>15. \A i \in 1..t.n : t.slot[i].name \in names
  BY <1>3, <1>11, <1>14
<1>16. \E h \in [Slots -> names \cup {NoName}] :
         t = [slot |-> [i \in Slots |-> [ZeroRow EXCEPT !.name = h[i]]], n |-> k]
  BY <1>5, <1>9
<1>. QED
  BY <1>10, <1>12, <1>13, <1>14, <1>15, <1>16 DEF k, t
=============================================================================
