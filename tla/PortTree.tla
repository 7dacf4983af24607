------------------------------ MODULE PortTree ------------------------------
(***************************************************************************)
(* The macros of src/include/appflid/mod/rbtree.h as src/mod/wellkn_port.c *)
(* uses them: a binary search tree in which greater ports lie to the left. *)
(* Everything runs under wellkn_port_lock, so the steps here are those of   *)
(* the algorithms, one call at a time.  The kernel's rebalancing            *)
(* (rb_insert_color) is any number of rotations; rbtree_clear() works on    *)
(* whatever shape they leave.                                              *)
(***************************************************************************)
EXTENDS Integers, FiniteSets

CONSTANTS MaxPort   \* bound: the ports are 1..MaxPort

ASSUME MaxPortAssumption == MaxPort \in Nat

Ports == 1..MaxPort

Null == 0

Nodes == Ports \cup {Null}

(* an entry is named by its port *)
VARIABLES
  root,      \* (root)->rb_node
  left,      \* left[p]: rb_left of p's entry
  right,     \* right[p]
  parent,    \* parent[p]
  current,   \* current_hook of rbtree_clear(), Null when it does not run
  freed,     \* freed[p]: how often p's entry was given to the destructor
  answer     \* history: what the last call returned

treeVars == <<root, left, right, parent, current, freed, answer>>

links == <<left, right, parent>>

NoAnswer == [call |-> "none", port |-> 0, ok |-> FALSE]

TreeInit ==
  /\ root = Null
  /\ left = [p \in Ports |-> Null]
  /\ right = [p \in Ports |-> Null]
  /\ parent = [p \in Ports |-> Null]
  /\ current = Null
  /\ freed = [p \in Ports |-> 0]
  /\ answer = NoAnswer

Return(call, p, ok) == answer' = [call |-> call, port |-> p, ok |-> ok]

-----------------------------------------------------------------------------
(* rbtree_find() and rbtree_add() *)

(* wellkn_port_destroy() has not been called *)
InUse == current = Null /\ \A p \in Ports : freed[p] = 0

(* x, f[x], f[f[x]] and so on *)
Repeat(f, x) ==
  LET at[i \in 0..MaxPort] == IF i = 0 THEN x ELSE f[at[i - 1]] IN at

(* fault: the children the wrong way round *)
StepMirrored(x, p) ==
  IF x \in {Null, p} THEN x ELSE IF x < p THEN right[x] ELSE left[x]

(* compare_port(): an entry with a smaller port sends the search to its left *)
Step(x, p) ==
  IF x \in {Null, p} THEN x ELSE IF x < p THEN left[x] ELSE right[x]

(* the nodes a search for p looks at, from the root on *)
Path(p) == Repeat([x \in Nodes |-> Step(x, p)], root)

Found(p) == Path(p)[MaxPort]

(* the last node of an unsuccessful search *)
ParentFor(p) ==
  LET path == Path(p)
      depth == {i \in 0..MaxPort : path[i] # Null}
  IN IF depth = {} THEN Null ELSE path[Cardinality(depth) - 1]

Find(p) ==
  /\ InUse
  /\ Return("find", p, Found(p) # Null)
  /\ UNCHANGED <<root, links, current, freed>>

(* wellkn_port_add(): -EEXIST *)
AddRefused(p) ==
  /\ InUse
  /\ Found(p) # Null
  /\ Return("add", p, FALSE)
  /\ UNCHANGED <<root, links, current, freed>>

Add(p) ==
  /\ InUse
  /\ Found(p) = Null
  /\ LET q == ParentFor(p)
     IN /\ parent' = [parent EXCEPT ![p] = q]
        /\ root' = IF q = Null THEN p ELSE root
        /\ left' = IF q # Null /\ q < p THEN [left EXCEPT ![q] = p] ELSE left
        /\ right' = IF q # Null /\ q > p THEN [right EXCEPT ![q] = p] ELSE right
  /\ Return("add", p, TRUE)
  /\ UNCHANGED <<current, freed>>

-----------------------------------------------------------------------------
(* The kernel's rotations *)

(* y takes x's place under x's parent *)
Replace(x, y, l, r) ==
  LET q == parent[x]
  IN /\ root' = IF q = Null THEN y ELSE root
     /\ left' = IF q # Null /\ left[q] = x THEN [l EXCEPT ![q] = y] ELSE l
     /\ right' = IF q # Null /\ right[q] = x THEN [r EXCEPT ![q] = y] ELSE r

RotateLeft(x) ==
  /\ InUse
  /\ right[x] # Null
  /\ LET y == right[x]
         b == left[y]
     IN /\ Replace(x, y, [left EXCEPT ![y] = x], [right EXCEPT ![x] = b])
        /\ parent' = [p \in Ports |->
             IF p = y THEN parent[x] ELSE IF p = x THEN y
             ELSE IF p = b THEN x ELSE parent[p]]
  /\ UNCHANGED <<current, freed, answer>>

RotateRight(x) ==
  /\ InUse
  /\ left[x] # Null
  /\ LET y == left[x]
         b == right[y]
     IN /\ Replace(x, y, [left EXCEPT ![x] = b], [right EXCEPT ![y] = x])
        /\ parent' = [p \in Ports |->
             IF p = y THEN parent[x] ELSE IF p = x THEN y
             ELSE IF p = b THEN x ELSE parent[p]]
  /\ UNCHANGED <<current, freed, answer>>

-----------------------------------------------------------------------------
(* rbtree_clear(), called once, by wellkn_port_destroy() *)

(* the end of the left branch below x *)
Leftmost(x) ==
  Repeat([y \in Ports |-> IF left[y] = Null THEN y ELSE left[y]], x)[MaxPort]

ClearStart ==
  /\ InUse
  /\ root # Null
  /\ current' = Leftmost(root)
  /\ UNCHANGED <<root, links, freed, answer>>

(* fault: not down to the leftmost node *)
ClearDescendRight ==
  /\ current # Null
  /\ right[current] # Null
  /\ current' = right[current]
  /\ UNCHANGED <<root, links, freed, answer>>

ClearDescend ==
  /\ current # Null
  /\ right[current] # Null
  /\ current' = Leftmost(right[current])
  /\ UNCHANGED <<root, links, freed, answer>>

(* fault: the root keeps pointing to the last node *)
ClearKeepsRoot ==
  /\ current # Null
  /\ right[current] = Null
  /\ LET q == parent[current]
     IN /\ left' = IF q # Null /\ left[q] = current THEN [left EXCEPT ![q] = Null] ELSE left
        /\ right' = IF q # Null /\ left[q] # current THEN [right EXCEPT ![q] = Null] ELSE right
        /\ current' = q
  /\ freed' = [freed EXCEPT ![current] = @ + 1]
  /\ Return("free", current, TRUE)
  /\ UNCHANGED <<root, parent>>

(* unlink the node from its parent, free it, go on with the parent; at the  *)
(* end (root)->rb_node = NULL                                              *)
ClearFree ==
  /\ current # Null
  /\ right[current] = Null
  /\ LET q == parent[current]
     IN /\ left' = IF q # Null /\ left[q] = current THEN [left EXCEPT ![q] = Null] ELSE left
        /\ right' = IF q # Null /\ left[q] # current THEN [right EXCEPT ![q] = Null] ELSE right
        /\ root' = IF q = Null THEN Null ELSE root
        /\ current' = q
  /\ freed' = [freed EXCEPT ![current] = @ + 1]
  /\ Return("free", current, TRUE)
  /\ UNCHANGED parent

-----------------------------------------------------------------------------
(* The specification *)

TreeNext ==
  \/ \E p \in Ports : \/ Find(p)
                      \/ Add(p)
                      \/ AddRefused(p)
                      \/ RotateLeft(p)
                      \/ RotateRight(p)
  \/ ClearStart
  \/ ClearDescend
  \/ ClearFree

TreeSpec == TreeInit /\ [][TreeNext]_treeVars

(* a call that has begun runs to its end *)
FairTreeSpec == TreeSpec /\ WF_treeVars(ClearDescend \/ ClearFree)

-----------------------------------------------------------------------------
(* Properties *)

Children(X) == UNION {{left[x], right[x]} : x \in X}

(* the entries that can be reached from the root *)
Reachable ==
  Repeat([X \in SUBSET Ports |-> (X \cup Children(X)) \ {Null}], {root} \ {Null})[MaxPort]

(* rbtree_clear() frees a node only when it has no child left, and neither  *)
(* the node nor the parent it goes back to has been freed before.          *)
FreesLeaves ==
  current # Null =>
    /\ freed[current] = 0
    /\ right[current] = Null => left[current] = Null
    /\ parent[current] # Null => freed[parent[current]] = 0

(* rbtree_clear() ends, and then no entry is left. *)
ClearEnds == (current # Null) ~> (current = Null /\ root = Null)

(* The tree is a set of ports, as module PortSet has it: in whatever shape  *)
(* the rotations leave it, find and add answer for the set, and clear frees *)
(* each of its elements once.                                              *)
Table == INSTANCE PortSet WITH ports <- Reachable

TableIsSet == Table!SetSpec
=============================================================================
