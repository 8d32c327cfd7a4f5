------------------------------ MODULE NodeInfo ------------------------------
(***************************************************************************)
(* The nodes the iterators of a query plan deliver, and how they compare   *)
(* them (query/NodeInfo.cpp): documents, elements and attributes, which    *)
(* are the nodes an index holds.                                           *)
(*                                                                         *)
(* Nodes are numbered in document order through all the documents of all   *)
(* the containers: a document before its root element, an element before   *)
(* its attributes and those before its children.  The comparisons do not   *)
(* see that order.  They see the ids of a node (key, the number of the     *)
(* first node with the same container, document and node id, since an      *)
(* attribute has the id of its owner), its type, and the id of its last    *)
(* descendant.                                                             *)
(***************************************************************************)
EXTENDS Integers, FiniteSets

CONSTANT N  \* the number of nodes

ASSUME NodesAssumption == N \in Nat

Nodes == 1..N
Start == 0    \* where an iterator is before it is first asked
End == N + 1  \* where it is once it has answered that there are no more

Highest(a, b) == IF a < b THEN b ELSE a

\* Where an iterator over the nodes S may move to from p, when f is the
\* highest target it has been given: forwards, past none that counts.
Landings(S, key, p, f) ==
  {q \in S \cup {End} : p < q /\ \A n \in S : p < n /\ f <= key[n] => q <= n}

\* The forest with the given types and parents, parent[n] being 0 for a
\* document: what the program stores of each of its nodes.
Forest(type, parent) ==
  LET above[n \in Nodes] ==
        IF parent[n] = 0 THEN {} ELSE {parent[n]} \cup above[parent[n]]
      owner == [n \in Nodes |-> IF type[n] = "attribute" THEN parent[n] ELSE n]
      family(n) == {m \in Nodes : owner[m] = m /\ n \in above[m] \cup {m}}
  IN  [type   |-> type,
       parent |-> parent,
       above  |-> above,
       doc    |-> [n \in Nodes |->
                     CHOOSE d \in above[n] \cup {n} : parent[d] = 0],
       key    |-> owner,
       level  |-> [n \in Nodes |-> Cardinality(above[owner[n]])],
       last   |-> [n \in Nodes |->
                     CHOOSE m \in family(owner[n]) :
                       \A k \in family(owner[n]) : k <= m]]

\* The order of two nodes by their ids alone.
IsSameNID(tree, a, b) == tree.key[a] - tree.key[b]

\* The document order of two nodes.
Compare(tree, a, b) ==
  LET ids == IsSameNID(tree, a, b)
  IN  IF ids # 0 THEN ids
      ELSE IF tree.type[a] = tree.type[b] THEN a - b
      ELSE IF tree.type[a] = "attribute" THEN 1 ELSE -1

\* 0 if d is below a, negative if it comes too early for that, or is a
\* itself, positive if a and all below it come before d.
IsDescendantOf(tree, d, a, orSelf) ==
  LET self == IF orSelf THEN 0 ELSE -1
      ids == IsSameNID(tree, d, a)
      within == IF tree.key[d] <= tree.last[a] THEN 0 ELSE 1
  IN  IF tree.doc[d] # tree.doc[a] THEN tree.doc[d] - tree.doc[a]
      ELSE IF tree.type[d] = "document"
        THEN IF tree.type[a] = "document" THEN self ELSE -1
      ELSE IF tree.type[a] = "document" THEN 0
      ELSE IF tree.type[a] = "element"
        THEN IF ids < 0 THEN -1
             ELSE IF ids = 0
               THEN IF tree.type[d] = "element" THEN self ELSE 0
             ELSE within
      ELSE IF tree.type[d] = "element" THEN IF ids = 0 THEN -1 ELSE ids
      ELSE IF ids # 0 THEN ids
      ELSE IF d = a THEN self ELSE d - a

\* What every forest of the program satisfies.  What is below a node are the
\* nodes after it as far as the ids of its last descendant.
WellFormed(tree) ==
  LET attribute(n) == tree.type[n] = "attribute"
  IN  /\ tree \in [type   : [Nodes -> {"document", "element", "attribute"}],
                   parent : [Nodes -> 0..N],
                   above  : [Nodes -> SUBSET Nodes],
                   doc    : [Nodes -> Nodes],
                   key    : [Nodes -> Nodes],
                   level  : [Nodes -> 0..N],
                   last   : [Nodes -> Nodes]]
      /\ \A n \in Nodes :
           /\ tree.key[n] = IF attribute(n) THEN tree.parent[n] ELSE n
           /\ tree.above[n] = {a \in Nodes : /\ ~attribute(a) /\ a < n
                                            /\ tree.key[n] <= tree.last[a]}
           /\ IF tree.type[n] = "document"
                THEN tree.parent[n] = 0 /\ tree.doc[n] = n
                ELSE /\ tree.parent[n] \in tree.above[n]
                     /\ tree.doc[n] \in tree.above[n]
                     /\ tree.type[tree.doc[n]] = "document"
                     /\ tree.level[n] = tree.level[tree.parent[n]]
                                         + IF attribute(n) THEN 0 ELSE 1
           /\ attribute(n) => tree.type[tree.parent[n]] = "element"
           /\ \A a \in tree.above[n] :
                /\ a <= tree.parent[n] /\ tree.doc[a] = tree.doc[n]
                /\ tree.last[n] <= tree.last[a]
                /\ ~attribute(n) => tree.level[a] < tree.level[n]
           /\ \A m \in Nodes : m < n => /\ tree.key[m] <= tree.key[n]
                                         /\ tree.doc[m] <= tree.doc[n]
=============================================================================
