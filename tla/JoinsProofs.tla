----------------------------- MODULE JoinsProofs -----------------------------
(***************************************************************************)
(* What holds of the joins for every set of plans, over forests of every   *)
(* size: their types, that no input is used once it has ended, that no     *)
(* call loops for ever, and what the stack and the batches of the child    *)
(* and parent joins hold.                                                  *)
(***************************************************************************)
EXTENDS Joins, SequenceTheorems, TLAPS

LEMMA PlanFacts ==
  ASSUME plan \in Plan
  PROVE  /\ WellFormed(tree) /\ tree.key \in [Nodes -> Nodes]
         /\ kind \in Kinds
         /\ plan.left \subseteq Nodes /\ plan.right \subseteq Nodes
  <1>1. plan.forest \in DOMAIN Forests /\ plan.kind \in Kinds
        /\ plan.left \subseteq Nodes /\ plan.right \subseteq Nodes
    BY DEF Plan
  <1>2. WellFormed(tree)
    BY <1>1, ForestsAssumption DEF tree
  <1> QED
    BY <1>1, <1>2 DEF WellFormed, kind

\* What an input does when it is asked: it moves forwards to a node or to its
\* end, past nothing that counts.
LEMMA MovesFacts ==
  ASSUME plan \in Plan, NEW S, S \subseteq Nodes, NEW c \in Cursor,
         NEW t \in 0..N, NEW d \in Moves(S, c, t)
  PROVE  /\ d \in Cursor /\ d.at \in S \cup {End} /\ c.at < d.at
         /\ c.from <= d.from /\ t <= d.from /\ (d.from = c.from \/ d.from = t)
         /\ \A n \in S : c.at < n /\ c.from <= tree.key[n] /\ t <= tree.key[n]
                         => d.at <= n /\ d.from <= tree.key[n]
  <1>1. tree.key \in [Nodes -> Nodes]
    BY PlanFacts
  <1> DEFINE f == Highest(c.from, t)
  <1>2. c.at \in Start..End /\ c.from \in 0..N
    BY DEF Cursor
  <1>3. f \in 0..N /\ c.from <= f /\ t <= f /\ (f = c.from \/ f = t)
    BY <1>2, NodesAssumption DEF Highest
  <1>4. d \in [at : Landings(S, tree.key, c.at, f), from : {f}]
    BY DEF Moves
  <1>5. d.at \in Landings(S, tree.key, c.at, f) /\ d.from = f
        /\ d = [at |-> d.at, from |-> d.from]
    BY <1>4
  <1>6. d.at \in S \cup {End} /\ c.at < d.at
        /\ \A n \in S : c.at < n /\ f <= tree.key[n] => d.at <= n
    BY <1>5 DEF Landings
  <1>7. d.at \in Start..End
    <2>1. d.at \in Nodes \/ d.at = End
      BY <1>6
    <2> QED
      BY <2>1, NodesAssumption DEF Start, End, Nodes
  <1>8. d \in Cursor
    BY <1>3, <1>5, <1>7 DEF Cursor
  <1> QED
    BY <1>1, <1>2, <1>3, <1>5, <1>6, <1>8

\* The comparison sees the document order.
LEMMA CompareFacts ==
  ASSUME NEW tr, WellFormed(tr), NEW a \in Nodes, NEW b \in Nodes
  PROVE  /\ Compare(tr, a, b) \in Int
         /\ Compare(tr, a, b) < 0 <=> a < b
         /\ Compare(tr, a, b) > 0 <=> b < a
  <1>1. /\ tr.key[a] \in Nodes /\ tr.key[b] \in Nodes
        /\ tr.type[a] = "attribute" => tr.key[a] < a
        /\ tr.type[b] = "attribute" => tr.key[b] < b
        /\ tr.type[a] # "attribute" => tr.key[a] = a
        /\ tr.type[b] # "attribute" => tr.key[b] = b
        /\ a < b => tr.key[a] <= tr.key[b]
        /\ b < a => tr.key[b] <= tr.key[a]
    BY DEF WellFormed
  <1>2. tr.type[a] # tr.type[b] =>
          (tr.type[a] = "attribute" => tr.type[b] # "attribute")
    OBVIOUS
  <1>3. a \in Int /\ b \in Int /\ tr.key[a] \in Int /\ tr.key[b] \in Int
    BY <1>1, NodesAssumption DEF Nodes
  <1>4. CASE tr.key[a] # tr.key[b]
    <2>1. Compare(tr, a, b) = tr.key[a] - tr.key[b]
      BY <1>3, <1>4 DEF Compare, IsSameNID
    <2> QED
      BY <2>1, <1>1, <1>3, <1>4
  <1>5. CASE tr.key[a] = tr.key[b] /\ tr.type[a] = tr.type[b]
    <2>1. Compare(tr, a, b) = a - b
      BY <1>3, <1>5 DEF Compare, IsSameNID
    <2> QED
      BY <2>1, <1>3
  <1>6. CASE tr.key[a] = tr.key[b] /\ tr.type[a] # tr.type[b]
    <2>1. Compare(tr, a, b) = IF tr.type[a] = "attribute" THEN 1 ELSE -1
      BY <1>3, <1>6 DEF Compare, IsSameNID
    <2> QED
      BY <2>1, <1>1, <1>2, <1>3, <1>6
  <1> QED
    BY <1>4, <1>5, <1>6
-----------------------------------------------------------------------------
(* What is above and below a node.                                         *)

\* One node, and one node above another.
LEMMA NodeFacts ==
  ASSUME NEW tr, WellFormed(tr), NEW n \in Nodes
  PROVE  /\ n \in Int /\ tr.key[n] \in Nodes /\ tr.key[n] <= n /\ tr.key[n] \in Int
         /\ tr.doc[n] \in Nodes /\ tr.doc[n] \in Int /\ tr.doc[n] <= n
         /\ tr.last[n] \in Nodes /\ tr.last[n] \in Int /\ tr.level[n] \in Int
         /\ tr.type[n] # "attribute" => tr.key[n] = n
         /\ tr.type[n] = "attribute" => tr.key[n] < n /\ tr.key[n] = tr.parent[n]
         /\ tr.type[n] \in {"document", "element", "attribute"}
  <1>1. /\ tr.key[n] \in Nodes /\ tr.doc[n] \in Nodes /\ tr.last[n] \in Nodes
        /\ tr.level[n] \in 0..N /\ tr.type[n] \in {"document", "element", "attribute"}
    BY DEF WellFormed
  <1>2. /\ tr.key[n] = IF tr.type[n] = "attribute" THEN tr.parent[n] ELSE n
        /\ tr.above[n] \subseteq {a \in Nodes : a < n}
        /\ tr.type[n] = "attribute" => tr.parent[n] \in tr.above[n]
        /\ tr.doc[n] = n \/ tr.doc[n] \in tr.above[n]
    BY DEF WellFormed
  <1>3. tr.doc[n] = n \/ tr.doc[n] < n
    BY <1>2
  <1>4. tr.type[n] = "attribute" => tr.parent[n] < n
    BY <1>2
  <1> QED
    BY <1>1, <1>2, <1>3, <1>4, NodesAssumption DEF Nodes

LEMMA AboveFacts ==
  ASSUME NEW tr, WellFormed(tr), NEW d \in Nodes
  PROVE  /\ \A a \in Nodes : a \in tr.above[d] <=>
              tr.type[a] # "attribute" /\ a < d /\ tr.key[d] <= tr.last[a]
         /\ tr.above[d] \subseteq Nodes
         /\ \A a \in tr.above[d] :
              a <= tr.parent[d] /\ tr.doc[a] = tr.doc[d] /\ tr.last[d] <= tr.last[a]
  BY DEF WellFormed

LEMMA OrderFacts ==
  ASSUME NEW tr, WellFormed(tr), NEW m \in Nodes, NEW n \in Nodes
  PROVE  /\ m <= n => tr.key[m] <= tr.key[n] /\ tr.doc[m] <= tr.doc[n]
         /\ tr.key[m] < tr.key[n] => m < n
         /\ tr.doc[m] < tr.doc[n] => m < n
  <1>1. /\ m < n => tr.key[m] <= tr.key[n] /\ tr.doc[m] <= tr.doc[n]
        /\ n < m => tr.key[n] <= tr.key[m] /\ tr.doc[n] <= tr.doc[m]
    BY DEF WellFormed
  <1> QED
    BY <1>1, NodeFacts

\* The nodes above a node are above each other, and what lies between a node
\* and one below it is below it too.
LEMMA Nesting ==
  ASSUME NEW tr, WellFormed(tr), NEW d \in Nodes, NEW a \in tr.above[d]
  PROVE  /\ a \in Nodes /\ a < d /\ tr.key[a] = a
         /\ \A b \in tr.above[a] : b \in tr.above[d]
         /\ \A x \in Nodes : a < x /\ x <= d => a \in tr.above[x]
  <1>1. a \in Nodes /\ tr.type[a] # "attribute" /\ a < d /\ tr.key[d] <= tr.last[a]
    BY AboveFacts
  <1>2. ASSUME NEW b \in tr.above[a] PROVE b \in tr.above[d]
    <2>1. b \in Nodes /\ tr.type[b] # "attribute" /\ b < a /\ tr.last[a] <= tr.last[b]
      BY <1>1, <1>2, AboveFacts
    <2>2. b < d /\ tr.key[d] <= tr.last[b]
      BY <1>1, <2>1, NodeFacts
    <2> QED
      BY <2>1, <2>2, AboveFacts
  <1>3. ASSUME NEW x \in Nodes, a < x, x <= d PROVE a \in tr.above[x]
    <2>1. tr.key[x] <= tr.key[d]
      BY <1>3, OrderFacts
    <2>2. tr.key[x] <= tr.last[a]
      BY <1>1, <2>1, NodeFacts
    <2> QED
      BY <1>1, <1>3, <2>2, AboveFacts
  <1> QED
    BY <1>1, <1>2, <1>3, NodeFacts

\* The parent of a node is the one above it that is next in level, which an
\* attribute shares with its owner.
LEMMA ParentFacts ==
  ASSUME NEW tr, WellFormed(tr), NEW d \in Nodes, NEW a \in tr.above[d]
  PROVE  /\ tr.type[d] # "attribute" => tr.level[a] < tr.level[d]
         /\ tr.type[d] # "attribute" /\ tr.level[a] = tr.level[d] - 1 => a = tr.parent[d]
         /\ tr.type[d] = "attribute" /\ tr.level[a] = tr.level[d] => a = tr.parent[d]
         /\ tr.type[d] = "attribute" /\ tr.level[a] = tr.level[d] - 1
              => a = tr.parent[tr.parent[d]]
  <1> DEFINE p == tr.parent[d]
  <1>1. /\ p \in tr.above[d] /\ a <= p /\ p \in Nodes /\ a \in Nodes /\ p < d
        /\ tr.level[d] = tr.level[p] + IF tr.type[d] = "attribute" THEN 0 ELSE 1
        /\ tr.type[p] # "attribute"
        /\ tr.type[d] # "attribute" => tr.level[a] < tr.level[d]
    <2>1. a \in Nodes /\ a < d
      BY Nesting
    <2>2. tr.type[d] # "document"
      <3>1. tr.type[d] = "document" => tr.doc[d] = d
        BY DEF WellFormed
      <3>2. tr.doc[a] = tr.doc[d] /\ tr.doc[a] <= a /\ a \in Int /\ d \in Int
        BY <2>1, AboveFacts, NodeFacts
      <3> QED
        BY <2>1, <3>1, <3>2
    <2> HIDE DEF p
    <2>3. /\ p \in tr.above[d]
          /\ tr.level[d] = tr.level[p] + IF tr.type[d] = "attribute" THEN 0 ELSE 1
          /\ tr.type[d] # "attribute" => tr.level[a] < tr.level[d]
      BY <2>2 DEF WellFormed, p
    <2> QED
      BY <2>1, <2>3, AboveFacts DEF p
  <1> HIDE DEF p
  <1>2. a # p => a \in tr.above[p] /\ tr.level[a] < tr.level[p]
    <2>1. ASSUME a # p PROVE a \in tr.above[p]
      <3>1. a < p
        BY <1>1, <2>1, NodeFacts
      <3> QED
        BY <1>1, <3>1, Nesting, NodeFacts
    <2>2. ASSUME a \in tr.above[p] PROVE tr.level[a] < tr.level[p]
      BY <1>1, <2>2 DEF WellFormed
    <2> QED
      BY <2>1, <2>2
  <1>3. tr.level[a] \in Int /\ tr.level[p] \in Int /\ tr.level[d] \in Int
    BY <1>1, NodeFacts
  <1>4. CASE tr.type[d] # "attribute"
    BY <1>1, <1>2, <1>3, <1>4 DEF p
  <1>5. CASE tr.type[d] = "attribute"
    <2>1. tr.level[a] = tr.level[d] => a = p
      BY <1>1, <1>2, <1>3, <1>5
    <2>2. ASSUME tr.level[a] = tr.level[d] - 1 PROVE a = tr.parent[p]
      <3>1. a \in tr.above[p] /\ tr.level[a] = tr.level[p] - 1
        BY <1>1, <1>2, <1>3, <1>5, <2>2
      <3>2. tr.type[p] # "document" /\ tr.parent[p] \in tr.above[p]
            /\ tr.level[p] = tr.level[tr.parent[p]] + 1
        BY <1>1, <1>5 DEF WellFormed, p
      <3>3. a <= tr.parent[p] /\ tr.parent[p] \in Nodes
        BY <1>1, <3>1, <3>2, AboveFacts
      <3>4. a # tr.parent[p] => a \in tr.above[tr.parent[p]]
        <4>1. a # tr.parent[p] => a < tr.parent[p]
          BY <1>1, <3>3, NodesAssumption DEF Nodes
        <4>2. tr.parent[p] <= p
          BY <1>1, <3>2, Nesting, NodeFacts
        <4> QED
          BY <1>1, <3>1, <3>3, <4>1, <4>2, Nesting
      <3>5. a \in tr.above[tr.parent[p]] => tr.level[a] < tr.level[tr.parent[p]]
        <4>1. tr.type[tr.parent[p]] # "attribute"
          BY <1>1, <3>2, AboveFacts
        <4> QED
          BY <3>3, <4>1 DEF WellFormed
      <3> QED
        BY <1>3, <3>1, <3>2, <3>3, <3>4, <3>5, NodeFacts
    <2> QED
      BY <1>5, <2>1, <2>2 DEF p
  <1> QED
    BY <1>4, <1>5

\* IsDescendantOf tells which of two nodes is above the other, or comes first.
LEMMA DescendantFacts ==
  ASSUME NEW tr, WellFormed(tr), NEW d \in Nodes, NEW a \in Nodes,
         NEW orSelf \in BOOLEAN
  PROVE  LET cmp == IsDescendantOf(tr, d, a, orSelf)
         IN  /\ cmp \in Int
             /\ cmp = 0 <=> a \in tr.above[d] \/ (orSelf /\ a = d)
             /\ cmp < 0 => d < a \/ (~orSelf /\ d = a)
             /\ cmp > 0 => a < d /\ a \notin tr.above[d]
  <1> DEFINE cmp == IsDescendantOf(tr, d, a, orSelf)
             self == IF orSelf THEN 0 ELSE -1
             ids == tr.key[d] - tr.key[a]
  <1>1. /\ \A n \in {a, d} :
             /\ n \in Int /\ tr.key[n] \in Int /\ tr.key[n] <= n
             /\ tr.doc[n] \in Int /\ tr.doc[n] <= n /\ tr.last[n] \in Int
             /\ tr.type[n] # "attribute" => tr.key[n] = n
             /\ tr.type[n] = "attribute" => tr.key[n] < n /\ tr.key[n] = tr.parent[n]
             /\ tr.type[n] \in {"document", "element", "attribute"}
    BY NodeFacts
  <1>2. /\ a \in tr.above[d] <=>
              tr.type[a] # "attribute" /\ a < d /\ tr.key[d] <= tr.last[a]
        /\ a \in tr.above[d] => tr.doc[a] = tr.doc[d]
    BY AboveFacts
  <1>3. /\ tr.key[a] < tr.key[d] => a < d
        /\ tr.key[d] < tr.key[a] => d < a
        /\ tr.doc[a] < tr.doc[d] => a < d
        /\ tr.doc[d] < tr.doc[a] => d < a
    BY OrderFacts
  <1>4. CASE tr.doc[d] # tr.doc[a]
    <2>1. cmp = tr.doc[d] - tr.doc[a]
      BY <1>4 DEF IsDescendantOf
    <2> QED
      BY <1>1, <1>2, <1>3, <1>4, <2>1
  <1>5. CASE tr.doc[d] = tr.doc[a] /\ tr.type[d] = "document"
    <2>1. cmp = IF tr.type[a] = "document" THEN self ELSE -1
      BY <1>5 DEF IsDescendantOf
    <2>2. tr.doc[d] = d /\ (tr.type[a] = "document" => tr.doc[a] = a)
      BY <1>5 DEF WellFormed
    <2>3. CASE tr.type[a] = "document"
      BY <1>1, <1>2, <1>5, <2>1, <2>2, <2>3
    <2>4. CASE tr.type[a] # "document"
      <3>1. d <= a /\ d # a /\ cmp = -1
        BY <1>1, <1>5, <2>1, <2>2, <2>4
      <3> QED
        BY <1>1, <1>2, <3>1
    <2> QED
      BY <2>3, <2>4
  <1>6. CASE tr.doc[d] = tr.doc[a] /\ tr.type[d] # "document" /\ tr.type[a] = "document"
    <2>1. cmp = 0
      BY <1>6 DEF IsDescendantOf
    <2>2. tr.doc[a] = a /\ tr.doc[d] \in tr.above[d]
      BY <1>6 DEF WellFormed
    <2> QED
      BY <1>6, <2>1, <2>2
  <1>7. CASE tr.doc[d] = tr.doc[a] /\ tr.type[d] # "document" /\ tr.type[a] = "element"
    <2>1. cmp = IF ids < 0 THEN -1
                ELSE IF ids = 0 THEN IF tr.type[d] = "element" THEN self ELSE 0
                ELSE IF tr.key[d] <= tr.last[a] THEN 0 ELSE 1
      BY <1>7 DEF IsDescendantOf, IsSameNID
    <2>2. tr.type[d] = "attribute" => tr.parent[d] \in tr.above[d]
      BY DEF WellFormed
    <2> QED
      BY <1>1, <1>2, <1>3, <1>7, <2>1, <2>2
  <1>8. CASE tr.doc[d] = tr.doc[a] /\ tr.type[d] # "document" /\ tr.type[a] = "attribute"
    <2>1. cmp = IF tr.type[d] = "element" THEN IF ids = 0 THEN -1 ELSE ids
                ELSE IF ids # 0 THEN ids ELSE IF d = a THEN self ELSE d - a
      BY <1>8 DEF IsDescendantOf, IsSameNID
    <2> QED
      BY <1>1, <1>2, <1>3, <1>8, <2>1
  <1> HIDE DEF cmp, self, ids
  <1> QED
    BY <1>1, <1>4, <1>5, <1>6, <1>7, <1>8 DEF cmp

-----------------------------------------------------------------------------
(* The moves a call or a turn makes.                                       *)

LEMMA KeyTarget ==
  ASSUME plan \in Plan, NEW n \in Nodes
  PROVE  /\ tree.key[n] \in 0..N /\ tree.doc[n] \in 0..N /\ tree.last[n] \in 0..N
         /\ n # Start /\ n # End /\ n \in Start..End
  <1>1. /\ tree.key \in [Nodes -> Nodes] /\ tree.doc \in [Nodes -> Nodes]
        /\ tree.last \in [Nodes -> Nodes]
    BY PlanFacts DEF WellFormed
  <1>2. tree.key[n] \in Nodes /\ tree.doc[n] \in Nodes /\ tree.last[n] \in Nodes
    BY <1>1
  <1> QED
    BY <1>2, NodesAssumption DEF Nodes, Start, End

LEMMA EndFacts == Start # End /\ Start \notin Nodes /\ End \notin Nodes
                  /\ Start \in Start..End /\ End \in Start..End
  BY NodesAssumption DEF Start, End, Nodes

LEMMA LeftMoves ==
  ASSUME TypeOK, NEW t \in 0..N, MoveLeft(t)
  PROVE  /\ left' \in Cursor /\ left'.at \in plan.left \cup {End}
         /\ left.at < left'.at /\ right' = right
         /\ IF left'.at = End THEN Fail ELSE Again
  BY MovesFacts, PlanFacts DEF TypeOK, MoveLeft, FailIf

LEMMA RightMoves ==
  ASSUME TypeOK, NEW t \in 0..N, MoveRight(t)
  PROVE  /\ right' \in Cursor /\ right'.at \in plan.right \cup {End}
         /\ right.at < right'.at /\ left' = left
         /\ IF right'.at = End THEN Fail ELSE Again
  BY MovesFacts, PlanFacts DEF TypeOK, MoveRight, FailIf

LEMMA BothMove ==
  ASSUME TypeOK, NEW t \in 0..N, MoveBoth(t)
  PROVE  /\ left' \in Cursor /\ left'.at \in plan.left \cup {End}
         /\ left.at < left'.at /\ right' \in Cursor
         /\ \/ right' = right /\ Fail
            \/ right'.at = End /\ Fail
            \/ left'.at \in plan.left /\ right'.at \in plan.right /\ Again
  <1>1. left' \in Moves(plan.left, left, t)
    BY DEF MoveBoth
  <1>2. left' \in Cursor /\ left'.at \in plan.left \cup {End} /\ left.at < left'.at
    BY <1>1, MovesFacts, PlanFacts DEF TypeOK
  <1>3. CASE left'.at = End
    BY <1>2, <1>3 DEF MoveBoth, TypeOK
  <1>4. CASE left'.at # End
    <2>1. left'.at \in plan.left /\ left'.at \in Nodes
      BY <1>2, <1>4, PlanFacts DEF TypeOK
    <2>2. right' \in Moves(plan.right, right, tree.key[left'.at])
          /\ FailIf(right'.at = End)
      BY <1>4 DEF MoveBoth
    <2>3. tree.key[left'.at] \in 0..N
      BY <2>1, KeyTarget DEF TypeOK
    <2>4. right' \in Cursor /\ right'.at \in plan.right \cup {End}
      BY <2>2, <2>3, MovesFacts, PlanFacts DEF TypeOK
    <2> QED
      BY <1>2, <2>1, <2>2, <2>4 DEF FailIf
  <1> QED
    BY <1>3, <1>4

-----------------------------------------------------------------------------
(* The invariant: types, usable inputs, and what a join that was never     *)
(* asked is like.                                                          *)

Fresh == pc = "ready" /\ sides = {"left", "right"}

Inv == TypeOK /\ InputsUsable /\ (~begun => Fresh)

\* The part of the types that an action has to establish.
Typed ==
  /\ left \in Cursor /\ right \in Cursor
  /\ stack \in Seq(Nodes) /\ results \in Seq(Nodes)
  /\ pc \in {"ready", "join", "done"}
  /\ furthest \in Start..End

LEMMA Outcomes ==
  ASSUME TypeOK
  PROVE  /\ Again => pc' = "join" /\ furthest' \in Start..End
         /\ Fail => pc' = "done" /\ furthest' \in Start..End
         /\ \A n \in Nodes : Yield(n) =>
              /\ pc' = "ready" /\ furthest' \in Start..End
  <1>1. furthest \in Start..End
    BY DEF TypeOK
  <1>2. \A n \in Nodes : n \in Start..End
    BY KeyTarget DEF TypeOK
  <1>3. \A n \in Nodes : Highest(furthest, n) \in Start..End
    BY <1>1, <1>2 DEF Highest
  <1> QED
    BY <1>1, <1>3, EndFacts DEF Again, Fail, Yield

\* A join that finds its answers where both inputs are, or by their order.
LEMMA PlainCall ==
  ASSUME Inv, pc = "ready", NEW t \in 0..N, UNCHANGED <<plan, sides>>, begun' = TRUE,
         IntersectCall(t) \/ AncestorCall(t) \/ AttributeCall(t)
  PROVE  Typed' /\ InputsUsable'
  <1> USE DEF Inv
  <1>1. UNCHANGED buffers /\ kind' = kind
        /\ kind \notin {"union"} \cup ToChildren \cup ToParents
    BY DEF IntersectCall, AncestorCall, AttributeCall, kind, ToChildren, ToParents
  <1>2. MoveBoth(t) \/ (begun /\ (MoveLeft(t) \/ MoveRight(t)))
    BY DEF IntersectCall, AncestorCall, AttributeCall
  <1>3. Typed'
    BY <1>1, <1>2, BothMove, LeftMoves, RightMoves, Outcomes
       DEF TypeOK, Typed, buffers, Again, Fail
  <1>4. CASE MoveBoth(t)
    BY <1>1, <1>3, <1>4, BothMove DEF InputsUsable, Fail
  <1>5. CASE begun /\ MoveLeft(t)
    BY <1>1, <1>3, <1>5, LeftMoves DEF InputsUsable, Fail, Again, TypeOK
  <1>6. CASE begun /\ MoveRight(t)
    BY <1>1, <1>3, <1>6, RightMoves DEF InputsUsable, Fail, Again, TypeOK
  <1> QED
    BY <1>2, <1>3, <1>4, <1>5, <1>6

LEMMA ExceptCallKeeps ==
  ASSUME Inv, pc = "ready", NEW t \in 0..N, UNCHANGED <<plan, sides>>, begun' = TRUE,
         ExceptCall(t)
  PROVE  Typed' /\ InputsUsable'
  <1> USE DEF Inv
  <1>1. UNCHANGED buffers /\ kind' = kind /\ kind = "except"
    BY DEF ExceptCall, kind
  <1>2. left' \in Cursor /\ left'.at \in plan.left \cup {End} /\ left.at < left'.at
    BY MovesFacts, PlanFacts DEF TypeOK, ExceptCall
  <1>3. /\ right' \in Cursor
        /\ left'.at # End => (right' = right /\ begun) \/ right'.at \in plan.right \cup {End}
    <2>1. CASE left'.at = End \/ begun
      BY <2>1 DEF ExceptCall, TypeOK
    <2>2. CASE left'.at # End /\ ~begun
      <3>1. right' \in Moves(plan.right, right, tree.key[left'.at])
        BY <2>2 DEF ExceptCall
      <3>2. tree.key[left'.at] \in 0..N
        BY <1>2, <2>2, PlanFacts, KeyTarget DEF TypeOK
      <3> QED
        BY <3>1, <3>2, MovesFacts, PlanFacts DEF TypeOK
    <2> QED
      BY <2>1, <2>2
  <1>4. IF left'.at = End THEN Fail ELSE Again
    BY DEF ExceptCall, FailIf
  <1>5. Typed'
    BY <1>1, <1>2, <1>3, <1>4, Outcomes DEF TypeOK, Typed, buffers
  <1> QED
    BY <1>1, <1>2, <1>3, <1>4, <1>5 DEF InputsUsable, Fail, Again, ToChildren, ToParents

LEMMA UnionCallKeeps ==
  ASSUME Inv, pc = "ready", NEW t \in 0..N, UNCHANGED <<plan, sides>>, begun' = TRUE,
         UnionCall(t)
  PROVE  Typed' /\ InputsUsable'
  <1> USE DEF Inv
  <1>1. UNCHANGED buffers /\ kind' = kind /\ kind = "union" /\ Again
    BY DEF UnionCall, kind
  <1>2. left' \in Cursor /\ left'.at \in plan.left \cup {End}
    <2>1. CASE left' \in Moves(plan.left, left, t)
      BY <2>1, MovesFacts, PlanFacts DEF TypeOK
    <2>2. CASE left' = left /\ "left" \notin sides
      BY <1>1, <2>2 DEF TypeOK, InputsUsable, Fresh
    <2> QED
      BY <2>1, <2>2 DEF UnionCall
  <1>3. right' \in Cursor /\ right'.at \in plan.right \cup {End}
    <2>1. CASE right' \in Moves(plan.right, right, t)
      BY <2>1, MovesFacts, PlanFacts DEF TypeOK
    <2>2. CASE right' = right /\ "right" \notin sides
      BY <1>1, <2>2 DEF TypeOK, InputsUsable, Fresh, ToParents
    <2> QED
      BY <2>1, <2>2 DEF UnionCall
  <1>4. Typed'
    BY <1>1, <1>2, <1>3, Outcomes DEF TypeOK, Typed, buffers
  <1> QED
    BY <1>1, <1>2, <1>3, <1>4 DEF InputsUsable, Again

LEMMA DescendantCallKeeps ==
  ASSUME Inv, pc = "ready", NEW t \in 0..N, UNCHANGED <<plan, sides>>, begun' = TRUE,
         DescendantCall(t)
  PROVE  Typed' /\ InputsUsable'
  <1> USE DEF Inv
  <1>1. UNCHANGED buffers /\ kind' = kind /\ kind \notin {"union", "except"} \cup ToParents
    BY DEF DescendantCall, kind, ToChildren, ToParents
  <1>2. CASE begun
    <2>1. MoveRight(t)
      BY <1>2 DEF DescendantCall
    <2>2. Typed'
      BY <1>1, <2>1, RightMoves, Outcomes DEF TypeOK, Typed, buffers
    <2> QED
      BY <1>1, <1>2, <2>1, <2>2, RightMoves DEF InputsUsable, Fail, Again, TypeOK
  <1>3. CASE ~begun /\ t = 0
    <2>1. MoveBoth(t)
      BY <1>3 DEF DescendantCall
    <2>2. Typed'
      BY <1>1, <2>1, BothMove, Outcomes DEF TypeOK, Typed, buffers
    <2> QED
      BY <1>1, <2>1, <2>2, BothMove DEF InputsUsable, Fail, Again, TypeOK
  <1>4. CASE ~begun /\ t # 0
    <2>1. /\ right' \in Moves(plan.right, right, t)
          /\ left' \in IF right'.at = End THEN {left} ELSE Moves(plan.left, left, 0)
          /\ FailIf(End \in {left'.at, right'.at})
      BY <1>4 DEF DescendantCall
    <2>2. right' \in Cursor /\ right'.at \in plan.right \cup {End}
      BY <2>1, MovesFacts, PlanFacts DEF TypeOK
    <2>3. left' \in Cursor /\ (left' = left \/ left'.at \in plan.left \cup {End})
      BY <2>1, MovesFacts, PlanFacts, NodesAssumption DEF TypeOK
    <2>4. IF End \in {left'.at, right'.at} THEN Fail ELSE Again
      BY <2>1 DEF FailIf
    <2>5. Typed'
      BY <1>1, <2>2, <2>3, <2>4, Outcomes DEF TypeOK, Typed, buffers
    <2>6. right'.at # End => left'.at \in plan.left \cup {End}
      BY <2>1, MovesFacts, PlanFacts, NodesAssumption DEF TypeOK
    <2> QED
      BY <1>1, <2>2, <2>4, <2>5, <2>6 DEF InputsUsable, Fail, Again
  <1> QED
    BY <1>2, <1>3, <1>4

\* The rest of a sequence of nodes is one.
LEMMA RestOf ==
  ASSUME NEW s \in Seq(Nodes), NEW i \in Nat, NEW j \in 0..Len(s)
  PROVE  SubSeq(s, i + 1, j) \in Seq(Nodes)
  <1>1. \A k \in (i + 1)..j : s[k] \in Nodes
    BY ElementOfSeq
  <1> QED
    BY <1>1, SubSeqProperties

LEMMA ParentCallKeeps ==
  ASSUME Inv, pc = "ready", NEW t \in 0..N, UNCHANGED <<plan, sides>>, begun' = TRUE,
         ParentCall(t)
  PROVE  Typed' /\ InputsUsable'
  <1> USE DEF Inv
  <1> DEFINE good == {i \in DOMAIN results : t <= tree.key[results[i]]}
  <1>1. kind' = kind /\ kind \in ToParents /\ UNCHANGED stack
    BY DEF ParentCall, kind
  <1>2. CASE ~begun /\ MoveBoth(t) /\ UNCHANGED results
    <2>1. Typed'
      BY <1>1, <1>2, BothMove, Outcomes DEF TypeOK, Typed
    <2> QED
      BY <1>1, <1>2, <2>1, BothMove DEF InputsUsable, Fail, Again, TypeOK, ToParents
  <1>3. CASE /\ begun
             /\ \E i \in good : /\ Yield(results[i])
                                /\ results' = SubSeq(results, i + 1, Len(results))
             /\ UNCHANGED inputs
    <2>1. PICK i \in DOMAIN results :
            Yield(results[i]) /\ results' = SubSeq(results, i + 1, Len(results))
      BY <1>3
    <2>2. results \in Seq(Nodes) /\ i \in 1..Len(results) /\ results[i] \in Nodes
      BY ElementOfSeq, LenProperties DEF TypeOK
    <2>3. results' \in Seq(Nodes)
      BY <2>1, <2>2, RestOf
    <2>4. Typed'
      BY <1>1, <1>3, <2>1, <2>2, <2>3, Outcomes DEF TypeOK, Typed, inputs
    <2> QED
      BY <1>1, <1>3, <2>1, <2>4 DEF InputsUsable, inputs, Yield, ToParents
  <1>4. CASE /\ begun /\ results' = <<>>
             /\ IF left.at = End THEN Fail /\ UNCHANGED inputs
                ELSE IF tree.key[left.at] < t THEN MoveLeft(t)
                ELSE Again /\ UNCHANGED inputs
    <2>1. results' \in Seq(Nodes)
      BY <1>4
    <2>2. CASE left.at = End
      BY <1>1, <1>4, <2>1, <2>2, Outcomes DEF TypeOK, Typed, InputsUsable, inputs, Fail
    <2>3. CASE left.at # End /\ MoveLeft(t)
      <3>1. Typed'
        BY <1>1, <2>1, <2>3, LeftMoves, Outcomes DEF TypeOK, Typed
      <3> QED
        BY <1>1, <1>4, <2>3, <3>1, LeftMoves
           DEF TypeOK, InputsUsable, Fail, Again, ToParents
    <2>4. CASE left.at # End /\ Again /\ UNCHANGED inputs
      <3>1. Typed'
        BY <1>1, <2>1, <2>4, Outcomes DEF TypeOK, Typed, inputs
      <3> QED
        BY <1>1, <1>4, <2>4, <3>1 DEF InputsUsable, inputs, Again, ToParents
    <2> QED
      BY <1>4, <2>2, <2>3, <2>4
  <1> QED
    BY <1>2, <1>3, <1>4 DEF ParentCall
-----------------------------------------------------------------------------
(* The turns of the loop.                                                  *)

\* A turn that goes on has moved an input forwards.
Moved ==
  pc' = "join" =>
    /\ left.at <= left'.at /\ right.at <= right'.at
    /\ left.at # left'.at \/ right.at # right'.at

LEMMA CursorPlace ==
  ASSUME TypeOK
  PROVE  left.at \in Int /\ right.at \in Int
  BY NodesAssumption DEF TypeOK, Cursor, Start, End

\* The turns that leave the buffers alone and move one input or yield a node.
LEMMA SimpleTurn ==
  ASSUME Inv, pc = "join", UNCHANGED <<plan, begun, sides, buffers>>,
         kind \notin {"union", "except"} \cup ToChildren \cup ToParents,
         \/ \E t \in 0..N : MoveLeft(t) \/ MoveRight(t)
         \/ \E n \in Nodes : Yield(n) /\ UNCHANGED inputs
  PROVE  Typed' /\ InputsUsable' /\ Moved
  <1> USE DEF Inv
  <1>1. kind' = kind /\ begun
    BY DEF kind, Fresh
  <1>2. ASSUME NEW t \in 0..N, MoveLeft(t) PROVE Typed' /\ InputsUsable' /\ Moved
    <2>1. Typed'
      BY <1>2, LeftMoves, Outcomes DEF TypeOK, Typed, buffers
    <2>2. Moved
      BY <1>2, LeftMoves, CursorPlace DEF Moved, Cursor
    <2> QED
      BY <1>1, <1>2, <2>1, <2>2, LeftMoves DEF InputsUsable, Fail, Again
  <1>3. ASSUME NEW t \in 0..N, MoveRight(t) PROVE Typed' /\ InputsUsable' /\ Moved
    <2>1. Typed'
      BY <1>3, RightMoves, Outcomes DEF TypeOK, Typed, buffers
    <2>2. Moved
      BY <1>3, RightMoves, CursorPlace DEF Moved, Cursor
    <2> QED
      BY <1>1, <1>3, <2>1, <2>2, RightMoves DEF InputsUsable, Fail, Again
  <1>4. ASSUME NEW n \in Nodes, Yield(n), UNCHANGED inputs
        PROVE  Typed' /\ InputsUsable' /\ Moved
    <2>1. Typed'
      BY <1>4, Outcomes DEF TypeOK, Typed, buffers, inputs
    <2> QED
      BY <1>1, <1>4, <2>1 DEF InputsUsable, Yield, Moved, inputs
  <1> QED
    BY <1>2, <1>3, <1>4

\* The places the simple turns send an input to.
LEMMA Targets ==
  ASSUME Inv, NEW l \in Nodes, NEW r \in Nodes, left.at = l, right.at = r
  PROVE  /\ LeftToRight => \E t \in 0..N : MoveLeft(t)
         /\ RightToLeft => \E t \in 0..N : MoveRight(t)
         /\ PassAncestor => \E t \in 0..N : MoveLeft(t)
         /\ MoveLeft(0) => \E t \in 0..N : MoveLeft(t)
         /\ MoveRight(0) => \E t \in 0..N : MoveRight(t)
  <1>1. 0 \in 0..N
    BY NodesAssumption
  <1>2. tree.key[l] \in 0..N /\ tree.key[r] \in 0..N
    BY KeyTarget DEF Inv, TypeOK
  <1>3. PassTarget \in 0..N
    BY KeyTarget DEF Inv, TypeOK, PassTarget
  <1> QED
    BY <1>1, <1>2, <1>3 DEF LeftToRight, RightToLeft, PassAncestor

LEMMA IntersectTurn ==
  ASSUME Inv, pc = "join", UNCHANGED <<plan, begun>>,
         IntersectJoin \/ LinealJoin \/ AttributeJoin \/ ParentOfAttributeJoin
  PROVE  Typed' /\ InputsUsable' /\ Moved
  <1>1. kind \notin {"union", "except"} \cup ToChildren \cup ToParents
    BY DEF IntersectJoin, LinealJoin, AttributeJoin, ParentOfAttributeJoin,
           Lineal, ToChildren, ToParents
  <1>2. left.at \in plan.left /\ right.at \in plan.right
    BY <1>1 DEF Inv, InputsUsable, Fresh
  <1>3. left.at \in Nodes /\ right.at \in Nodes
    BY <1>2, PlanFacts DEF Inv, TypeOK
  <1>4. UNCHANGED <<sides, buffers>>
    BY DEF IntersectJoin, LinealJoin, AttributeJoin, ParentOfAttributeJoin, MeetAtElement
  <1>5. \/ LeftToRight \/ RightToLeft \/ PassAncestor \/ MoveLeft(0) \/ MoveRight(0)
        \/ \E n \in Nodes : Yield(n) /\ UNCHANGED inputs
    BY <1>3 DEF IntersectJoin, LinealJoin, AttributeJoin, ParentOfAttributeJoin, MeetAtElement
  <1>6. \/ \E t \in 0..N : MoveLeft(t) \/ MoveRight(t)
        \/ \E n \in Nodes : Yield(n) /\ UNCHANGED inputs
    BY <1>3, <1>5, Targets
  <1> QED
    BY <1>1, <1>4, <1>6, SimpleTurn

LEMMA ExceptTurn ==
  ASSUME Inv, pc = "join", UNCHANGED <<plan, begun>>, ExceptJoin
  PROVE  Typed' /\ InputsUsable' /\ Moved
  <1> USE DEF Inv
  <1>1. kind = "except" /\ kind' = kind /\ begun /\ UNCHANGED <<sides, buffers>>
    BY DEF ExceptJoin, Fresh, kind
  <1>2. left.at \in plan.left /\ right.at \in plan.right \cup {End}
    BY <1>1 DEF InputsUsable, ToChildren, ToParents
  <1>3. left.at \in Nodes /\ tree.key[left.at] \in 0..N /\ 0 \in 0..N
    BY <1>2, PlanFacts, KeyTarget, NodesAssumption DEF TypeOK
  <1>4. CASE Yield(left.at) /\ UNCHANGED inputs
    <2>1. Typed'
      BY <1>1, <1>3, <1>4, Outcomes DEF TypeOK, Typed, buffers, inputs
    <2> QED
      BY <1>1, <1>4, <2>1 DEF InputsUsable, Yield, Moved, inputs
  <1>5. CASE right' \in Moves(plan.right, right, tree.key[left.at]) /\ Again /\ UNCHANGED left
    <2>1. right' \in Cursor /\ right'.at \in plan.right \cup {End} /\ right.at < right'.at
      BY <1>3, <1>5, MovesFacts, PlanFacts DEF TypeOK
    <2>2. Typed'
      BY <1>1, <1>5, <2>1, Outcomes DEF TypeOK, Typed, buffers
    <2>3. Moved
      BY <1>5, <2>1, CursorPlace DEF Moved, Cursor
    <2> QED
      BY <1>1, <1>2, <1>5, <2>1, <2>2, <2>3 DEF InputsUsable, Again
  <1>6. CASE MoveLeft(0)
    <2>1. Typed'
      BY <1>1, <1>3, <1>6, LeftMoves, Outcomes DEF TypeOK, Typed, buffers
    <2>2. Moved
      BY <1>3, <1>6, LeftMoves, CursorPlace DEF Moved, Cursor
    <2> QED
      BY <1>1, <1>2, <1>3, <1>6, <2>1, <2>2, LeftMoves DEF InputsUsable, Fail, Again
  <1> QED
    BY <1>4, <1>5, <1>6 DEF ExceptJoin

LEMMA UnionTurn ==
  ASSUME Inv, pc = "join", UNCHANGED <<plan, begun>>, UnionJoin
  PROVE  Typed' /\ InputsUsable' /\ Moved /\ sides' \subseteq {"left", "right"}
  <1> USE DEF Inv
  <1>1. kind = "union" /\ kind' = kind /\ begun /\ UNCHANGED <<inputs, buffers>>
    BY DEF UnionJoin, Fresh, kind
  <1>2. left.at \in plan.left \cup {End} /\ right.at \in plan.right \cup {End}
    BY <1>1 DEF InputsUsable, ToChildren, ToParents
  <1>3. sides' \subseteq {"left", "right"}
    BY DEF UnionJoin
  <1>4. CASE left.at = End /\ right.at = End
    <2>1. Fail
      BY <1>4 DEF UnionJoin
    <2>2. Typed'
      BY <1>1, <2>1, Outcomes DEF TypeOK, Typed, buffers, inputs
    <2> QED
      BY <1>3, <2>1, <2>2 DEF InputsUsable, Fail, Moved
  <1>5. CASE ~(left.at = End /\ right.at = End)
    <2> DEFINE cmp == IF right.at = End THEN -1
                      ELSE IF left.at = End THEN 1
                      ELSE Compare(tree, left.at, right.at)
    <2>1. /\ sides' = {s \in {"left", "right"} : IF s = "left" THEN cmp <= 0 ELSE cmp >= 0}
          /\ Yield(IF cmp <= 0 THEN left.at ELSE right.at)
      BY <1>5 DEF UnionJoin
    <2>2. cmp \in Int /\ (cmp <= 0 => left.at # End) /\ (cmp >= 0 => right.at # End)
      BY <1>2, <1>5, CompareFacts, PlanFacts DEF TypeOK
    <2>3. (IF cmp <= 0 THEN left.at ELSE right.at) \in Nodes
      BY <1>2, <2>2, PlanFacts DEF TypeOK
    <2>4. Typed'
      BY <1>1, <2>1, <2>3, Outcomes DEF TypeOK, Typed, buffers, inputs
    <2>5. ("left" \in sides' => left.at # End) /\ ("right" \in sides' => right.at # End)
      BY <2>1, <2>2
    <2> QED
      BY <1>1, <1>2, <1>3, <2>1, <2>4, <2>5 DEF InputsUsable, Yield, Moved, inputs
  <1> QED
    BY <1>4, <1>5

LEMMA UnwoundType ==
  ASSUME NEW s \in Seq(Nodes), NEW d, NEW st \in Unwound(s, d)
  PROVE  st \in Seq(Nodes)
  <1>1. PICK i \in 0..Len(s) : st = SubSeq(s, 1, i)
    BY DEF Unwound
  <1>2. SubSeq(s, 0 + 1, i) \in Seq(Nodes)
    BY RestOf
  <1> QED
    BY <1>1, <1>2

LEMMA PushKeeps ==
  ASSUME TypeOK, NEW s \in Seq(Nodes), left.at \in Nodes, Push(s)
  PROVE  /\ stack' \in Seq(Nodes) /\ right' = right /\ Again
         /\ left' \in Cursor /\ left'.at \in plan.left \cup {End} /\ left.at < left'.at
  <1>1. stack' = Append(s, left.at) /\ left' \in Moves(plan.left, left, 0)
    BY DEF Push
  <1>2. stack' \in Seq(Nodes)
    BY <1>1, AppendProperties
  <1>3. 0 \in 0..N
    BY NodesAssumption
  <1> QED
    BY <1>1, <1>2, <1>3, MovesFacts, PlanFacts DEF Push, TypeOK

LEMMA ChildTurn ==
  ASSUME Inv, pc = "join", UNCHANGED <<plan, begun>>, ChildJoin
  PROVE  Typed' /\ InputsUsable' /\ Moved
  <1> USE DEF Inv
  <1>1. kind \in ToChildren /\ kind' = kind /\ begun /\ UNCHANGED <<sides, results>>
        /\ kind \notin {"union", "except"} \cup ToParents
    BY DEF ChildJoin, Fresh, kind, ToChildren, ToParents
  <1>2. left.at \in plan.left \cup {End} /\ right.at \in plan.right /\ right.at \in Nodes
    BY <1>1, PlanFacts DEF InputsUsable, TypeOK
  <1>3. PICK st \in Unwound(stack, right.at) :
          LET cmp == IF left.at = End THEN -1
                     ELSE IsDescendantOf(tree, right.at, left.at, FALSE)
          IN  \/ cmp < 0 /\ TryDescendant(st)
                 /\ stack' = IF pc' = "done" THEN <<>> ELSE st
              \/ cmp > 0 /\ PassAncestor /\ stack' = IF pc' = "done" THEN <<>> ELSE st
              \/ cmp = 0 /\ Push(st)
    BY DEF ChildJoin
  <1>4. st \in Seq(Nodes) /\ <<>> \in Seq(Nodes)
    BY UnwoundType, EmptySeq DEF TypeOK
  <1>5. \/ TryDescendant(st) /\ stack' \in Seq(Nodes)
        \/ left.at # End /\ PassAncestor /\ stack' \in Seq(Nodes)
        \/ left.at # End /\ Push(st)
    <2> DEFINE cmp == IF left.at = End THEN -1
                      ELSE IsDescendantOf(tree, right.at, left.at, FALSE)
    <2>1. left.at = End => ~(cmp > 0) /\ cmp # 0
      OBVIOUS
    <2>2. \/ TryDescendant(st) /\ stack' = IF pc' = "done" THEN <<>> ELSE st
          \/ cmp > 0 /\ PassAncestor /\ stack' = IF pc' = "done" THEN <<>> ELSE st
          \/ cmp = 0 /\ Push(st)
      BY <1>3
    <2> HIDE DEF cmp
    <2>3. (IF pc' = "done" THEN <<>> ELSE st) \in Seq(Nodes)
      BY <1>4
    <2> QED
      BY <2>1, <2>2, <2>3
  <1>6. 0 \in 0..N
    BY NodesAssumption
  <1>7. ASSUME NEW t \in 0..N, MoveRight(t), stack' \in Seq(Nodes)
        PROVE  Typed' /\ InputsUsable' /\ Moved
    <2>1. Typed'
      BY <1>1, <1>7, RightMoves, Outcomes DEF TypeOK, Typed
    <2>2. Moved
      BY <1>7, RightMoves, CursorPlace DEF Moved, Cursor
    <2> QED
      BY <1>1, <1>2, <1>7, <2>1, <2>2, RightMoves DEF InputsUsable, Fail, Again
  <1>8. ASSUME NEW t \in 0..N, MoveLeft(t), stack' \in Seq(Nodes)
        PROVE  Typed' /\ InputsUsable' /\ Moved
    <2>1. Typed'
      BY <1>1, <1>8, LeftMoves, Outcomes DEF TypeOK, Typed
    <2>2. Moved
      BY <1>8, LeftMoves, CursorPlace DEF Moved, Cursor
    <2> QED
      BY <1>1, <1>2, <1>8, <2>1, <2>2, LeftMoves DEF InputsUsable, Fail, Again
  <1>9. CASE left.at # End /\ Push(st)
    <2>1. left.at \in Nodes
      BY <1>2, <1>9, PlanFacts DEF TypeOK
    <2>2. Typed'
      BY <1>1, <1>4, <1>9, <2>1, PushKeeps, Outcomes DEF TypeOK, Typed
    <2>3. Moved
      BY <1>4, <1>9, <2>1, PushKeeps, CursorPlace DEF Moved, Cursor
    <2> QED
      BY <1>1, <1>2, <1>4, <1>9, <2>1, <2>2, <2>3, PushKeeps DEF InputsUsable, Again
  <1>10. CASE left.at # End /\ PassAncestor /\ stack' \in Seq(Nodes)
    <2>1. left.at \in Nodes
      BY <1>2, <1>10, PlanFacts DEF TypeOK
    <2>2. \E t \in 0..N : MoveLeft(t)
      BY <1>2, <1>10, <2>1, Targets
    <2> QED
      BY <1>8, <1>10, <2>2
  <1>11. CASE TryDescendant(st) /\ stack' \in Seq(Nodes)
    <2>1. CASE left.at = End /\ Fail /\ UNCHANGED inputs
      <3>1. Typed'
        BY <1>1, <1>11, <2>1, Outcomes DEF TypeOK, Typed, inputs
      <3> QED
        BY <2>1, <3>1 DEF InputsUsable, Fail, Moved
    <2>2. CASE left.at # End /\ RightToLeft
      <3>1. left.at \in Nodes
        BY <1>2, <2>2, PlanFacts DEF TypeOK
      <3>2. \E t \in 0..N : MoveRight(t)
        BY <1>2, <2>2, <3>1, Targets
      <3> QED
        BY <1>7, <1>11, <3>2
    <2>3. CASE Yield(right.at) /\ UNCHANGED inputs
      <3>1. Typed'
        BY <1>1, <1>2, <1>11, <2>3, Outcomes DEF TypeOK, Typed, inputs
      <3> QED
        BY <1>1, <1>2, <2>3, <3>1 DEF InputsUsable, Yield, Moved, inputs
    <2>4. CASE MoveRight(0)
      BY <1>6, <1>7, <1>11, <2>4
    <2> QED
      BY <1>11, <2>1, <2>2, <2>3, <2>4 DEF TryDescendant
  <1> QED
    BY <1>5, <1>9, <1>10, <1>11

LEMMA FinishKeeps ==
  ASSUME Inv, NEW found \in Seq(Nodes), UNCHANGED <<plan, begun, sides>>,
         kind \in ToParents, Finish(found)
  PROVE  Typed' /\ InputsUsable' /\ Moved
  <1>1. left \in Cursor /\ right \in Cursor
    BY DEF Inv, TypeOK
  <1>2. left' \in Cursor /\ left'.at = End /\ right' \in Cursor /\ right'.at = End
    BY <1>1, EndFacts DEF Finish, Cursor
  <1>3. stack' \in Seq(Nodes)
    BY EmptySeq DEF Finish
  <1>4. CASE found # <<>> /\ Output(found)
    <2>1. Head(found) \in Nodes /\ Tail(found) \in Seq(Nodes)
      BY <1>4, HeadTailProperties
    <2>2. Typed' /\ pc' = "ready"
      BY <1>2, <1>3, <1>4, <2>1, Outcomes DEF Inv, Typed, Output
    <2> QED
      BY <1>2, <2>2 DEF InputsUsable, Moved, kind, ToParents
  <1>5. CASE Fail /\ results' = <<>>
    <2>1. Typed' /\ pc' = "done"
      BY <1>2, <1>3, <1>5, EmptySeq, Outcomes DEF Inv, Typed
    <2> QED
      BY <2>1 DEF InputsUsable, Moved
  <1> QED
    BY <1>4, <1>5 DEF Finish

LEMMA OutputKeeps ==
  ASSUME Inv, pc = "join", NEW found \in Seq(Nodes), found # <<>>,
         UNCHANGED <<plan, begun, sides>>, kind \in ToParents,
         right.at \in plan.right, right' \in Cursor, right'.at \in plan.right,
         left' = left, stack' \in Seq(Nodes), Output(found)
  PROVE  Typed' /\ InputsUsable' /\ Moved
  <1>1. Head(found) \in Nodes /\ Tail(found) \in Seq(Nodes)
    BY HeadTailProperties
  <1>2. Typed' /\ pc' = "ready"
    BY <1>1, Outcomes DEF Inv, TypeOK, Typed, Output
  <1>3. begun
    BY DEF Inv, Fresh
  <1> QED
    BY <1>2, <1>3 DEF Inv, InputsUsable, Moved, kind, ToParents

LEMMA InsertedType ==
  ASSUME TypeOK, NEW p \in Nodes
  PROVE  Inserted(p) \in Seq(Nodes)
  <1>1. <<p>> \in Seq(Nodes) /\ Append(results, p) \in Seq(Nodes)
    BY AppendProperties DEF TypeOK
  <1> QED
    BY <1>1, ConcatProperties DEF Inserted, TypeOK

LEMMA ParentIndex ==
  ASSUME TypeOK, NEW c
  PROVE  ParentOfChildAt(c) \in 0..Len(stack) /\ ParentAt(c) \in 0..Len(stack)
  <1>1. Len(stack) \in Nat /\ (stack # <<>> => Len(stack) >= 1)
    BY EmptySeq, LenProperties DEF TypeOK
  <1> QED
    BY <1>1 DEF ParentOfChildAt, ParentAt

LEMMA TakeParentKeeps ==
  ASSUME Inv, pc = "join", UNCHANGED <<plan, begun, sides>>, kind \in ToParents,
         TakeParent
  PROVE  Typed' /\ InputsUsable' /\ Moved
  <1> USE DEF Inv
  <1> DEFINE i == IF kind = "parent" THEN ParentAt(right.at) ELSE ParentOfChildAt(right.at)
             found == IF i = 0 THEN results ELSE Inserted(stack[i])
             rest == IF i = 0 THEN stack
                     ELSE SubSeq(stack, 1, i - 1) \o SubSeq(stack, i + 1, Len(stack))
             target == IF rest = <<>> THEN tree.key[left.at] ELSE 0
  <1>1. kind' = kind /\ begun /\ kind \notin {"union", "except"} \cup ToChildren
    BY DEF Fresh, kind, ToParents, ToChildren
  <1>2. /\ left.at \in plan.left \cup {End} /\ right.at \in plan.right
        /\ left \in Cursor /\ right \in Cursor
    BY <1>1 DEF InputsUsable, TypeOK
  <1>3. i \in 0..Len(stack) /\ Len(stack) \in Nat
    BY ParentIndex, LenProperties DEF TypeOK
  <1>4. found \in Seq(Nodes)
    <2>1. CASE i = 0
      BY <2>1 DEF TypeOK
    <2>2. CASE i # 0
      <3>1. stack[i] \in Nodes
        BY <1>3, <2>2, ElementOfSeq DEF TypeOK
      <3> QED
        BY <2>2, <3>1, InsertedType
    <2> QED
      BY <2>1, <2>2
  <1>5. rest \in Seq(Nodes)
    <2>1. CASE i = 0
      BY <2>1 DEF TypeOK
    <2>2. CASE i # 0
      <3>1. SubSeq(stack, 0 + 1, i - 1) \in Seq(Nodes)
        BY <1>3, <2>2, RestOf DEF TypeOK
      <3>2. SubSeq(stack, i + 1, Len(stack)) \in Seq(Nodes)
        BY <1>3, <2>2, RestOf DEF TypeOK
      <3> QED
        BY <2>2, <3>1, <3>2, ConcatProperties
    <2> QED
      BY <2>1, <2>2
  <1>6. IF rest = <<>> /\ found # <<>>
          THEN Output(found) /\ stack' = <<>> /\ UNCHANGED inputs
        ELSE IF rest = <<>> /\ left.at = End THEN Finish(found)
        ELSE \E c \in Moves(plan.right, right, target) :
          IF c.at = End THEN Finish(found)
          ELSE /\ right' = c /\ UNCHANGED left
               /\ stack' \in Unwound(rest, c.at)
               /\ IF stack' = <<>> /\ found # <<>> THEN Output(found)
                  ELSE Again /\ results' = found
    BY DEF TakeParent, Without, MayOutput
  <1> HIDE DEF i, found, rest
  <1>7. CASE rest = <<>> /\ found # <<>>
    BY <1>2, <1>4, <1>6, <1>7, OutputKeeps, EmptySeq DEF inputs
  <1>8. CASE Finish(found)
    BY <1>4, <1>8, FinishKeeps
  <1>9. ASSUME NEW c \in Moves(plan.right, right, target), c.at # End,
               rest = <<>> => left.at # End,
               right' = c, UNCHANGED left, stack' \in Unwound(rest, c.at),
               IF stack' = <<>> /\ found # <<>> THEN Output(found)
               ELSE Again /\ results' = found
        PROVE  Typed' /\ InputsUsable' /\ Moved
    <2>1. target \in 0..N
      BY <1>2, <1>9, PlanFacts, KeyTarget, NodesAssumption DEF TypeOK
    <2> HIDE DEF target
    <2>2. c \in Cursor /\ c.at \in plan.right /\ right.at < c.at
      BY <1>9, <2>1, MovesFacts, PlanFacts DEF TypeOK
    <2>3. stack' \in Seq(Nodes)
      BY <1>5, <1>9, UnwoundType
    <2>4. CASE found # <<>> /\ Output(found)
      BY <1>2, <1>4, <1>9, <2>2, <2>3, <2>4, OutputKeeps
    <2>5. CASE Again /\ results' = found
      <3>1. Typed'
        BY <1>2, <1>4, <1>9, <2>2, <2>3, <2>5, Outcomes DEF Typed
      <3>2. Moved
        BY <1>9, <2>2, CursorPlace DEF Moved, Cursor
      <3> QED
        BY <1>1, <1>2, <1>9, <2>2, <2>5, <3>1, <3>2 DEF InputsUsable, Again
    <2> QED
      BY <1>9, <2>4, <2>5
  <1> QED
    BY <1>6, <1>7, <1>8, <1>9

LEMMA ParentTurn ==
  ASSUME Inv, pc = "join", UNCHANGED <<plan, begun>>, ParentJoin
  PROVE  Typed' /\ InputsUsable' /\ Moved
  <1> USE DEF Inv
  <1> DEFINE cmp == IF left.at = End THEN -1
                    ELSE IsDescendantOf(tree, right.at, left.at, kind = "parent")
  <1>1. kind \in ToParents /\ kind' = kind /\ begun /\ UNCHANGED sides
        /\ kind \notin {"union", "except"} \cup ToChildren
    BY DEF ParentJoin, Fresh, kind, ToChildren, ToParents
  <1>2. left.at \in plan.left \cup {End} /\ right.at \in plan.right /\ right.at \in Nodes
    BY <1>1, PlanFacts DEF InputsUsable, TypeOK
  <1>3. \/ TakeParent
        \/ cmp > 0 /\ PassAncestor /\ UNCHANGED buffers
        \/ Finish(results)
        \/ cmp = 0 /\ Push(stack) /\ UNCHANGED results
    BY DEF ParentJoin
  <1>4. left.at = End => ~(cmp > 0) /\ cmp # 0
    OBVIOUS
  <1> HIDE DEF cmp
  <1>5. left.at # End => left.at \in Nodes
    BY <1>2, PlanFacts DEF TypeOK
  <1>6. CASE TakeParent
    BY <1>1, <1>6, TakeParentKeeps
  <1>7. CASE left.at # End /\ PassAncestor /\ UNCHANGED buffers
    <2>1. PICK t \in 0..N : MoveLeft(t)
      BY <1>2, <1>5, <1>7, Targets
    <2>2. Typed'
      BY <1>7, <2>1, LeftMoves, Outcomes DEF TypeOK, Typed, buffers
    <2>3. Moved
      BY <2>1, LeftMoves, CursorPlace DEF Moved, Cursor
    <2> QED
      BY <1>1, <1>2, <2>1, <2>2, <2>3, LeftMoves DEF InputsUsable, Fail, Again
  <1>8. CASE Finish(results)
    BY <1>1, <1>8, FinishKeeps DEF TypeOK
  <1>9. CASE left.at # End /\ Push(stack) /\ UNCHANGED results
    <2>1. Typed'
      BY <1>5, <1>9, PushKeeps, Outcomes DEF TypeOK, Typed
    <2>2. Moved
      BY <1>5, <1>9, PushKeeps, CursorPlace DEF Moved, Cursor, TypeOK
    <2> QED
      BY <1>1, <1>2, <1>5, <1>9, <2>1, <2>2, PushKeeps DEF InputsUsable, Again, TypeOK
  <1> QED
    BY <1>3, <1>4, <1>6, <1>7, <1>8, <1>9
-----------------------------------------------------------------------------
(* The theorems about all joins.                                           *)

LEMMA InvInit == Init => Inv
  <1> SUFFICES ASSUME Init PROVE Inv
    OBVIOUS
  <1>1. plan \in Plan
    BY PlansAssumption DEF Init
  <1>2. left \in Cursor /\ right \in Cursor /\ furthest \in Start..End /\ asked \in 0..N
    BY NodesAssumption DEF Init, Cursor, Start, End
  <1> QED
    BY <1>1, <1>2, EmptySeq DEF Init, Inv, TypeOK, InputsUsable, Fresh

LEMMA AskStep ==
  ASSUME Inv, NEW t \in 0..N, Ask(t)
  PROVE  Inv'
  <1>1. /\ pc = "ready" /\ UNCHANGED <<plan, sides>> /\ begun' = TRUE
        /\ asked' = Highest(asked, t)
    BY DEF Ask
  <1>2. Typed' /\ InputsUsable'
    BY <1>1, PlainCall, UnionCallKeeps, ExceptCallKeeps, DescendantCallKeeps,
       ParentCallKeeps DEF Ask
  <1>3. asked' \in 0..N
    BY <1>1, NodesAssumption DEF Inv, TypeOK, Highest
  <1> QED
    BY <1>1, <1>2, <1>3 DEF Inv, TypeOK, Typed

LEMMA JoinStep ==
  ASSUME Inv, Join
  PROVE  Inv' /\ Moved
  <1>1. pc = "join" /\ UNCHANGED <<plan, begun, asked>> /\ begun
    BY DEF Join, Inv, Fresh
  <1>2. Typed' /\ InputsUsable' /\ Moved
    BY <1>1, IntersectTurn, UnionTurn, ExceptTurn, ChildTurn, ParentTurn DEF Join
  <1>3. sides' \subseteq {"left", "right"}
    BY <1>1, UnionTurn DEF Join, IntersectJoin, ExceptJoin, LinealJoin, AttributeJoin,
       ParentOfAttributeJoin, MeetAtElement, ChildJoin, ParentJoin, Inv, TypeOK
  <1> QED
    BY <1>1, <1>2, <1>3 DEF Inv, TypeOK, Typed

LEMMA InvStep == Inv /\ [Next]_vars => Inv'
  <1> SUFFICES ASSUME Inv, [Next]_vars PROVE Inv'
    OBVIOUS
  <1>1. CASE Join
    BY <1>1, JoinStep
  <1>2. ASSUME NEW t \in 0..N, Ask(t) PROVE Inv'
    BY <1>2, AskStep
  <1>3. CASE UNCHANGED vars
    BY <1>3 DEF vars, inputs, buffers, Inv, TypeOK, InputsUsable, Fresh, kind, Cursor
  <1> QED
    BY <1>1, <1>2, <1>3 DEF Next, Deleted

\* The variables of every join keep their types.
THEOREM TypeCorrect == Spec => []TypeOK
  <1>1. Inv => TypeOK
    BY DEF Inv
  <1> QED
    BY <1>1, InvInit, InvStep, PTL DEF Spec

\* No join uses an input that has ended, and that it may have deleted: at each
\* turn, and at each call, the inputs it compares or moves are at nodes.
THEOREM InputsStayUsable == Spec => []InputsUsable
  <1>1. Inv => InputsUsable
    BY DEF Inv
  <1> QED
    BY <1>1, InvInit, InvStep, PTL DEF Spec

\* Every turn of doJoin() that goes on moves an input forwards, so that no
\* call loops for ever, whatever the nodes and whatever the inputs skip.
THEOREM TurnsMove == Spec => EveryTurnMoves
  <1> DEFINE Advance == pc = "join" /\ pc' = "join" =>
               /\ left.at <= left'.at /\ right.at <= right'.at
               /\ left.at # left'.at \/ right.at # right'.at
  <1>1. Inv /\ [Next]_vars => [Advance]_vars
    <2> SUFFICES ASSUME Inv, Next, pc = "join" PROVE Advance
      OBVIOUS
    <2>1. Join
      BY DEF Next, Ask, Deleted
    <2> QED
      BY <2>1, JoinStep DEF Moved
  <1>2. EveryTurnMoves <=> [][Advance]_vars
    BY DEF EveryTurnMoves
  <1> QED
    BY <1>1, <1>2, InvInit, InvStep, PTL DEF Spec
-----------------------------------------------------------------------------
(* The buffers of the child and parent joins: the stack is a path down a   *)
(* document that the next descendant continues, and no parent found is on  *)
(* it, or can be found again.                                              *)

Path(s) == \A i, j \in DOMAIN s : i < j => s[i] \in tree.above[s[j]]
Distinct(s) == \A i, j \in DOMAIN s : s[i] = s[j] => i = j
Apart(s, t) == \A i \in DOMAIN s : \A j \in DOMAIN t : s[i] # t[j]

\* The nodes of s came from the left input, which is past them.
Taken(s) == \A i \in DOMAIN s : s[i] \in plan.left /\ s[i] < left.at

\* They come after all that was answered.
Coming(s) == \A i \in DOMAIN s : furthest < s[i]

\* What the parent joins find is a parent, whatever the levels say.
Sure == Joinable(plan) /\ ~MayTakeGrandparent(plan)
Sound(s) == Sure => \A i \in DOMAIN s : s[i] \in Answer(plan)

AboveOrAt(d) == tree.above[d] \cup IF kind = "parent" THEN {d} ELSE {}
Encloses(s, d) == \A i \in DOMAIN s : s[i] \in AboveOrAt(d)

ChildInv ==
  /\ results = <<>>
  /\ Path(stack) /\ Taken(stack)
  /\ \A i \in DOMAIN stack : stack[i] < right.at

ParentInv ==
  /\ Path(stack) /\ Taken(stack) /\ Taken(results)
  /\ Distinct(results) /\ Apart(results, stack) /\ Sound(results)
  /\ Sure /\ pc # "done" => furthest \in Answer(plan) \cup {Start}
  /\ ~begun => furthest = Start /\ results = <<>>
  /\ begun /\ pc # "done" => furthest < left.at
  /\ IF pc = "join"
       THEN Encloses(stack, right.at) /\ Coming(stack) /\ Coming(results)
       ELSE stack = <<>>

BufferInv ==
  /\ kind \in ToChildren => ChildInv
  /\ kind \in ToParents => ParentInv
  /\ kind \notin ToChildren \cup ToParents => stack = <<>> /\ results = <<>>

\* What remains of a path when the nodes that d is past are popped lies above d.
LEMMA UnwoundFacts ==
  ASSUME plan \in Plan, NEW s \in Seq(Nodes), NEW d \in Nodes, NEW st \in Unwound(s, d),
         Path(s), \A i \in DOMAIN s : s[i] < d
  PROVE  /\ st \in Seq(Nodes) /\ Path(st)
         /\ \A i \in DOMAIN st : i \in DOMAIN s /\ st[i] = s[i] /\ st[i] \in tree.above[d]
  <1>1. WellFormed(tree)
    BY PlanFacts
  <1>2. PICK k \in 0..Len(s) : /\ st = SubSeq(s, 1, k)
                               /\ k > 0 => ~(IsDescendantOf(tree, d, s[k], FALSE) > 0)
    BY DEF Unwound
  <1>3. Len(s) \in Nat /\ DOMAIN s = 1..Len(s) /\ \A i \in 1..Len(s) : s[i] \in Nodes
    BY LenProperties, ElementOfSeq
  <1>4. /\ st \in Seq(Nodes) /\ Len(st) = k /\ DOMAIN st = 1..k
        /\ \A i \in 1..k : st[i] = s[i]
    <2>1. \A i \in 1..k : s[i] \in Nodes
      BY <1>3
    <2>2. /\ st \in Seq(Nodes) /\ Len(st) = IF 1 <= k THEN k - 1 + 1 ELSE 0
          /\ \A i \in 1..(k - 1 + 1) : st[i] = s[1 + i - 1]
      BY <1>2, <2>1, SubSeqProperties
    <2>3. DOMAIN st = 1..Len(st)
      BY <2>2, LenProperties
    <2> QED
      BY <1>2, <2>2, <2>3
  <1>5. k > 0 => s[k] \in tree.above[d]
    <2> SUFFICES ASSUME k > 0 PROVE s[k] \in tree.above[d]
      OBVIOUS
    <2>1. s[k] \in Nodes /\ s[k] < d
      BY <1>2, <1>3
    <2> DEFINE cmp == IsDescendantOf(tree, d, s[k], FALSE)
    <2>2. cmp \in Int /\ (cmp = 0 => s[k] \in tree.above[d])
          /\ (cmp < 0 => d < s[k] \/ d = s[k])
      BY <1>1, <2>1, DescendantFacts
    <2>3. ~(cmp > 0)
      BY <1>2
    <2>4. d \in Int /\ s[k] \in Int
      BY <2>1, NodesAssumption DEF Nodes
    <2> HIDE DEF cmp
    <2> QED
      BY <2>1, <2>2, <2>3, <2>4
  <1>6. ASSUME NEW i \in 1..k PROVE s[i] \in tree.above[d]
    <2>1. i = k \/ s[i] \in tree.above[s[k]]
      BY <1>3, <1>6 DEF Path
    <2> QED
      BY <1>1, <1>5, <1>6, <2>1, Nesting
  <1>7. Path(st)
    BY <1>3, <1>4 DEF Path
  <1> QED
    BY <1>3, <1>4, <1>6, <1>7

\* The next node of the left input continues a path above the same node.
LEMMA PushPath ==
  ASSUME plan \in Plan, NEW s \in Seq(Nodes), NEW d \in Nodes, NEW a \in AboveOrAt(d),
         Path(s), Encloses(s, d), \A i \in DOMAIN s : s[i] < a
  PROVE  /\ Path(Append(s, a)) /\ Encloses(Append(s, a), d)
         /\ \A i \in DOMAIN Append(s, a) :
              Append(s, a)[i] = a \/ (i \in DOMAIN s /\ Append(s, a)[i] = s[i])
  <1> DEFINE st == Append(s, a)
  <1>1. WellFormed(tree)
    BY PlanFacts
  <1>2. a \in Nodes /\ a <= d
    <2>1. a \in tree.above[d] \/ a = d
      BY DEF AboveOrAt
    <2>2. a \in tree.above[d] => a \in Nodes /\ a < d
      BY <1>1, Nesting
    <2> QED
      BY <2>1, <2>2, NodesAssumption DEF Nodes
  <1>3. /\ DOMAIN s = 1..Len(s) /\ Len(s) \in Nat /\ DOMAIN st = 1..(Len(s) + 1)
        /\ st[Len(s) + 1] = a /\ \A i \in 1..Len(s) : st[i] = s[i] /\ s[i] \in Nodes
    <2>1. st \in Seq(Nodes) /\ Len(st) = Len(s) + 1 /\ st[Len(s) + 1] = a
          /\ \A i \in 1..Len(s) : st[i] = s[i]
      BY <1>2, AppendProperties
    <2> QED
      BY <2>1, LenProperties, ElementOfSeq
  <1> HIDE DEF st
  <1>4. ASSUME NEW i \in 1..Len(s) PROVE s[i] \in tree.above[a]
    <2>1. s[i] \in Nodes /\ s[i] < a /\ s[i] \in AboveOrAt(d)
      BY <1>3, <1>4 DEF Encloses
    <2>2. s[i] # d
      BY <1>2, <2>1, NodesAssumption DEF Nodes
    <2>3. s[i] \in tree.above[d]
      BY <2>1, <2>2 DEF AboveOrAt
    <2> QED
      BY <1>1, <1>2, <2>1, <2>3, Nesting
  <1>5. Path(st)
    BY <1>3, <1>4 DEF Path
  <1>6. Encloses(st, d)
    BY <1>3 DEF Encloses
  <1>7. \A i \in DOMAIN st : st[i] = a \/ (i \in DOMAIN s /\ st[i] = s[i])
    BY <1>3
  <1> QED
    BY <1>5, <1>6, <1>7 DEF st

\* A path without one of its nodes is one, and that node is not on it.
LEMMA WithoutFacts ==
  ASSUME plan \in Plan, NEW s \in Seq(Nodes), Path(s), NEW k \in 0..Len(s)
  PROVE  /\ Without(s, k) \in Seq(Nodes) /\ Path(Without(s, k))
         /\ \A i \in DOMAIN Without(s, k) : \E j \in DOMAIN s :
              Without(s, k)[i] = s[j] /\ (k # 0 => s[j] # s[k])
  <1> DEFINE r == Without(s, k)
  <1>1. /\ Len(s) \in Nat /\ DOMAIN s = 1..Len(s)
        /\ \A i \in 1..Len(s) : s[i] \in Nodes
    BY LenProperties, ElementOfSeq
  <1>2. WellFormed(tree)
    BY PlanFacts
  <1>3. CASE k = 0
    BY <1>1, <1>3 DEF Without
  <1>4. CASE k # 0
    <2> DEFINE s1 == SubSeq(s, 1, k - 1)
               s2 == SubSeq(s, k + 1, Len(s))
    <2>1. k \in 1..Len(s)
      BY <1>1, <1>4
    <2>2. s1 \in Seq(Nodes) /\ Len(s1) = k - 1 /\ \A i \in 1..(k - 1) : s1[i] = s[i]
      <3>1. \A i \in 1..(k - 1) : s[i] \in Nodes
        BY <1>1, <2>1
      <3>2. /\ s1 \in Seq(Nodes) /\ Len(s1) = IF 1 <= k - 1 THEN (k - 1) - 1 + 1 ELSE 0
            /\ \A i \in 1..((k - 1) - 1 + 1) : s1[i] = s[1 + i - 1]
        BY <1>1, <2>1, <3>1, SubSeqProperties
      <3> QED
        BY <1>1, <2>1, <3>2
    <2>3. s2 \in Seq(Nodes) /\ Len(s2) = Len(s) - k
          /\ \A i \in 1..(Len(s) - k) : s2[i] = s[k + i]
      <3>1. \A i \in (k + 1)..Len(s) : s[i] \in Nodes
        BY <1>1, <2>1
      <3>2. /\ s2 \in Seq(Nodes)
            /\ Len(s2) = IF k + 1 <= Len(s) THEN Len(s) - (k + 1) + 1 ELSE 0
            /\ \A i \in 1..(Len(s) - (k + 1) + 1) : s2[i] = s[(k + 1) + i - 1]
        BY <1>1, <2>1, <3>1, SubSeqProperties
      <3>3. Len(s) - (k + 1) + 1 = Len(s) - k /\ (k + 1 <= Len(s) \/ Len(s) - k = 0)
        <4>1. k \in Int /\ k <= Len(s) /\ Len(s) \in Int
          BY <1>1, <2>1
        <4> HIDE DEF r, s1, s2
        <4> QED
          BY <4>1
      <3>4. \A i \in 1..(Len(s) - k) : (k + 1) + i - 1 = k + i
        BY <1>1, <2>1
      <3> HIDE DEF s2
      <3> QED
        BY <3>2, <3>3, <3>4
    <2>4. r = s1 \o s2
      BY <1>4 DEF Without
    <2> HIDE DEF s1, s2, r
    <2>5. /\ r \in Seq(Nodes) /\ DOMAIN r = 1..(Len(s) - 1)
          /\ \A i \in 1..(Len(s) - 1) : r[i] = IF i <= k - 1 THEN s[i] ELSE s[i + 1]
      <3>1. /\ r \in Seq(Nodes) /\ Len(r) = (k - 1) + (Len(s) - k)
            /\ \A i \in 1..((k - 1) + (Len(s) - k)) :
                 r[i] = IF i <= k - 1 THEN s1[i] ELSE s2[i - (k - 1)]
        <4>1. /\ s1 \o s2 \in Seq(Nodes) /\ Len(s1 \o s2) = Len(s1) + Len(s2)
              /\ \A i \in 1..(Len(s1) + Len(s2)) :
                   (s1 \o s2)[i] = IF i <= Len(s1) THEN s1[i] ELSE s2[i - Len(s1)]
          BY <2>2, <2>3, ConcatProperties
        <4> QED
          BY <2>2, <2>3, <2>4, <4>1
      <3>2. DOMAIN r = 1..Len(r)
        BY <3>1, LenProperties
      <3>3. (k - 1) + (Len(s) - k) = Len(s) - 1
        BY <1>1, <2>1
      <3>4. ASSUME NEW i \in 1..(Len(s) - 1)
            PROVE  r[i] = IF i <= k - 1 THEN s[i] ELSE s[i + 1]
        <4>1. r[i] = IF i <= k - 1 THEN s1[i] ELSE s2[i - (k - 1)]
          BY <3>1, <3>3, <3>4
        <4>2. i <= k - 1 => s1[i] = s[i]
          BY <1>1, <2>1, <2>2, <3>4
        <4>3. i > k - 1 => i - (k - 1) \in 1..(Len(s) - k) /\ k + (i - (k - 1)) = i + 1
          BY <1>1, <2>1, <3>4
        <4>4. i > k - 1 => s2[i - (k - 1)] = s[i + 1]
          BY <2>3, <4>3
        <4>5. i <= k - 1 \/ i > k - 1
          BY <1>1, <2>1, <3>4
        <4> QED
          BY <4>1, <4>2, <4>4, <4>5
      <3> QED
        BY <3>1, <3>2, <3>3, <3>4
    <2>6. Path(r)
      <3> SUFFICES ASSUME NEW i \in 1..(Len(s) - 1), NEW j \in 1..(Len(s) - 1), i < j
                   PROVE  r[i] \in tree.above[r[j]]
        BY <2>5 DEF Path
      <3> DEFINE g(h) == IF h <= k - 1 THEN h ELSE h + 1
      <3>1. g(i) \in 1..Len(s) /\ g(j) \in 1..Len(s) /\ g(i) < g(j)
        BY <1>1, <2>1
      <3>2. r[i] = s[g(i)] /\ r[j] = s[g(j)]
        BY <2>5
      <3> HIDE DEF g
      <3> QED
        BY <1>1, <3>1, <3>2 DEF Path
    <2>7. ASSUME NEW i \in DOMAIN r
          PROVE  \E j \in DOMAIN s : r[i] = s[j] /\ s[j] # s[k]
      <3>1. PICK j \in 1..Len(s) : r[i] = s[j] /\ j # k
        BY <1>1, <2>1, <2>5, <2>7
      <3>2. s[j] \in tree.above[s[k]] \/ s[k] \in tree.above[s[j]]
        BY <1>1, <2>1, <3>1 DEF Path
      <3>3. s[j] # s[k]
        <4>1. s[j] < s[k] \/ s[k] < s[j]
          BY <1>1, <1>2, <2>1, <3>2, Nesting
        <4> QED
          BY <1>1, <2>1, <4>1, NodesAssumption DEF Nodes
      <3> QED
        BY <1>1, <3>1, <3>3
    <2> QED
      BY <2>5, <2>6, <2>7 DEF r
  <1> QED
    BY <1>3, <1>4

\* A parent is inserted among the results once.
LEMMA InsertedFacts ==
  ASSUME TypeOK, NEW p \in Nodes, Distinct(results), \A i \in DOMAIN results : results[i] # p
  PROVE  /\ Inserted(p) \in Seq(Nodes) /\ Distinct(Inserted(p)) /\ Inserted(p) # <<>>
         /\ \A i \in DOMAIN Inserted(p) :
              Inserted(p)[i] = p \/ \E j \in DOMAIN results : Inserted(p)[i] = results[j]
  <1> DEFINE f == Inserted(p)
             n == Len(results)
  <1>1. n \in Nat /\ DOMAIN results = 1..n
    BY LenProperties DEF TypeOK
  <1>2. CASE f = Append(results, p)
    <2>1. f \in Seq(Nodes) /\ Len(f) = n + 1 /\ f[n + 1] = p
          /\ \A i \in 1..n : f[i] = results[i]
      BY <1>2, AppendProperties DEF TypeOK
    <2>2. DOMAIN f = 1..(n + 1)
      BY <2>1, LenProperties
    <2> HIDE DEF f, n
    <2>3. \A i \in 1..(n + 1) : f[i] = p \/ (i \in 1..n /\ f[i] = results[i])
      BY <1>1, <2>1
    <2>4. Distinct(f)
      BY <1>1, <2>1, <2>2 DEF Distinct
    <2>5. f # <<>>
      BY <1>1, <2>1, EmptySeq
    <2> QED
      BY <1>1, <2>1, <2>2, <2>3, <2>4, <2>5 DEF f
  <1>3. CASE f = <<p>> \o results
    <2>1. <<p>> \in Seq(Nodes) /\ Len(<<p>>) = 1 /\ <<p>>[1] = p
      OBVIOUS
    <2>2. f \in Seq(Nodes) /\ Len(f) = n + 1
          /\ \A i \in 1..(1 + n) : f[i] = IF i <= 1 THEN <<p>>[i] ELSE results[i - 1]
      BY <1>1, <1>3, <2>1, ConcatProperties DEF TypeOK
    <2>3. DOMAIN f = 1..(n + 1)
      BY <2>2, LenProperties
    <2> HIDE DEF f, n
    <2>4. f[1] = p /\ \A i \in 2..(n + 1) : i - 1 \in 1..n /\ f[i] = results[i - 1]
      <3>1. 1 \in 1..(1 + n) /\ f[1] = <<p>>[1]
        BY <1>1, <2>2
      <3>2. \A i \in 2..(n + 1) : i - 1 \in 1..n /\ f[i] = results[i - 1]
        BY <1>1, <2>2
      <3> QED
        BY <2>1, <3>1, <3>2
    <2>5. \A i \in 1..(n + 1) : i = 1 \/ i \in 2..(n + 1)
      BY <1>1
    <2>6. Distinct(f)
      <3> SUFFICES ASSUME NEW i \in 1..(n + 1), NEW j \in 1..(n + 1), f[i] = f[j]
                   PROVE  i = j
        BY <2>3 DEF Distinct
      <3>1. CASE i = 1 /\ j # 1
        BY <1>1, <2>4, <2>5, <3>1
      <3>2. CASE j = 1 /\ i # 1
        BY <1>1, <2>4, <2>5, <3>2
      <3>3. CASE i \in 2..(n + 1) /\ j \in 2..(n + 1)
        <4>1. i - 1 = j - 1
          BY <1>1, <2>4, <3>3 DEF Distinct
        <4> QED
          BY <4>1
      <3> QED
        BY <2>5, <3>1, <3>2, <3>3
    <2>7. \A i \in 1..(n + 1) : f[i] = p \/ \E j \in 1..n : f[i] = results[j]
      BY <2>4, <2>5
    <2>8. f # <<>>
      BY <1>1, <2>2, EmptySeq
    <2> QED
      BY <1>1, <2>2, <2>3, <2>6, <2>7, <2>8 DEF f
  <1> QED
    BY <1>2, <1>3 DEF Inserted

\* What remains of the results when they are output up to the i-th.
LEMMA RestFacts ==
  ASSUME NEW s \in Seq(Nodes), NEW i \in DOMAIN s
  PROVE  LET r == SubSeq(s, i + 1, Len(s))
         IN  /\ s[i] \in Nodes /\ r \in Seq(Nodes) /\ (Distinct(s) => Distinct(r))
             /\ \A j \in DOMAIN r : \E k \in DOMAIN s : r[j] = s[k]
  <1> DEFINE n == Len(s)
             r == SubSeq(s, i + 1, n)
  <1>1. n \in Nat /\ DOMAIN s = 1..n /\ i \in 1..n /\ \A j \in 1..n : s[j] \in Nodes
    BY LenProperties, ElementOfSeq
  <1>2. /\ r \in Seq(Nodes) /\ Len(r) = IF i + 1 <= n THEN n - (i + 1) + 1 ELSE 0
        /\ \A j \in 1..(n - (i + 1) + 1) : r[j] = s[(i + 1) + j - 1]
    <2>1. \A j \in (i + 1)..n : s[j] \in Nodes
      BY <1>1
    <2> HIDE DEF n
    <2> QED
      BY <1>1, <2>1, SubSeqProperties
  <1>3. DOMAIN r = 1..Len(r)
    BY <1>2, LenProperties
  <1> HIDE DEF r, n
  <1>4. ASSUME NEW j \in DOMAIN r
        PROVE  j \in Int /\ i + j \in 1..n /\ r[j] = s[i + j]
    <2>1. j \in 1..(n - (i + 1) + 1)
      BY <1>1, <1>2, <1>3
    <2>2. r[j] = s[(i + 1) + j - 1] /\ (i + 1) + j - 1 = i + j
      BY <1>1, <1>2, <2>1
    <2> QED
      BY <1>1, <2>1, <2>2
  <1>5. Distinct(s) => Distinct(r)
    BY <1>1, <1>4 DEF Distinct
  <1> QED
    BY <1>1, <1>2, <1>4, <1>5 DEF r, n

LEMMA TailFacts ==
  ASSUME NEW s \in Seq(Nodes), s # <<>>
  PROVE  /\ Head(s) \in Nodes /\ Tail(s) \in Seq(Nodes) /\ (Distinct(s) => Distinct(Tail(s)))
         /\ \E k \in DOMAIN s : Head(s) = s[k]
         /\ \A j \in DOMAIN Tail(s) : \E k \in DOMAIN s : Tail(s)[j] = s[k]
  <1>1. Len(s) \in Nat \ {0} /\ DOMAIN s = 1..Len(s)
    BY EmptySeq, LenProperties
  <1> DEFINE r(i) == SubSeq(s, i + 1, Len(s))
  <1>2. 1 \in DOMAIN s /\ Head(s) = s[1] /\ Tail(s) = r(1)
    BY <1>1
  <1>3. \A i \in DOMAIN s :
          /\ s[i] \in Nodes /\ r(i) \in Seq(Nodes) /\ (Distinct(s) => Distinct(r(i)))
          /\ \A j \in DOMAIN r(i) : \E k \in DOMAIN s : r(i)[j] = s[k]
    BY RestFacts
  <1>4. /\ s[1] \in Nodes /\ r(1) \in Seq(Nodes) /\ (Distinct(s) => Distinct(r(1)))
        /\ \A j \in DOMAIN r(1) : \E k \in DOMAIN s : r(1)[j] = s[k]
    BY <1>2, <1>3
  <1> HIDE DEF r
  <1> QED
    BY <1>2, <1>4 DEF Distinct

\* A step that leaves the stack, or part of it, and moves the inputs forwards.
LEMMA StackStays ==
  ASSUME plan \in Plan, plan' = plan, Path(stack'), left.at <= left'.at,
         stack' \in Seq(Nodes), TypeOK, left' \in Cursor,
         \A i \in DOMAIN stack' : \E j \in DOMAIN stack : stack'[i] = stack[j],
         Taken(stack)
  PROVE  Path(stack)' /\ Taken(stack)'
  <1>1. tree' = tree
    BY DEF tree
  <1>2. Path(stack)'
    BY <1>1 DEF Path
  <1>3. ASSUME NEW i \in DOMAIN stack' PROVE stack'[i] \in plan.left /\ stack'[i] < left'.at
    <2>1. PICK j \in DOMAIN stack : stack'[i] = stack[j]
      BY <1>3
    <2>2. stack[j] \in plan.left /\ stack[j] < left.at /\ stack[j] \in Int
      BY PlanFacts, NodesAssumption DEF Taken, Nodes
    <2>3. left.at \in Int /\ left'.at \in Int
      BY NodesAssumption DEF TypeOK, Cursor, Start, End
    <2> QED
      BY <2>1, <2>2, <2>3
  <1> QED
    BY <1>2, <1>3 DEF Taken

LEMMA ChildAsk ==
  ASSUME Inv, ChildInv, kind \in ToChildren, NEW t \in 0..N, Ask(t)
  PROVE  ChildInv'
  <1> USE DEF Inv
  <1>1. /\ DescendantCall(t) /\ UNCHANGED buffers /\ plan' = plan /\ plan \in Plan
        /\ left' \in Cursor /\ right' \in Cursor
    <2>1. DescendantCall(t)
      BY DEF Ask, ToChildren, ToParents, IntersectCall, UnionCall, ExceptCall,
             AncestorCall, AttributeCall, ParentCall
    <2>2. Inv'
      BY AskStep
    <2> QED
      BY <2>1, <2>2 DEF DescendantCall, Ask, TypeOK
  <1>2. left.at <= left'.at /\ right.at <= right'.at
    <2>1. left.at \in Int /\ right.at \in Int
      BY CursorPlace
    <2>2. left'.at \in Int /\ right'.at \in Int
      BY <1>1, NodesAssumption DEF Cursor, Start, End
    <2>3. /\ \A d \in Moves(plan.left, left, t) : left.at < d.at
          /\ \A d \in Moves(plan.left, left, 0) : left.at < d.at
      <3>1. 0 \in 0..N
        BY NodesAssumption
      <3> QED
        BY <1>1, <3>1, MovesFacts, PlanFacts DEF TypeOK
    <2>4. \A d \in Moves(plan.right, right, t) : right.at < d.at
      BY <1>1, MovesFacts, PlanFacts DEF TypeOK
    <2>5. CASE begun
      <3>1. MoveRight(t)
        BY <1>1, <2>5 DEF DescendantCall
      <3> QED
        BY <2>1, <2>2, <2>4, <3>1 DEF MoveRight
    <2>6. CASE ~begun /\ t = 0
      <3>1. MoveBoth(t)
        BY <1>1, <2>6 DEF DescendantCall
      <3>2. /\ left.at < left'.at
            /\ \/ right' = right
               \/ left'.at # End /\ right' \in Moves(plan.right, right, tree.key[left'.at])
        BY <2>3, <3>1 DEF MoveBoth
      <3>3. left'.at # End => tree.key[left'.at] \in 0..N
        BY <1>1, <3>1, BothMove, KeyTarget, PlanFacts
      <3>4. right' = right \/ right.at < right'.at
        BY <1>1, <3>2, <3>3, MovesFacts, PlanFacts DEF TypeOK
      <3> QED
        BY <2>1, <2>2, <3>2, <3>4
    <2>7. CASE ~begun /\ t # 0
      <3>1. right' \in Moves(plan.right, right, t)
            /\ left' \in IF right'.at = End THEN {left} ELSE Moves(plan.left, left, 0)
        BY <1>1, <2>7 DEF DescendantCall
      <3> QED
        BY <2>1, <2>2, <2>3, <2>4, <3>1
    <2> QED
      BY <2>5, <2>6, <2>7
  <1>3. stack' = stack /\ results' = results /\ stack \in Seq(Nodes)
    BY <1>1 DEF buffers, TypeOK
  <1>4. Path(stack)' /\ Taken(stack)'
    BY <1>1, <1>2, <1>3, StackStays DEF ChildInv
  <1>5. \A i \in DOMAIN stack : stack[i] < right'.at
    <2>1. \A i \in DOMAIN stack : stack[i] \in Int
      BY <1>1, PlanFacts, NodesAssumption DEF ChildInv, Taken, Nodes
    <2>2. right.at \in Int /\ right'.at \in Int
      BY <1>1, NodesAssumption DEF TypeOK, Cursor, Start, End
    <2> QED
      BY <1>2, <2>1, <2>2 DEF ChildInv
  <1> QED
    BY <1>3, <1>4, <1>5 DEF ChildInv

LEMMA ChildStep ==
  ASSUME Inv, ChildInv, kind \in ToChildren, Join
  PROVE  ChildInv'
  <1> USE DEF Inv
  <1>1. /\ ChildJoin /\ results' = results /\ plan' = plan /\ plan \in Plan /\ begun
        /\ pc = "join" /\ left' \in Cursor /\ right' \in Cursor /\ kind # "parent"
        /\ left.at \in plan.left \cup {End} /\ right.at \in plan.right /\ right.at \in Nodes
        /\ stack \in Seq(Nodes) /\ WellFormed(tree) /\ tree' = tree
    <2>1. ChildJoin /\ pc = "join" /\ plan' = plan
      BY DEF Join, ToChildren, ToParents, Merges, Lineal, IntersectJoin, UnionJoin,
             ExceptJoin, LinealJoin, AttributeJoin, ParentOfAttributeJoin, ParentJoin
    <2>2. Inv'
      BY JoinStep
    <2>3. plan \in Plan /\ begun /\ kind \notin ToParents /\ kind \notin {"union", "except"}
          /\ left' \in Cursor /\ right' \in Cursor
      BY <2>1, <2>2 DEF TypeOK, Fresh, ToChildren, ToParents
    <2>4. left.at \in plan.left \cup {End} /\ right.at \in plan.right
      BY <2>1, <2>3 DEF InputsUsable
    <2> QED
      BY <2>1, <2>3, <2>4, PlanFacts DEF ChildJoin, TypeOK, tree, ToParents
  <1> DEFINE cmp == IF left.at = End THEN -1
                    ELSE IsDescendantOf(tree, right.at, left.at, FALSE)
  <1>2. PICK st \in Unwound(stack, right.at) :
          \/ cmp < 0 /\ TryDescendant(st) /\ stack' = IF pc' = "done" THEN <<>> ELSE st
          \/ cmp > 0 /\ PassAncestor /\ stack' = IF pc' = "done" THEN <<>> ELSE st
          \/ cmp = 0 /\ Push(st)
    BY <1>1 DEF ChildJoin
  <1>3. /\ st \in Seq(Nodes) /\ Path(st)
        /\ \A i \in DOMAIN st :
             i \in DOMAIN stack /\ st[i] = stack[i] /\ st[i] \in tree.above[right.at]
    <2>1. Path(stack) /\ \A i \in DOMAIN stack : stack[i] < right.at
      BY DEF ChildInv
    <2> QED
      BY <1>1, <2>1, UnwoundFacts
  <1>4. left.at \in Int /\ right.at \in Int /\ left'.at \in Int /\ right'.at \in Int
    BY <1>1, NodesAssumption DEF TypeOK, Cursor, Start, End
  <1>5. \A i \in DOMAIN st : st[i] < left.at /\ st[i] \in plan.left /\ st[i] \in Int
                             /\ st[i] < right.at
    BY <1>1, <1>3, PlanFacts, NodesAssumption DEF ChildInv, Taken, Nodes
  <1>6. left.at # End => left.at \in Nodes /\ left.at \in plan.left
    BY <1>1, PlanFacts
  <1>7. ASSUME stack' \in {<<>>, st}, left.at <= left'.at, right.at <= right'.at
        PROVE  ChildInv'
    <2>1. Path(stack)'
      BY <1>1, <1>3, <1>7 DEF Path
    <2>2. Taken(stack)'
      BY <1>1, <1>3, <1>4, <1>5, <1>7 DEF Taken
    <2>3. \A i \in DOMAIN stack' : stack'[i] < right'.at
      BY <1>3, <1>4, <1>5, <1>7
    <2> QED
      BY <1>1, <2>1, <2>2, <2>3 DEF ChildInv
  <1>8. /\ left.at = End => ~(cmp > 0) /\ cmp # 0
        /\ left.at # End => cmp = IsDescendantOf(tree, right.at, left.at, FALSE)
    <2>1. left.at = End => ~(cmp > 0) /\ cmp # 0
      OBVIOUS
    <2>2. left.at # End => cmp = IsDescendantOf(tree, right.at, left.at, FALSE)
      OBVIOUS
    <2> QED
      BY <2>1, <2>2
  <1> HIDE DEF cmp
  <1>9. CASE cmp < 0 /\ TryDescendant(st) /\ stack' = IF pc' = "done" THEN <<>> ELSE st
    <2>1. \/ UNCHANGED inputs
          \/ left.at # End /\ RightToLeft
          \/ MoveRight(0)
      BY <1>9 DEF TryDescendant
    <2>2. UNCHANGED inputs \/ \E t \in 0..N : MoveRight(t)
      BY <1>1, <1>6, <2>1, Targets, NodesAssumption
    <2>3. left.at <= left'.at /\ right.at <= right'.at
      BY <1>1, <1>4, <2>2, RightMoves DEF inputs
    <2> QED
      BY <1>7, <1>9, <2>3
  <1>10. CASE cmp > 0 /\ PassAncestor /\ stack' = IF pc' = "done" THEN <<>> ELSE st
    <2>1. left.at # End
      BY <1>8, <1>10
    <2>2. \E t \in 0..N : MoveLeft(t)
      BY <1>1, <1>6, <1>10, <2>1, Targets
    <2>3. left.at <= left'.at /\ right.at <= right'.at
      BY <1>1, <1>4, <2>2, LeftMoves
    <2> QED
      BY <1>7, <1>10, <2>3
  <1>11. CASE cmp = 0 /\ Push(st)
    <2>1. left.at # End /\ IsDescendantOf(tree, right.at, left.at, FALSE) = 0
      BY <1>8, <1>11
    <2>2. left.at \in tree.above[right.at]
      BY <1>1, <1>6, <2>1, DescendantFacts
    <2>3. /\ stack' = Append(st, left.at) /\ right' = right
          /\ left.at < left'.at
      BY <1>3, <1>6, <1>11, <2>1, PushKeeps DEF Push
    <2>4. Encloses(st, right.at) /\ left.at \in AboveOrAt(right.at)
      BY <1>3, <2>2 DEF Encloses, AboveOrAt
    <2>5. /\ Path(Append(st, left.at))
          /\ \A i \in DOMAIN Append(st, left.at) : Append(st, left.at)[i] = left.at
               \/ (i \in DOMAIN st /\ Append(st, left.at)[i] = st[i])
      BY <1>1, <1>3, <1>5, <2>4, PushPath
    <2>6. left.at < right.at
      BY <1>1, <2>2, Nesting
    <2>7. \A i \in DOMAIN stack' : /\ stack'[i] \in plan.left /\ stack'[i] < left'.at
                                   /\ stack'[i] < right'.at
      BY <1>4, <1>5, <1>6, <2>1, <2>3, <2>5, <2>6
    <2>8. Path(stack)'
      BY <1>1, <2>3, <2>5 DEF Path
    <2> QED
      BY <1>1, <2>7, <2>8 DEF ChildInv, Taken
  <1> QED
    BY <1>2, <1>9, <1>10, <1>11
-----------------------------------------------------------------------------
(* The parent joins.                                                       *)

LEMMA ParentAnswers ==
  ASSUME kind \in ToParents
  PROVE  Answer(plan) = {a \in plan.left : \E d \in plan.right : tree.parent[d] = a}
  <1>1. CASE plan.kind = "parent"
    BY <1>1 DEF Answer, Placed, Merges, ToParents, ToChildren, tree
  <1>2. CASE plan.kind = "parent_of_child"
    BY <1>2 DEF Answer, Placed, Merges, ToParents, ToChildren, tree
  <1> QED
    BY <1>1, <1>2 DEF kind, ToParents

\* What a parent join takes from the stack is the parent of the child.
LEMMA TakenIsParent ==
  ASSUME TypeOK, kind \in ToParents, Sure, NEW c \in plan.right,
         Encloses(stack, c), Path(stack), Taken(stack),
         NEW i, i = IF kind = "parent" THEN ParentAt(c) ELSE ParentOfChildAt(c), i # 0
  PROVE  stack[i] \in Answer(plan)
  <1> DEFINE back == Len(stack)
             above(j) == tree.level[stack[j]] = tree.level[c] - 1
  <1>1. /\ WellFormed(tree) /\ c \in Nodes /\ tree = Forests[plan.forest]
        /\ back \in Nat /\ DOMAIN stack = 1..back
        /\ \A j \in 1..back : stack[j] \in plan.left /\ stack[j] \in Nodes
                              /\ stack[j] \in AboveOrAt(c)
    BY PlanFacts, LenProperties DEF TypeOK, Taken, Encloses, tree
  <1>2. i \in 1..back
    BY <1>1, ParentIndex
  <1>3. tree.parent[c] = stack[i] => stack[i] \in Answer(plan)
    BY <1>1, <1>2, ParentAnswers
  <1>4. CASE kind = "parent_of_child"
    <2>1. i = back /\ above(back)
      BY <1>4 DEF ParentOfChildAt
    <2>2. tree.type[c] # "attribute"
      BY <1>1, <1>4 DEF Sure, Joinable, kind
    <2>3. stack[back] \in tree.above[c]
      BY <1>1, <1>2, <1>4, <2>1 DEF AboveOrAt
    <2> QED
      BY <1>1, <1>3, <2>1, <2>2, <2>3, ParentFacts
  <1>5. CASE kind = "parent"
    <2>1. \A j \in 1..back : tree.type[stack[j]] # "attribute"
      BY <1>1, <1>5 DEF Sure, Joinable, kind
    <2>2. i = ParentAt(c) /\ i # 0
      BY <1>5
    <2>3. CASE tree.level[stack[back]] = tree.level[c] /\ tree.type[c] = "attribute"
      <3>1. i = back
        BY <2>2, <2>3 DEF ParentAt
      <3>2. stack[back] # c /\ stack[back] \in tree.above[c]
        BY <1>1, <1>2, <2>1, <2>3, <3>1 DEF AboveOrAt
      <3> QED
        BY <1>1, <1>3, <2>3, <3>1, <3>2, ParentFacts
    <2>4. CASE tree.level[stack[back]] = tree.level[c] /\ tree.type[c] # "attribute"
      <3>1. i = back - 1 /\ back > 1 /\ above(back - 1)
        BY <2>2, <2>4 DEF ParentAt
      <3>2. stack[back] = c
        <4>1. stack[back] \in tree.above[c] => tree.level[stack[back]] < tree.level[c]
          BY <1>1, <2>4, ParentFacts
        <4>2. tree.level[c] \in Int
          BY <1>1, NodeFacts
        <4>3. stack[back] \in AboveOrAt(c)
          BY <1>1, <3>1
        <4> QED
          BY <2>4, <4>1, <4>2, <4>3 DEF AboveOrAt
      <3>3. back - 1 \in 1..back /\ back \in 1..back /\ back - 1 < back
        BY <1>1, <3>1
      <3>4. stack[back - 1] \in tree.above[c]
        BY <1>1, <3>2, <3>3 DEF Path
      <3> QED
        BY <1>1, <1>3, <2>4, <3>1, <3>4, ParentFacts
    <2>5. CASE tree.level[stack[back]] # tree.level[c]
      <3>1. i = back /\ above(back)
        BY <2>2, <2>5 DEF ParentAt
      <3>2. stack[back] \in tree.above[c]
        BY <1>1, <1>2, <2>5, <3>1 DEF AboveOrAt
      <3>3. CASE tree.type[c] # "attribute"
        BY <1>1, <1>3, <3>1, <3>2, <3>3, ParentFacts
      <3>4. CASE tree.type[c] = "attribute"
        <4>1. stack[back] = tree.parent[tree.parent[c]]
          BY <1>1, <3>1, <3>2, <3>4, ParentFacts
        <4> QED
          BY <1>1, <1>2, <1>5, <3>1, <3>4, <4>1 DEF Sure, MayTakeGrandparent, kind
      <3> QED
        BY <3>3, <3>4
    <2> QED
      BY <2>3, <2>4, <2>5
  <1> QED
    BY <1>4, <1>5 DEF ToParents

\* The parents delivered together follow all that were delivered before.
Follows ==
  pc' = "ready" => /\ furthest < furthest'
                   /\ \A i \in DOMAIN results' : furthest < results'[i]

LEMMA TakenNodes ==
  ASSUME TypeOK, NEW s, Taken(s), NEW i \in DOMAIN s
  PROVE  s[i] \in Nodes /\ s[i] \in plan.left /\ s[i] \in Int /\ s[i] < left.at /\ s[i] # End
  <1>1. plan.left \subseteq Nodes
    BY PlanFacts DEF TypeOK
  <1> QED
    BY <1>1, NodesAssumption DEF Taken, Nodes, End

LEMMA PlanStays ==
  ASSUME plan' = plan
  PROVE  /\ tree' = tree /\ kind' = kind /\ (Sure' <=> Sure)
         /\ Answer(plan)' = Answer(plan)
  BY DEF tree, kind, Sure, Joinable, MayTakeGrandparent

\* A turn that outputs the results leaves no stack.
LEMMA OutputFollows ==
  ASSUME Inv, kind \in ToParents, pc = "join", begun, plan' = plan, begun' = begun,
         furthest < left.at, NEW found, found # <<>>,
         found \in Seq(Nodes), Taken(found), Distinct(found), Coming(found), Sound(found),
         Output(found), stack' = <<>>, left' \in Cursor, left.at <= left'.at
  PROVE  ParentInv' /\ Follows
  <1> USE DEF Inv
  <1>1. /\ furthest' = Highest(furthest, Head(found)) /\ pc' = "ready"
        /\ results' = Tail(found)
    BY DEF Output, Yield
  <1>2. /\ Head(found) \in Nodes /\ Tail(found) \in Seq(Nodes) /\ Distinct(Tail(found))
        /\ \E k \in DOMAIN found : Head(found) = found[k]
        /\ \A j \in DOMAIN Tail(found) : \E k \in DOMAIN found : Tail(found)[j] = found[k]
    BY TailFacts
  <1>3. furthest \in Int /\ left.at \in Int /\ left'.at \in Int
    BY NodesAssumption DEF TypeOK, Cursor, Start, End
  <1>4. \A k \in DOMAIN found : /\ found[k] \in plan.left /\ found[k] \in Int
                                /\ found[k] < left.at /\ furthest < found[k]
    BY TakenNodes DEF Coming
  <1>5. furthest < Head(found) /\ Head(found) < left'.at /\ furthest' = Head(found)
    BY <1>1, <1>2, <1>3, <1>4 DEF Highest
  <1>6. \A j \in DOMAIN results' : /\ results'[j] \in plan.left /\ results'[j] < left'.at
                                   /\ furthest < results'[j]
    BY <1>1, <1>2, <1>3, <1>4
  <1>7. Distinct(results)'
    BY <1>1, <1>2 DEF Distinct
  <1>8. Sound(results)' /\ (Sure' => furthest' \in Answer(plan)')
    <2>1. Sure => Head(found) \in Answer(plan)
                  /\ \A j \in DOMAIN Tail(found) : Tail(found)[j] \in Answer(plan)
      BY <1>2 DEF Sound
    <2> QED
      BY <1>1, <1>5, <2>1, PlanStays DEF Sound
  <1>9. Path(stack)' /\ Taken(stack)' /\ Apart(results, stack)'
    BY DEF Path, Taken, Apart
  <1> QED
    BY <1>1, <1>5, <1>6, <1>7, <1>8, <1>9 DEF ParentInv, Follows, Taken

\* The end of the loop outputs the results too.
LEMMA FinishFollows ==
  ASSUME Inv, kind \in ToParents, pc = "join", begun, plan' = plan, begun' = begun,
         furthest < left.at, NEW found,
         found \in Seq(Nodes), Taken(found), Distinct(found), Coming(found), Sound(found),
         Finish(found)
  PROVE  ParentInv' /\ Follows
  <1> USE DEF Inv
  <1>1. /\ left' \in Cursor /\ left'.at = End /\ stack' = <<>> /\ left.at <= left'.at
    BY NodesAssumption DEF Finish, TypeOK, Cursor, Start, End
  <1>2. CASE found # <<>>
    <2>1. Output(found)
      BY <1>2 DEF Finish
    <2> QED
      BY <1>1, <1>2, <2>1, OutputFollows
  <1>3. CASE found = <<>>
    <2>1. results' = <<>> /\ pc' = "done"
      BY <1>3 DEF Finish, Fail
    <2> QED
      BY <1>1, <2>1 DEF ParentInv, Follows, Path, Taken, Apart, Distinct, Sound
  <1> QED
    BY <1>2, <1>3

\* A turn that goes on with a stack above the next child.
LEMMA AgainFollows ==
  ASSUME Inv, ParentInv, kind \in ToParents, pc = "join", begun, plan' = plan, begun' = begun,
         Again, left' \in Cursor, left.at <= left'.at, results' \in Seq(Nodes),
         Distinct(results)', Apart(results, stack)', Sound(results)', Path(stack)',
         Encloses(stack, right.at)',
         \A i \in DOMAIN results' : results'[i] \in plan.left /\ results'[i] < left'.at
                                    /\ furthest < results'[i],
         \A i \in DOMAIN stack' : stack'[i] \in plan.left /\ stack'[i] < left'.at
                                  /\ furthest < stack'[i]
  PROVE  ParentInv' /\ Follows
  <1> USE DEF Inv
  <1>1. pc' = "join" /\ furthest' = furthest
    BY DEF Again
  <1>2. furthest < left'.at
    BY NodesAssumption DEF TypeOK, Cursor, Start, End, ParentInv
  <1>3. Sure' => furthest' \in (Answer(plan) \cup {Start})'
    BY <1>1, PlanStays DEF ParentInv
  <1> QED
    BY <1>1, <1>2, <1>3 DEF ParentInv, Follows, Taken, Coming

LEMMA TakeParentFollows ==
  ASSUME Inv, ParentInv, kind \in ToParents, pc = "join", begun, plan' = plan,
         begun' = begun, right.at \in plan.right, left' \in Cursor, left.at <= left'.at,
         TakeParent
  PROVE  ParentInv' /\ Follows
  <1> USE DEF Inv
  <1> DEFINE i == IF kind = "parent" THEN ParentAt(right.at) ELSE ParentOfChildAt(right.at)
             found == IF i = 0 THEN results ELSE Inserted(stack[i])
             rest == Without(stack, i)
             target == IF rest = <<>> THEN tree.key[left.at] ELSE 0
  <1>1. /\ plan \in Plan /\ WellFormed(tree) /\ right.at \in Nodes
        /\ stack \in Seq(Nodes) /\ results \in Seq(Nodes) /\ DOMAIN stack = 1..Len(stack)
        /\ i \in 0..Len(stack)
    BY PlanFacts, ParentIndex, LenProperties DEF TypeOK
  <1>2. /\ Path(stack) /\ Taken(stack) /\ Taken(results) /\ Distinct(results)
        /\ Apart(results, stack) /\ Sound(results) /\ Encloses(stack, right.at)
        /\ Coming(stack) /\ Coming(results) /\ furthest < left.at
    BY DEF ParentInv
  <1>3. \/ rest = <<>> /\ found # <<>> /\ Output(found) /\ stack' = rest
        \/ Finish(found)
        \/ /\ rest = <<>> => left.at # End
           /\ \E c \in Moves(plan.right, right, target) :
                IF c.at = End THEN Finish(found)
                ELSE /\ right' = c /\ stack' \in Unwound(rest, c.at)
                     /\ IF stack' = <<>> /\ found # <<>> THEN Output(found)
                        ELSE Again /\ results' = found
    BY DEF TakeParent, MayOutput
  <1>4. i # 0 => /\ i \in DOMAIN stack /\ stack[i] \in Nodes /\ stack[i] \in plan.left
                 /\ stack[i] < left.at /\ furthest < stack[i]
                 /\ \A j \in DOMAIN results : results[j] # stack[i]
    BY <1>1, <1>2, TakenNodes DEF Coming, Apart
  <1>5. i # 0 /\ Sure => stack[i] \in Answer(plan)
    BY <1>2, TakenIsParent
  <1>6. /\ rest \in Seq(Nodes) /\ Path(rest)
        /\ \A k \in DOMAIN rest : \E j \in DOMAIN stack :
             rest[k] = stack[j] /\ (i # 0 => stack[j] # stack[i])
    BY <1>1, <1>2, WithoutFacts
  <1>7. /\ found \in Seq(Nodes) /\ Distinct(found)
        /\ \A k \in DOMAIN found : \/ i # 0 /\ found[k] = stack[i]
                                   \/ \E j \in DOMAIN results : found[k] = results[j]
    <2>1. CASE i = 0
      BY <1>1, <1>2, <2>1
    <2>2. CASE i # 0
      BY <1>1, <1>2, <1>4, <2>2, InsertedFacts
    <2> QED
      BY <2>1, <2>2
  <1> HIDE DEF i, found, rest
  <1>8. Taken(found) /\ Coming(found)
    BY <1>2, <1>4, <1>7 DEF Taken, Coming
  <1>9. Sound(found)
    BY <1>2, <1>5, <1>7 DEF Sound
  <1>10. Taken(rest) /\ Coming(rest) /\ Encloses(rest, right.at)
    BY <1>2, <1>6 DEF Taken, Coming, Encloses
  <1>11. Apart(found, rest)
    BY <1>2, <1>4, <1>6, <1>7 DEF Apart
  <1>12. CASE rest = <<>> /\ found # <<>> /\ Output(found) /\ stack' = rest
    BY <1>2, <1>7, <1>8, <1>9, <1>12, OutputFollows
  <1>13. CASE Finish(found)
    BY <1>2, <1>7, <1>8, <1>9, <1>13, FinishFollows
  <1>14. ASSUME rest = <<>> => left.at # End,
                NEW c \in Moves(plan.right, right, target), c.at # End,
                right' = c, stack' \in Unwound(rest, c.at),
                IF stack' = <<>> /\ found # <<>> THEN Output(found)
                ELSE Again /\ results' = found
         PROVE  ParentInv' /\ Follows
    <2>1. target \in 0..N
      <3>1. left.at # End => left.at \in Nodes
        BY <1>1, PlanFacts DEF InputsUsable
      <3> QED
        BY <1>1, <1>14, <3>1, KeyTarget, NodesAssumption
    <2> HIDE DEF target
    <2>2. c.at \in Nodes /\ right.at < c.at /\ c.at \in plan.right
      BY <1>1, <1>14, <2>1, MovesFacts, PlanFacts DEF TypeOK
    <2>3. \A k \in DOMAIN rest : rest[k] < c.at
      <3> SUFFICES ASSUME NEW k \in DOMAIN rest PROVE rest[k] < c.at
        OBVIOUS
      <3>1. rest[k] \in tree.above[right.at] \/ rest[k] = right.at
        BY <1>10 DEF Encloses, AboveOrAt
      <3>2. rest[k] \in tree.above[right.at] => rest[k] \in Nodes /\ rest[k] < right.at
        BY <1>1, Nesting
      <3> QED
        BY <1>1, <2>2, <3>1, <3>2, NodesAssumption DEF Nodes
    <2>4. /\ stack' \in Seq(Nodes)
          /\ \A k \in DOMAIN stack' : k \in DOMAIN rest /\ stack'[k] = rest[k]
                                      /\ stack'[k] \in tree.above[c.at]
          /\ \A j, k \in DOMAIN stack' : j < k => stack'[j] \in tree.above[stack'[k]]
      <3>1. \A st \in Unwound(rest, c.at) :
              /\ st \in Seq(Nodes) /\ Path(st)
              /\ \A k \in DOMAIN st : k \in DOMAIN rest /\ st[k] = rest[k]
                                      /\ st[k] \in tree.above[c.at]
        BY <1>1, <1>6, <2>2, <2>3, UnwoundFacts
      <3> QED
        BY <1>14, <3>1 DEF Path
    <2>5. Path(stack)' /\ Encloses(stack, right.at)'
      BY <1>14, <2>4, PlanStays DEF Path, Encloses, AboveOrAt
    <2>6. CASE stack' = <<>> /\ found # <<>> /\ Output(found)
      BY <1>2, <1>7, <1>8, <1>9, <2>6, OutputFollows
    <2>7. CASE Again /\ results' = found
      <3>1. Distinct(results)' /\ Sound(results)'
        BY <1>7, <1>9, <2>7, PlanStays DEF Distinct, Sound
      <3>2. Apart(results, stack)'
        BY <1>11, <2>4, <2>7 DEF Apart
      <3>3. left.at \in Int /\ left'.at \in Int
        BY NodesAssumption DEF TypeOK, Cursor, Start, End
      <3>4. \A k \in DOMAIN results' : results'[k] \in plan.left /\ results'[k] < left'.at
                                       /\ furthest < results'[k]
        BY <1>8, <2>7, <3>3, TakenNodes DEF Coming
      <3>5. \A k \in DOMAIN stack' : stack'[k] \in plan.left /\ stack'[k] < left'.at
                                     /\ furthest < stack'[k]
        BY <1>10, <2>4, <3>3, TakenNodes DEF Coming
      <3> QED
        BY <1>7, <2>5, <2>7, <3>1, <3>2, <3>4, <3>5, AgainFollows
    <2> QED
      BY <1>14, <2>6, <2>7
  <1> QED
    BY <1>3, <1>12, <1>13, <1>14

LEMMA ParentAsk ==
  ASSUME Inv, ParentInv, kind \in ToParents, NEW t \in 0..N, Ask(t)
  PROVE  ParentInv'
  <1> USE DEF Inv
  <1> DEFINE good == {i \in DOMAIN results : t <= tree.key[results[i]]}
  <1>1. /\ ParentCall(t) /\ stack' = stack /\ plan' = plan /\ pc = "ready" /\ begun'
        /\ stack = <<>> /\ kind' = kind /\ Answer(plan)' = Answer(plan) /\ (Sure' <=> Sure)
        /\ results \in Seq(Nodes)
    <2>1. ParentCall(t) /\ plan' = plan /\ pc = "ready" /\ begun'
      BY DEF Ask, ToParents, ToChildren, IntersectCall, UnionCall, ExceptCall,
             AncestorCall, AttributeCall, DescendantCall
    <2> QED
      BY <2>1, PlanStays DEF ParentCall, ParentInv, TypeOK
  <1>2. furthest \in Int /\ left.at \in Int
    BY NodesAssumption DEF TypeOK, Cursor, Start, End
  <1>3. Path(stack)' /\ Taken(stack)' /\ Apart(results, stack)'
    BY <1>1 DEF Path, Taken, Apart
  <1>4. CASE ~begun /\ MoveBoth(t) /\ UNCHANGED results
    <2>1. furthest = Start /\ results = <<>>
      BY <1>4 DEF ParentInv
    <2>2. left.at < left'.at /\ (Fail \/ Again) /\ left' \in Cursor
      BY <1>4, BothMove
    <2>3. Start < left'.at
      BY <2>2, NodesAssumption DEF TypeOK, Cursor, Start, End
    <2>4. pc' # "done" => furthest' = Start
      BY <2>1, <2>2 DEF Fail, Again
    <2> QED
      BY <1>1, <1>3, <1>4, <2>1, <2>2, <2>3, <2>4
         DEF ParentInv, Taken, Distinct, Sound, Encloses, Coming, Fail, Again
  <1>5. CASE /\ begun
             /\ \E i \in good : /\ Yield(results[i])
                                /\ results' = SubSeq(results, i + 1, Len(results))
             /\ UNCHANGED inputs
    <2>1. PICK i \in DOMAIN results :
            Yield(results[i]) /\ results' = SubSeq(results, i + 1, Len(results))
      BY <1>5
    <2>2. /\ results[i] \in Nodes /\ (Distinct(results) => Distinct(results)')
          /\ \A j \in DOMAIN results' : \E k \in DOMAIN results : results'[j] = results[k]
      <3> DEFINE r == SubSeq(results, i + 1, Len(results))
      <3>1. /\ results[i] \in Nodes /\ (Distinct(results) => Distinct(r))
            /\ \A j \in DOMAIN r : \E k \in DOMAIN results : r[j] = results[k]
        BY <1>1, RestFacts
      <3> HIDE DEF r
      <3>2. results' = r
        BY <2>1 DEF r
      <3> QED
        BY <3>1, <3>2 DEF Distinct
    <2>3. results[i] < left.at /\ results[i] \in Int
      BY TakenNodes DEF ParentInv
    <2>4. furthest' \in {furthest, results[i]} /\ pc' = "ready"
      BY <2>1 DEF Yield, Highest
    <2>5. furthest' < left'.at
      BY <1>1, <1>5, <2>3, <2>4 DEF ParentInv, inputs
    <2>6. Taken(results)' /\ Sound(results)'
      BY <1>1, <1>5, <2>2 DEF ParentInv, Taken, Sound, inputs
    <2>7. Sure' => furthest' \in (Answer(plan) \cup {Start})'
      BY <1>1, <2>1, <2>4 DEF ParentInv, Sound
    <2> QED
      BY <1>1, <1>3, <2>2, <2>4, <2>5, <2>6, <2>7 DEF ParentInv
  <1>6. CASE /\ begun /\ results' = <<>>
             /\ IF left.at = End THEN Fail /\ UNCHANGED inputs
                ELSE IF tree.key[left.at] < t THEN MoveLeft(t)
                ELSE Again /\ UNCHANGED inputs
    <2>1. Fail \/ (Again /\ left.at <= left'.at)
      <3>1. Fail \/ (Again /\ UNCHANGED inputs) \/ MoveLeft(t)
        BY <1>6
      <3>2. MoveLeft(t) => Fail \/ (Again /\ left.at <= left'.at)
        BY LeftMoves, NodesAssumption DEF TypeOK, Cursor, Start, End
      <3>3. left.at \in Int
        BY <1>2, <1>6
      <3> QED
        BY <3>1, <3>2, <3>3 DEF inputs
    <2>2. Taken(results)' /\ Distinct(results)' /\ Sound(results)' /\ Coming(results)'
      BY <1>6 DEF Taken, Distinct, Sound, Coming
    <2>3. CASE Fail
      BY <1>1, <1>3, <2>2, <2>3 DEF ParentInv, Fail
    <2>4. CASE Again /\ left.at <= left'.at
      <3>1. pc' = "join" /\ furthest' = furthest
        BY <2>4 DEF Again
      <3>2. left' \in Cursor
        BY AskStep DEF TypeOK
      <3>3. furthest' < left'.at
        BY <1>1, <1>6, <2>4, <3>1, <3>2, NodesAssumption
           DEF ParentInv, TypeOK, Cursor, Start, End
      <3>4. Encloses(stack, right.at)' /\ Coming(stack)'
        BY <1>1 DEF Encloses, Coming
      <3> QED
        BY <1>1, <1>3, <2>2, <3>1, <3>3, <3>4 DEF ParentInv
    <2> QED
      BY <2>1, <2>3, <2>4
  <1> QED
    BY <1>1, <1>4, <1>5, <1>6 DEF ParentCall

LEMMA ParentStep ==
  ASSUME Inv, ParentInv, kind \in ToParents, Join
  PROVE  ParentInv' /\ Follows
  <1> USE DEF Inv
  <1> DEFINE orSelf == kind = "parent"
             cmp == IF left.at = End THEN -1
                    ELSE IsDescendantOf(tree, right.at, left.at, orSelf)
  <1>1. /\ ParentJoin /\ plan' = plan /\ plan \in Plan /\ begun /\ begun' = begun
        /\ pc = "join" /\ left' \in Cursor /\ results' \in Seq(Nodes)
        /\ left.at \in plan.left \cup {End} /\ right.at \in plan.right /\ right.at \in Nodes
        /\ stack \in Seq(Nodes) /\ results \in Seq(Nodes) /\ WellFormed(tree)
    <2>1. ParentJoin /\ pc = "join" /\ plan' = plan /\ begun' = begun
      BY DEF Join, ToChildren, ToParents, Merges, Lineal, IntersectJoin, UnionJoin,
             ExceptJoin, LinealJoin, AttributeJoin, ParentOfAttributeJoin, ChildJoin
    <2>2. Inv'
      BY JoinStep
    <2>3. plan \in Plan /\ begun /\ kind \notin {"union", "except"} \cup ToChildren
          /\ left' \in Cursor /\ results' \in Seq(Nodes)
          /\ stack \in Seq(Nodes) /\ results \in Seq(Nodes)
      BY <2>1, <2>2 DEF TypeOK, Fresh, ToChildren, ToParents
    <2>4. left.at \in plan.left \cup {End} /\ right.at \in plan.right
      BY <2>1, <2>3 DEF InputsUsable
    <2> QED
      BY <2>1, <2>3, <2>4, PlanFacts
  <1>2. /\ Path(stack) /\ Taken(stack) /\ Taken(results) /\ Distinct(results)
        /\ Apart(results, stack) /\ Sound(results) /\ Encloses(stack, right.at)
        /\ Coming(stack) /\ Coming(results) /\ furthest < left.at
    BY <1>1 DEF ParentInv
  <1>3. \/ cmp < 0 /\ TakeParent
        \/ cmp > 0 /\ PassAncestor /\ pc' # "done" /\ UNCHANGED buffers
        \/ Finish(results)
        \/ cmp = 0 /\ Push(stack) /\ UNCHANGED results
    BY <1>1 DEF ParentJoin
  <1>4. /\ left.at = End => ~(cmp > 0) /\ cmp # 0
        /\ left.at # End => cmp = IsDescendantOf(tree, right.at, left.at, orSelf)
    <2>1. left.at = End => ~(cmp > 0) /\ cmp # 0
      OBVIOUS
    <2>2. left.at # End => cmp = IsDescendantOf(tree, right.at, left.at, orSelf)
      OBVIOUS
    <2> QED
      BY <2>1, <2>2
  <1> HIDE DEF cmp
  <1>5. left.at # End => left.at \in Nodes /\ left.at \in plan.left
    BY <1>1, PlanFacts
  <1>6. left.at \in Int /\ left'.at \in Int
    BY <1>1, NodesAssumption DEF TypeOK, Cursor, Start, End
  <1>7. CASE TakeParent
    <2>1. left.at <= left'.at
      BY <1>1, <1>6, <1>7, NodesAssumption
         DEF TakeParent, Finish, inputs, TypeOK, Cursor, Start, End
    <2> QED
      BY <1>1, <1>7, <2>1, TakeParentFollows
  <1>8. CASE cmp > 0 /\ PassAncestor /\ pc' # "done" /\ UNCHANGED buffers
    <2>1. left.at # End
      BY <1>4, <1>8
    <2>2. \E t \in 0..N : MoveLeft(t)
      BY <1>1, <1>5, <1>8, <2>1, Targets
    <2>3. left.at <= left'.at /\ right' = right /\ Again
      BY <1>6, <1>8, <2>2, LeftMoves DEF Fail
    <2>4. stack' = stack /\ results' = results
      BY <1>8 DEF buffers
    <2>5. /\ Distinct(results)' /\ Apart(results, stack)' /\ Sound(results)'
          /\ Path(stack)' /\ Encloses(stack, right.at)'
      BY <1>1, <1>2, <2>3, <2>4, PlanStays
         DEF Distinct, Apart, Sound, Path, Encloses, AboveOrAt
    <2>6. \A i \in DOMAIN results' : /\ results'[i] \in plan.left /\ results'[i] < left'.at
                                     /\ furthest < results'[i]
      BY <1>2, <1>6, <2>3, <2>4, TakenNodes DEF Coming
    <2>7. \A i \in DOMAIN stack' : /\ stack'[i] \in plan.left /\ stack'[i] < left'.at
                                   /\ furthest < stack'[i]
      BY <1>2, <1>6, <2>3, <2>4, TakenNodes DEF Coming
    <2> QED
      BY <1>1, <2>3, <2>5, <2>6, <2>7, AgainFollows
  <1>9. CASE Finish(results)
    BY <1>1, <1>2, <1>9, FinishFollows
  <1>10. CASE cmp = 0 /\ Push(stack) /\ UNCHANGED results
    <2>1. left.at # End /\ IsDescendantOf(tree, right.at, left.at, orSelf) = 0
      BY <1>4, <1>10
    <2>2. left.at \in AboveOrAt(right.at)
      BY <1>1, <1>5, <2>1, DescendantFacts DEF AboveOrAt
    <2>3. stack' = Append(stack, left.at) /\ right' = right /\ left.at < left'.at /\ Again
      BY <1>1, <1>5, <1>10, <2>1, PushKeeps DEF Push
    <2>4. \A i \in DOMAIN stack : /\ stack[i] \in plan.left /\ stack[i] \in Int
                                  /\ stack[i] < left.at /\ furthest < stack[i]
      BY <1>2, TakenNodes DEF Coming
    <2>5. /\ Path(Append(stack, left.at)) /\ Encloses(Append(stack, left.at), right.at)
          /\ \A i \in DOMAIN Append(stack, left.at) : Append(stack, left.at)[i] = left.at
               \/ (i \in DOMAIN stack /\ Append(stack, left.at)[i] = stack[i])
      BY <1>1, <1>2, <2>2, <2>4, PushPath
    <2>6. Path(stack)' /\ Encloses(stack, right.at)'
      BY <1>1, <2>3, <2>5, PlanStays DEF Path, Encloses, AboveOrAt
    <2>7. Distinct(results)' /\ Sound(results)'
      BY <1>1, <1>2, <1>10, PlanStays DEF Distinct, Sound
    <2>8. \A i \in DOMAIN results : /\ results[i] \in plan.left /\ results[i] \in Int
                                    /\ results[i] < left.at /\ furthest < results[i]
      BY <1>2, TakenNodes DEF Coming
    <2>9. Apart(results, stack)'
      <3> SUFFICES ASSUME NEW i \in DOMAIN results, NEW j \in DOMAIN stack'
                   PROVE  results[i] # stack'[j]
        BY <1>10 DEF Apart
      <3>1. results[i] < left.at /\ results[i] \in Int
        BY <2>8
      <3>2. stack'[j] = left.at \/ (j \in DOMAIN stack /\ stack'[j] = stack[j])
        BY <2>3, <2>5
      <3> QED
        BY <1>2, <1>6, <3>1, <3>2 DEF Apart
    <2>10. \A i \in DOMAIN results' : /\ results'[i] \in plan.left /\ results'[i] < left'.at
                                      /\ furthest < results'[i]
      BY <1>6, <1>10, <2>3, <2>8
    <2>11. \A i \in DOMAIN stack' : /\ stack'[i] \in plan.left /\ stack'[i] < left'.at
                                    /\ furthest < stack'[i]
      BY <1>2, <1>5, <1>6, <2>1, <2>3, <2>4, <2>5
    <2>12. left.at <= left'.at
      BY <1>6, <2>3
    <2> QED
      BY <1>1, <2>3, <2>6, <2>7, <2>9, <2>10, <2>11, <2>12, AgainFollows
  <1> QED
    BY <1>3, <1>7, <1>8, <1>9, <1>10
-----------------------------------------------------------------------------
(* The buffers of all joins.                                               *)

LEMMA BufferInit == Init => BufferInv
  <1> SUFFICES ASSUME Init PROVE BufferInv
    OBVIOUS
  <1>1. stack = <<>> /\ results = <<>> /\ ~begun /\ pc = "ready" /\ furthest = Start
    BY DEF Init
  <1> QED
    BY <1>1 DEF BufferInv, ChildInv, ParentInv, Path, Taken, Distinct, Apart, Sound

LEMMA BufferStep ==
  ASSUME Inv, BufferInv, [Next]_vars
  PROVE  BufferInv' /\ (kind \in ToParents /\ pc = "join" /\ ~UNCHANGED vars => Follows)
  <1>1. CASE UNCHANGED vars
    <2>1. /\ plan' = plan /\ stack' = stack /\ results' = results /\ left' = left
          /\ right' = right /\ pc' = pc /\ furthest' = furthest /\ begun' = begun
      BY <1>1 DEF vars, inputs, buffers
    <2>2. (ChildInv => ChildInv') /\ (ParentInv => ParentInv')
      BY <2>1, PlanStays
         DEF ChildInv, ParentInv, Path, Taken, Distinct, Apart, Sound, Encloses,
             AboveOrAt, Coming
    <2> QED
      BY <1>1, <2>1, <2>2, PlanStays DEF BufferInv
  <1>2. ASSUME ~UNCHANGED vars
        PROVE  /\ plan' = plan
               /\ (\E t \in 0..N : Ask(t)) \/ (Join /\ pc = "join")
    BY <1>2 DEF Next, Ask, Join, Deleted
  <1>3. CASE ~UNCHANGED vars /\ kind \in ToChildren
    <2>1. ChildInv' /\ kind' = kind
      BY <1>2, <1>3, ChildAsk, ChildStep, PlanStays DEF BufferInv
    <2> QED
      BY <1>3, <2>1 DEF BufferInv, ToChildren, ToParents
  <1>4. CASE ~UNCHANGED vars /\ kind \in ToParents
    <2>1. ParentInv' /\ kind' = kind /\ (pc = "join" => Follows)
      BY <1>2, <1>4, ParentAsk, ParentStep, PlanStays DEF BufferInv, Ask
    <2> QED
      BY <1>4, <2>1 DEF BufferInv, ToChildren, ToParents
  <1>5. CASE ~UNCHANGED vars /\ kind \notin ToChildren \cup ToParents
    <2>1. UNCHANGED buffers
      BY <1>2, <1>5
         DEF Ask, IntersectCall, UnionCall, ExceptCall, AncestorCall, DescendantCall,
             AttributeCall, ParentCall, Join, IntersectJoin, UnionJoin, ExceptJoin,
             LinealJoin, AttributeJoin, ParentOfAttributeJoin, MeetAtElement, ChildJoin,
             ParentJoin, Lineal, Merges, ToChildren, ToParents
    <2> QED
      BY <1>2, <1>5, <2>1, PlanStays DEF BufferInv, buffers
  <1> QED
    BY <1>1, <1>3, <1>4, <1>5

\* The stack is a path down a document, the left input is past it, and the
\* descendant that a turn looks at is below all of it: Invariants 1 and 2 of
\* the joins, for every forest and whatever the inputs skip.
THEOREM StacksArePaths == Spec => []StackPath
  <1>1. Inv /\ BufferInv => StackPath
    <2> SUFFICES ASSUME Inv, BufferInv PROVE StackPath
      OBVIOUS
    <2>1. CASE kind \in ToChildren
      <3>1. /\ plan \in Plan /\ stack \in Seq(Nodes) /\ kind \notin ToParents \cup {"union", "except"}
            /\ pc = "join" => right.at \in Nodes
        BY <2>1, PlanFacts
           DEF Inv, TypeOK, Fresh, InputsUsable, ToChildren, ToParents
      <3>2. Path(stack) /\ Taken(stack) /\ \A i \in DOMAIN stack : stack[i] < right.at
        BY <2>1 DEF BufferInv, ChildInv
      <3>3. ASSUME pc = "join", NEW st \in Unwound(stack, right.at), NEW i \in DOMAIN st
            PROVE  st[i] \in tree.above[right.at]
        BY <3>1, <3>2, <3>3, UnwoundFacts
      <3>4. ASSUME NEW i \in DOMAIN stack, i > 1 PROVE stack[i - 1] \in tree.above[stack[i]]
        BY <3>1, <3>2, <3>4, LenProperties DEF Path
      <3> QED
        BY <2>1, <3>2, <3>3, <3>4 DEF StackPath, Taken
    <2>2. CASE kind \in ToParents
      <3>1. stack \in Seq(Nodes) /\ kind \notin ToChildren
        BY <2>2 DEF Inv, TypeOK, ToChildren, ToParents
      <3>2. Path(stack) /\ Taken(stack) /\ (pc = "join" => Encloses(stack, right.at))
        BY <2>2 DEF BufferInv, ParentInv
      <3>3. ASSUME NEW i \in DOMAIN stack, i > 1 PROVE stack[i - 1] \in tree.above[stack[i]]
        BY <3>1, <3>2, <3>3, LenProperties DEF Path
      <3> QED
        BY <3>1, <3>2, <3>3 DEF StackPath, Taken, Encloses, AboveOrAt
    <2>3. CASE kind \notin ToChildren \cup ToParents
      BY <2>3 DEF BufferInv, StackPath
    <2> QED
      BY <2>1, <2>2, <2>3
  <1>2. Init => Inv /\ BufferInv
    BY InvInit, BufferInit
  <1>3. Inv /\ BufferInv /\ [Next]_vars => (Inv /\ BufferInv)'
    BY InvStep, BufferStep
  <1> QED
    BY <1>1, <1>2, <1>3, PTL DEF Spec

\* A parent join finds nothing but parents of its children, and delivers each
\* of them once, if the nodes it takes for parents are elements or documents
\* and no grandparent of an attribute is among them.
THEOREM ParentsFoundOnce == Spec /\ Sure => []FoundOnce
  <1> DEFINE I == Inv /\ BufferInv /\ Sure
  <1>1. I => FoundOnce
    <2> SUFFICES ASSUME I PROVE FoundOnce
      OBVIOUS
    <2>1. kind \notin ToParents => results = <<>>
      BY DEF BufferInv, ChildInv
    <2>2. CASE kind \in ToParents
      BY <2>2 DEF BufferInv, ParentInv, FoundOnce, Sound, Taken, Distinct, Apart
    <2> QED
      BY <2>1, <2>2 DEF FoundOnce
  <1>2. Init /\ Sure => I
    BY InvInit, BufferInit
  <1>3. I /\ [Next]_vars => I'
    <2>1. [Next]_vars => plan' = plan
      BY DEF Next, Ask, Join, Deleted, vars
    <2> QED
      BY <2>1, InvStep, BufferStep, PlanStays
  <1> QED
    BY <1>1, <1>2, <1>3, PTL DEF Spec

\* What a parent join delivers together comes after all it delivered before,
\* though not always in order (Invariant 4).
THEOREM BatchesInOrder == Spec => BatchesFollow
  <1> DEFINE Later == pc = "join" /\ pc' = "ready" /\ kind \in ToParents =>
               /\ furthest < furthest'
               /\ \A i \in DOMAIN results' : furthest < results'[i]
  <1>1. Inv /\ BufferInv /\ [Next]_vars => [Later]_vars
    BY BufferStep DEF Follows
  <1>2. Init => Inv /\ BufferInv
    BY InvInit, BufferInit
  <1>3. Inv /\ BufferInv /\ [Next]_vars => (Inv /\ BufferInv)'
    BY InvStep, BufferStep
  <1>4. BatchesFollow <=> [][Later]_vars
    BY DEF BatchesFollow
  <1> QED
    BY <1>1, <1>2, <1>3, <1>4, PTL DEF Spec
=============================================================================
