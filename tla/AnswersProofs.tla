---------------------------- MODULE AnswersProofs ----------------------------
(***************************************************************************)
(* The joins find their answers: whatever nodes their inputs have,         *)
(* whatever these skip before a target and however the caller alternates   *)
(* next() and seek(), each call is answered as the kind of join promises.  *)
(***************************************************************************)
EXTENDS JoinsProofs

\* A node that the iterator has still to answer with, if it is an answer.
Counts(n) == furthest < n /\ asked <= tree.key[n]

\* An input that has not gone past n, nor been told that it may.
Reaches(cursor, n) == cursor.at <= n /\ cursor.from <= tree.key[n]

IntersectInv ==
  /\ pc # "done" => \A n \in plan.left \cap plan.right :
                      Counts(n) => Reaches(left, n) /\ Reaches(right, n)
  /\ pc = "join" => furthest < left.at /\ furthest < right.at
  /\ pc = "ready" => left.at = furthest /\ right.at = furthest

\* One side of a union: it stands at the last answer if that came from it, and
\* beyond it if not.
SideInv(side, S, cursor) ==
  /\ pc # "done" => \A n \in S : Counts(n) => Reaches(cursor, n)
  /\ pc = "join" => furthest < cursor.at
  /\ pc = "ready" => IF side \in sides THEN cursor.at = furthest
                     ELSE furthest < cursor.at

UnionInv == SideInv("left", plan.left, left) /\ SideInv("right", plan.right, right)

\* The right side of an except is never past a node that the left one is at
\* or comes to.
ExceptInv ==
  /\ pc # "done" => \A n \in plan.left \ plan.right : Counts(n) => Reaches(left, n)
  /\ pc = "join" => furthest < left.at
  /\ pc = "ready" => left.at = furthest
  /\ ~begun => right.at = Start /\ right.from = 0
  /\ pc # "done" /\ begun =>
       /\ right.from <= tree.key[left.at]
       /\ \A m \in plan.right : left.at <= m => right.at <= m

MergeInv ==
  /\ kind \in Merges
  /\ pc # "done" => furthest # End
  /\ kind = "intersect" => IntersectInv
  /\ kind = "union" => UnionInv
  /\ kind = "except" => ExceptInv

\* A node that the answer to the call in progress must not go past, if it is
\* an answer itself.
Due(n) == furthest < n /\ asked' <= tree.key[n]

\* A step that answers a call answers it as NodeIterator promises.
Answered ==
  pc' # "join" => furthest' \in Landings(Answer(plan), tree.key, furthest, asked')

LEMMA KeyOrder ==
  ASSUME plan \in Plan, NEW a \in Nodes, NEW b \in Nodes
  PROVE  /\ tree.key[a] \in Nat /\ a \in Nat /\ a < End
         /\ a <= b => tree.key[a] <= tree.key[b]
         /\ tree.key[a] < tree.key[b] => a < b
  <1>1. /\ tree.key[a] \in Nodes /\ tree.key[b] \in Nodes
        /\ a < b => tree.key[a] <= tree.key[b]
        /\ b < a => tree.key[b] <= tree.key[a]
    BY PlanFacts DEF WellFormed
  <1> QED
    BY <1>1, NodesAssumption DEF Nodes, End

LEMMA MergeAnswers ==
  /\ kind = "intersect" => Answer(plan) = plan.left \cap plan.right
  /\ kind = "union" => Answer(plan) = plan.left \cup plan.right
  /\ kind = "except" => Answer(plan) = plan.left \ plan.right
  BY DEF Answer, Merged, Merges, kind

\* What is due counted before, and what counts afterwards was due.
LEMMA DueFacts ==
  ASSUME TypeOK, plan' = plan, asked' \in 0..N, asked <= asked',
         furthest' \in Start..End, furthest <= furthest', NEW n \in Nodes
  PROVE  /\ Due(n) => Counts(n)
         /\ Counts(n)' => Due(n)
  <1>1. tree' = tree
    BY DEF tree
  <1>2. tree.key[n] \in Nat /\ n \in Nat
    BY KeyOrder DEF TypeOK
  <1> QED
    BY <1>1, <1>2, NodesAssumption DEF Due, Counts, TypeOK, Start, End

LEMMA FailAnswers ==
  ASSUME TypeOK, furthest # End, Fail,
         \A n \in Nodes : n \in Answer(plan) => ~Due(n), Answer(plan) \subseteq Nodes
  PROVE  Answered
  <1>1. furthest < End
    BY NodesAssumption DEF TypeOK, Start, End
  <1> QED
    BY <1>1 DEF Answered, Fail, Landings, Due

LEMMA YieldAnswers ==
  ASSUME TypeOK, NEW n \in Answer(plan), n \in Nodes, furthest < n, Yield(n),
         \A m \in Nodes : m \in Answer(plan) /\ Due(m) => n <= m,
         Answer(plan) \subseteq Nodes
  PROVE  Answered /\ furthest' = n /\ furthest' # End /\ pc' = "ready"
  <1>1. furthest' = n
    BY DEF Yield, Highest
  <1>2. n # End
    BY KeyTarget DEF TypeOK
  <1> QED
    BY <1>1, <1>2 DEF Answered, Landings, Due, Yield

\* What a step on a merge has to keep.
Common ==
  /\ Inv /\ MergeInv /\ plan' = plan /\ asked' \in 0..N /\ asked <= asked'
  /\ Typed' /\ furthest <= furthest' /\ pc # "done"

LEMMA IntersectAsk ==
  ASSUME Common, pc = "ready", NEW t \in 0..N, t <= asked', kind = "intersect",
         IntersectCall(t)
  PROVE  IntersectInv' /\ Answered /\ (pc' # "done" => furthest' # End)
  <1> USE DEF Common, Inv, MergeInv
  <1>1. Answer(plan) = plan.left \cap plan.right /\ plan \in Plan
        /\ plan.left \subseteq Nodes /\ plan.right \subseteq Nodes
    BY MergeAnswers, PlanFacts DEF TypeOK
  <1>2. MoveBoth(t) /\ left' \in Moves(plan.left, left, t)
    BY DEF IntersectCall, MoveBoth, kind
  <1>3. left.at = furthest /\ right.at = furthest
        /\ \A n \in plan.left \cap plan.right :
             Due(n) => left.from <= tree.key[n] /\ right.from <= tree.key[n]
                       /\ left.at < n /\ right.at < n /\ t <= tree.key[n]
    <2>1. ASSUME NEW n \in plan.left \cap plan.right, Due(n)
          PROVE  Reaches(left, n) /\ Reaches(right, n) /\ t <= tree.key[n] /\ furthest < n
      <3>1. Counts(n)
        BY <1>1, <2>1, DueFacts DEF Typed
      <3>2. tree.key[n] \in Nat
        BY <1>1, KeyOrder
      <3> QED
        BY <2>1, <3>1, <3>2, NodesAssumption DEF IntersectInv, Due
    <2> QED
      BY <2>1 DEF IntersectInv, Reaches
  <1>4. /\ left' \in Cursor /\ left'.at \in plan.left \cup {End} /\ left.at < left'.at
        /\ \A n \in plan.left \cap plan.right :
             Due(n) => left'.at <= n /\ left'.from <= tree.key[n]
    BY <1>1, <1>2, <1>3, MovesFacts DEF TypeOK
  <1>5. tree' = tree
    BY DEF tree
  <1>6. \A n \in Nodes : n < End
    BY <1>1, KeyOrder
  <1>7. CASE left'.at = End
    <2>1. Fail
      BY <1>2, <1>7 DEF MoveBoth
    <2>2. \A n \in Nodes : n \in Answer(plan) => ~Due(n)
      BY <1>1, <1>4, <1>6, <1>7, NodesAssumption DEF Nodes, End
    <2> QED
      BY <1>1, <2>1, <2>2, FailAnswers DEF IntersectInv, Fail
  <1>8. CASE left'.at # End
    <2>1. left'.at \in plan.left /\ left'.at \in Nodes
      BY <1>1, <1>4, <1>8
    <2>2. right' \in Moves(plan.right, right, tree.key[left'.at])
          /\ FailIf(right'.at = End)
      BY <1>2, <1>8 DEF MoveBoth
    <2>3. \A n \in plan.left \cap plan.right : Due(n) => tree.key[left'.at] <= tree.key[n]
      BY <1>1, <1>4, <2>1, KeyOrder
    <2>4. tree.key[left'.at] \in 0..N
      BY <1>1, <2>1, KeyTarget
    <2>5. /\ right' \in Cursor /\ right'.at \in plan.right \cup {End} /\ right.at < right'.at
          /\ \A n \in plan.left \cap plan.right :
               Due(n) => right'.at <= n /\ right'.from <= tree.key[n]
      BY <1>1, <1>3, <2>2, <2>3, <2>4, MovesFacts DEF TypeOK
    <2>6. CASE right'.at = End
      <3>1. Fail
        BY <2>2, <2>6 DEF FailIf
      <3>2. \A n \in Nodes : n \in Answer(plan) => ~Due(n)
        BY <1>1, <1>6, <2>5, <2>6, NodesAssumption DEF Nodes, End
      <3> QED
        BY <1>1, <3>1, <3>2, FailAnswers DEF IntersectInv, Fail
    <2>7. CASE right'.at # End
      <3>1. pc' = "join" /\ furthest' = furthest
        BY <2>2, <2>7 DEF FailIf, Again
      <3>2. \A n \in plan.left \cap plan.right : Counts(n)' => Due(n)
        BY <1>1, DueFacts DEF Typed
      <3> QED
        BY <1>3, <1>4, <1>5, <2>5, <3>1, <3>2 DEF IntersectInv, Reaches, Answered
    <2> QED
      BY <2>6, <2>7
  <1> QED
    BY <1>7, <1>8

LEMMA IntersectJoins ==
  ASSUME Common, pc = "join", asked' = asked, kind = "intersect", IntersectJoin
  PROVE  IntersectInv' /\ Answered /\ (pc' # "done" => furthest' # End)
  <1> USE DEF Common, Inv, MergeInv
  <1> DEFINE cmp == Compare(tree, left.at, right.at)
  <1>1. /\ Answer(plan) = plan.left \cap plan.right /\ plan \in Plan
        /\ plan.left \subseteq Nodes /\ plan.right \subseteq Nodes
        /\ WellFormed(tree) /\ tree' = tree
    BY MergeAnswers, PlanFacts DEF TypeOK, tree
  <1>2. /\ left.at \in plan.left /\ right.at \in plan.right
        /\ left.at \in Nodes /\ right.at \in Nodes
    BY <1>1 DEF InputsUsable, Fresh, ToChildren, ToParents
  <1>3. \A n \in plan.left \cap plan.right :
          Due(n) => Reaches(left, n) /\ Reaches(right, n)
    BY <1>1, DueFacts DEF Typed, IntersectInv
  <1>4. furthest < left.at /\ furthest < right.at
    BY DEF IntersectInv
  <1>5. \A n \in plan.left \cap plan.right : Counts(n)' => Due(n)
    BY <1>1, DueFacts DEF Typed
  <1>6. /\ tree.key[left.at] \in 0..N /\ tree.key[right.at] \in 0..N
        /\ \A n \in Nodes : n < End
    BY <1>1, <1>2, KeyTarget, KeyOrder
  <1>7. \A n \in plan.left \cap plan.right :
          Due(n) => tree.key[left.at] <= tree.key[n] /\ tree.key[right.at] <= tree.key[n]
    BY <1>1, <1>2, <1>3, KeyOrder DEF Reaches
  <1>8. CASE left.at < right.at /\ MoveLeft(tree.key[right.at])
    <2>1. /\ left' \in Cursor /\ left'.at \in plan.left \cup {End} /\ left.at < left'.at
          /\ right' = right /\ IF left'.at = End THEN Fail ELSE Again
      BY <1>6, <1>8, LeftMoves
    <2>2. left' \in Moves(plan.left, left, tree.key[right.at])
      BY <1>8 DEF MoveLeft
    <2>3. \A n \in plan.left \cap plan.right :
            Due(n) => left.at < n /\ left.from <= tree.key[n]
      BY <1>1, <1>2, <1>3, <1>8, NodesAssumption DEF Reaches, Nodes
    <2>4. \A n \in plan.left \cap plan.right :
            Due(n) => left'.at <= n /\ left'.from <= tree.key[n]
      BY <1>1, <1>6, <1>7, <2>2, <2>3, MovesFacts DEF TypeOK
    <2>5. CASE left'.at = End
      <3>1. \A n \in Nodes : n \in Answer(plan) => ~Due(n)
        BY <1>1, <1>6, <2>4, <2>5, NodesAssumption DEF Nodes, End
      <3> QED
        BY <1>1, <2>1, <2>5, <3>1, FailAnswers DEF IntersectInv, Fail
    <2>6. CASE left'.at # End
      <3>1. pc' = "join" /\ furthest' = furthest
        BY <2>1, <2>6 DEF Again
      <3>2. furthest < left'.at
        BY <1>4, <2>1, NodesAssumption DEF TypeOK, Cursor, Start, End
      <3> QED
        BY <1>1, <1>3, <1>4, <1>5, <2>1, <2>4, <3>1, <3>2 DEF IntersectInv, Reaches, Answered
    <2> QED
      BY <2>5, <2>6
  <1>9. CASE right.at < left.at /\ MoveRight(tree.key[left.at])
    <2>1. /\ right' \in Cursor /\ right'.at \in plan.right \cup {End} /\ right.at < right'.at
          /\ left' = left /\ IF right'.at = End THEN Fail ELSE Again
      BY <1>6, <1>9, RightMoves
    <2>2. right' \in Moves(plan.right, right, tree.key[left.at])
      BY <1>9 DEF MoveRight
    <2>3. \A n \in plan.left \cap plan.right :
            Due(n) => right.at < n /\ right.from <= tree.key[n]
      BY <1>1, <1>2, <1>3, <1>9, NodesAssumption DEF Reaches, Nodes
    <2>4. \A n \in plan.left \cap plan.right :
            Due(n) => right'.at <= n /\ right'.from <= tree.key[n]
      BY <1>1, <1>6, <1>7, <2>2, <2>3, MovesFacts DEF TypeOK
    <2>5. CASE right'.at = End
      <3>1. \A n \in Nodes : n \in Answer(plan) => ~Due(n)
        BY <1>1, <1>6, <2>4, <2>5, NodesAssumption DEF Nodes, End
      <3> QED
        BY <1>1, <2>1, <2>5, <3>1, FailAnswers DEF IntersectInv, Fail
    <2>6. CASE right'.at # End
      <3>1. pc' = "join" /\ furthest' = furthest
        BY <2>1, <2>6 DEF Again
      <3>2. furthest < right'.at
        BY <1>4, <2>1, NodesAssumption DEF TypeOK, Cursor, Start, End
      <3> QED
        BY <1>1, <1>3, <1>4, <1>5, <2>1, <2>4, <3>1, <3>2 DEF IntersectInv, Reaches, Answered
    <2> QED
      BY <2>5, <2>6
  <1>10. CASE left.at = right.at /\ Yield(right.at) /\ UNCHANGED inputs
    <2>1. \A m \in Nodes : m \in Answer(plan) /\ Due(m) => right.at <= m
      BY <1>1, <1>3 DEF Reaches
    <2>2. Answered /\ furthest' = right.at /\ furthest' # End /\ pc' = "ready"
      BY <1>1, <1>2, <1>4, <1>10, <2>1, YieldAnswers
    <2> QED
      BY <1>1, <1>3, <1>5, <1>10, <2>2 DEF IntersectInv, Reaches, inputs
  <1>11. /\ cmp \in Int /\ (cmp < 0 <=> left.at < right.at) /\ (cmp > 0 <=> right.at < left.at)
         /\ (cmp = 0 => left.at = right.at)
    BY <1>1, <1>2, CompareFacts, NodesAssumption DEF Nodes
  <1>12. \/ cmp < 0 /\ LeftToRight
         \/ cmp > 0 /\ RightToLeft
         \/ cmp = 0 /\ Yield(right.at) /\ UNCHANGED inputs
    BY DEF IntersectJoin
  <1> HIDE DEF cmp
  <1> QED
    BY <1>8, <1>9, <1>10, <1>11, <1>12 DEF LeftToRight, RightToLeft
-----------------------------------------------------------------------------
(* Union.                                                                  *)

\* One side of a union when it is asked, whether it moves or not.
LEMMA SideAsk ==
  ASSUME Common, pc = "ready", NEW t \in 0..N, t <= asked',
         NEW side, NEW S, S \subseteq Nodes, NEW c \in Cursor, NEW d,
         SideInv(side, S, c),
         d \in IF side \in sides \/ (c.at \in Nodes /\ tree.key[c.at] < t)
                 THEN Moves(S, c, t) ELSE {c}
  PROVE  /\ furthest < d.at
         /\ \A n \in S : Due(n) => d.at <= n /\ d.from <= tree.key[n]
  <1> USE DEF Common, Inv, MergeInv
  <1>1. plan \in Plan /\ furthest \in Int /\ c.at \in Int /\ asked' \in Int /\ t \in Int
    BY NodesAssumption DEF TypeOK, Cursor, Start, End
  <1>2. ASSUME NEW n \in S, Due(n)
        PROVE  Reaches(c, n) /\ furthest < n /\ t <= tree.key[n]
    <2>1. Counts(n) /\ tree.key[n] \in Int
      BY <1>1, <1>2, DueFacts, KeyOrder DEF Typed
    <2> QED
      BY <1>1, <1>2, <2>1 DEF SideInv, Due
  <1>3. CASE side \in sides
    <2>1. c.at = furthest /\ d \in Moves(S, c, t)
      BY <1>3 DEF SideInv
    <2>2. \A n \in S : Due(n) => c.at < n /\ c.from <= tree.key[n] /\ t <= tree.key[n]
      BY <1>2, <2>1 DEF Reaches
    <2> QED
      BY <1>1, <2>1, <2>2, MovesFacts
  <1>4. CASE side \notin sides /\ c.at \in Nodes /\ tree.key[c.at] < t
    <2>1. furthest < c.at /\ d \in Moves(S, c, t)
      BY <1>4 DEF SideInv
    <2>2. \A n \in S : Due(n) => c.at < n /\ c.from <= tree.key[n] /\ t <= tree.key[n]
      <3>1. ASSUME NEW n \in S, Due(n) PROVE c.at < n
        <4>1. tree.key[c.at] < tree.key[n]
          BY <1>1, <1>2, <1>4, <3>1, KeyOrder
        <4> QED
          BY <1>1, <1>4, <4>1, KeyOrder
      <3> QED
        BY <1>2, <3>1 DEF Reaches
    <2>3. d \in Cursor /\ c.at < d.at
          /\ \A n \in S : Due(n) => d.at <= n /\ d.from <= tree.key[n]
      BY <1>1, <2>1, <2>2, MovesFacts
    <2>4. d.at \in Int
      BY <2>3, NodesAssumption DEF Cursor, Start, End
    <2> QED
      BY <1>1, <2>1, <2>3, <2>4
  <1>5. CASE d = c /\ side \notin sides
    BY <1>2, <1>5 DEF SideInv, Reaches
  <1> QED
    BY <1>3, <1>4, <1>5

LEMMA UnionAsk ==
  ASSUME Common, pc = "ready", NEW t \in 0..N, t <= asked', kind = "union",
         UnionCall(t)
  PROVE  UnionInv' /\ Answered /\ (pc' # "done" => furthest' # End)
  <1> USE DEF Common, Inv, MergeInv
  <1>1. /\ plan \in Plan /\ plan.left \subseteq Nodes /\ plan.right \subseteq Nodes
        /\ left \in Cursor /\ right \in Cursor /\ tree' = tree
        /\ pc' = "join" /\ furthest' = furthest
    BY PlanFacts DEF TypeOK, tree, UnionCall, Again
  <1>2. /\ furthest < left'.at
        /\ \A n \in plan.left : Due(n) => left'.at <= n /\ left'.from <= tree.key[n]
    BY <1>1, SideAsk DEF UnionInv, UnionCall
  <1>3. /\ furthest < right'.at
        /\ \A n \in plan.right : Due(n) => right'.at <= n /\ right'.from <= tree.key[n]
    BY <1>1, SideAsk DEF UnionInv, UnionCall
  <1>4. \A n \in Nodes : Counts(n)' => Due(n)
    BY DueFacts DEF Typed
  <1> QED
    BY <1>1, <1>2, <1>3, <1>4 DEF UnionInv, SideInv, Reaches, Answered

LEMMA UnionJoins ==
  ASSUME Common, pc = "join", asked' = asked, kind = "union", UnionJoin
  PROVE  UnionInv' /\ Answered /\ (pc' # "done" => furthest' # End)
  <1> USE DEF Common, Inv, MergeInv
  <1>1. /\ Answer(plan) = plan.left \cup plan.right /\ plan \in Plan
        /\ plan.left \subseteq Nodes /\ plan.right \subseteq Nodes
        /\ WellFormed(tree) /\ tree' = tree
    BY MergeAnswers, PlanFacts DEF TypeOK, tree
  <1>2. /\ left.at \in plan.left \cup {End} /\ right.at \in plan.right \cup {End}
        /\ left' = left /\ right' = right
    BY <1>1 DEF InputsUsable, Fresh, UnionJoin, inputs, ToChildren, ToParents
  <1>3. /\ \A n \in plan.left : Due(n) => Reaches(left, n)
        /\ \A n \in plan.right : Due(n) => Reaches(right, n)
        /\ furthest < left.at /\ furthest < right.at
    BY <1>1, DueFacts DEF Typed, UnionInv, SideInv
  <1>4. \A n \in Nodes : (Counts(n)' => Due(n)) /\ n < End /\ n \in Int
    BY <1>1, DueFacts, KeyOrder, NodesAssumption DEF Typed, Nodes
  <1>5. CASE left.at = End /\ right.at = End
    <2>1. Fail
      BY <1>5 DEF UnionJoin
    <2>2. End \in Int
      BY NodesAssumption DEF End
    <2>3. \A n \in Nodes : n \in Answer(plan) => ~Due(n)
      BY <1>1, <1>3, <1>4, <1>5, <2>2 DEF Reaches
    <2> QED
      BY <1>1, <2>1, <2>3, FailAnswers DEF UnionInv, SideInv, Fail
  \* The earlier of the two sides answers, and is to move, with the other if
  \* that is at the same node.
  <1>6. ASSUME NEW n \in Nodes, Yield(n),
               n <= left.at, n <= right.at,
               (n = left.at /\ n \in plan.left) \/ (n = right.at /\ n \in plan.right),
               ("left" \in sides') <=> left.at = n,
               ("right" \in sides') <=> right.at = n
        PROVE  UnionInv' /\ Answered /\ (pc' # "done" => furthest' # End)
    <2>1. n \in Answer(plan) /\ furthest < n
      BY <1>1, <1>3, <1>6
    <2>2. \A m \in Nodes : m \in Answer(plan) /\ Due(m) => n <= m
      <3>1. left.at \in Int /\ right.at \in Int
        BY CursorPlace
      <3> QED
        BY <1>1, <1>3, <1>4, <1>6, <3>1 DEF Reaches
    <2>3. Answered /\ furthest' = n /\ furthest' # End /\ pc' = "ready"
      BY <1>1, <1>6, <2>1, <2>2, YieldAnswers
    <2>4. left.at # n => n < left.at
      BY <1>6, CursorPlace, <1>4
    <2>5. right.at # n => n < right.at
      BY <1>6, CursorPlace, <1>4
    <2> QED
      BY <1>1, <1>2, <1>3, <1>4, <1>6, <2>3, <2>4, <2>5 DEF UnionInv, SideInv, Reaches
  <1>7. CASE left.at # End \/ right.at # End
    <2> DEFINE cmp == IF right.at = End THEN -1
                      ELSE IF left.at = End THEN 1
                      ELSE Compare(tree, left.at, right.at)
    <2>1. /\ sides' = {s \in {"left", "right"} :
                         IF s = "left" THEN cmp <= 0 ELSE cmp >= 0}
          /\ Yield(IF cmp <= 0 THEN left.at ELSE right.at)
      BY <1>7 DEF UnionJoin
    <2>2. /\ cmp \in Int
          /\ cmp <= 0 => left.at \in plan.left /\ left.at <= right.at
          /\ cmp >= 0 => right.at \in plan.right /\ right.at <= left.at
          /\ left.at = right.at => cmp = 0
      <3> End \in Int
        BY NodesAssumption DEF End
      <3>1. CASE right.at = End
        <4>1. cmp = -1 /\ left.at \in plan.left /\ left.at < right.at
          BY <1>1, <1>2, <1>4, <1>7, <3>1
        <4> HIDE DEF cmp
        <4> QED
          BY <4>1, CursorPlace
      <3>2. CASE right.at # End /\ left.at = End
        <4>1. cmp = 1 /\ right.at \in plan.right /\ right.at < left.at
          BY <1>1, <1>2, <1>4, <1>7, <3>2
        <4> HIDE DEF cmp
        <4> QED
          BY <4>1, CursorPlace
      <3>3. CASE right.at # End /\ left.at # End
        <4>1. left.at \in plan.left /\ right.at \in plan.right
              /\ left.at \in Nodes /\ right.at \in Nodes
          BY <1>1, <1>2, <3>3
        <4>2. cmp = Compare(tree, left.at, right.at)
          BY <3>3
        <4> HIDE DEF cmp
        <4> QED
          BY <1>1, <1>4, <4>1, <4>2, CompareFacts
      <3> QED
        BY <3>1, <3>2, <3>3
    <2> HIDE DEF cmp
    <2>3. left.at \in Int /\ right.at \in Int
      BY CursorPlace
    <2>4. ("left" \in sides') <=> cmp <= 0
      BY <2>1
    <2>5. ("right" \in sides') <=> cmp >= 0
      BY <2>1
    <2>6. CASE cmp <= 0
      <3>1. Yield(left.at) /\ left.at \in plan.left /\ left.at \in Nodes
        BY <1>1, <2>1, <2>2, <2>6
      <3>2. ("right" \in sides') <=> right.at = left.at
        BY <2>2, <2>3, <2>5, <2>6
      <3>3. "left" \in sides' /\ left.at <= left.at /\ left.at <= right.at
        BY <2>2, <2>3, <2>4, <2>6
      <3> QED
        BY <1>6, <3>1, <3>2, <3>3
    <2>7. CASE ~(cmp <= 0)
      <3>1. cmp >= 0
        BY <2>2, <2>7
      <3>2. Yield(right.at) /\ right.at \in plan.right /\ right.at \in Nodes
        BY <1>1, <2>1, <2>2, <2>7, <3>1
      <3>3. ("left" \in sides') <=> left.at = right.at
        BY <2>2, <2>4, <2>7
      <3> QED
        BY <1>6, <2>2, <2>3, <2>5, <3>1, <3>2, <3>3
    <2> QED
      BY <2>6, <2>7
  <1> QED
    BY <1>5, <1>7
-----------------------------------------------------------------------------
(* Except.                                                                 *)

LEMMA ExceptAsk ==
  ASSUME Common, pc = "ready", NEW t \in 0..N, t <= asked', kind = "except",
         ExceptCall(t), begun' = TRUE
  PROVE  ExceptInv' /\ Answered /\ (pc' # "done" => furthest' # End)
  <1> USE DEF Common, Inv, MergeInv
  <1>1. /\ Answer(plan) = plan.left \ plan.right /\ plan \in Plan
        /\ plan.left \subseteq Nodes /\ plan.right \subseteq Nodes
        /\ tree' = tree /\ left.at = furthest
    BY MergeAnswers, PlanFacts DEF TypeOK, tree, ExceptInv
  <1>2. left' \in Moves(plan.left, left, t) /\ FailIf(left'.at = End)
    BY DEF ExceptCall
  <1>3. \A n \in plan.left \ plan.right :
          Due(n) => left.at < n /\ left.from <= tree.key[n] /\ t <= tree.key[n]
    <2>1. ASSUME NEW n \in plan.left \ plan.right, Due(n)
          PROVE  Reaches(left, n) /\ t <= tree.key[n] /\ furthest < n
      <3>1. Counts(n) /\ tree.key[n] \in Nat
        BY <1>1, <2>1, DueFacts, KeyOrder DEF Typed
      <3> QED
        BY <2>1, <3>1, NodesAssumption DEF ExceptInv, Due
    <2> QED
      BY <1>1, <2>1 DEF Reaches
  <1>4. /\ left' \in Cursor /\ left'.at \in plan.left \cup {End} /\ left.at < left'.at
        /\ \A n \in plan.left \ plan.right :
             Due(n) => left'.at <= n /\ left'.from <= tree.key[n]
    BY <1>1, <1>2, <1>3, MovesFacts DEF TypeOK
  <1>5. \A n \in Nodes : (Counts(n)' => Due(n)) /\ n < End /\ n \in Int
    BY <1>1, DueFacts, KeyOrder, NodesAssumption DEF Typed, Nodes
  <1>6. CASE left'.at = End
    <2>1. Fail
      BY <1>2, <1>6 DEF FailIf
    <2>2. \A n \in Nodes : n \in Answer(plan) => ~Due(n)
      BY <1>1, <1>4, <1>5, <1>6, NodesAssumption DEF End
    <2> QED
      BY <1>1, <2>1, <2>2, FailAnswers DEF ExceptInv, Fail
  <1>7. CASE left'.at # End
    <2>1. left'.at \in plan.left /\ left'.at \in Nodes
      BY <1>1, <1>4, <1>7
    <2>2. pc' = "join" /\ furthest' = furthest
      BY <1>2, <1>7 DEF FailIf, Again
    <2>3. tree.key[left'.at] \in 0..N
      BY <1>1, <2>1, KeyTarget
    <2>4. /\ right'.from <= tree.key[left'.at]
          /\ \A m \in plan.right : left'.at <= m => right'.at <= m
      <3>1. CASE begun
        <4>1. right' = right /\ left.at <= left'.at
          BY <1>4, <1>5, <2>1, <3>1, CursorPlace DEF ExceptCall
        <4>2. left.at \in plan.left /\ left.at \in Nodes
          BY <1>1, <3>1 DEF InputsUsable, ToChildren, ToParents
        <4>3. tree.key[left.at] <= tree.key[left'.at]
          BY <1>1, <2>1, <4>1, <4>2, KeyOrder
        <4>4. /\ right.from <= tree.key[left.at]
              /\ \A m \in plan.right : left.at <= m => right.at <= m
          BY <3>1 DEF ExceptInv
        <4>5. right.from \in Int /\ tree.key[left.at] \in Int /\ tree.key[left'.at] \in Int
          BY <1>1, <2>1, <4>2, KeyOrder, NodesAssumption DEF TypeOK, Cursor
        <4>6. \A m \in plan.right : left'.at <= m => left.at <= m
          BY <1>1, <1>5, <2>1, <4>1, <4>2
        <4> QED
          BY <4>1, <4>3, <4>4, <4>5, <4>6
      <3>2. CASE ~begun
        <4>1. right' \in Moves(plan.right, right, tree.key[left'.at])
              /\ right.at = Start /\ right.from = 0
          BY <1>7, <3>2 DEF ExceptCall, ExceptInv
        <4>2. right'.from <= tree.key[left'.at]
          <5> DEFINE target == tree.key[left'.at]
          <5>1. /\ plan \in Plan /\ plan.right \subseteq Nodes /\ right \in Cursor
                /\ target \in 0..N /\ right' \in Moves(plan.right, right, target)
            BY <1>1, <2>3, <4>1 DEF TypeOK
          <5> HIDE DEF target
          <5>2. right'.from = right.from \/ right'.from = target
            BY <5>1, MovesFacts
          <5> QED
            BY <4>1, <5>1, <5>2, NodesAssumption DEF target
        <4>3. \A m \in plan.right : left'.at <= m =>
                right.at < m /\ right.from <= tree.key[m] /\ tree.key[left'.at] <= tree.key[m]
          BY <1>1, <2>1, <4>1, KeyOrder, NodesAssumption DEF Start, Nodes
        <4> QED
          BY <1>1, <2>3, <4>1, <4>2, <4>3, MovesFacts DEF TypeOK
      <3> QED
        BY <3>1, <3>2
    <2> QED
      BY <1>1, <1>4, <1>5, <2>2, <2>4 DEF ExceptInv, Reaches, Answered
  <1> QED
    BY <1>6, <1>7

LEMMA ExceptJoins ==
  ASSUME Common, pc = "join", asked' = asked, kind = "except", ExceptJoin,
         begun, begun' = begun
  PROVE  ExceptInv' /\ Answered /\ (pc' # "done" => furthest' # End)
  <1> USE DEF Common, Inv, MergeInv
  <1> DEFINE cmp == IF right.at = End THEN -1 ELSE Compare(tree, left.at, right.at)
  <1>1. /\ Answer(plan) = plan.left \ plan.right /\ plan \in Plan
        /\ plan.left \subseteq Nodes /\ plan.right \subseteq Nodes
        /\ WellFormed(tree) /\ tree' = tree
    BY MergeAnswers, PlanFacts DEF TypeOK, tree
  <1>2. /\ left.at \in plan.left /\ left.at \in Nodes
        /\ right.at \in plan.right \cup {End}
    BY <1>1 DEF InputsUsable, ToChildren, ToParents
  <1>3. /\ \A n \in plan.left \ plan.right : Due(n) => Reaches(left, n)
        /\ furthest < left.at
        /\ right.from <= tree.key[left.at]
        /\ \A m \in plan.right : left.at <= m => right.at <= m
    BY <1>1, DueFacts DEF Typed, ExceptInv
  <1>4. \A n \in Nodes : (Counts(n)' => Due(n)) /\ n < End /\ n \in Int
    BY <1>1, DueFacts, KeyOrder, NodesAssumption DEF Typed, Nodes
  <1>5. tree.key[left.at] \in 0..N /\ tree.key[left.at] \in Int /\ right.from \in Int
    BY <1>1, <1>2, KeyTarget, NodesAssumption DEF TypeOK, Cursor
  <1>6. /\ cmp < 0 => right.at = End \/ left.at < right.at
        /\ cmp > 0 => right.at \in plan.right /\ right.at < left.at
        /\ cmp = 0 => right.at \in plan.right /\ right.at = left.at
    <2>1. CASE right.at = End
      BY <2>1
    <2>2. CASE right.at # End
      <3>1. right.at \in plan.right /\ right.at \in Nodes
        BY <1>1, <1>2, <2>2
      <3>2. cmp = Compare(tree, left.at, right.at)
        BY <2>2
      <3> HIDE DEF cmp
      <3> QED
        BY <1>1, <1>2, <1>4, <3>1, <3>2, CompareFacts
    <2> QED
      BY <2>1, <2>2
  <1>7. \/ cmp < 0 /\ Yield(left.at) /\ UNCHANGED inputs
        \/ /\ cmp > 0
           /\ right' \in Moves(plan.right, right, tree.key[left.at])
           /\ Again /\ UNCHANGED left
        \/ cmp = 0 /\ MoveLeft(0)
    BY DEF ExceptJoin
  <1> HIDE DEF cmp
  <1>8. CASE cmp < 0 /\ Yield(left.at) /\ UNCHANGED inputs
    <2>1. left.at \notin plan.right
      BY <1>2, <1>3, <1>4, <1>6, <1>8, CursorPlace
    <2>2. \A m \in Nodes : m \in Answer(plan) /\ Due(m) => left.at <= m
      BY <1>1, <1>3 DEF Reaches
    <2>3. Answered /\ furthest' = left.at /\ furthest' # End /\ pc' = "ready"
      BY <1>1, <1>2, <1>3, <1>8, <2>1, <2>2, YieldAnswers
    <2> QED
      BY <1>1, <1>3, <1>4, <1>8, <2>3 DEF ExceptInv, Reaches, inputs
  <1>9. CASE /\ cmp > 0
             /\ right' \in Moves(plan.right, right, tree.key[left.at])
             /\ Again /\ UNCHANGED left
    <2>1. right.at \in Nodes /\ right.at < left.at
      BY <1>1, <1>6, <1>9
    <2>2. \A m \in plan.right : left.at <= m =>
            right.at < m /\ right.from <= tree.key[m] /\ tree.key[left.at] <= tree.key[m]
      <3>1. ASSUME NEW m \in plan.right, left.at <= m
            PROVE  right.at < m /\ tree.key[left.at] <= tree.key[m] /\ tree.key[m] \in Int
        BY <1>1, <1>2, <1>4, <2>1, <3>1, KeyOrder
      <3> QED
        BY <1>3, <1>5, <3>1
    <2>3. \A m \in plan.right : left.at <= m => right'.at <= m
      BY <1>1, <1>5, <1>9, <2>2, MovesFacts DEF TypeOK
    <2>4. right'.from <= tree.key[left.at]
      BY <1>1, <1>3, <1>5, <1>9, MovesFacts DEF TypeOK
    <2>5. pc' = "join" /\ furthest' = furthest
      BY <1>9 DEF Again
    <2> QED
      BY <1>1, <1>3, <1>4, <1>9, <2>3, <2>4, <2>5 DEF ExceptInv, Reaches, Answered
  <1>10. CASE cmp = 0 /\ MoveLeft(0)
    <2>1. 0 \in 0..N
      BY NodesAssumption
    <2>2. /\ left' \in Moves(plan.left, left, 0) /\ right' = right
          /\ FailIf(left'.at = End)
      BY <1>10 DEF MoveLeft
    <2>3. \A n \in plan.left \ plan.right : Due(n) =>
            left.at < n /\ left.from <= tree.key[n] /\ 0 <= tree.key[n]
      <3>1. ASSUME NEW n \in plan.left \ plan.right, Due(n)
            PROVE  left.at < n /\ left.from <= tree.key[n] /\ tree.key[n] \in Nat
        <4>1. left.at <= n /\ left.from <= tree.key[n] /\ n # left.at
          BY <1>3, <1>6, <1>10, <3>1 DEF Reaches
        <4> QED
          BY <1>1, <1>2, <1>4, <4>1, KeyOrder
      <3> QED
        BY <3>1
    <2>4. /\ left' \in Cursor /\ left'.at \in plan.left \cup {End} /\ left.at < left'.at
          /\ \A n \in plan.left \ plan.right :
               Due(n) => left'.at <= n /\ left'.from <= tree.key[n]
      BY <1>1, <2>1, <2>2, <2>3, MovesFacts DEF TypeOK
    <2>5. CASE left'.at = End
      <3>1. Fail
        BY <2>2, <2>5 DEF FailIf
      <3>2. \A n \in Nodes : n \in Answer(plan) => ~Due(n)
        BY <1>1, <1>4, <2>4, <2>5, NodesAssumption DEF End
      <3> QED
        BY <1>1, <3>1, <3>2, FailAnswers DEF ExceptInv, Fail
    <2>6. CASE left'.at # End
      <3>1. left'.at \in plan.left /\ left'.at \in Nodes
        BY <1>1, <2>4, <2>6
      <3>2. pc' = "join" /\ furthest' = furthest
        BY <2>2, <2>6 DEF FailIf, Again
      <3>3. furthest < left'.at /\ left.at <= left'.at
        BY <1>3, <1>4, <2>4, <3>1, CursorPlace, NodesAssumption DEF TypeOK, Start, End
      <3>4. tree.key[left.at] <= tree.key[left'.at] /\ tree.key[left'.at] \in Int
        BY <1>1, <1>2, <3>1, <3>3, KeyOrder
      <3>5. right'.from <= tree.key[left'.at]
        BY <1>3, <1>5, <2>2, <3>4
      <3>6. \A m \in plan.right : left'.at <= m => right'.at <= m
        BY <1>1, <1>2, <1>3, <1>4, <2>2, <3>1, <3>3
      <3> QED
        BY <1>1, <1>4, <2>4, <3>2, <3>3, <3>5, <3>6 DEF ExceptInv, Reaches, Answered
    <2> QED
      BY <2>5, <2>6
  <1> QED
    BY <1>7, <1>8, <1>9, <1>10
-----------------------------------------------------------------------------
(* The refinement.                                                         *)

LEMMA MergeInit == Init /\ kind \in Merges => MergeInv
  <1> SUFFICES ASSUME Init, kind \in Merges PROVE MergeInv
    OBVIOUS
  <1>1. plan \in Plan
    BY PlansAssumption DEF Init
  <1>2. plan.left \subseteq Nodes /\ plan.right \subseteq Nodes
    BY <1>1, PlanFacts
  <1>3. \A n \in Nodes : Start <= n /\ 0 <= tree.key[n]
    BY <1>1, KeyOrder, NodesAssumption DEF Start, Nodes
  <1> QED
    BY <1>2, <1>3, EndFacts
       DEF Init, MergeInv, IntersectInv, UnionInv, SideInv, ExceptInv, Reaches

LEMMA MergeAsk ==
  ASSUME Inv, MergeInv, NEW t \in 0..N, Ask(t)
  PROVE  MergeInv' /\ Answered /\ (pc' = "join" => furthest' = furthest)
  <1>1. /\ pc = "ready" /\ plan' = plan /\ begun' = TRUE /\ kind' = kind
        /\ asked' = Highest(asked, t) /\ kind \in Merges
    BY DEF Ask, MergeInv, kind
  <1>2. asked' \in 0..N /\ asked <= asked' /\ t <= asked'
    BY <1>1, NodesAssumption DEF Inv, TypeOK, Highest
  <1>3. IntersectCall(t) \/ UnionCall(t) \/ ExceptCall(t)
    BY <1>1 DEF Ask, AncestorCall, DescendantCall, AttributeCall, ParentCall,
                Merges, ToChildren, ToParents
  <1>4. Typed'
    BY AskStep DEF Inv, TypeOK, Typed
  <1>5. pc' \in {"join", "done"} /\ (pc' = "join" => furthest' = furthest)
        /\ (pc' = "done" => furthest' = End)
    BY <1>3 DEF IntersectCall, MoveBoth, UnionCall, ExceptCall, FailIf, Again, Fail
  <1>6. furthest <= furthest'
    BY <1>5, NodesAssumption DEF Inv, TypeOK, Start, End
  <1>7. Common
    BY <1>1, <1>2, <1>4, <1>6 DEF Common
  <1>8. kind = "intersect" => IntersectInv' /\ Answered /\ (pc' # "done" => furthest' # End)
    BY <1>1, <1>2, <1>3, <1>7, IntersectAsk DEF UnionCall, ExceptCall
  <1>9. kind = "union" => UnionInv' /\ Answered /\ (pc' # "done" => furthest' # End)
    BY <1>1, <1>2, <1>3, <1>7, UnionAsk DEF IntersectCall, ExceptCall
  <1>10. kind = "except" => ExceptInv' /\ Answered /\ (pc' # "done" => furthest' # End)
    BY <1>1, <1>2, <1>3, <1>7, ExceptAsk DEF IntersectCall, UnionCall
  <1> QED
    BY <1>1, <1>5, <1>8, <1>9, <1>10 DEF MergeInv, Merges

LEMMA MergeJoin ==
  ASSUME Inv, MergeInv, Join
  PROVE  MergeInv' /\ Answered /\ (pc' = "join" => furthest' = furthest)
  <1>1. /\ pc = "join" /\ plan' = plan /\ begun' = begun /\ kind' = kind
        /\ asked' = asked /\ kind \in Merges /\ begun
    BY DEF Join, MergeInv, kind, Inv, Fresh
  <1>2. asked' \in 0..N /\ asked <= asked'
    BY <1>1, NodesAssumption DEF Inv, TypeOK
  <1>3. IntersectJoin \/ UnionJoin \/ ExceptJoin
    BY <1>1 DEF Join, LinealJoin, AttributeJoin, ParentOfAttributeJoin, ChildJoin,
                ParentJoin, Merges, Lineal, ToChildren, ToParents
  <1>4. Typed'
    BY JoinStep DEF Inv, TypeOK, Typed
  <1>5. Again \/ Fail \/ \E n : Yield(n)
    BY <1>3 DEF IntersectJoin, LeftToRight, RightToLeft, MoveLeft, MoveRight,
                UnionJoin, ExceptJoin, FailIf
  <1>6. furthest <= furthest' /\ (pc' = "join" => furthest' = furthest)
    BY <1>4, <1>5, NodesAssumption
       DEF Inv, TypeOK, Typed, Start, End, Again, Fail, Yield, Highest
  <1>7. Common
    BY <1>1, <1>2, <1>4, <1>6 DEF Common
  <1>8. kind = "intersect" => IntersectInv' /\ Answered /\ (pc' # "done" => furthest' # End)
    BY <1>1, <1>3, <1>7, IntersectJoins DEF UnionJoin, ExceptJoin
  <1>9. kind = "union" => UnionInv' /\ Answered /\ (pc' # "done" => furthest' # End)
    BY <1>1, <1>3, <1>7, UnionJoins DEF IntersectJoin, ExceptJoin
  <1>10. kind = "except" => ExceptInv' /\ Answered /\ (pc' # "done" => furthest' # End)
    BY <1>1, <1>3, <1>7, ExceptJoins DEF IntersectJoin, UnionJoin
  <1> QED
    BY <1>1, <1>6, <1>8, <1>9, <1>10 DEF MergeInv, Merges
-----------------------------------------------------------------------------
(* The joins that find a node of one side by a node of the other: those of *)
(* ancestors and descendants, and the parents of attributes.               *)

Ancestors == {"ancestor", "ancestor_or_self"}
Paired == Lineal \cup {"parent_of_attribute"}

\* The node l of the left side and r of the right one make an answer.
Match(l, r) ==
  IF kind = "parent_of_attribute"
    THEN tree.type[l] = "attribute" /\ tree.parent[l] = r
    ELSE \/ l \in tree.above[r]
         \/ l = r /\ kind \in {"descendant_or_self", "ancestor_or_self"}

FoundOf(l, r) == IF kind \in Ancestors THEN l ELSE r

Answering == IF kind \in Ancestors THEN left ELSE right

PairInv ==
  /\ pc # "done" =>
       \A l \in plan.left : \A r \in plan.right :
         Match(l, r) /\ Counts(FoundOf(l, r)) => Reaches(left, l) /\ Reaches(right, r)
  /\ pc = "join" => furthest < Answering.at
  /\ pc = "ready" => Answering.at = furthest
  /\ pc = "ready" /\ kind = "parent_of_attribute" =>
       \A l \in plan.left : furthest < tree.key[l] => left.at < l
  /\ ~begun => left = [at |-> Start, from |-> 0] /\ right = [at |-> Start, from |-> 0]

LEMMA PairAnswers ==
  ASSUME plan \in Plan, kind \in Paired
  PROVE  /\ Answer(plan) \subseteq Nodes
         /\ \A n : n \in Answer(plan) <=>
              \E l \in plan.left : \E r \in plan.right : Match(l, r) /\ n = FoundOf(l, r)
  <1>1. plan.left \subseteq Nodes /\ plan.right \subseteq Nodes
    BY PlanFacts
  <1>2. CASE kind \in {"descendant", "descendant_or_self"}
    <2>1. Answer(plan) =
            {d \in plan.right :
               (tree.above[d] \cup IF kind = "descendant_or_self" THEN {d} ELSE {})
                 \cap plan.left # {}}
      <3>1. CASE plan.kind = "descendant"
        BY <3>1 DEF Answer, Placed, Merges, ToChildren, ToParents, tree, kind
      <3>2. CASE plan.kind = "descendant_or_self"
        BY <3>2 DEF Answer, Placed, Merges, ToChildren, ToParents, tree, kind
      <3> QED
        BY <1>2, <3>1, <3>2 DEF kind
    <2>2. \A l, r : /\ FoundOf(l, r) = r
                    /\ Match(l, r) <=> \/ l \in tree.above[r]
                                       \/ l = r /\ kind = "descendant_or_self"
      BY <1>2 DEF FoundOf, Match, Ancestors
    <2> QED
      BY <1>1, <2>1, <2>2
  <1>3. CASE kind \in {"ancestor", "ancestor_or_self"}
    <2>1. Answer(plan) =
            {a \in plan.left : \E d \in plan.right :
               a \in tree.above[d] \cup IF kind = "ancestor_or_self" THEN {d} ELSE {}}
      <3>1. CASE plan.kind = "ancestor"
        BY <3>1 DEF Answer, Placed, Merges, ToChildren, ToParents, tree, kind
      <3>2. CASE plan.kind = "ancestor_or_self"
        BY <3>2 DEF Answer, Placed, Merges, ToChildren, ToParents, tree, kind
      <3> QED
        BY <1>3, <3>1, <3>2 DEF kind
    <2>2. \A l, r : /\ FoundOf(l, r) = l
                    /\ Match(l, r) <=> \/ l \in tree.above[r]
                                       \/ l = r /\ kind = "ancestor_or_self"
      BY <1>3 DEF FoundOf, Match, Ancestors
    <2> QED
      BY <1>1, <2>1, <2>2
  <1>4. CASE kind = "parent_of_attribute"
    <2>1. Answer(plan) =
            {a \in plan.right : \E d \in plan.left :
               tree.type[d] = "attribute" /\ tree.parent[d] = a}
      BY <1>4 DEF Answer, Placed, Merges, ToChildren, ToParents, tree, kind
    <2>2. \A l, r : /\ FoundOf(l, r) = r
                    /\ Match(l, r) <=> tree.type[l] = "attribute" /\ tree.parent[l] = r
      BY <1>4 DEF FoundOf, Match, Ancestors
    <2> QED
      BY <1>1, <2>1, <2>2
  <1> QED
    BY <1>2, <1>3, <1>4 DEF Paired, Lineal

\* What a step on such a join starts from.
PairStep ==
  /\ Inv /\ PairInv /\ Sure /\ kind \in Paired /\ plan' = plan /\ Typed'
  /\ asked' \in 0..N /\ asked <= asked' /\ furthest <= furthest'
  /\ pc # "done" /\ furthest # End /\ begun'

\* The inputs have gone past no pair that may make the next answer.
DueReached ==
  \A l \in plan.left : \A r \in plan.right :
    Match(l, r) /\ Due(FoundOf(l, r)) =>
      /\ left'.at <= l /\ left'.from <= tree.key[l]
      /\ right'.at <= r /\ right'.from <= tree.key[r]

Progress ==
  \/ Fail /\ End \in {left'.at, right'.at}
  \/ Again /\ furthest < Answering'.at

PairDone == PairInv' /\ Answered /\ (pc' # "done" => furthest' # End)

LEMMA PairFacts ==
  ASSUME PairStep
  PROVE  /\ plan \in Plan /\ WellFormed(tree) /\ tree' = tree /\ kind' = kind
         /\ plan.left \subseteq Nodes /\ plan.right \subseteq Nodes
         /\ \A n \in Nodes : n < End /\ n \in Int /\ tree.key[n] \in Int /\ (Due(n) => Counts(n))
         /\ \A n \in Nodes : Counts(n)' => Due(n)
         /\ \A l \in plan.left : \A r \in plan.right :
              /\ FoundOf(l, r) \in Nodes
              /\ Match(l, r) /\ Due(FoundOf(l, r)) => Reaches(left, l) /\ Reaches(right, r)
              /\ Match(l, r)' <=> Match(l, r)
              /\ FoundOf(l, r)' = FoundOf(l, r)
  <1> USE DEF PairStep, Inv
  <1>1. /\ plan \in Plan /\ WellFormed(tree) /\ tree' = tree /\ kind' = kind
        /\ plan.left \subseteq Nodes /\ plan.right \subseteq Nodes
    BY PlanFacts DEF TypeOK, tree, kind
  <1>2. /\ \A n \in Nodes : n < End /\ n \in Int /\ tree.key[n] \in Int /\ (Due(n) => Counts(n))
        /\ \A n \in Nodes : Counts(n)' => Due(n)
    <2>1. \A n \in Nodes : (Due(n) => Counts(n)) /\ (Counts(n)' => Due(n))
      BY DueFacts DEF Typed
    <2>2. \A n \in Nodes : n < End /\ n \in Int /\ tree.key[n] \in Int
      BY <1>1, NodeFacts, NodesAssumption DEF Nodes, End
    <2> QED
      BY <2>1, <2>2
  <1>3. \A l \in plan.left : \A r \in plan.right : FoundOf(l, r) \in Nodes
    BY <1>1 DEF FoundOf
  <1>4. \A l, r : (Match(l, r)' <=> Match(l, r)) /\ FoundOf(l, r)' = FoundOf(l, r)
    BY <1>1 DEF Match, FoundOf
  <1> QED
    BY <1>1, <1>2, <1>3, <1>4 DEF PairInv

LEMMA PairMoves ==
  ASSUME PairStep, DueReached, Progress
  PROVE  PairDone
  <1> USE DEF PairStep
  <1>1. CASE Fail /\ End \in {left'.at, right'.at}
    <2>1. ASSUME NEW n \in Nodes, n \in Answer(plan) PROVE ~Due(n)
      <3>1. PICK l \in plan.left, r \in plan.right : Match(l, r) /\ n = FoundOf(l, r)
        BY <2>1, PairAnswers, PairFacts
      <3>2. l < End /\ r < End /\ l \in Int /\ r \in Int /\ End \in Int
        BY PairFacts, NodesAssumption DEF End
      <3> QED
        BY <1>1, <3>1, <3>2 DEF DueReached
    <2>2. Answer(plan) \subseteq Nodes
      BY PairAnswers, PairFacts
    <2>3. Answered
      BY <1>1, <2>1, <2>2, FailAnswers DEF Inv
    <2> QED
      BY <1>1, <2>3 DEF PairDone, PairInv, Fail
  <1>2. CASE Again /\ furthest < Answering'.at
    <2>1. pc' = "join" /\ furthest' = furthest
      BY <1>2 DEF Again
    <2>2. ASSUME NEW l \in plan.left, NEW r \in plan.right,
                 Match(l, r)', Counts(FoundOf(l, r))'
          PROVE  Reaches(left, l)' /\ Reaches(right, r)'
      <3>1. Due(FoundOf(l, r)) /\ Match(l, r)
        <4> DEFINE n == FoundOf(l, r)
        <4>1. n \in Nodes /\ n' = n
          BY PairFacts
        <4>2. \A m \in Nodes : Counts(m)' => Due(m)
          BY PairFacts
        <4>3. furthest' < n /\ asked' <= tree'.key[n]
          BY <2>2, <4>1 DEF Counts
        <4> HIDE DEF n
        <4>4. Due(n)
          BY <4>1, <4>2, <4>3 DEF Counts
        <4> QED
          BY <2>2, <4>4, PairFacts DEF n
      <3> QED
        BY <3>1, PairFacts DEF DueReached, Reaches
    <2> QED
      BY <1>2, <2>1, <2>2 DEF PairDone, PairInv, Answered
  <1> QED
    BY <1>1, <1>2 DEF Progress

\* The two nodes of a pair lie in the order in which the inputs are compared.
LEMMA MatchFacts ==
  ASSUME plan \in Plan, kind \in Paired, NEW l \in plan.left, NEW r \in plan.right, Match(l, r)
  PROVE  /\ tree.key[l] <= tree.key[r]
         /\ kind # "parent_of_attribute" => l <= r
         /\ kind = "parent_of_attribute" =>
              /\ tree.key[l] = r /\ tree.key[r] = r
              /\ tree.type[r] = "element" /\ tree.type[l] = "attribute"
  <1>1. WellFormed(tree) /\ l \in Nodes /\ r \in Nodes
    BY PlanFacts
  <1>2. CASE kind = "parent_of_attribute"
    <2>1. tree.type[l] = "attribute" /\ tree.parent[l] = r
      BY <1>2 DEF Match
    <2>2. tree.type[r] = "element" /\ tree.key[l] = r
      BY <1>1, <2>1 DEF WellFormed
    <2>3. tree.key[r] = r
      BY <1>1, <2>2, NodeFacts
    <2> QED
      BY <1>1, <1>2, <2>1, <2>2, <2>3, NodeFacts
  <1>3. CASE kind # "parent_of_attribute"
    <2>1. l \in tree.above[r] \/ l = r
      BY <1>3 DEF Match
    <2>2. l <= r
      BY <1>1, <2>1, Nesting, NodeFacts
    <2> QED
      BY <1>1, <1>3, <2>2, OrderFacts
  <1> QED
    BY <1>2, <1>3

\* Moving one input keeps a pair in reach if it goes past neither of the two.
LEMMA LeftReaches ==
  ASSUME PairStep, NEW t \in 0..N, left' \in Moves(plan.left, left, t), right' = right,
         furthest < Answering.at \/ furthest < Answering'.at,
         FailIf(left'.at = End),
         \A l \in plan.left : \A r \in plan.right :
           Match(l, r) /\ Due(FoundOf(l, r)) => left.at < l /\ t <= tree.key[l]
  PROVE  PairDone
  <1>1. plan \in Plan /\ plan.left \subseteq Nodes /\ left \in Cursor /\ right \in Cursor
    BY PairFacts DEF PairStep, Inv, TypeOK
  <1>2. /\ left' \in Cursor /\ left.at < left'.at
        /\ \A n \in plan.left : left.at < n /\ left.from <= tree.key[n] /\ t <= tree.key[n]
                               => left'.at <= n /\ left'.from <= tree.key[n]
    BY <1>1, MovesFacts
  <1>3. DueReached
    BY <1>2, PairFacts DEF DueReached, Reaches
  <1>4. Answering.at <= Answering'.at
    <2>1. kind' = kind
      BY PairFacts
    <2>2. left.at \in Int /\ right.at \in Int /\ left'.at \in Int
      BY <1>1, <1>2, NodesAssumption DEF Cursor, Start, End
    <2> QED
      BY <1>2, <2>1, <2>2 DEF Answering
  <1>5. Progress
    <2>1. furthest \in Int /\ Answering.at \in Int /\ Answering'.at \in Int
      BY <1>1, <1>2, PairFacts, NodesAssumption
         DEF PairStep, Inv, TypeOK, Answering, Cursor, Start, End
    <2>2. furthest < Answering'.at
      BY <1>4, <2>1
    <2> QED
      BY <2>2 DEF Progress, FailIf
  <1> QED
    BY <1>3, <1>5, PairMoves

LEMMA RightReaches ==
  ASSUME PairStep, NEW t \in 0..N, right' \in Moves(plan.right, right, t), left' = left,
         furthest < Answering.at \/ furthest < Answering'.at,
         FailIf(right'.at = End),
         \A l \in plan.left : \A r \in plan.right :
           Match(l, r) /\ Due(FoundOf(l, r)) => right.at < r /\ t <= tree.key[r]
  PROVE  PairDone
  <1>1. plan \in Plan /\ plan.right \subseteq Nodes /\ left \in Cursor /\ right \in Cursor
    BY PairFacts DEF PairStep, Inv, TypeOK
  <1>2. /\ right' \in Cursor /\ right.at < right'.at
        /\ \A n \in plan.right : right.at < n /\ right.from <= tree.key[n] /\ t <= tree.key[n]
                                => right'.at <= n /\ right'.from <= tree.key[n]
    BY <1>1, MovesFacts
  <1>3. DueReached
    BY <1>2, PairFacts DEF DueReached, Reaches
  <1>4. Answering.at <= Answering'.at
    <2>1. kind' = kind
      BY PairFacts
    <2>2. left.at \in Int /\ right.at \in Int /\ right'.at \in Int
      BY <1>1, <1>2, NodesAssumption DEF Cursor, Start, End
    <2> QED
      BY <1>2, <2>1, <2>2 DEF Answering
  <1>5. Progress
    <2>1. furthest \in Int /\ Answering.at \in Int /\ Answering'.at \in Int
      BY <1>1, <1>2, PairFacts, NodesAssumption
         DEF PairStep, Inv, TypeOK, Answering, Cursor, Start, End
    <2>2. furthest < Answering'.at
      BY <1>4, <2>1
    <2> QED
      BY <2>2 DEF Progress, FailIf
  <1> QED
    BY <1>3, <1>5, PairMoves

LEMMA BothReach ==
  ASSUME PairStep, pc = "ready", NEW t \in 0..N, MoveBoth(t),
         \A l \in plan.left : \A r \in plan.right :
           Match(l, r) /\ Due(FoundOf(l, r)) => left.at < l /\ t <= tree.key[l] /\ right.at < r
  PROVE  PairDone
  <1>1. /\ plan \in Plan /\ plan.left \subseteq Nodes /\ plan.right \subseteq Nodes
        /\ left \in Cursor /\ right \in Cursor /\ kind' = kind /\ kind \in Paired
        /\ Answering.at = furthest /\ left' \in Moves(plan.left, left, t)
    BY PairFacts DEF PairStep, Inv, TypeOK, PairInv, MoveBoth
  <1>2. /\ left' \in Cursor /\ left.at < left'.at /\ left'.at \in plan.left \cup {End}
        /\ \A n \in plan.left : left.at < n /\ left.from <= tree.key[n] /\ t <= tree.key[n]
                               => left'.at <= n /\ left'.from <= tree.key[n]
    BY <1>1, MovesFacts
  <1>3. \A l \in plan.left : \A r \in plan.right :
          Match(l, r) /\ Due(FoundOf(l, r)) =>
            left'.at <= l /\ left'.from <= tree.key[l] /\ Reaches(right, r)
    BY <1>2, PairFacts DEF Reaches
  <1>4. CASE left'.at = End
    <2>1. Fail /\ right' = right
      BY <1>4 DEF MoveBoth
    <2>2. DueReached
      BY <1>3, <2>1 DEF DueReached, Reaches
    <2> QED
      BY <1>4, <2>1, <2>2, PairMoves DEF Progress
  <1>5. CASE left'.at # End
    <2> DEFINE u == tree.key[left'.at]
    <2>1. left'.at \in plan.left /\ left'.at \in Nodes
      BY <1>1, <1>2, <1>5
    <2>2. u \in 0..N
      BY <1>1, <2>1, KeyTarget
    <2>3. right' \in Moves(plan.right, right, u) /\ FailIf(right'.at = End)
      BY <1>5 DEF MoveBoth
    <2>4. /\ right' \in Cursor /\ right.at < right'.at
          /\ \A n \in plan.right : right.at < n /\ right.from <= tree.key[n] /\ u <= tree.key[n]
                                  => right'.at <= n /\ right'.from <= tree.key[n]
      <3> HIDE DEF u
      <3> QED
        BY <1>1, <2>2, <2>3, MovesFacts
    <2>5. ASSUME NEW l \in plan.left, NEW r \in plan.right, Match(l, r), Due(FoundOf(l, r))
          PROVE  u <= tree.key[r]
      <3>1. left'.at <= l /\ tree.key[l] <= tree.key[r]
        BY <1>1, <1>3, <2>5, MatchFacts
      <3>2. u <= tree.key[l] /\ u \in Int /\ tree.key[l] \in Int /\ tree.key[r] \in Int
        BY <1>1, <2>1, <3>1, KeyOrder
      <3> HIDE DEF u
      <3> QED
        BY <3>1, <3>2
    <2> HIDE DEF u
    <2>6. DueReached
      BY <1>3, <2>4, <2>5 DEF DueReached, Reaches
    <2>7. Progress
      BY <1>1, <1>2, <2>3, <2>4 DEF Progress, FailIf, Answering
    <2> QED
      BY <2>6, <2>7, PairMoves
  <1> QED
    BY <1>4, <1>5

\* The calls.
LEMMA PairAsk ==
  ASSUME PairStep, pc = "ready", NEW t \in 0..N, t <= asked',
         IntersectCall(t) \/ AncestorCall(t) \/ DescendantCall(t)
  PROVE  PairDone
  <1> USE DEF PairStep
  <1>1. /\ plan \in Plan /\ plan.left \subseteq Nodes /\ plan.right \subseteq Nodes
        /\ kind' = kind /\ WellFormed(tree) /\ Answering.at = furthest
        /\ furthest \in Int /\ asked' \in Int /\ t \in Int /\ 0 \in 0..N
        /\ left.at \in Int /\ right.at \in Int
        /\ left \in Cursor /\ right \in Cursor /\ left' \in Cursor /\ right' \in Cursor
    BY PairFacts, NodesAssumption DEF PairInv, Inv, TypeOK, Typed, Cursor, Start, End
  <1>2. \A l \in plan.left : \A r \in plan.right :
          /\ l \in Nodes /\ r \in Nodes /\ l \in Int /\ r \in Int
          /\ tree.key[l] \in Int /\ tree.key[r] \in Int
          /\ Match(l, r) => tree.key[l] <= tree.key[r]
    BY <1>1, MatchFacts, NodeFacts
  <1>3. ~begun => \A n \in Nodes : left.at < n /\ right.at < n
    BY NodesAssumption DEF PairInv, Start, Nodes
  <1>4. CASE kind = "parent_of_attribute"
    <2>1. MoveBoth(t)
      BY <1>4 DEF IntersectCall, AncestorCall, DescendantCall, ToChildren
    <2>2. ASSUME NEW l \in plan.left, NEW r \in plan.right, Match(l, r), Due(FoundOf(l, r))
          PROVE  left.at < l /\ t <= tree.key[l] /\ right.at < r
      <3>1. tree.key[l] = r /\ tree.key[r] = r /\ FoundOf(l, r) = r
        BY <1>1, <1>4, <2>2, MatchFacts DEF FoundOf, Ancestors
      <3>2. furthest < r /\ asked' <= r
        BY <2>2, <3>1 DEF Due
      <3> QED
        BY <1>1, <1>2, <1>4, <3>1, <3>2 DEF PairInv, Answering, Ancestors
    <2> QED
      BY <2>1, <2>2, BothReach
  <1>5. CASE kind \in Ancestors
    <2>1. IF begun THEN MoveLeft(t) ELSE MoveBoth(t)
      BY <1>5 DEF IntersectCall, AncestorCall, DescendantCall, ToChildren, Ancestors
    <2>2. ASSUME NEW l \in plan.left, NEW r \in plan.right, Match(l, r), Due(FoundOf(l, r))
          PROVE  left.at < l /\ t <= tree.key[l]
      <3>1. furthest < l /\ asked' <= tree.key[l]
        BY <1>5, <2>2 DEF FoundOf, Due
      <3> QED
        BY <1>1, <1>2, <1>5, <3>1 DEF Answering
    <2>3. CASE ~begun
      <3>1. MoveBoth(t)
        BY <2>1, <2>3
      <3> QED
        BY <1>2, <1>3, <2>2, <2>3, <3>1, BothReach
    <2>4. CASE begun
      <3>1. left' \in Moves(plan.left, left, t) /\ FailIf(left'.at = End) /\ right' = right
        BY <2>1, <2>4 DEF MoveLeft
      <3>2. furthest < Answering'.at
        BY <1>1, <1>5, <3>1, MovesFacts DEF Answering
      <3> QED
        BY <2>2, <3>1, <3>2, LeftReaches
    <2> QED
      BY <2>3, <2>4
  <1>6. CASE kind \in {"descendant", "descendant_or_self"}
    <2>1. DescendantCall(t)
      BY <1>6 DEF IntersectCall, AncestorCall
    <2>2. ASSUME NEW l \in plan.left, NEW r \in plan.right, Match(l, r), Due(FoundOf(l, r))
          PROVE  right.at < r /\ t <= tree.key[r]
      <3>1. furthest < r /\ asked' <= tree.key[r]
        BY <1>6, <2>2 DEF FoundOf, Due, Ancestors
      <3> QED
        BY <1>1, <1>2, <1>6, <3>1 DEF Answering, Ancestors
    <2>3. CASE begun
      <3>1. right' \in Moves(plan.right, right, t) /\ FailIf(right'.at = End) /\ left' = left
        BY <2>1, <2>3 DEF DescendantCall, MoveRight
      <3>2. furthest < Answering'.at
        BY <1>1, <1>6, <3>1, MovesFacts DEF Answering, Ancestors
      <3> QED
        BY <2>2, <3>1, <3>2, RightReaches
    <2>4. CASE ~begun /\ t = 0
      <3>1. MoveBoth(t)
        BY <2>1, <2>4 DEF DescendantCall
      <3>2. \A l \in plan.left : t <= tree.key[l]
        <4>1. \A l \in plan.left : tree.key[l] \in Nat
          BY <1>1, KeyOrder
        <4> QED
          BY <2>4, <4>1
      <3> QED
        BY <1>2, <1>3, <2>4, <3>1, <3>2, BothReach
    <2>5. CASE ~begun /\ t # 0
      <3>1. /\ right' \in Moves(plan.right, right, t)
            /\ left' \in IF right'.at = End THEN {left} ELSE Moves(plan.left, left, 0)
            /\ FailIf(End \in {left'.at, right'.at})
        BY <2>1, <2>5 DEF DescendantCall
      <3>2. /\ right.at < right'.at
            /\ \A n \in plan.right : right.at < n /\ right.from <= tree.key[n] /\ t <= tree.key[n]
                                    => right'.at <= n /\ right'.from <= tree.key[n]
        BY <1>1, <3>1, MovesFacts
      <3>3. \/ left' = left /\ right'.at = End
            \/ \A n \in plan.left : left.at < n /\ left.from <= tree.key[n] /\ 0 <= tree.key[n]
                                    => left'.at <= n /\ left'.from <= tree.key[n]
        <4>1. CASE right'.at = End
          BY <3>1, <4>1
        <4>2. CASE right'.at # End
          BY <1>1, <3>1, <4>2, MovesFacts
        <4> QED
          BY <4>1, <4>2
      <3>4. ASSUME NEW l \in plan.left, NEW r \in plan.right, Match(l, r), Due(FoundOf(l, r))
            PROVE  /\ left'.at <= l /\ left'.from <= tree.key[l]
                   /\ right'.at <= r /\ right'.from <= tree.key[r]
        <4>1. Reaches(left, l) /\ Reaches(right, r)
          BY <3>4, PairFacts
        <4>2. right'.at <= r /\ right'.from <= tree.key[r]
          BY <2>2, <3>2, <3>4, <4>1 DEF Reaches
        <4>3. left.at < l /\ 0 <= tree.key[l]
          <5>1. tree.key[l] \in Nat
            BY <1>1, KeyOrder
          <5> QED
            BY <1>2, <1>3, <2>5, <5>1
        <4> QED
          BY <3>3, <4>1, <4>2, <4>3 DEF Reaches
      <3>5. DueReached
        BY <3>4 DEF DueReached
      <3>6. furthest < Answering'.at
        BY <1>1, <1>6, <3>2 DEF Answering, Ancestors
      <3>7. Progress
        BY <3>1, <3>6 DEF Progress, FailIf
      <3> QED
        BY <3>5, <3>7, PairMoves
    <2> QED
      BY <2>3, <2>4, <2>5
  <1> QED
    BY <1>4, <1>5, <1>6 DEF Paired, Lineal, Ancestors

\* An answer stands before every pair that is still to come.
LEMMA PairYield ==
  ASSUME PairStep, pc = "join", left.at \in plan.left, right.at \in plan.right,
         Match(left.at, right.at), Yield(FoundOf(left.at, right.at)), UNCHANGED inputs
  PROVE  PairDone
  <1> USE DEF PairStep
  <1> DEFINE n == FoundOf(left.at, right.at)
  <1>1. /\ plan \in Plan /\ WellFormed(tree) /\ kind' = kind /\ tree' = tree
        /\ n \in Nodes /\ n = Answering.at
        /\ furthest < n /\ left' = left /\ right' = right
        /\ plan.left \subseteq Nodes /\ plan.right \subseteq Nodes
    BY PairFacts DEF PairInv, FoundOf, Answering, inputs
  <1>2. Answer(plan) \subseteq Nodes /\ n \in Answer(plan)
    BY <1>1, PairAnswers
  <1>3. ASSUME NEW m \in Nodes, m \in Answer(plan), Due(m) PROVE n <= m
    <2>1. PICK l \in plan.left, r \in plan.right : Match(l, r) /\ m = FoundOf(l, r)
      BY <1>1, <1>3, PairAnswers
    <2>2. left.at <= l /\ right.at <= r
      BY <1>3, <2>1, PairFacts DEF Reaches
    <2> QED
      BY <2>1, <2>2 DEF FoundOf
  <1>4. Answered /\ furthest' = n /\ furthest' # End /\ pc' = "ready"
    <2> HIDE DEF n
    <2>1. Yield(n)
      BY DEF n
    <2> QED
      BY <1>1, <1>2, <1>3, <2>1, YieldAnswers DEF Inv
  <1>5. Answering'.at = furthest'
    BY <1>1, <1>4 DEF Answering
  <1>6. ASSUME NEW l \in plan.left, NEW r \in plan.right,
               Match(l, r)', Counts(FoundOf(l, r))'
        PROVE  Reaches(left, l)' /\ Reaches(right, r)'
    <2> DEFINE m == FoundOf(l, r)
    <2>1. m \in Nodes /\ m' = m /\ Match(l, r)
      BY <1>6, PairFacts
    <2>2. \A k \in Nodes : Counts(k)' => Due(k)
      BY PairFacts
    <2>3. furthest' < m /\ asked' <= tree'.key[m]
      BY <1>6, <2>1 DEF Counts
    <2> HIDE DEF m
    <2>4. Due(m)
      BY <2>1, <2>2, <2>3 DEF Counts
    <2>5. Reaches(left, l) /\ Reaches(right, r)
      BY <2>1, <2>4, PairFacts DEF m
    <2> QED
      BY <1>1, <2>5 DEF Reaches
  <1>7. ASSUME kind = "parent_of_attribute", NEW l \in plan.left, furthest' < tree.key[l]
        PROVE  left.at < l
    <2>1. tree.key[left.at] = furthest'
      BY <1>1, <1>4, <1>7, MatchFacts DEF FoundOf, Ancestors
    <2> QED
      BY <1>1, <1>7, <2>1, OrderFacts
  <1> QED
    BY <1>1, <1>4, <1>5, <1>6, <1>7 DEF PairDone, PairInv

\* The nodes that PassAncestor skips have no descendants left to find.
LEMMA PassSkips ==
  ASSUME WellFormed(tree), left.at \in Nodes, right.at \in Nodes,
         tree.type[left.at] # "attribute",
         left.at < right.at, left.at \notin tree.above[right.at],
         NEW l \in Nodes, NEW r \in Nodes, l \in tree.above[r] \/ l = r,
         tree.type[l] # "attribute", left.at <= l, right.at <= r
  PROVE  left.at < l /\ PassTarget <= tree.key[l]
  <1> DEFINE a == left.at
             d == right.at
  <1>1. /\ \A n \in {a, d, l, r} :
             /\ n \in Int /\ tree.doc[n] \in Int /\ tree.doc[n] <= n
             /\ tree.key[n] \in Int /\ tree.last[n] \in Int
        /\ tree.key[l] = l
    BY NodeFacts
  <1>2. l <= r
    BY <1>1, Nesting
  <1>3. ASSUME a \in tree.above[r] PROVE FALSE
    BY <1>3, Nesting
  <1>4. a # l
    <2>1. l = r => r # a
      BY <1>1
    <2> QED
      BY <1>3, <2>1
  <1>5. a < l
    BY <1>1, <1>4
  <1>6. CASE tree.doc[d] > tree.doc[a]
    <2>1. tree.doc[d] <= tree.doc[r] /\ tree.doc[l] = tree.doc[r]
      BY OrderFacts, AboveFacts
    <2> QED
      BY <1>1, <1>5, <1>6, <2>1 DEF PassTarget
  <1>7. CASE ~(tree.doc[d] > tree.doc[a])
    <2>1. a \notin tree.above[l]
      <3>1. a \in tree.above[l] => a \in tree.above[r]
        BY Nesting
      <3> QED
        BY <1>3, <3>1
    <2>2. ~(tree.key[l] <= tree.last[a])
      BY <1>5, <2>1, AboveFacts
    <2> QED
      BY <1>1, <1>5, <1>7, <2>2 DEF PassTarget
  <1> QED
    BY <1>6, <1>7

LEMMA LinealTurn ==
  ASSUME PairStep, pc = "join", asked' = asked, LinealJoin
  PROVE  PairDone
  <1> USE DEF PairStep
  <1> DEFINE orSelf == kind \in {"descendant_or_self", "ancestor_or_self"}
             cmp == IsDescendantOf(tree, right.at, left.at, orSelf)
  <1>1. /\ plan \in Plan /\ plan.left \subseteq Nodes /\ plan.right \subseteq Nodes
        /\ WellFormed(tree) /\ kind' = kind /\ kind \in Lineal
        /\ furthest < Answering.at /\ kind # "parent_of_attribute"
    BY PairFacts DEF PairInv, LinealJoin, Lineal
  <1>2. /\ left.at \in plan.left /\ right.at \in plan.right
        /\ left.at \in Nodes /\ right.at \in Nodes
    <2>1. begun /\ kind \notin {"union", "except"} \cup ToChildren \cup ToParents
      BY <1>1 DEF Inv, Fresh, Lineal, ToChildren, ToParents
    <2> QED
      BY <1>1, <2>1 DEF Inv, InputsUsable
  <1>3. /\ cmp \in Int
        /\ cmp = 0 <=> left.at \in tree.above[right.at] \/ (orSelf /\ left.at = right.at)
        /\ cmp < 0 => right.at < left.at \/ (~orSelf /\ right.at = left.at)
        /\ cmp > 0 => left.at < right.at /\ left.at \notin tree.above[right.at]
    <2>1. orSelf \in BOOLEAN
      OBVIOUS
    <2> HIDE DEF orSelf
    <2> QED
      BY <1>1, <1>2, <2>1, DescendantFacts
  <1>4. \/ cmp < 0 /\ RightToLeft
        \/ cmp > 0 /\ PassAncestor
        \/ cmp = 0 /\ Yield(FoundOf(left.at, right.at)) /\ UNCHANGED inputs
    BY DEF LinealJoin, FoundOf, Ancestors
  <1>5. \A l \in plan.left : tree.type[l] # "attribute" /\ l \in Nodes /\ l \in Int
    BY <1>1, NodesAssumption DEF Sure, Joinable, kind, tree, Nodes
  <1>6. \A l, r : Match(l, r) <=> l \in tree.above[r] \/ (orSelf /\ l = r)
    BY <1>1 DEF Match
  <1> HIDE DEF cmp
  <1>7. CASE cmp < 0 /\ RightToLeft
    <2> DEFINE t == tree.key[left.at]
    <2>1. t \in 0..N /\ right' \in Moves(plan.right, right, t) /\ left' = left
          /\ FailIf(right'.at = End)
      BY <1>1, <1>2, <1>7, KeyTarget DEF RightToLeft, MoveRight
    <2>2. ASSUME NEW l \in plan.left, NEW r \in plan.right, Match(l, r), Due(FoundOf(l, r))
          PROVE  right.at < r /\ t <= tree.key[r]
      <3>1. left.at <= l /\ right.at <= r /\ l \in Nodes /\ r \in Nodes
        BY <1>1, <2>2, PairFacts DEF Reaches
      <3>2. l <= r
        BY <1>1, <2>2, MatchFacts
      <3>3. left.at <= r /\ l \in Int /\ r \in Int /\ right.at \in Int /\ left.at \in Int
        BY <1>2, <3>1, <3>2, NodesAssumption DEF Nodes
      <3>4. t <= tree.key[r]
        BY <1>1, <1>2, <3>1, <3>3, OrderFacts
      <3>5. right.at # r
        <4>1. CASE right.at = r
          <5>1. left.at = right.at /\ ~orSelf /\ l = r
            BY <1>3, <1>7, <3>1, <3>2, <3>3, <4>1
          <5>2. l \in tree.above[r]
            BY <1>6, <2>2, <5>1
          <5> QED
            BY <1>1, <3>1, <3>3, <5>1, <5>2, Nesting
        <4> QED
          BY <4>1
      <3> QED
        BY <3>1, <3>3, <3>4, <3>5
    <2> HIDE DEF t
    <2> QED
      BY <1>1, <2>1, <2>2, RightReaches
  <1>8. CASE cmp > 0 /\ PassAncestor
    <2>1. /\ left' \in Moves(plan.left, left, PassTarget) /\ right' = right
          /\ FailIf(left'.at = End) /\ PassTarget \in 0..N
      <3>1. PassTarget \in 0..N
        BY <1>1, <1>2, KeyTarget DEF PassTarget
      <3> QED
        BY <1>8, <3>1 DEF PassAncestor, MoveLeft
    <2>2. ASSUME NEW l \in plan.left, NEW r \in plan.right, Match(l, r), Due(FoundOf(l, r))
          PROVE  left.at < l /\ PassTarget <= tree.key[l]
      <3>1. left.at <= l /\ right.at <= r /\ l \in Nodes /\ r \in Nodes
        BY <1>1, <2>2, PairFacts DEF Reaches
      <3>2. l \in tree.above[r] \/ l = r
        BY <1>6, <2>2
      <3> QED
        BY <1>1, <1>2, <1>3, <1>5, <1>8, <3>1, <3>2, PassSkips
    <2> QED
      BY <1>1, <2>1, <2>2, LeftReaches
  <1>9. CASE cmp = 0 /\ Yield(FoundOf(left.at, right.at)) /\ UNCHANGED inputs
    BY <1>2, <1>3, <1>6, <1>9, PairYield
  <1> QED
    BY <1>4, <1>7, <1>8, <1>9

LEMMA ParentOfAttributeTurn ==
  ASSUME PairStep, pc = "join", asked' = asked, ParentOfAttributeJoin
  PROVE  PairDone
  <1> USE DEF PairStep
  <1> DEFINE ids == tree.key[left.at] - tree.key[right.at]
             matches == tree.type[right.at] = "element" /\ tree.type[left.at] = "attribute"
  <1>1. /\ plan \in Plan /\ plan.left \subseteq Nodes /\ plan.right \subseteq Nodes
        /\ WellFormed(tree) /\ kind = "parent_of_attribute" /\ 0 \in 0..N
        /\ furthest < Answering.at
    BY PairFacts, NodesAssumption DEF PairInv, ParentOfAttributeJoin
  <1>2. /\ left.at \in plan.left /\ right.at \in plan.right
        /\ left.at \in Nodes /\ right.at \in Nodes
    <2>1. begun /\ kind \notin {"union", "except"} \cup ToChildren \cup ToParents
      BY <1>1 DEF Inv, Fresh, ToChildren, ToParents
    <2> QED
      BY <1>1, <2>1 DEF Inv, InputsUsable
  <1>3. \/ ids < 0 /\ LeftToRight
        \/ ids > 0 /\ RightToLeft
        \/ ids = 0 /\ matches /\ Yield(right.at) /\ UNCHANGED inputs
        \/ ids = 0 /\ ~matches /\ tree.type[right.at] = "element" /\ MoveLeft(0)
        \/ ids = 0 /\ tree.type[right.at] # "element" /\ MoveRight(0)
    BY <1>1 DEF ParentOfAttributeJoin, MeetAtElement, IsSameNID
  <1>4. /\ tree.key[left.at] \in Int /\ tree.key[right.at] \in Int
        /\ tree.key[left.at] \in 0..N /\ tree.key[right.at] \in 0..N
    BY <1>1, <1>2, NodeFacts, KeyTarget
  <1>5. ASSUME NEW l \in plan.left, NEW r \in plan.right, Match(l, r), Due(FoundOf(l, r))
        PROVE  /\ left.at <= l /\ right.at <= r /\ l \in Nodes /\ r \in Nodes
               /\ l \in Int /\ r \in Int /\ left.at \in Int /\ right.at \in Int
               /\ tree.key[l] = tree.key[r] /\ tree.key[l] \in Int /\ 0 <= tree.key[l]
               /\ tree.type[r] = "element" /\ tree.type[l] = "attribute"
               /\ tree.key[left.at] <= tree.key[l] /\ tree.key[right.at] <= tree.key[r]
               /\ tree.key[left.at] < tree.key[l] => left.at < l
               /\ tree.key[right.at] < tree.key[r] => right.at < r
    <2>1. /\ left.at <= l /\ right.at <= r /\ l \in Nodes /\ r \in Nodes
          /\ tree.key[l] = tree.key[r] /\ tree.type[r] = "element" /\ tree.type[l] = "attribute"
      BY <1>1, <1>5, PairFacts, MatchFacts DEF Reaches
    <2>2. tree.key[l] \in Nat
      BY <1>1, <2>1, KeyOrder
    <2> QED
      BY <1>1, <1>2, <2>1, <2>2, OrderFacts, NodeFacts
  <1>6. CASE ids < 0 /\ LeftToRight
    <2>1. left' \in Moves(plan.left, left, tree.key[right.at]) /\ right' = right
          /\ FailIf(left'.at = End)
      BY <1>6 DEF LeftToRight, MoveLeft
    <2>2. \A l \in plan.left : \A r \in plan.right :
            Match(l, r) /\ Due(FoundOf(l, r)) => left.at < l /\ tree.key[right.at] <= tree.key[l]
      BY <1>4, <1>5, <1>6
    <2> QED
      BY <1>1, <1>4, <2>1, <2>2, LeftReaches
  <1>7. CASE ids > 0 /\ RightToLeft
    <2>1. right' \in Moves(plan.right, right, tree.key[left.at]) /\ left' = left
          /\ FailIf(right'.at = End)
      BY <1>7 DEF RightToLeft, MoveRight
    <2>2. \A l \in plan.left : \A r \in plan.right :
            Match(l, r) /\ Due(FoundOf(l, r)) => right.at < r /\ tree.key[left.at] <= tree.key[r]
      BY <1>4, <1>5, <1>7
    <2> QED
      BY <1>1, <1>4, <2>1, <2>2, RightReaches
  <1>8. CASE ids = 0 /\ matches /\ Yield(right.at) /\ UNCHANGED inputs
    <2>1. tree.parent[left.at] = right.at
      BY <1>1, <1>2, <1>4, <1>8, NodeFacts
    <2>2. Match(left.at, right.at) /\ FoundOf(left.at, right.at) = right.at
      BY <1>1, <1>8, <2>1 DEF Match, FoundOf, Ancestors
    <2> QED
      BY <1>2, <1>8, <2>2, PairYield
  <1>9. CASE ~matches /\ tree.type[right.at] = "element" /\ MoveLeft(0)
    <2>1. left' \in Moves(plan.left, left, 0) /\ right' = right /\ FailIf(left'.at = End)
      BY <1>9 DEF MoveLeft
    <2>2. ASSUME NEW l \in plan.left, NEW r \in plan.right, Match(l, r), Due(FoundOf(l, r))
          PROVE  left.at < l /\ 0 <= tree.key[l]
      <3>1. left.at # l
        BY <1>5, <1>9, <2>2
      <3> QED
        BY <1>5, <2>2, <3>1
    <2> QED
      BY <1>1, <2>1, <2>2, LeftReaches
  <1>10. CASE tree.type[right.at] # "element" /\ MoveRight(0)
    <2>1. right' \in Moves(plan.right, right, 0) /\ left' = left /\ FailIf(right'.at = End)
      BY <1>10 DEF MoveRight
    <2>2. ASSUME NEW l \in plan.left, NEW r \in plan.right, Match(l, r), Due(FoundOf(l, r))
          PROVE  right.at < r /\ 0 <= tree.key[r]
      <3>1. right.at # r
        BY <1>5, <1>10, <2>2
      <3> QED
        BY <1>5, <2>2, <3>1
    <2> QED
      BY <1>1, <2>1, <2>2, RightReaches
  <1> QED
    BY <1>3, <1>6, <1>7, <1>8, <1>9, <1>10
-----------------------------------------------------------------------------
(* The joins that deliver their answers in order, though not all that a    *)
(* target leaves: attributes and children.                                 *)

InOrder == {"attribute"} \cup ToChildren

OrderInv ==
  /\ pc = "join" => furthest < right.at
  /\ pc = "ready" => right.at = furthest

\* A step that answers a call does so as the kind of join promises it.
Replied ==
  pc' # "join" =>
    /\ furthest' \in Answer(plan) \cup {End} /\ furthest <= furthest'
    /\ kind \notin ToParents => furthest < furthest'
    /\ kind \in Merges \cup Paired =>
         furthest' \in Landings(Answer(plan), tree.key, furthest, asked')

LEMMA OrderAnswers ==
  ASSUME plan \in Plan, kind \in InOrder
  PROVE  Answer(plan) = {d \in plan.right :
           /\ kind = "attribute" => tree.type[d] = "attribute"
           /\ tree.parent[d] \in plan.left}
  <1>1. CASE plan.kind = "attribute"
    BY <1>1 DEF Answer, Placed, Merges, ToChildren, ToParents, tree, kind
  <1>2. CASE plan.kind = "child"
    BY <1>2 DEF Answer, Placed, Merges, ToChildren, ToParents, tree, kind
  <1>3. CASE plan.kind = "attribute_or_child"
    BY <1>3 DEF Answer, Placed, Merges, ToChildren, ToParents, tree, kind
  <1> QED
    BY <1>1, <1>2, <1>3 DEF InOrder, ToChildren, kind

LEMMA AnswerNodes ==
  ASSUME plan \in Plan
  PROVE  Answer(plan) \subseteq Nodes
  <1>1. kind \in Kinds /\ plan.left \subseteq Nodes /\ plan.right \subseteq Nodes
    BY PlanFacts
  <1>2. CASE kind \in Merges
    BY <1>1, <1>2, MergeAnswers DEF Merges
  <1>3. CASE kind \in Paired
    BY <1>3, PairAnswers
  <1>4. CASE kind \in InOrder
    BY <1>1, <1>4, OrderAnswers
  <1>5. CASE kind \in ToParents
    BY <1>1, <1>5, ParentAnswers
  <1> QED
    BY <1>1, <1>2, <1>3, <1>4, <1>5 DEF Kinds, Paired, OfAttributes, InOrder

\* What a step on such a join ends with.
LEMMA OrderEnds ==
  ASSUME Inv, furthest # End, kind \in InOrder, plan' = plan, pc # "done",
         right' \in Cursor,
         \/ Fail
         \/ Again /\ furthest < right'.at
         \/ Yield(right.at) /\ furthest < right.at /\ right' = right /\ right.at \in Answer(plan)
  PROVE  OrderInv' /\ Replied
  <1> USE DEF Inv
  <1>1. /\ furthest \in Int /\ End \in Int /\ furthest < End /\ right.at \in Int
        /\ kind' = kind /\ kind \notin Merges \cup Paired \cup ToParents
    <2>1. furthest \in Int /\ End \in Int /\ furthest < End /\ right.at \in Int
      BY NodesAssumption DEF TypeOK, Cursor, Start, End
    <2>2. kind \notin Merges \cup Paired \cup ToParents
      BY DEF InOrder, ToChildren, ToParents, Merges, Paired, Lineal
    <2> QED
      BY <2>1, <2>2, PlanStays
  <1>2. CASE Fail
    BY <1>1, <1>2 DEF Fail, OrderInv, Replied
  <1>3. CASE Again /\ furthest < right'.at
    BY <1>1, <1>3 DEF Again, OrderInv, Replied
  <1>4. CASE Yield(right.at) /\ furthest < right.at /\ right' = right /\ right.at \in Answer(plan)
    <2>1. furthest' = right.at /\ pc' = "ready"
      BY <1>1, <1>4 DEF Yield, Highest
    <2> QED
      BY <1>1, <1>4, <2>1 DEF OrderInv, Replied
  <1> QED
    BY <1>2, <1>3, <1>4

LEMMA OrderAsk ==
  ASSUME Inv, OrderInv, furthest # End, kind \in InOrder, plan' = plan, pc = "ready",
         NEW t \in 0..N, right' \in Cursor, DescendantCall(t) \/ AttributeCall(t)
  PROVE  OrderInv' /\ Replied
  <1> USE DEF Inv
  <1>1. right.at = furthest /\ plan \in Plan /\ plan.right \subseteq Nodes /\ right \in Cursor
    BY PlanFacts DEF OrderInv, TypeOK
  <1>2. MoveRight(t) => Fail \/ (Again /\ furthest < right'.at)
    BY <1>1, RightMoves
  <1>3. MoveBoth(t) => Fail \/ (Again /\ furthest < right'.at)
    <2> SUFFICES ASSUME MoveBoth(t), ~Fail PROVE Again /\ furthest < right'.at
      OBVIOUS
    <2>1. Again /\ left'.at \in plan.left /\ right'.at \in plan.right
      BY BothMove
    <2>2. left'.at \in Nodes /\ left'.at # End
      BY <2>1, PlanFacts, EndFacts DEF TypeOK
    <2>3. right' \in Moves(plan.right, right, tree.key[left'.at]) /\ tree.key[left'.at] \in 0..N
      BY <1>1, <2>2, KeyTarget DEF MoveBoth
    <2> QED
      BY <1>1, <2>1, <2>3, MovesFacts
  <1>4. right' \in Moves(plan.right, right, t) => furthest < right'.at
    BY <1>1, MovesFacts
  <1>5. Fail \/ (Again /\ furthest < right'.at)
    <2>1. CASE DescendantCall(t)
      BY <1>2, <1>3, <1>4, <2>1 DEF DescendantCall, FailIf
    <2>2. CASE AttributeCall(t)
      BY <1>2, <1>3, <2>2 DEF AttributeCall
    <2> QED
      BY <2>1, <2>2
  <1> QED
    BY <1>5, OrderEnds

LEMMA AttributeTurn ==
  ASSUME Inv, OrderInv, furthest # End, plan' = plan, pc = "join", right' \in Cursor, AttributeJoin
  PROVE  OrderInv' /\ Replied
  <1> USE DEF Inv
  <1>1. /\ kind = "attribute" /\ kind \in InOrder /\ plan \in Plan /\ WellFormed(tree)
        /\ furthest < right.at
    BY PlanFacts DEF AttributeJoin, InOrder, TypeOK, OrderInv
  <1>2. /\ left.at \in plan.left /\ right.at \in plan.right
        /\ left.at \in Nodes /\ right.at \in Nodes
    BY <1>1, PlanFacts DEF InputsUsable, Fresh, ToChildren, ToParents
  <1>3. \/ \E t \in 0..N : MoveLeft(t) \/ MoveRight(t)
        \/ /\ tree.key[left.at] - tree.key[right.at] = 0
           /\ tree.type[left.at] = "element" /\ tree.type[right.at] = "attribute"
           /\ Yield(right.at) /\ UNCHANGED inputs
    <2>1. \/ LeftToRight \/ RightToLeft \/ MoveLeft(0) \/ MoveRight(0)
          \/ /\ tree.key[left.at] - tree.key[right.at] = 0
             /\ tree.type[left.at] = "element" /\ tree.type[right.at] = "attribute"
             /\ Yield(right.at) /\ UNCHANGED inputs
      BY DEF AttributeJoin, MeetAtElement, IsSameNID
    <2> QED
      BY <1>2, <2>1, Targets
  <1>4. ASSUME NEW t \in 0..N, MoveLeft(t) \/ MoveRight(t)
        PROVE  Fail \/ (Again /\ furthest < right'.at)
    <2>1. furthest \in Int /\ right.at \in Int /\ right'.at \in Int
      BY NodesAssumption DEF TypeOK, Cursor, Start, End
    <2>2. MoveLeft(t) => (Fail \/ Again) /\ right' = right
      BY LeftMoves
    <2>3. MoveRight(t) => (Fail \/ Again) /\ right.at < right'.at
      BY RightMoves
    <2> QED
      BY <1>1, <1>4, <2>1, <2>2, <2>3
  <1>5. CASE /\ tree.key[left.at] - tree.key[right.at] = 0
             /\ tree.type[left.at] = "element" /\ tree.type[right.at] = "attribute"
             /\ Yield(right.at) /\ UNCHANGED inputs
    <2>1. tree.parent[right.at] = left.at
      BY <1>1, <1>2, <1>5, NodeFacts
    <2>2. right.at \in Answer(plan)
      BY <1>1, <1>2, <1>5, <2>1, OrderAnswers
    <2> QED
      BY <1>1, <1>5, <2>2, OrderEnds DEF inputs
  <1> QED
    BY <1>1, <1>3, <1>4, <1>5, OrderEnds

LEMMA ChildrenTurn ==
  ASSUME Inv, ChildInv, OrderInv, Sure, furthest # End, plan' = plan, pc = "join",
         right' \in Cursor, ChildJoin
  PROVE  OrderInv' /\ Replied
  <1> USE DEF Inv
  <1>1. /\ kind \in ToChildren /\ kind \in InOrder /\ plan \in Plan /\ WellFormed(tree)
        /\ furthest < right.at /\ stack \in Seq(Nodes) /\ 0 \in 0..N
    BY PlanFacts, NodesAssumption DEF ChildJoin, InOrder, TypeOK, OrderInv
  <1>2. /\ left.at \in plan.left \cup {End} /\ right.at \in plan.right
        /\ left.at # End => left.at \in Nodes
        /\ right.at \in Nodes
    <2>1. begun /\ kind \notin {"union", "except"} \cup ToParents
      BY <1>1 DEF Fresh, ToChildren, ToParents
    <2> QED
      BY <1>1, <2>1, PlanFacts DEF InputsUsable
  <1> DEFINE cmp == IF left.at = End THEN -1
                    ELSE IsDescendantOf(tree, right.at, left.at, FALSE)
  <1>3. PICK st \in Unwound(stack, right.at) :
          \/ TryDescendant(st)
          \/ cmp > 0 /\ PassAncestor
          \/ cmp = 0 /\ Push(st)
    BY DEF ChildJoin
  <1>4. left.at = End => ~(cmp > 0) /\ cmp # 0
    OBVIOUS
  <1> HIDE DEF cmp
  <1>5. /\ st \in Seq(Nodes)
        /\ \A i \in DOMAIN st : st[i] \in tree.above[right.at] /\ st[i] \in plan.left
    <2>1. /\ st \in Seq(Nodes)
          /\ \A i \in DOMAIN st : i \in DOMAIN stack /\ st[i] = stack[i]
                                  /\ st[i] \in tree.above[right.at]
      BY <1>1, <1>2, UnwoundFacts DEF ChildInv
    <2> QED
      BY <2>1 DEF ChildInv, Taken
  <1>6. ASSUME NEW t \in 0..N, MoveLeft(t) \/ MoveRight(t)
        PROVE  Fail \/ (Again /\ furthest < right'.at)
    <2>1. furthest \in Int /\ right.at \in Int /\ right'.at \in Int
      BY NodesAssumption DEF TypeOK, Cursor, Start, End
    <2>2. MoveLeft(t) => (Fail \/ Again) /\ right' = right
      BY LeftMoves
    <2>3. MoveRight(t) => (Fail \/ Again) /\ right.at < right'.at
      BY RightMoves
    <2> QED
      BY <1>1, <1>6, <2>1, <2>2, <2>3
  <1>7. CASE cmp > 0 /\ PassAncestor
    BY <1>1, <1>2, <1>4, <1>6, <1>7, Targets, OrderEnds
  <1>8. CASE cmp = 0 /\ Push(st)
    <2>1. Again /\ right' = right
      BY <1>8 DEF Push
    <2> QED
      BY <1>1, <2>1, OrderEnds
  <1>9. CASE TryDescendant(st)
    <2> DEFINE levels == IF kind = "attribute_or_child" /\ tree.type[right.at] = "attribute"
                           THEN 0 ELSE 1
               top == st[Len(st)]
    <2>1. \/ Fail
          \/ left.at # End /\ RightToLeft
          \/ MoveRight(0)
          \/ /\ st # <<>> /\ tree.level[top] = tree.level[right.at] - levels
             /\ Yield(right.at) /\ UNCHANGED inputs
      BY <1>9 DEF TryDescendant
    <2>2. CASE Fail
      BY <1>1, <2>2, OrderEnds
    <2>3. CASE left.at # End /\ RightToLeft
      BY <1>1, <1>2, <1>6, <2>3, Targets, OrderEnds
    <2>4. CASE MoveRight(0)
      BY <1>1, <1>6, <2>4, OrderEnds
    <2>5. CASE /\ st # <<>> /\ tree.level[top] = tree.level[right.at] - levels
               /\ Yield(right.at) /\ UNCHANGED inputs
      <3>1. top \in tree.above[right.at] /\ top \in plan.left
        <4>1. Len(st) \in DOMAIN st
          BY <1>5, <2>5, EmptySeq, LenProperties
        <4> QED
          BY <1>5, <4>1
      <3>2. top = tree.parent[right.at]
        <4>1. CASE tree.type[right.at] = "attribute"
          <5>1. kind # "child"
            BY <1>2, <4>1 DEF Sure, Joinable, kind, tree
          <5>2. levels = 0
            BY <1>1, <4>1, <5>1 DEF ToChildren
          <5>3. tree.level[right.at] - 0 = tree.level[right.at]
            BY <1>1, <1>2, NodeFacts
          <5> HIDE DEF levels, top
          <5> QED
            BY <1>1, <1>2, <2>5, <3>1, <4>1, <5>2, <5>3, ParentFacts
        <4>2. CASE tree.type[right.at] # "attribute"
          <5>1. levels = 1
            BY <4>2
          <5> HIDE DEF levels, top
          <5> QED
            BY <1>1, <1>2, <2>5, <3>1, <4>2, <5>1, ParentFacts
        <4> QED
          BY <4>1, <4>2
      <3>3. right.at \in Answer(plan)
        <4> HIDE DEF top
        <4>1. kind # "attribute"
          BY <1>1 DEF ToChildren
        <4> QED
          BY <1>1, <1>2, <3>1, <3>2, <4>1, OrderAnswers
      <3> QED
        BY <1>1, <2>5, <3>3, OrderEnds DEF inputs
    <2> HIDE DEF levels, top
    <2> QED
      BY <2>1, <2>2, <2>3, <2>4, <2>5
  <1> QED
    BY <1>3, <1>7, <1>8, <1>9
-----------------------------------------------------------------------------
(* All joins.                                                              *)

AnswersInv ==
  /\ Inv /\ BufferInv /\ Sure
  /\ pc # "done" => furthest # End
  /\ kind \in Merges => MergeInv
  /\ kind \in Paired => PairInv
  /\ kind \in InOrder => OrderInv

\* What every call and every turn ends with.
Ends == Again \/ Fail \/ \E n : Yield(n)

LEMMA AskEnds ==
  ASSUME NEW t \in 0..N, Ask(t)
  PROVE  Ends
  <1>1. (MoveLeft(t) => Ends) /\ (MoveRight(t) => Ends) /\ (MoveBoth(t) => Ends)
    BY DEF MoveLeft, MoveRight, MoveBoth, FailIf, Ends
  <1>2. CASE ParentCall(t)
    BY <1>1, <1>2 DEF ParentCall, Ends
  <1>3. CASE UnionCall(t) \/ ExceptCall(t)
    BY <1>3 DEF UnionCall, ExceptCall, FailIf, Ends
  <1>4. CASE DescendantCall(t)
    BY <1>1, <1>4 DEF DescendantCall, FailIf, Ends
  <1>5. CASE IntersectCall(t) \/ AncestorCall(t) \/ AttributeCall(t)
    BY <1>1, <1>5 DEF IntersectCall, AncestorCall, AttributeCall
  <1> QED
    BY <1>2, <1>3, <1>4, <1>5 DEF Ask

LEMMA JoinEnds ==
  ASSUME Join
  PROVE  Ends
  <1>1. /\ LeftToRight => Ends
        /\ RightToLeft => Ends
        /\ PassAncestor => Ends
        /\ MoveLeft(0) => Ends
        /\ MoveRight(0) => Ends
    BY DEF LeftToRight, RightToLeft, PassAncestor, MoveLeft, MoveRight, FailIf, Ends
  <1>2. CASE IntersectJoin \/ LinealJoin
    BY <1>1, <1>2 DEF IntersectJoin, LinealJoin, Ends
  <1>3. CASE AttributeJoin \/ ParentOfAttributeJoin
    BY <1>1, <1>3 DEF AttributeJoin, ParentOfAttributeJoin, MeetAtElement, Ends
  <1>4. CASE UnionJoin
    BY <1>4 DEF UnionJoin, Ends
  <1>5. CASE ExceptJoin
    BY <1>1, <1>5 DEF ExceptJoin, Ends
  <1>6. CASE ChildJoin
    <2>1. \A st : (TryDescendant(st) => Ends) /\ (Push(st) => Ends)
      BY <1>1 DEF TryDescendant, Push, Ends
    <2> QED
      BY <1>1, <1>6, <2>1 DEF ChildJoin
  <1>7. CASE ParentJoin
    <2>1. \A found : (Output(found) => Ends) /\ (Finish(found) => Ends)
      BY DEF Output, Finish, Ends
    <2>2. TakeParent => Ends
      BY <2>1 DEF TakeParent, Ends
    <2>3. Push(stack) => Ends
      BY DEF Push, Ends
    <2> QED
      BY <1>1, <1>7, <2>1, <2>2, <2>3 DEF ParentJoin
  <1> QED
    BY <1>2, <1>3, <1>4, <1>5, <1>6, <1>7 DEF Join

\* What was answered stays or moves forwards.
LEMMA EndsAdvance ==
  ASSUME TypeOK, furthest' \in Start..End, Ends
  PROVE  furthest <= furthest' /\ (pc' = "join" => furthest' = furthest)
  BY NodesAssumption DEF Ends, Again, Fail, Yield, Highest, TypeOK, Start, End

\* A merge or a join of pairs that is answered is answered in order too.
LEMMA AnsweredReplies ==
  ASSUME plan \in Plan, furthest \in Start..End, kind \in Merges \cup Paired, Answered
  PROVE  Replied
  <1> SUFFICES ASSUME pc' # "join"
               PROVE  /\ furthest' \in Answer(plan) \cup {End}
                      /\ furthest <= furthest' /\ furthest < furthest'
                      /\ furthest' \in Landings(Answer(plan), tree.key, furthest, asked')
    BY DEF Replied
  <1>1. furthest' \in Landings(Answer(plan), tree.key, furthest, asked')
    BY DEF Answered
  <1>2. furthest' \in Answer(plan) \cup {End} /\ furthest < furthest'
    BY <1>1 DEF Landings
  <1>3. furthest \in Int /\ furthest' \in Int
    BY <1>2, AnswerNodes, NodesAssumption DEF Start, End, Nodes
  <1> QED
    BY <1>1, <1>2, <1>3

\* The answer of a parent join is a parent, and no earlier than the last.
LEMMA ParentReplies ==
  ASSUME Inv, Inv', ParentInv', Sure, kind \in ToParents, plan' = plan,
         furthest <= furthest', pc' # "join", Start < furthest', Fail \/ pc' = "ready"
  PROVE  Replied
  <1>1. kind \notin Merges \cup Paired
    BY DEF ToParents, Merges, Paired, Lineal
  <1>2. furthest' = End \/ furthest' \in Answer(plan)
    <2>1. CASE Fail
      BY <2>1 DEF Fail
    <2>2. CASE pc' = "ready"
      <3>1. furthest' \in Answer(plan) \cup {Start}
        BY <2>2, PlanStays DEF ParentInv
      <3>2. furthest' # Start
        BY NodesAssumption DEF Start
      <3> QED
        BY <3>1, <3>2
    <2> QED
      BY <2>1, <2>2
  <1> QED
    BY <1>1, <1>2 DEF Replied

\* A join that is not done has not answered that there are no more.
LEMMA NotEnd ==
  ASSUME Inv, Inv', plan' = plan, begun', pc' # "done",
         (kind \in InOrder /\ OrderInv') \/ (kind \in ToParents /\ ParentInv')
  PROVE  furthest' # End
  <1>1. /\ kind' = kind /\ furthest' \in Int /\ left'.at \in Int /\ left'.at <= End
        /\ right'.at \in Int /\ right'.at <= End /\ End \in Int /\ pc' \in {"ready", "join"}
    BY PlanStays, NodesAssumption DEF Inv, TypeOK, Cursor, Start, End
  <1>2. CASE kind \in ToParents /\ ParentInv'
    BY <1>1, <1>2 DEF ParentInv
  <1>3. CASE kind \in InOrder /\ OrderInv' /\ pc' = "join"
    BY <1>1, <1>3 DEF OrderInv
  <1>4. CASE kind \in InOrder /\ OrderInv' /\ pc' = "ready"
    <2>1. kind \notin {"union", "except"} \cup ToParents
      BY <1>4 DEF InOrder, ToChildren, ToParents
    <2>2. right'.at \in plan.right
      BY <1>1, <1>4, <2>1 DEF Inv, InputsUsable
    <2> QED
      BY <1>4, <2>2, PlanFacts, EndFacts DEF OrderInv, Inv, TypeOK
  <1> QED
    BY <1>1, <1>2, <1>3, <1>4

LEMMA AnswersAsk ==
  ASSUME AnswersInv, NEW t \in 0..N, Ask(t)
  PROVE  AnswersInv' /\ Replied /\ (pc' = "join" => furthest' = furthest)
  <1> USE DEF AnswersInv
  <1>1. /\ pc = "ready" /\ plan' = plan /\ begun' /\ kind' = kind /\ furthest # End
        /\ asked' = Highest(asked, t) /\ Sure' /\ plan \in Plan /\ kind \in Kinds
        /\ furthest \in Start..End
    <2>1. pc = "ready" /\ plan' = plan /\ begun' = TRUE /\ asked' = Highest(asked, t)
      BY DEF Ask
    <2> QED
      BY <2>1, PlanStays, PlanFacts DEF Inv, TypeOK
  <1>2. asked' \in 0..N /\ asked <= asked' /\ t <= asked'
    BY <1>1, NodesAssumption DEF Inv, TypeOK, Highest
  <1>3. Inv' /\ Typed' /\ BufferInv' /\ furthest' \in Start..End /\ right' \in Cursor
    <2>1. Inv' /\ BufferInv'
      BY AskStep, BufferStep DEF Next
    <2> QED
      BY <2>1 DEF Inv, TypeOK, Typed
  <1>4. furthest <= furthest' /\ (pc' = "join" => furthest' = furthest)
    BY <1>3, AskEnds, EndsAdvance DEF Inv
  <1>5. CASE kind \in Merges
    <2>1. MergeInv' /\ Answered
      BY <1>5, MergeAsk
    <2>2. Replied
      BY <1>1, <1>5, <2>1, AnsweredReplies
    <2>3. kind \notin Paired \cup InOrder
      BY <1>5 DEF Merges, Paired, Lineal, InOrder, ToChildren
    <2> QED
      BY <1>1, <1>3, <1>4, <2>1, <2>2, <2>3 DEF MergeInv
  <1>6. CASE kind \in Paired
    <2>1. kind \notin Merges \cup InOrder \cup ToParents
      BY <1>6 DEF Merges, Paired, Lineal, InOrder, ToChildren, ToParents
    <2>2. IntersectCall(t) \/ AncestorCall(t) \/ DescendantCall(t)
      BY <2>1 DEF Ask, UnionCall, ExceptCall, AttributeCall, ParentCall, Merges, InOrder
    <2>3. PairStep
      BY <1>1, <1>2, <1>3, <1>4, <1>6 DEF PairStep
    <2>4. PairDone
      BY <1>1, <1>2, <2>2, <2>3, PairAsk
    <2>5. Replied
      BY <1>1, <1>6, <2>4, AnsweredReplies DEF PairDone
    <2> QED
      BY <1>1, <1>3, <1>4, <2>1, <2>4, <2>5 DEF PairDone
  <1>7. CASE kind \in InOrder
    <2>1. kind \notin Merges \cup Paired \cup ToParents
      BY <1>7 DEF Merges, Paired, Lineal, InOrder, ToChildren, ToParents
    <2>2. DescendantCall(t) \/ AttributeCall(t)
      BY <2>1, <1>7 DEF Ask, IntersectCall, UnionCall, ExceptCall, AncestorCall, ParentCall,
                        Merges, Paired, Lineal
    <2>3. OrderInv' /\ Replied
      BY <1>1, <1>3, <1>7, <2>2, OrderAsk
    <2>4. pc' # "done" => furthest' # End
      BY <1>1, <1>3, <1>7, <2>3, NotEnd
    <2> QED
      BY <1>1, <1>3, <1>4, <2>1, <2>3, <2>4
  <1>8. CASE kind \in ToParents
    <2>1. kind \notin Merges \cup Paired \cup InOrder
      BY <1>8 DEF Merges, Paired, Lineal, InOrder, ToChildren, ToParents
    <2>2. ParentInv' /\ ParentCall(t)
      BY <1>1, <1>3, <1>8, <2>1
         DEF BufferInv, Ask, IntersectCall, UnionCall, ExceptCall, AncestorCall,
             DescendantCall, AttributeCall, Merges, Paired, Lineal, InOrder, ToChildren
    <2>3. pc' # "done" => furthest' # End
      BY <1>1, <1>3, <1>8, <2>2, NotEnd
    <2>4. \/ pc' = "join"
          \/ Fail /\ Start < furthest'
          \/ pc' = "ready" /\ Start < furthest'
      <3>1. Again => pc' = "join"
        BY DEF Again
      <3>2. Fail => Start < furthest'
        BY NodesAssumption DEF Fail, Start, End
      <3>3. MoveLeft(t) \/ MoveBoth(t) => Again \/ Fail
        BY DEF MoveLeft, MoveBoth, FailIf
      <3>4. ASSUME NEW i \in DOMAIN results, Yield(results[i])
            PROVE  pc' = "ready" /\ Start < furthest'
        <4>1. results[i] \in Nodes
          BY <3>4, LenProperties, ElementOfSeq DEF Inv, TypeOK
        <4> QED
          BY <1>1, <3>4, <4>1, NodesAssumption DEF Yield, Highest, Nodes, Start, End
      <3> QED
        BY <2>2, <3>1, <3>2, <3>3, <3>4 DEF ParentCall
    <2>5. Replied
      <3>1. CASE pc' = "join"
        BY <3>1 DEF Replied
      <3>2. CASE pc' # "join"
        BY <1>1, <1>3, <1>4, <1>8, <2>2, <2>4, <3>2, ParentReplies
      <3> QED
        BY <3>1, <3>2
    <2> QED
      BY <1>1, <1>3, <1>4, <2>1, <2>3, <2>5
  <1> QED
    BY <1>1, <1>5, <1>6, <1>7, <1>8 DEF Kinds, Paired, OfAttributes, InOrder

LEMMA AnswersJoin ==
  ASSUME AnswersInv, Join
  PROVE  AnswersInv' /\ Replied /\ (pc' = "join" => furthest' = furthest)
  <1> USE DEF AnswersInv
  <1>1. /\ pc = "join" /\ plan' = plan /\ begun' = begun /\ begun /\ kind' = kind
        /\ furthest # End /\ asked' = asked /\ Sure' /\ plan \in Plan /\ kind \in Kinds
        /\ furthest \in Start..End /\ asked \in 0..N
    <2>1. pc = "join" /\ plan' = plan /\ begun' = begun /\ asked' = asked
      BY DEF Join
    <2> QED
      BY <2>1, PlanStays, PlanFacts DEF Inv, TypeOK, Fresh
  <1>2. asked' \in 0..N /\ asked <= asked'
    BY <1>1, NodesAssumption
  <1>3. Inv' /\ Typed' /\ BufferInv' /\ furthest' \in Start..End /\ right' \in Cursor
        /\ (kind \in ToParents /\ pc' # "join" => Follows)
    <2>1. Inv' /\ BufferInv' /\ (kind \in ToParents /\ ~UNCHANGED vars => Follows)
      BY <1>1, JoinStep, BufferStep DEF Next
    <2>2. pc' # "join" => ~UNCHANGED vars
      BY <1>1 DEF vars
    <2> QED
      BY <2>1, <2>2 DEF Inv, TypeOK, Typed
  <1>4. furthest <= furthest' /\ (pc' = "join" => furthest' = furthest)
    BY <1>3, JoinEnds, EndsAdvance DEF Inv
  <1>5. CASE kind \in Merges
    <2>1. MergeInv' /\ Answered
      BY <1>5, MergeJoin
    <2>2. Replied
      BY <1>1, <1>5, <2>1, AnsweredReplies
    <2>3. kind \notin Paired \cup InOrder
      BY <1>5 DEF Merges, Paired, Lineal, InOrder, ToChildren
    <2> QED
      BY <1>1, <1>3, <1>4, <2>1, <2>2, <2>3 DEF MergeInv
  <1>6. CASE kind \in Paired
    <2>1. kind \notin Merges \cup InOrder \cup ToParents
      BY <1>6 DEF Merges, Paired, Lineal, InOrder, ToChildren, ToParents
    <2>2. LinealJoin \/ ParentOfAttributeJoin
      BY <2>1 DEF Join, IntersectJoin, UnionJoin, ExceptJoin, AttributeJoin, ChildJoin,
                  ParentJoin, Merges, InOrder
    <2>3. PairStep
      BY <1>1, <1>2, <1>3, <1>4, <1>6 DEF PairStep
    <2>4. PairDone
      BY <1>1, <2>2, <2>3, LinealTurn, ParentOfAttributeTurn
    <2>5. Replied
      BY <1>1, <1>6, <2>4, AnsweredReplies DEF PairDone
    <2> QED
      BY <1>1, <1>3, <1>4, <2>1, <2>4, <2>5 DEF PairDone
  <1>7. CASE kind \in InOrder
    <2>1. kind \notin Merges \cup Paired \cup ToParents
      BY <1>7 DEF Merges, Paired, Lineal, InOrder, ToChildren, ToParents
    <2>2. AttributeJoin \/ (ChildJoin /\ ChildInv)
      BY <2>1, <1>7 DEF Join, IntersectJoin, UnionJoin, ExceptJoin, LinealJoin,
           ParentOfAttributeJoin, ParentJoin, ChildJoin, BufferInv, Merges, Paired, Lineal
    <2>3. OrderInv' /\ Replied
      BY <1>1, <1>3, <1>7, <2>2, AttributeTurn, ChildrenTurn
    <2>4. pc' # "done" => furthest' # End
      BY <1>1, <1>3, <1>7, <2>3, NotEnd
    <2> QED
      BY <1>1, <1>3, <1>4, <2>1, <2>3, <2>4
  <1>8. CASE kind \in ToParents
    <2>1. kind \notin Merges \cup Paired \cup InOrder
      BY <1>8 DEF Merges, Paired, Lineal, InOrder, ToChildren, ToParents
    <2>2. ParentInv'
      BY <1>1, <1>3, <1>8 DEF BufferInv
    <2>3. pc' # "done" => furthest' # End
      BY <1>1, <1>3, <1>8, <2>2, NotEnd
    <2>4. pc' # "join" => Fail \/ pc' = "ready"
      BY JoinEnds DEF Ends, Again, Yield
    <2>5. pc' # "join" => Start < furthest'
      <3>1. Fail => Start < furthest'
        BY NodesAssumption DEF Fail, Start, End
      <3>2. pc' = "ready" => Start < furthest'
        BY <1>1, <1>3, <1>8, NodesAssumption DEF Follows, Start, End
      <3> QED
        BY <2>4, <3>1, <3>2
    <2>6. Replied
      <3>1. CASE pc' = "join"
        BY <3>1 DEF Replied
      <3>2. CASE pc' # "join"
        BY <1>1, <1>3, <1>4, <1>8, <2>2, <2>4, <2>5, <3>2, ParentReplies
      <3> QED
        BY <3>1, <3>2
    <2> QED
      BY <1>1, <1>3, <1>4, <2>1, <2>3, <2>6
  <1> QED
    BY <1>1, <1>5, <1>6, <1>7, <1>8 DEF Kinds, Paired, OfAttributes, InOrder

LEMMA AnswersInit == Init /\ Sure => AnswersInv
  <1> SUFFICES ASSUME Init, Sure PROVE AnswersInv
    OBVIOUS
  <1>1. Inv /\ BufferInv /\ plan \in Plan
    BY InvInit, BufferInit DEF Inv, TypeOK
  <1>2. /\ left = [at |-> Start, from |-> 0] /\ right = [at |-> Start, from |-> 0]
        /\ pc = "ready" /\ furthest = Start /\ furthest # End /\ asked = 0 /\ ~begun
    BY EndFacts DEF Init
  <1>3. \A n \in Nodes : Start < n /\ n \in Int /\ tree.key[n] \in Nodes
    BY <1>1, PlanFacts, NodesAssumption DEF Nodes, Start, WellFormed
  <1>4. PairInv
    <2>1. plan.left \subseteq Nodes /\ plan.right \subseteq Nodes
      BY <1>1, PlanFacts
    <2>2. \A n \in Nodes : Start <= n /\ 0 <= tree.key[n]
      BY <1>3, NodesAssumption DEF Nodes, Start
    <2>3. \A n \in Nodes : Reaches(left, n) /\ Reaches(right, n)
      BY <1>2, <2>2 DEF Reaches
    <2>4. Answering.at = furthest
      BY <1>2 DEF Answering
    <2> QED
      BY <1>2, <1>3, <2>1, <2>3, <2>4 DEF PairInv
  <1>5. OrderInv
    BY <1>2 DEF OrderInv
  <1> QED
    BY <1>1, <1>2, <1>4, <1>5, MergeInit DEF AnswersInv

\* Of this kind of join no more is asked than it keeps.
PromiseFits ==
  /\ kind \in Complete => kind \in Merges \cup Paired
  /\ kind \in Ordered => kind \notin ToParents

\* Every join implements NodeIterator, each as far as its kind promises: the
\* merges, the joins of ancestors and descendants and the parents of attributes
\* answer every call with the next answer that counts, attributes and children
\* come in order, and what the parent joins deliver are parents.
THEOREM JoinsImplement == Spec /\ Sure /\ PromiseFits => ImplementsIterator
  <1> DEFINE step == [Iterator!Next]_(Iterator!vars)
             I == AnswersInv /\ PromiseFits
  <1>1. Init /\ Sure => AnswersInv /\ Iterator!Init
    <2> SUFFICES ASSUME Init, Sure PROVE AnswersInv /\ Iterator!Init
      OBVIOUS
    <2>1. AnswersInv
      BY AnswersInit
    <2>2. Answer(plan) \subseteq Nodes
      BY AnswerNodes, PlansAssumption DEF Init
    <2>3. pc # "join" /\ furthest = Start /\ asked = 0
      BY DEF Init
    <2> QED
      BY <2>1, <2>2, <2>3
         DEF Iterator!Init, Iterator!Promises, Iterator!Start, Iterator!Nodes, Start, Nodes
  <1>2. I /\ [Next]_vars => AnswersInv' /\ step
    <2> SUFFICES ASSUME I, [Next]_vars PROVE AnswersInv' /\ step
      OBVIOUS
    <2>1. kind \in Kinds /\ furthest \in Start..End
      BY PlanFacts DEF AnswersInv, Inv, TypeOK
    <2>2. ASSUME Replied, pc' # "join", plan' = plan PROVE Iterator!Found
      <3>1. /\ furthest' \in Answer(plan) \cup {End} /\ furthest <= furthest'
            /\ kind \notin ToParents => furthest < furthest'
            /\ kind \in Merges \cup Paired =>
                 furthest' \in Landings(Answer(plan), tree.key, furthest, asked')
        BY <2>2 DEF Replied
      <3>2. (kind \in Complete => kind \in Merges \cup Paired)
            /\ (kind \in Ordered => kind \notin ToParents)
        BY DEF PromiseFits
      <3>3. kind \in Complete => kind \in Ordered
        BY PromiseAssumption
      <3> QED
        BY <3>1, <3>2, <3>3
           DEF Iterator!Found, Iterator!End, Iterator!Landings, End, Landings,
               Iterator!Nodes, Nodes
    <2>3. ASSUME NEW t \in 0..N, Ask(t) PROVE AnswersInv' /\ step
      <3>1. AnswersInv' /\ Replied /\ (pc' = "join" => furthest' = furthest)
        BY <2>3, AnswersAsk
      <3>2. pc = "ready" /\ plan' = plan /\ asked' = Highest(asked, t) /\ furthest # End
        BY <2>3 DEF Ask, AnswersInv
      <3>3. tree' = tree /\ kind' = kind /\ Answer(plan)' = Answer(plan)
        BY <3>2, PlanStays
      <3>4. Iterator!Call(t)
        <4>1. CASE pc' = "join"
          BY <3>1, <3>2, <3>3, <4>1
             DEF Iterator!Call, Iterator!fixed, Iterator!End, End, Iterator!Highest, Highest
        <4>2. CASE pc' # "join"
          <5>1. Iterator!Found
            BY <2>2, <3>1, <3>2, <4>2
          <5> QED
            BY <3>2, <3>3, <4>2, <5>1
               DEF Iterator!Call, Iterator!fixed, Iterator!End, End, Iterator!Highest, Highest
        <4> QED
          BY <4>1, <4>2
      <3> QED
        BY <2>3, <3>1, <3>4 DEF Iterator!Next
    <2>4. CASE Join
      <3>1. AnswersInv' /\ Replied /\ (pc' = "join" => furthest' = furthest)
        BY <2>4, AnswersJoin
      <3>2. pc = "join" /\ plan' = plan /\ asked' = asked
        BY <2>4 DEF Join
      <3>3. tree' = tree /\ kind' = kind /\ Answer(plan)' = Answer(plan)
        BY <3>2, PlanStays
      <3>4. CASE pc' = "join"
        BY <3>1, <3>2, <3>3, <3>4 DEF Iterator!vars, Iterator!fixed
      <3>5. CASE pc' # "join"
        <4>1. Iterator!Found
          BY <2>2, <3>1, <3>2, <3>5
        <4>2. Iterator!Return
          BY <3>2, <3>3, <3>5, <4>1 DEF Iterator!Return, Iterator!fixed
        <4> QED
          BY <3>1, <4>2 DEF Iterator!Next
      <3> QED
        BY <3>4, <3>5
    <2>5. CASE UNCHANGED vars
      <3>1. UNCHANGED <<plan, left, right, begun, sides, pc, furthest, asked>>
        BY <2>5 DEF vars, inputs
      <3>2. tree' = tree /\ kind' = kind /\ Answer(plan)' = Answer(plan) /\ (Sure' <=> Sure)
        BY <3>1, PlanStays
      <3>3. Inv' /\ BufferInv'
        BY <2>5, InvStep, BufferStep DEF AnswersInv
      <3>4. (MergeInv => MergeInv')
        BY <3>1, <3>2 DEF MergeInv, IntersectInv, UnionInv, SideInv, ExceptInv,
                          Counts, Reaches
      <3>5. (PairInv => PairInv') /\ (OrderInv => OrderInv')
        BY <3>1, <3>2 DEF PairInv, OrderInv, Match, FoundOf, Answering, Counts, Reaches
      <3>6. AnswersInv'
        BY <3>1, <3>2, <3>3, <3>4, <3>5 DEF AnswersInv
      <3>7. step
        BY <3>1, <3>2 DEF Iterator!vars
      <3> QED
        BY <3>6, <3>7
    <2> QED
      BY <2>3, <2>4, <2>5 DEF Next, Deleted
  <1>3. I /\ [Next]_vars => PromiseFits'
    <2>1. [Next]_vars => plan' = plan
      BY DEF Next, Ask, Join, Deleted, vars
    <2> QED
      BY <2>1, PlanStays DEF PromiseFits
  <1> QED
    BY <1>1, <1>2, <1>3, PTL DEF Spec, ImplementsIterator

\* Intersect, union and except keep the strongest promise for every two inputs
\* that keep it too: no plan of theirs is left out.
THEOREM MergesImplement == Spec /\ kind \in Merges => ImplementsIterator
  <1>1. kind \in Merges => Sure /\ PromiseFits
    BY DEF Sure, Joinable, MayTakeGrandparent, PromiseFits, kind, Merges, Lineal, ToParents
  <1> QED
    BY <1>1, JoinsImplement
=============================================================================
