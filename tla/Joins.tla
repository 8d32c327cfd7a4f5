------------------------------- MODULE Joins --------------------------------
(***************************************************************************)
(* The joins a query plan is executed with: iterators that merge the       *)
(* answers of two other iterators, by identity (intersect, union, except)  *)
(* or by the place of a node in its document (descendant, child, parent    *)
(* and so on).  A caller asks a join for the next node, or the next one at *)
(* or after a target, and the join asks its two inputs in the same way,    *)
(* once or twice when it is called and then in the turns of a loop,        *)
(* doJoin(), until its inputs stand at an answer or one of them is at its  *)
(* end.                                                                    *)
(*                                                                         *)
(* The inputs are any iterators that keep the promise of NodeIterator.     *)
(* One call, and one turn of the loop, are one step each.                  *)
(***************************************************************************)
EXTENDS NodeInfo, Sequences

CONSTANTS
  Forests,  \* contents of the containers
  Plans,    \* the joins to execute: which, of what, in which forest
  Complete, \* the kinds of join that are to find all their answers
  Ordered   \* the kinds that are to deliver them in document order

Merges == {"intersect", "union", "except"}
Lineal == {"descendant", "descendant_or_self", "ancestor", "ancestor_or_self"}
OfAttributes == {"attribute", "parent_of_attribute"}
ToChildren == {"child", "attribute_or_child"}
ToParents == {"parent_of_child", "parent"}
Kinds == Merges \cup Lineal \cup OfAttributes \cup ToChildren \cup ToParents

Plan == [kind : Kinds, forest : DOMAIN Forests,
         left : SUBSET Nodes, right : SUBSET Nodes]

ASSUME ForestsAssumption ==
  \A f \in DOMAIN Forests : WellFormed(Forests[f])
ASSUME PlansAssumption == Plans \subseteq Plan
ASSUME PromiseAssumption == Complete \subseteq Ordered

VARIABLES
  plan,        \* what is executed
  left, right, \* the inputs, by the side of the plan they are on
  begun,       \* state_, toDo_: whether the join has been asked before
  sides,       \* next_: the sides of a union to move when it is asked
  stack,       \* ancestorStack_
  results,     \* results_ from it_ on
  pc,
  furthest,    \* the furthest node answered
  asked        \* the highest target asked for

inputs == <<left, right>>
buffers == <<stack, results>>
vars == <<plan, inputs, begun, sides, buffers, pc, furthest, asked>>

kind == plan.kind
tree == Forests[plan.forest]

\* The plans whose answers are what the name of the join means: an ancestor is
\* no attribute, nor a child where the join is one of elements.
Joinable(p) ==
  LET attributes == {n \in Nodes : Forests[p.forest].type[n] = "attribute"}
  IN  /\ p.kind \in Lineal \cup {"parent"} => p.left \cap attributes = {}
      /\ p.kind \in {"child", "parent_of_child"} => p.right \cap attributes = {}

\* The parent join may take the parent of an attribute's owner for the parent
\* of the attribute.
MayTakeGrandparent(p) ==
  LET t == Forests[p.forest]
  IN  /\ p.kind = "parent"
      /\ \E d \in p.right :
           t.type[d] = "attribute" /\ t.parent[t.parent[d]] \in p.left

Cursor == [at : Start..End, from : 0..N]

\* What a merge finds: the nodes of its inputs, as many as it keeps.
Merged(p) ==
  {n \in p.left \cup p.right :
     /\ p.kind = "intersect" => n \in p.left \cap p.right
     /\ p.kind = "except" => n \notin p.right}

\* What the other joins find, by the place of the nodes in their documents.
Placed(p) ==
  LET L == p.left
      R == p.right
      t == Forests[p.forest]
      up(n) == t.above[n]
      upOrSelf(n) == up(n) \cup {n}
      isAttribute(n) == t.type[n] = "attribute"
  IN  CASE p.kind = "descendant" -> {d \in R : up(d) \cap L # {}}
        [] p.kind = "descendant_or_self" -> {d \in R : upOrSelf(d) \cap L # {}}
        [] p.kind = "ancestor" -> {a \in L : \E d \in R : a \in up(d)}
        [] p.kind = "ancestor_or_self" ->
             {a \in L : \E d \in R : a \in upOrSelf(d)}
        [] p.kind = "attribute" ->
             {d \in R : isAttribute(d) /\ t.parent[d] \in L}
        [] p.kind = "parent_of_attribute" ->
             {a \in R : \E d \in L : isAttribute(d) /\ t.parent[d] = a}
        [] p.kind \in ToChildren -> {d \in R : t.parent[d] \in L}
        [] p.kind \in ToParents ->
             {a \in L : \E d \in R : t.parent[d] = a}

\* The nodes a join is there to find, by what its name means.
Answer(p) == IF p.kind \in Merges THEN Merged(p) ELSE Placed(p)

Init ==
  /\ plan \in Plans
  /\ left = [at |-> Start, from |-> 0]
  /\ right = [at |-> Start, from |-> 0]
  /\ begun = FALSE
  /\ sides = {"left", "right"}
  /\ stack = <<>> /\ results = <<>>
  /\ pc = "ready"
  /\ furthest = Start /\ asked = 0

-----------------------------------------------------------------------------
(* What a call or a turn of the loop ends with.                            *)

Again == pc' = "join" /\ UNCHANGED furthest
Yield(n) == pc' = "ready" /\ furthest' = Highest(furthest, n)
Fail == pc' = "done" /\ furthest' = End
FailIf(atEnd) == IF atEnd THEN Fail ELSE Again

\* A mutant of Moves: an input that is at or after the target stays there.
MovesIfBefore(S, cursor, t) ==
  LET f == Highest(cursor.from, t)
      there == t > 0 /\ cursor.at \in S /\ t <= tree.key[cursor.at]
  IN  [at : IF there THEN {cursor.at} ELSE Landings(S, tree.key, cursor.at, f),
       from : {f}]

\* Where an input over S may be after it is asked for t.
Moves(S, cursor, t) ==
  LET f == Highest(cursor.from, t)
  IN  [at : Landings(S, tree.key, cursor.at, f), from : {f}]

MoveLeft(t) ==
  /\ left' \in Moves(plan.left, left, t)
  /\ FailIf(left'.at = End)
  /\ UNCHANGED right

MoveRight(t) ==
  /\ right' \in Moves(plan.right, right, t)
  /\ FailIf(right'.at = End)
  /\ UNCHANGED left

\* Move the left input, and the right one to it.
MoveBoth(t) ==
  /\ left' \in Moves(plan.left, left, t)
  /\ IF left'.at = End
       THEN Fail /\ UNCHANGED right
       ELSE /\ right' \in Moves(plan.right, right, tree.key[left'.at])
            /\ FailIf(right'.at = End)

\* A mutant of LeftToRight: past the ids of the right node.
LeftPastRight == MoveLeft(tree.key[right.at] + 1)

\* Move each input to the ids of the node the other one is at.
LeftToRight == MoveLeft(tree.key[right.at])

RightToLeft == MoveRight(tree.key[left.at])
-----------------------------------------------------------------------------
(* next(), where t is 0, and seek().                                       *)

IntersectCall(t) ==
  kind \in {"intersect", "parent_of_attribute"} /\ MoveBoth(t) /\ UNCHANGED buffers

\* A side moves if the last answer came from it or it is before the target.
UnionCall(t) ==
  LET moves(side, cursor) ==
        \/ side \in sides
        \/ cursor.at \in Nodes /\ tree.key[cursor.at] < t
  IN  /\ kind = "union"
      /\ left' \in IF moves("left", left) THEN Moves(plan.left, left, t) ELSE {left}
      /\ right' \in IF moves("right", right) THEN Moves(plan.right, right, t) ELSE {right}
      /\ Again /\ UNCHANGED buffers

ExceptCall(t) ==
  /\ kind = "except"
  /\ left' \in Moves(plan.left, left, t)
  /\ right' \in IF left'.at = End \/ begun THEN {right}
                ELSE Moves(plan.right, right, tree.key[left'.at])
  /\ FailIf(left'.at = End)
  /\ UNCHANGED buffers

AncestorCall(t) ==
  /\ kind \in {"ancestor", "ancestor_or_self"}
  /\ IF begun THEN MoveLeft(t) ELSE MoveBoth(t)
  /\ UNCHANGED buffers

\* The first seek moves the descendants to the target, and the ancestors one
\* on; the first next moves the ancestors, and the descendants to them.
DescendantCall(t) ==
  /\ kind \in {"descendant", "descendant_or_self"} \cup ToChildren
  /\ IF begun THEN MoveRight(t)
     ELSE IF t = 0 THEN MoveBoth(t)
     ELSE /\ right' \in Moves(plan.right, right, t)
          /\ left' \in IF right'.at = End THEN {left} ELSE Moves(plan.left, left, 0)
          /\ FailIf(End \in {left'.at, right'.at})
  /\ UNCHANGED buffers

\* A later seek moves the parents again, never the attributes alone.
AttributeCall(t) ==
  /\ kind = "attribute"
  /\ IF begun /\ t = 0 THEN MoveRight(t) ELSE MoveBoth(t)
  /\ UNCHANGED buffers

\* Parents already found are delivered first, from the target on.
ParentCall(t) ==
  LET good == {i \in DOMAIN results : t <= tree.key[results[i]]}
  IN  /\ kind \in ToParents
      /\ \/ ~begun /\ MoveBoth(t) /\ UNCHANGED results
         \/ /\ begun
            /\ \E i \in good :
                 /\ \A j \in good : i <= j
                 /\ Yield(results[i])
                 /\ results' = SubSeq(results, i + 1, Len(results))
            /\ UNCHANGED inputs
         \/ /\ begun /\ good = {}
            /\ results' = <<>>
            /\ IF left.at = End THEN Fail /\ UNCHANGED inputs
               ELSE IF tree.key[left.at] < t THEN MoveLeft(t)
               ELSE Again /\ UNCHANGED inputs
      /\ UNCHANGED stack

Ask(t) ==
  /\ pc = "ready"
  /\ asked' = Highest(asked, t)
  /\ begun' = TRUE
  /\ UNCHANGED <<plan, sides>>
  /\ \/ IntersectCall(t)
     \/ UnionCall(t)
     \/ ExceptCall(t)
     \/ AncestorCall(t)
     \/ DescendantCall(t)
     \/ AttributeCall(t)
     \/ ParentCall(t)
-----------------------------------------------------------------------------
(* doJoin()                                                                *)

IntersectJoin ==
  LET cmp == Compare(tree, left.at, right.at)
  IN  /\ kind = "intersect"
      /\ \/ cmp < 0 /\ LeftToRight
         \/ cmp > 0 /\ RightToLeft
         \/ cmp = 0 /\ Yield(right.at) /\ UNCHANGED inputs
      /\ UNCHANGED <<sides, buffers>>

\* A mutant of UnionJoin: after a node of both sides only the left one moves.
UnionJoinLeft ==
  LET cmp == IF right.at = End THEN -1
             ELSE IF left.at = End THEN 1
             ELSE Compare(tree, left.at, right.at)
  IN  /\ kind = "union"
      /\ IF left.at = End /\ right.at = End
           THEN sides' = {} /\ Fail
           ELSE /\ sides' = IF cmp <= 0 THEN {"left"} ELSE {"right"}
                /\ Yield(IF cmp <= 0 THEN left.at ELSE right.at)
      /\ UNCHANGED <<inputs, buffers>>

\* A side that is at its end has been deleted, and the other one answers.
UnionJoin ==
  LET cmp == IF right.at = End THEN -1
             ELSE IF left.at = End THEN 1
             ELSE Compare(tree, left.at, right.at)
  IN  /\ kind = "union"
      /\ IF left.at = End /\ right.at = End
           THEN sides' = {} /\ Fail
           ELSE /\ sides' = {s \in {"left", "right"} :
                               IF s = "left" THEN cmp <= 0 ELSE cmp >= 0}
                /\ Yield(IF cmp <= 0 THEN left.at ELSE right.at)
      /\ UNCHANGED <<inputs, buffers>>

ExceptJoin ==
  LET cmp == IF right.at = End THEN -1 ELSE Compare(tree, left.at, right.at)
  IN  /\ kind = "except"
      /\ \/ cmp < 0 /\ Yield(left.at) /\ UNCHANGED inputs
         \/ /\ cmp > 0
            /\ right' \in Moves(plan.right, right, tree.key[left.at])
            /\ Again /\ UNCHANGED left
         \/ cmp = 0 /\ MoveLeft(0)
      /\ UNCHANGED <<sides, buffers>>

\* The ancestors move past all that is below the one they are at, or to the
\* document of the descendants.
PassTarget ==
  IF tree.doc[right.at] > tree.doc[left.at]
    THEN tree.doc[right.at] ELSE tree.last[left.at]

PassAncestor == MoveLeft(PassTarget)

LinealJoin ==
  LET orSelf == kind \in {"descendant_or_self", "ancestor_or_self"}
      cmp == IsDescendantOf(tree, right.at, left.at, orSelf)
      answer == IF kind \in {"ancestor", "ancestor_or_self"}
                  THEN left.at ELSE right.at
  IN  /\ kind \in Lineal
      /\ \/ cmp < 0 /\ RightToLeft
         \/ cmp > 0 /\ PassAncestor
         \/ cmp = 0 /\ Yield(answer) /\ UNCHANGED inputs
      /\ UNCHANGED <<sides, buffers>>

\* Both sides are at the ids of one element: its attributes match, and the
\* side that is not where it should be moves on.
MeetAtElement(element, attribute, elementsMove, attributesMove) ==
  LET ids == IsSameNID(tree, left.at, right.at)
      fits == tree.type[element] = "element"
      matches == fits /\ tree.type[attribute] = "attribute"
  IN  /\ \/ ids < 0 /\ LeftToRight
         \/ ids > 0 /\ RightToLeft
         \/ ids = 0 /\ matches /\ Yield(right.at) /\ UNCHANGED inputs
         \/ ids = 0 /\ fits /\ ~matches /\ attributesMove
         \/ ids = 0 /\ ~fits /\ elementsMove
      /\ UNCHANGED <<sides, buffers>>

AttributeJoin ==
  kind = "attribute" /\ MeetAtElement(left.at, right.at, MoveLeft(0), MoveRight(0))

ParentOfAttributeJoin ==
  /\ kind = "parent_of_attribute"
  /\ MeetAtElement(right.at, left.at, MoveRight(0), MoveLeft(0))

\* A mutant of Unwound: only the last node is popped.
UnwoundOnce(st, d) ==
  {IF st # <<>> /\ IsDescendantOf(tree, d, st[Len(st)], FALSE) > 0
     THEN SubSeq(st, 1, Len(st) - 1) ELSE st}

\* What remains of a stack (the one element of this set) when the nodes at
\* its end that d is past are popped.
Unwound(st, d) ==
  LET past(i) == IsDescendantOf(tree, d, st[i], FALSE) > 0
  IN  {SubSeq(st, 1, i) : i \in {i \in 0..Len(st) :
         (i > 0 => ~past(i)) /\ \A j \in (i + 1)..Len(st) : past(j)}}

\* The next of the parents is an ancestor: it goes on the stack.
Push(st) ==
  /\ stack' = Append(st, left.at)
  /\ left' \in Moves(plan.left, left, 0)
  /\ Again /\ UNCHANGED right

\* With the ancestors above the descendant on the stack: it is an answer, or
\* moves on.
TryDescendant(st) ==
  LET levels == IF kind = "attribute_or_child" /\ tree.type[right.at] = "attribute"
                  THEN 0 ELSE 1
  IN  IF st = <<>>
        THEN IF left.at = End THEN Fail /\ UNCHANGED inputs ELSE RightToLeft
      ELSE IF tree.level[st[Len(st)]] = tree.level[right.at] - levels
        THEN Yield(right.at) /\ UNCHANGED inputs
      ELSE MoveRight(0)

ChildJoin ==
  LET cmp == IF left.at = End THEN -1
             ELSE IsDescendantOf(tree, right.at, left.at, FALSE)
  IN  /\ kind \in ToChildren
      /\ \E st \in Unwound(stack, right.at) :
           \/ cmp < 0 /\ TryDescendant(st) /\ stack' = IF pc' = "done" THEN <<>> ELSE st
           \/ cmp > 0 /\ PassAncestor /\ stack' = IF pc' = "done" THEN <<>> ELSE st
           \/ cmp = 0 /\ Push(st)
      /\ UNCHANGED <<sides, results>>

\* The parent of the child c on the stack, 0 if it is not there.
ParentOfChildAt(c) ==
  IF stack # <<>> /\ tree.level[stack[Len(stack)]] = tree.level[c] - 1
    THEN Len(stack) ELSE 0

\* The same when the child may be an attribute, which has the level of its
\* owner, or be on the stack itself.
ParentAt(c) ==
  LET back == Len(stack)
      above(i) == tree.level[stack[i]] = tree.level[c] - 1
  IN  IF stack = <<>> THEN 0
      ELSE IF tree.level[stack[back]] = tree.level[c]
        THEN IF tree.type[c] = "attribute" THEN back
             ELSE IF back > 1 /\ above(back - 1) THEN back - 1 ELSE 0
      ELSE IF above(back) THEN back ELSE 0

\* Add a parent to the results, at the end or the beginning.
Inserted(p) ==
  IF results = <<>> \/ Compare(tree, results[Len(results)], p) < 0
    THEN Append(results, p) ELSE <<p>> \o results

\* A mutant of MayOutput: results are output as soon as there are any.
MayOutputAtOnce(st, found) == found # <<>>

\* Results are buffered until no ancestor is left that could come before them.
MayOutput(st, found) == st = <<>> /\ found # <<>>

Output(found) == Yield(Head(found)) /\ results' = Tail(found)

\* A mutant of Finish: the parents are not deleted.
FinishKeeping(found) ==
  /\ right' = [right EXCEPT !.at = End] /\ UNCHANGED left
  /\ stack' = <<>>
  /\ IF found # <<>> THEN Output(found) ELSE Fail /\ results' = <<>>

\* The end of the loop: nothing is left but the results.
Finish(found) ==
  /\ left' = [left EXCEPT !.at = End] /\ right' = [right EXCEPT !.at = End]
  /\ stack' = <<>>
  /\ IF found # <<>> THEN Output(found) ELSE Fail /\ results' = <<>>

\* A mutant of Without: a parent that was found stays on the stack.
WithoutNone(st, i) == st

Without(st, i) ==
  IF i = 0 THEN st ELSE SubSeq(st, 1, i - 1) \o SubSeq(st, i + 1, Len(st))

\* The child has all its ancestors on the stack: take its parent from there,
\* and go on to the next child, or output the results if the stack is empty.
TakeParent ==
  LET i == IF kind = "parent" THEN ParentAt(right.at) ELSE ParentOfChildAt(right.at)
      found == IF i = 0 THEN results ELSE Inserted(stack[i])
      rest == Without(stack, i)
  IN  IF MayOutput(rest, found)
        THEN Output(found) /\ stack' = rest /\ UNCHANGED inputs
      ELSE IF rest = <<>> /\ left.at = End THEN Finish(found)
      ELSE \E c \in Moves(plan.right, right,
                          IF rest = <<>> THEN tree.key[left.at] ELSE 0) :
        IF c.at = End THEN Finish(found)
        ELSE /\ right' = c /\ UNCHANGED left
             /\ stack' \in Unwound(rest, c.at)
             /\ IF MayOutput(stack', found) THEN Output(found)
                ELSE Again /\ results' = found

ParentJoin ==
  LET cmp == IF left.at = End THEN -1
             ELSE IsDescendantOf(tree, right.at, left.at, kind = "parent")
  IN  /\ kind \in ToParents
      /\ \/ cmp < 0 /\ TakeParent
         \/ /\ cmp > 0
            /\ \/ PassAncestor /\ pc' # "done" /\ UNCHANGED buffers
               \/ /\ End \in {c.at : c \in Moves(plan.left, left, PassTarget)}
                  /\ Finish(results)
         \/ cmp = 0 /\ Push(stack) /\ UNCHANGED results
      /\ UNCHANGED sides

Join ==
  /\ pc = "join"
  /\ UNCHANGED <<plan, begun, asked>>
  /\ \/ IntersectJoin
     \/ UnionJoin
     \/ ExceptJoin
     \/ LinealJoin
     \/ AttributeJoin
     \/ ParentOfAttributeJoin
     \/ ChildJoin
     \/ ParentJoin

\* The caller deletes a join that is at its end.
Deleted == pc = "done" /\ UNCHANGED vars

Next == Join \/ (\E t \in 0..N : Ask(t)) \/ Deleted

Spec == Init /\ [][Next]_vars
-----------------------------------------------------------------------------
Iterator == INSTANCE NodeIterator WITH
  key <- tree.key,
  answers <- Answer(plan),
  promise <- IF kind \in Complete THEN "complete"
             ELSE IF kind \in Ordered THEN "ordered" ELSE "sound",
  at <- furthest,
  from <- asked,
  busy <- pc = "join"

\* What its caller may rely on: every call is answered with the next answer
\* that counts, whatever the inputs skip before a target and however next()
\* and seek() alternate; the kinds that are not Complete or Ordered with what
\* is left of that.
ImplementsIterator == Iterator!Init /\ [][Iterator!Next]_(Iterator!vars)

TypeOK ==
  /\ plan \in Plan
  /\ left \in Cursor /\ right \in Cursor
  /\ begun \in BOOLEAN
  /\ sides \subseteq {"left", "right"}
  /\ stack \in Seq(Nodes) /\ results \in Seq(Nodes)
  /\ pc \in {"ready", "join", "done"}
  /\ furthest \in Start..End /\ asked \in 0..N

\* No input is used once it has ended, when most joins have deleted it: it is
\* at a node whenever a turn compares it or a call will move it.  A child or
\* parent join may have used up the nodes on its left, a parent join that has
\* only results left those on its right as well.
InputsUsable ==
  begun /\ pc # "done" =>
    /\ \/ left.at \in plan.left
       \/ left.at = End /\ kind \in {"union"} \cup ToChildren \cup ToParents
    /\ \/ right.at \in plan.right
       \/ right.at = End /\ kind \in {"union", "except"}
       \/ right.at = End /\ kind \in ToParents /\ pc = "ready" /\ left.at = End
    /\ pc = "ready" => /\ "left" \in sides /\ kind = "union" => left.at # End
                       /\ "right" \in sides /\ kind = "union" => right.at # End

\* No call loops for ever: a turn of doJoin() that does not end it moves an
\* input, and none ever moves back.
EveryTurnMoves ==
  [][pc = "join" /\ pc' = "join" =>
       /\ left.at <= left'.at /\ right.at <= right'.at
       /\ left.at # left'.at \/ right.at # right'.at]_vars

\* "The current children_ node is a descendant of every node on the stack"
\* (Invarient 1), however far an input was sent: the child joins make it so
\* at the beginning of a turn, the parent joins at the end.  The stack is a path
\* down a document, and the parents still to come follow it (Invarient 2).
StackPath ==
  /\ \A i \in DOMAIN stack :
       /\ stack[i] < left.at
       /\ i > 1 => stack[i - 1] \in tree.above[stack[i]]
  /\ pc = "join" =>
       \A st \in IF kind \in ToChildren THEN Unwound(stack, right.at) ELSE {stack} :
         \A i \in DOMAIN st :
           st[i] \in tree.above[right.at] \cup
                     (IF kind = "parent" THEN {right.at} ELSE {})

\* No parent is delivered twice: one that was found has left the stack and
\* the input.
FoundOnce ==
  \A i \in DOMAIN results :
    /\ results[i] \in Answer(plan)
    /\ results[i] < left.at
    /\ \A j \in DOMAIN results : results[i] = results[j] => i = j
    /\ \A j \in DOMAIN stack : results[i] # stack[j]

\* "We can output the buffered results_, since any more results will come
\* after them" (Invarient 4): those that doJoin() delivers together follow
\* all that were delivered before.
BatchesFollow ==
  [][pc = "join" /\ pc' = "ready" /\ kind \in ToParents =>
       /\ furthest < furthest'
       /\ \A i \in DOMAIN results' : furthest < results'[i]]_vars

\* "The results_ buffer is maintained in document order" (Invarient 3), as the
\* query that omits the sort relies on.
ResultsSorted ==
  \A i, j \in DOMAIN results : i < j => results[i] < results[j]
=============================================================================
