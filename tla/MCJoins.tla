------------------------------ MODULE MCJoins -------------------------------
(***************************************************************************)
(* Instances of Joins for TLC: small documents, and every pair of inputs   *)
(* over them that the kind of join is given.                               *)
(***************************************************************************)
EXTENDS Joins, TLC

D == "document"
E == "element"
A == "attribute"

\* <e><e><e/><e/></e><e/></e>
Nested == Forest(<<D, E, E, E, E, E>>, <<0, 1, 2, 3, 3, 2>>)
\* <e a="" b=""><e a=""/></e>
Attributes == Forest(<<D, E, A, A, E, A>>, <<0, 1, 2, 2, 2, 5>>)
\* <e a=""/> and <e><e/></e>
TwoDocuments == Forest(<<D, E, A, D, E, E>>, <<0, 1, 2, 0, 4, 5>>)

SmallForests == <<Nested, Attributes, TwoDocuments>>

\* What the optimizer joins: the parent of a child and the child of a parent
\* are elements, an ancestor is no attribute.
PlansOver(f) ==
  LET typed(types) == {n \in Nodes : Forests[f].type[n] \in types}
      plans(kinds, ltypes, rtypes) ==
        [kind : kinds, forest : {f},
         left : SUBSET typed(ltypes), right : SUBSET typed(rtypes)]
  IN  plans(Lineal, {D, E}, {E, A})
        \cup plans(OfAttributes, {E, A}, {E, A})
        \cup plans({"child", "parent_of_child"}, {D, E}, {E})
        \cup plans({"attribute_or_child", "parent"}, {D, E}, {E, A})

\* What the merges compare depends on no nesting.
MergePlans ==
  [kind : Merges, forest : {2}, left : SUBSET (2..N), right : SUBSET (2..N)]

AllPlans ==
  MergePlans \cup
  {p \in UNION {PlansOver(f) : f \in DOMAIN Forests} : ~MayTakeGrandparent(p)}
-----------------------------------------------------------------------------
\* <e><e><e/></e><e><e><e/></e><e/></e><e/></e>: below the element 2, the
\* parents 3 and 6 are found before 5, which encloses 6.
Wide == Forest(<<D, E, E, E, E, E, E, E, E>>, <<0, 1, 2, 3, 2, 5, 6, 5, 2>>)

WideForests == <<Wide>>

WidePlans ==
  [kind : {"parent_of_child"}, forest : {1},
   left : SUBSET {2, 3, 5, 6}, right : SUBSET {4, 7, 8, 9}]
=============================================================================
