---------------------------- MODULE MCDocuments ----------------------------
(***************************************************************************)
(* Instances of Documents for TLC.                                         *)
(***************************************************************************)
EXTENDS Documents, TLC

CONSTANTS t1, t2

Usage(ops1, ops2) ==
  [ops |-> t1 :> ops1 @@ t2 :> ops2,
   auto |-> FALSE, keep |-> FALSE, transacted |-> TRUE]

\* One thread, one transaction after another; or one that keeps its XmlDocument
\* objects and deletes none; or a container without transactions, whose operations
\* change nothing before they fail.
Alone ==
  {[Usage(Kinds, {}) EXCEPT !.auto = auto] : auto \in BOOLEAN}
    \cup {[Usage({"put", "update", "rename"}, {}) EXCEPT !.keep = TRUE],
          [Usage({"put", "rename", "delete", "deleteByName"}, {})
             EXCEPT !.transacted = FALSE]}

\* Two threads whose operations do not disturb each other.
Together ==
  {Usage({"put", "delete", "deleteByName"}, {"delete", "deleteByName"}),
   Usage({"deleteIndex"}, {"delete", "deleteByName", "rename"}),
   Usage({"addIndex", "deleteIndex"}, {"rename"})}
    \cup {[Usage({"update"}, {"rename"}) EXCEPT !.auto = auto] : auto \in BOOLEAN}

AloneOrTogether == Alone \cup Together

\* Two threads that add documents.
BothPut == {Usage({"put"}, {"put"})}

Interchangeable == Permutations(Names) \cup Permutations(Values)
=============================================================================
