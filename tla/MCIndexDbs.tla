----------------------------- MODULE MCIndexDbs -----------------------------
(***************************************************************************)
(* Instances of IndexDbs for TLC.                                          *)
(***************************************************************************)
EXTENDS IndexDbs, TLC

UsedBy(n, opsFail) ==
  [threads : {s \in SUBSET Txns : Cardinality(s) = n}, opsFail : {opsFail}]

\* One transaction after another, and no operation fails in between.
Alone == UsedBy(1, FALSE)
\* Any number at once, and they go on after failures.
Shared == UsedBy(Cardinality(Txns), TRUE)
AloneOrShared == Alone \cup Shared
\* One transaction after another, which may go on after a failure.
AloneFailing == UsedBy(1, TRUE)

Interchangeable == Permutations(Txns)
=============================================================================
