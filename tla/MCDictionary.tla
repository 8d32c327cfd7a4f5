---------------------------- MODULE MCDictionary ----------------------------
(***************************************************************************)
(* Instances of Dictionary for TLC.                                        *)
(***************************************************************************)
EXTENDS Dictionary, TLC

CONSTANTS t1, t2, t3, p1, p2

\* Two processes with a transaction each, or one process with all of them.
TwoProcs == t1 :> p1 @@ t2 :> p2
OneProc == t1 :> p1 @@ t2 :> p1
OneProcThree == t1 :> p1 @@ t2 :> p1 @@ t3 :> p1

Names == Permutations(Name)
Transactions == Permutations(Txn) \cup Permutations(Name)

\* No action reads "stored": where no property does, states that differ only in
\* it need not be told apart.
WithoutDocuments ==
  <<primary, secondary, readLock, phase, auto, parent, failed, arg, txnCache,
    stringCache, idCache>>
=============================================================================
