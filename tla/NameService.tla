---------------------------- MODULE NameService ----------------------------
(***************************************************************************)
(* What the dictionary of a container promises to its documents: names are *)
(* given ids by the transactions that commit, an id means the same name    *)
(* for ever, and a committed document holds no id that means anything else *)
(* than the name it was written with.                                      *)
(***************************************************************************)
EXTENDS Naturals

CONSTANTS Name, Id

VARIABLES
  registry,     \* the pairs of a name and its id that have been committed
  documents     \* the pairs that committed documents were written with

Pair == [name : Name, id : Id]

\* A name has one id and an id one name.
Injective(R) == \A a, b \in R : (a.name = b.name) <=> (a.id = b.id)

Init == registry = {} /\ documents = {}

\* A transaction commits the names it defined and the documents it wrote.
Commit ==
  /\ registry' \in SUBSET Pair /\ registry \subseteq registry'
  /\ documents' \in SUBSET Pair /\ documents \subseteq documents'
  /\ Injective(registry')
  /\ documents' \subseteq registry'

Next == Commit

Spec == Init /\ [][Next]_<<registry, documents>>
=============================================================================
