---------------------------- MODULE NodeIterator ----------------------------
(***************************************************************************)
(* What the iterators of a query plan promise the iterator, or the query,  *)
(* that drives them: the answers in document order, each at most once.     *)
(*                                                                         *)
(* The caller asks for the next node, or for the next one at or after a    *)
(* target, which is a container, document and node id: a key of NodeInfo.  *)
(*                                                                         *)
(* An iterator may ignore the target (ContextNodeIterator and the steps do *)
(* within a document), and may forget an answer before the highest target  *)
(* it was ever given (a union whose sides do not both ignore it does), but *)
(* it always moves forwards and misses nothing else: see Landings.         *)
(***************************************************************************)
EXTENDS NodeInfo

\* The three things a join may promise.
Promises == {"complete", "ordered", "sound"}

VARIABLES
  key,
  answers,  \* what the iterator has to find
  promise,
  at,       \* the furthest node answered
  from,     \* the highest target asked for
  busy      \* whether a call is in progress

vars == <<key, answers, promise, at, from, busy>>
fixed == <<key, answers, promise>>

Init ==
  /\ answers \subseteq Nodes
  /\ promise \in Promises
  /\ at = Start /\ from = 0 /\ ~busy

\* An answer further on, or the end; from an iterator that promised to be
\* complete, the next answer that counts.
Found ==
  /\ at' \in {q \in answers \cup {End} : at <= q}
  /\ promise # "sound" => at < at'
  /\ promise = "complete" => at' \in Landings(answers, key, at, from')

\* next() asks for a node at or after 0, seek() at or after a target.  The
\* call is answered at once or later.
Call(t) ==
  /\ ~busy /\ at # End
  /\ from' = Highest(from, t)
  /\ \/ busy' = TRUE /\ UNCHANGED at
     \/ busy' = FALSE /\ Found
  /\ UNCHANGED fixed

Return ==
  /\ busy
  /\ busy' = FALSE /\ Found
  /\ UNCHANGED <<fixed, from>>

Next == Return \/ \E t \in 0..N : Call(t)

Spec == Init /\ [][Next]_vars /\ WF_vars(Return)
=============================================================================
