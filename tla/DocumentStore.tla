--------------------------- MODULE DocumentStore ---------------------------
(***************************************************************************)
(* What a container promises to those who name its documents: a map from   *)
(* names to contents, changed by one operation at a time.                  *)
(***************************************************************************)
CONSTANTS Names, Values, None

VARIABLE docs \* docs[n]: the content of the document named n, None if none is

Init == docs \in [Names -> Values \cup {None}]

Put(n, v) == docs[n] = None /\ docs' = [docs EXCEPT ![n] = v]

Update(n, v) == docs[n] # None /\ docs' = [docs EXCEPT ![n] = v]

Rename(n, m) ==
  /\ docs[n] # None /\ docs[m] = None
  /\ docs' = [docs EXCEPT ![n] = None, ![m] = docs[n]]

Delete(n) == docs[n] # None /\ docs' = [docs EXCEPT ![n] = None]

Next ==
  \E n \in Names :
    \/ Delete(n)
    \/ \E v \in Values : Put(n, v) \/ Update(n, v)
    \/ \E m \in Names : Rename(n, m)

Spec == Init /\ [][Next]_docs
=============================================================================
