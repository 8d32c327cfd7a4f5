------------------------- MODULE TransactionsProofs -------------------------
(***************************************************************************)
(* What holds of Transaction objects for every number of objects, DB_TXNs  *)
(* and handles, where no application ends a parent before its children.    *)
(***************************************************************************)
EXTENDS Transactions, FiniteSetTheorems, TLAPS

-----------------------------------------------------------------------------
(* A sound heap.  refs[o] is the number of handles and guards on object o. *)

HeapTyped(h) ==
  h \in [live : SUBSET Obj, txn : [Obj -> Db \cup {NoDb}], child : [Obj -> Obj \cup {NoObj}],
         owned : [Obj -> BOOLEAN], count : [Obj -> Nat], notes : [Obj -> BOOLEAN],
         told : [Obj -> Outcome], outcome : [Obj -> Outcome], active : SUBSET Db,
         parent : [Db -> Db \cup {NoDb}], hook : [Db -> Obj \cup {NoObj}],
         misuse : SUBSET Misuse]

\* Object o has an internal child, or is one.
HasChild(h, o) == h.child[o] # NoObj
IsChild(h, o) == \E p \in h.live : h.child[p] = o

\* An object and the DB_TXN it has not ended know each other.
Linked(h) ==
  /\ \A o \in Obj : h.txn[o] # NoDb =>
       o \in h.live /\ h.txn[o] \in h.active /\ h.hook[h.txn[o]] = o /\ h.told[o] = "none"
  /\ \A d \in h.active : h.hook[d] # NoObj => h.txn[h.hook[d]] = d
  /\ \A d \in h.active : h.parent[d] \in h.active \cup {NoDb}

\* An internal child is the only child in Berkeley DB as well.
Nested(h) ==
  \A o \in h.live : HasChild(h, o) =>
    /\ h.child[o] \in h.live /\ h.child[o] # o /\ h.owned[h.child[o]]
    /\ h.txn[o] # NoDb /\ h.txn[h.child[o]] # NoDb
    /\ Kids(h, h.txn[o]) = {h.txn[h.child[o]]}

Counted(h, refs) ==
  /\ \A o \in Obj \ h.live : refs[o] = 0 /\ h.count[o] = 0
  /\ \A o \in h.live :
       /\ h.count[o] = refs[o] + (IF h.owned[o] THEN 0 ELSE 1) + (IF IsChild(h, o) THEN 1 ELSE 0)
       /\ h.count[o] > 0

\* A wrapping object that nobody else refers to waits to be notified.
Waiting(h) ==
  \A o \in h.live : ~h.owned[o] => h.txn[o] # NoDb /\ (h.count[o] = 1 => h.notes[o])

Heard(h) ==
  \A o \in Obj : h.told[o] # "none" => (h.told[o] = "abort" <=> h.outcome[o] = "abort")

Sound(h, refs) ==
  /\ HeapTyped(h) /\ refs \in [Obj -> Nat]
  /\ Linked(h) /\ Nested(h) /\ Counted(h, refs) /\ Waiting(h) /\ Heard(h)
  /\ h.misuse = {}

LEMMA OneParent ==
  ASSUME NEW h, NEW refs, Sound(h, refs), NEW o \in h.live, NEW p \in h.live,
         HasChild(h, o), h.child[o] = h.child[p]
  PROVE  o = p
<1>1. Kids(h, h.txn[o]) = {h.txn[h.child[o]]} /\ Kids(h, h.txn[p]) = {h.txn[h.child[o]]}
  BY DEF Sound, Nested, HasChild
<1>2. h.txn[o] = h.txn[p]
  BY <1>1 DEF Kids
<1>3. o \in Obj /\ p \in Obj /\ h.txn[o] # NoDb
  BY DEF Sound, HeapTyped, Nested
<1> QED BY <1>2, <1>3 DEF Sound, Linked

-----------------------------------------------------------------------------
(* The end of a DB_TXN *)

\* DbEnd of a DB_TXN without children.
LEMMA DbEndIs ==
  ASSUME NEW h, HeapTyped(h), NEW d \in h.active, Kids(h, d) = {},
         \A o \in Obj : h.txn[o] # d, NEW how
  PROVE  DbEnd(h, d, how) = [h EXCEPT !.active = @ \ {d}]
<1> DEFINE gone == {d} \cup Kids(h, d) \cup UNION {Kids(h, k) : k \in Kids(h, d)}
<1>1. gone = {d}
  OBVIOUS
<1>2. [o \in Obj |-> IF h.txn[o] \in gone THEN how ELSE h.outcome[o]] = h.outcome
  BY <1>1 DEF HeapTyped
<1> HIDE DEF gone
<1>3. DbEnd(h, d, how) =
        Flag([h EXCEPT !.active = @ \ gone,
                       !.outcome = [o \in Obj |-> IF h.txn[o] \in gone THEN how ELSE h.outcome[o]]],
             d \notin h.active, "use of an ended DB_TXN")
  BY DEF DbEnd, gone
<1>4. DbEnd(h, d, how) = [h EXCEPT !.active = @ \ {d}, !.outcome = h.outcome]
  BY <1>1, <1>2, <1>3 DEF Flag
<1> QED BY <1>4 DEF HeapTyped

\* Heap g is h after a release of object o.
Dropped(h, g, o) ==
  /\ HeapTyped(g)
  /\ g.live = IF h.count[o] = 1 THEN h.live \ {o} ELSE h.live
  /\ g.count = [h.count EXCEPT ![o] = @ - 1]
  /\ g.txn = h.txn /\ g.child = h.child /\ g.owned = h.owned /\ g.notes = h.notes
  /\ g.told = h.told /\ g.outcome = h.outcome /\ g.active = h.active
  /\ g.parent = h.parent /\ g.hook = h.hook /\ g.misuse = h.misuse

LEMMA DropIs ==
  ASSUME NEW h, HeapTyped(h), NEW o \in h.live, h.count[o] > 0
  PROVE  Dropped(h, Drop(h, o), o)
<1> DEFINE g == Drop(h, o)
<1>1. o \in Obj /\ h.count[o] \in Nat
  BY DEF HeapTyped
<1>2. g = [h EXCEPT !.count[o] = IF @ = 0 THEN 0 ELSE @ - 1,
                    !.live = IF h.count[o] = 1 THEN @ \ {o} ELSE @]
  BY DEF Drop, Flag
<1>3. [h.count EXCEPT ![o] = @ - 1] \in [Obj -> Nat]
  BY <1>1 DEF HeapTyped
<1>4. /\ g.count = [h.count EXCEPT ![o] = @ - 1]
      /\ g.live = IF h.count[o] = 1 THEN h.live \ {o} ELSE h.live
  BY <1>1, <1>2 DEF HeapTyped
<1>5. /\ g.txn = h.txn /\ g.child = h.child /\ g.owned = h.owned /\ g.notes = h.notes
      /\ g.told = h.told /\ g.outcome = h.outcome /\ g.active = h.active
      /\ g.parent = h.parent /\ g.hook = h.hook /\ g.misuse = h.misuse
  BY <1>2 DEF HeapTyped
<1>6. HeapTyped(g)
  <2> DEFINE less == [h.count EXCEPT ![o] = @ - 1]
             rest == IF h.count[o] = 1 THEN h.live \ {o} ELSE h.live
  <2>1. g = [h EXCEPT !.count = less, !.live = rest]
    <3>1. [h.count EXCEPT ![o] = IF @ = 0 THEN 0 ELSE @ - 1] = less
      BY <1>1
    <3>2. g = [h EXCEPT !.count = [h.count EXCEPT ![o] = IF @ = 0 THEN 0 ELSE @ - 1],
                        !.live = rest]
      BY <1>2
    <3> QED BY <3>1, <3>2
  <2>2. less \in [Obj -> Nat] /\ rest \in SUBSET Obj
    BY <1>3 DEF HeapTyped
  <2> HIDE DEF less, rest, g
  <2> QED BY <2>1, <2>2 DEF HeapTyped
<1> QED BY <1>4, <1>5, <1>6 DEF Dropped

\* Heap g is h after runDbNotification of object o.
Ended(h, g, o, how, result) ==
  /\ HeapTyped(g) /\ g.misuse = {}
  /\ g.live = IF ~h.owned[o] /\ h.count[o] = 1 THEN h.live \ {o} ELSE h.live
  /\ g.txn = [h.txn EXCEPT ![o] = NoDb] /\ g.child = h.child
  /\ g.owned = [h.owned EXCEPT ![o] = TRUE]
  /\ g.count = IF h.owned[o] THEN h.count ELSE [h.count EXCEPT ![o] = @ - 1]
  /\ g.notes = h.notes
  /\ g.told = [h.told EXCEPT ![o] = how]
  /\ g.outcome = [h.outcome EXCEPT ![o] = result]
  /\ g.active = h.active \ {h.txn[o]} /\ g.parent = h.parent
  /\ g.hook = [h.hook EXCEPT ![h.txn[o]] = NoObj]

LEMMA RunDbNotificationIs ==
  ASSUME NEW h, NEW refs, Sound(h, refs), NEW o \in h.live, h.txn[o] # NoDb,
         Kids(h, h.txn[o]) = {}, NEW how \in {"commit", "abort"}, NEW fails \in BOOLEAN,
         NEW g, g = RunDbNotification(h, o, how, fails)
  PROVE  Ended(h, g, o, how, IF fails THEN "failed" ELSE how)
<1> DEFINE d == h.txn[o]
           result == IF fails THEN "failed" ELSE how
           h1 == [h EXCEPT !.txn[o] = NoDb, !.hook[d] = NoObj]
           h2 == [h1 EXCEPT !.active = @ \ {d}]
           h3 == [h2 EXCEPT !.outcome[o] = result]
           h4 == [h3 EXCEPT !.told[o] = how]
<1>1. /\ o \in Obj /\ d \in Db /\ d \in h.active /\ h.hook[d] = o /\ h.told[o] = "none"
      /\ HeapTyped(h) /\ h.misuse = {} /\ result \in Outcome /\ how \in Outcome
  BY DEF Sound, Linked, HeapTyped, Outcome
<1>2. h1 = ClearDbNotification(h, o)
  BY <1>1 DEF ClearDbNotification, Flag
<1>3. HeapTyped(h1) /\ h1.txn = [h.txn EXCEPT ![o] = NoDb] /\ h1.active = h.active
      /\ h1.parent = h.parent /\ h1.hook = [h.hook EXCEPT ![d] = NoObj] /\ h1.live = h.live
      /\ h1.child = h.child /\ h1.owned = h.owned /\ h1.count = h.count /\ h1.notes = h.notes
      /\ h1.told = h.told /\ h1.outcome = h.outcome /\ h1.misuse = {}
  BY <1>1 DEF HeapTyped
<1>4. \A x \in Obj : h1.txn[x] # d
  BY <1>1, <1>3 DEF Sound, Linked, HeapTyped
<1>5. DbEnd(h1, d, result) = h2
  <2>1. Kids(h1, d) = {}
    BY <1>3 DEF Kids
  <2>2. d \in h1.active /\ HeapTyped(h1)
    BY <1>1, <1>3
  <2> HIDE DEF d, h1, result
  <2>3. DbEnd(h1, d, result) = [h1 EXCEPT !.active = @ \ {d}]
    BY <1>4, <2>1, <2>2, DbEndIs
  <2> QED BY <2>3
<1> HIDE DEF d, h1, result
<1>6. HeapTyped(h4) /\ h4.txn = h1.txn /\ h4.active = h.active \ {d}
      /\ h4.parent = h.parent /\ h4.hook = h1.hook /\ h4.live = h.live
      /\ h4.child = h.child /\ h4.owned = h.owned /\ h4.count = h.count /\ h4.notes = h.notes
      /\ h4.told = [h.told EXCEPT ![o] = how]
      /\ h4.outcome = [h.outcome EXCEPT ![o] = result] /\ h4.misuse = {}
  BY <1>1, <1>3 DEF HeapTyped
<1>7. h4 = PostNotify([DbEnd(ClearDbNotification(h, o), h.txn[o], result) EXCEPT !.outcome[o] = result],
                      o, how)
  BY <1>1, <1>2, <1>3, <1>5 DEF PostNotify, Flag, d, HeapTyped
<1>8. g = IF h.owned[o] THEN h4 ELSE Drop([h4 EXCEPT !.owned[o] = TRUE], o)
  BY <1>7 DEF RunDbNotification, result
<1> HIDE DEF h2, h3, h4
<1>9. CASE h.owned[o]
  BY <1>1, <1>3, <1>6, <1>8, <1>9 DEF HeapTyped, d, result, Ended
<1>10. CASE ~h.owned[o]
  <2> DEFINE h5 == [h4 EXCEPT !.owned[o] = TRUE]
  <2>1. HeapTyped(h5) /\ h5.owned = [h.owned EXCEPT ![o] = TRUE]
        /\ h5.live = h.live /\ h5.count = h.count /\ h5.misuse = {}
        /\ h5.txn = h1.txn /\ h5.active = h.active \ {d}
        /\ h5.parent = h.parent /\ h5.hook = h1.hook
        /\ h5.child = h.child /\ h5.notes = h.notes
        /\ h5.told = [h.told EXCEPT ![o] = how]
        /\ h5.outcome = [h.outcome EXCEPT ![o] = result]
    BY <1>1, <1>6 DEF HeapTyped
  <2>2. h.count[o] > 0 /\ h.count[o] \in Nat
    BY DEF Sound, Counted, HeapTyped
  <2> HIDE DEF h5
  <2>3. Dropped(h5, g, o)
    <3>1. o \in h5.live /\ h5.count[o] > 0
      BY <2>1, <2>2
    <3>2. Dropped(h5, Drop(h5, o), o)
      BY <2>1, <3>1, DropIs
    <3> QED BY <1>8, <1>10, <3>2 DEF h5
  <2> QED BY <1>3, <1>10, <2>1, <2>3 DEF d, result, Ended, Dropped
<1> QED BY <1>9, <1>10

\* An object without an internal child, and that is none, is ended.
LEMMA EndSound ==
  ASSUME NEW h, NEW refs, Sound(h, refs), NEW o \in h.live, h.txn[o] # NoDb,
         Kids(h, h.txn[o]) = {}, ~HasChild(h, o), ~IsChild(h, o),
         NEW how \in {"commit", "abort"}, NEW fails \in BOOLEAN, fails => how = "commit",
         NEW g, g = RunDbNotification(h, o, how, fails)
  PROVE  Sound(g, refs)
<1> DEFINE d == h.txn[o]
<1>1. /\ HeapTyped(g) /\ g.misuse = {}
      /\ g.live = IF ~h.owned[o] /\ h.count[o] = 1 THEN h.live \ {o} ELSE h.live
      /\ g.txn = [h.txn EXCEPT ![o] = NoDb] /\ g.child = h.child
      /\ g.owned = [h.owned EXCEPT ![o] = TRUE]
      /\ g.count = IF h.owned[o] THEN h.count ELSE [h.count EXCEPT ![o] = @ - 1]
      /\ g.notes = h.notes
      /\ g.told = [h.told EXCEPT ![o] = how]
      /\ g.outcome = [h.outcome EXCEPT ![o] = IF fails THEN "failed" ELSE how]
      /\ g.active = h.active \ {d} /\ g.parent = h.parent
      /\ g.hook = [h.hook EXCEPT ![d] = NoObj]
  <2>1. Ended(h, g, o, how, IF fails THEN "failed" ELSE how)
    BY RunDbNotificationIs
  <2> QED BY <2>1 DEF Ended
<1> HIDE DEF d
<1>2. /\ HeapTyped(h) /\ Linked(h) /\ Nested(h) /\ Counted(h, refs) /\ Waiting(h) /\ Heard(h)
      /\ refs \in [Obj -> Nat]
  BY DEF Sound
<1>3. o \in Obj /\ d \in Db /\ d \in h.active /\ h.hook[d] = o /\ h.txn[o] = d /\ d # NoDb
  BY <1>2 DEF d, Linked, HeapTyped
<1>4. Linked(g)
  <2>1. ASSUME NEW x \in Obj, g.txn[x] # NoDb
        PROVE  /\ x \in g.live /\ g.txn[x] \in g.active /\ g.hook[g.txn[x]] = x
               /\ g.told[x] = "none"
    <3>1. x # o /\ g.txn[x] = h.txn[x]
      BY <1>1, <1>2, <1>3, <2>1 DEF HeapTyped
    <3>2. /\ x \in h.live /\ h.txn[x] \in h.active /\ h.hook[h.txn[x]] = x
          /\ h.told[x] = "none" /\ h.txn[x] # d /\ h.txn[x] \in Db
      BY <1>2, <1>3, <2>1, <3>1 DEF Linked, HeapTyped
    <3> QED BY <1>1, <1>2, <1>3, <3>1, <3>2 DEF HeapTyped
  <2>2. ASSUME NEW e \in g.active, g.hook[e] # NoObj PROVE g.txn[g.hook[e]] = e
    <3>1. e \in h.active /\ e # d /\ g.hook[e] = h.hook[e] /\ h.hook[e] \in Obj
      BY <1>1, <1>2, <1>3, <2>2 DEF HeapTyped
    <3>2. h.txn[h.hook[e]] = e
      BY <1>2, <2>2, <3>1 DEF Linked
    <3> QED BY <1>1, <1>2, <1>3, <3>1, <3>2 DEF HeapTyped
  <2>3. ASSUME NEW e \in g.active PROVE g.parent[e] \in g.active \cup {NoDb}
    <3>1. h.parent[e] # d
      BY <1>1, <1>3, <2>3 DEF Kids, d
    <3> QED BY <1>1, <1>2, <2>3, <3>1 DEF Linked
  <2> QED BY <2>1, <2>2, <2>3 DEF Linked
<1>5. \A x \in h.live : g.child[x] = h.child[x] /\ h.child[x] # o
  BY <1>1 DEF IsChild
<1>6. Nested(g)
  <2> SUFFICES ASSUME NEW x \in g.live, HasChild(g, x)
               PROVE  /\ g.child[x] \in g.live /\ g.child[x] # x /\ g.owned[g.child[x]]
                      /\ g.txn[x] # NoDb /\ g.txn[g.child[x]] # NoDb
                      /\ Kids(g, g.txn[x]) = {g.txn[g.child[x]]}
    BY DEF Nested
  <2>1. x \in h.live /\ HasChild(h, x) /\ x # o /\ g.child[x] = h.child[x] /\ h.child[x] # o
    BY <1>1, <1>5 DEF HasChild
  <2> DEFINE c == h.child[x]
  <2>2. /\ c \in h.live /\ c # x /\ h.owned[c] /\ h.txn[x] # NoDb /\ h.txn[c] # NoDb
        /\ Kids(h, h.txn[x]) = {h.txn[c]} /\ c \in Obj /\ x \in Obj
    BY <1>2, <2>1 DEF Nested, HeapTyped
  <2>3. g.txn[x] = h.txn[x] /\ g.txn[c] = h.txn[c] /\ g.owned[c] /\ c \in g.live
    BY <1>1, <1>2, <1>3, <2>1, <2>2 DEF HeapTyped
  <2>4. h.txn[c] # d
    BY <1>2, <1>3, <2>1, <2>2 DEF Linked
  <2>5. Kids(g, h.txn[x]) = Kids(h, h.txn[x]) \ {d}
    BY <1>1 DEF Kids
  <2> QED BY <2>1, <2>2, <2>3, <2>4, <2>5
<1>7. \A x \in h.live \ {o} : IsChild(g, x) <=> IsChild(h, x)
  BY <1>1, <1>2, <1>3, NullAssumption DEF IsChild, HasChild, HeapTyped
<1>8. ~IsChild(g, o)
  BY <1>1, <1>5 DEF IsChild
<1>9. Counted(g, refs)
  <2>1. h.count[o] = refs[o] + (IF h.owned[o] THEN 0 ELSE 1) /\ h.count[o] > 0 /\ refs[o] \in Nat
    BY <1>2, <1>3 DEF Counted
  <2>2. ASSUME NEW x \in g.live
        PROVE  /\ g.count[x] = refs[x] + (IF g.owned[x] THEN 0 ELSE 1)
                                + (IF IsChild(g, x) THEN 1 ELSE 0)
               /\ g.count[x] > 0
    <3>0. x \in h.live /\ x \in Obj
      BY <1>1, <1>2 DEF HeapTyped
    <3>1. CASE x = o
      <4>1. g.owned[o] /\ (h.owned[o] => g.count[o] = h.count[o])
            /\ (~h.owned[o] => g.count[o] = h.count[o] - 1 /\ h.count[o] # 1)
        BY <1>1, <1>2, <1>3, <3>1 DEF HeapTyped
      <4> QED BY <1>8, <2>1, <3>1, <4>1
    <3>2. CASE x # o
      <4>1. g.count[x] = h.count[x] /\ g.owned[x] = h.owned[x]
        BY <1>1, <1>2, <1>3, <3>0, <3>2 DEF HeapTyped
      <4> QED BY <1>2, <1>7, <3>0, <3>2, <4>1 DEF Counted
    <3> QED BY <3>1, <3>2
  <2>3. ASSUME NEW x \in Obj \ g.live PROVE refs[x] = 0 /\ g.count[x] = 0
    <3>1. CASE x = o
      <4>1. ~h.owned[o] /\ h.count[o] = 1 /\ g.count[o] = h.count[o] - 1
        BY <1>1, <1>2, <1>3, <2>3, <3>1 DEF HeapTyped
      <4> QED BY <2>1, <3>1, <4>1
    <3>2. CASE x # o
      <4>1. x \notin h.live /\ g.count[x] = h.count[x]
        BY <1>1, <1>2, <1>3, <2>3, <3>2 DEF HeapTyped
      <4> QED BY <1>2, <2>3, <4>1 DEF Counted
    <3> QED BY <3>1, <3>2
  <2> QED BY <2>2, <2>3 DEF Counted
<1>10. Waiting(g)
  <2> SUFFICES ASSUME NEW x \in g.live, ~g.owned[x]
               PROVE  g.txn[x] # NoDb /\ (g.count[x] = 1 => g.notes[x])
    BY DEF Waiting
  <2>1. x \in h.live /\ x \in Obj /\ x # o
    BY <1>1, <1>2 DEF HeapTyped
  <2>2. g.owned[x] = h.owned[x] /\ g.txn[x] = h.txn[x] /\ g.count[x] = h.count[x]
    BY <1>1, <1>2, <1>3, <2>1 DEF HeapTyped
  <2> QED BY <1>1, <1>2, <2>1, <2>2 DEF Waiting
<1>11. Heard(g)
  BY <1>1, <1>2, <1>3 DEF Heard, HeapTyped
<1> QED BY <1>1, <1>2, <1>4, <1>6, <1>9, <1>10, <1>11 DEF Sound

-----------------------------------------------------------------------------
(* The end of an internal child *)

\* Heap g is h without the internal child of object p.
ChildEnded(h, g, p, how, result) ==
  LET c == h.child[p] IN
  /\ HeapTyped(g) /\ g.misuse = {}
  /\ g.live = h.live \ {c}
  /\ g.txn = [h.txn EXCEPT ![c] = NoDb] /\ g.child = [h.child EXCEPT ![p] = NoObj]
  /\ g.owned = h.owned /\ g.notes = h.notes
  /\ g.count = [h.count EXCEPT ![c] = 0]
  /\ g.told = [h.told EXCEPT ![c] = how] /\ g.outcome = [h.outcome EXCEPT ![c] = result]
  /\ g.active = h.active \ {h.txn[c]} /\ g.parent = h.parent
  /\ g.hook = [h.hook EXCEPT ![h.txn[c]] = NoObj]

\* The internal child c of object p may be ended and deleted.
ChildEnds(h, refs, p) ==
  LET c == h.child[p] IN ~HasChild(h, c) /\ refs[c] = 0 /\ Kids(h, h.txn[c]) = {}

LEMMA ChildOpIs ==
  ASSUME NEW h, NEW refs, Sound(h, refs), NEW p \in h.live, HasChild(h, p), ChildEnds(h, refs, p),
         NEW how \in {"commit", "abort"}, NEW fails \in BOOLEAN
  PROVE  ChildEnded(h, ChildOp(h, p, how, fails), p, how, IF fails THEN "failed" ELSE how)
<1> DEFINE c == h.child[p]
           e == RunDbNotification(h, c, how, fails)
           r == Drop(e, c)
           g == [r EXCEPT !.child[p] = NoObj]
           result == IF fails THEN "failed" ELSE how
<1>1. /\ c \in h.live /\ c # p /\ h.owned[c] /\ h.txn[c] # NoDb /\ Kids(h, h.txn[c]) = {}
      /\ c \in Obj /\ p \in Obj /\ refs[c] = 0
  BY DEF Sound, Nested, ChildEnds, HeapTyped
<1>2. h.count[c] = 1
  <2>1. IsChild(h, c)
    BY DEF IsChild
  <2> QED BY <1>1, <2>1 DEF Sound, Counted
<1>3. Ended(h, e, c, how, result)
  BY <1>1, RunDbNotificationIs
<1> HIDE DEF e, c, result
<1>4. HeapTyped(e) /\ c \in e.live /\ e.count[c] = 1 /\ e.owned[c] /\ e.txn[c] = NoDb
  BY <1>1, <1>2, <1>3 DEF Ended, Sound, HeapTyped
<1>5. Dropped(e, r, c)
  BY <1>4, DropIs
<1>6. ChildOp(h, p, how, fails) = g
  <2>1. EndTxn(h, c, how, fails) = e
    BY <1>1 DEF EndTxn, e
  <2>2. ReleaseTransaction(e, c) = r
    BY <1>4 DEF ReleaseTransaction, Release
  <2> QED BY <2>1, <2>2 DEF ChildOp, c
<1> HIDE DEF r
<1>7. /\ HeapTyped(r) /\ r.child = h.child /\ r.live = h.live \ {c}
      /\ r.txn = [h.txn EXCEPT ![c] = NoDb]
      /\ r.owned = h.owned /\ r.notes = h.notes /\ r.count = [h.count EXCEPT ![c] = 0]
      /\ r.told = [h.told EXCEPT ![c] = how] /\ r.outcome = [h.outcome EXCEPT ![c] = result]
      /\ r.active = h.active \ {h.txn[c]} /\ r.parent = h.parent
      /\ r.hook = [h.hook EXCEPT ![h.txn[c]] = NoObj] /\ r.misuse = {}
  <2>1. [h.owned EXCEPT ![c] = TRUE] = h.owned
    BY <1>1 DEF Sound, HeapTyped
  <2>2. [h.count EXCEPT ![c] = @ - 1] = [h.count EXCEPT ![c] = 0]
    BY <1>1, <1>2 DEF Sound, HeapTyped
  <2> QED BY <1>1, <1>2, <1>3, <1>4, <1>5, <2>1, <2>2 DEF Ended, Dropped
<1>8. HeapTyped(g) /\ g.child = [h.child EXCEPT ![p] = NoObj]
      /\ g.live = r.live /\ g.txn = r.txn /\ g.owned = r.owned /\ g.notes = r.notes
      /\ g.count = r.count /\ g.told = r.told /\ g.outcome = r.outcome /\ g.active = r.active
      /\ g.parent = r.parent /\ g.hook = r.hook /\ g.misuse = r.misuse
  BY <1>1, <1>7 DEF HeapTyped
<1> HIDE DEF g
<1>9. ChildEnded(h, g, p, how, result)
  BY <1>7, <1>8 DEF ChildEnded, c
<1> QED BY <1>6, <1>9 DEF result

LEMMA ChildOpSound ==
  ASSUME NEW h, NEW refs, Sound(h, refs), NEW p \in h.live, HasChild(h, p), ChildEnds(h, refs, p),
         NEW how \in {"commit", "abort"}, NEW result \in {how, "failed"},
         result = "failed" => how = "commit", NEW g, ChildEnded(h, g, p, how, result)
  PROVE  Sound(g, refs) /\ g.txn[p] = h.txn[p] /\ ~HasChild(g, p) /\ Kids(g, h.txn[p]) = {}
<1> DEFINE c == h.child[p]
           d == h.txn[c]
<1>1. /\ HeapTyped(g) /\ g.misuse = {}
      /\ g.live = h.live \ {c}
      /\ g.txn = [h.txn EXCEPT ![c] = NoDb] /\ g.child = [h.child EXCEPT ![p] = NoObj]
      /\ g.owned = h.owned /\ g.notes = h.notes
      /\ g.count = [h.count EXCEPT ![c] = 0]
      /\ g.told = [h.told EXCEPT ![c] = how]
      /\ g.outcome = [h.outcome EXCEPT ![c] = result]
      /\ g.active = h.active \ {d} /\ g.parent = h.parent
      /\ g.hook = [h.hook EXCEPT ![d] = NoObj]
  BY DEF ChildEnded
<1>2. /\ HeapTyped(h) /\ Linked(h) /\ Nested(h) /\ Counted(h, refs) /\ Waiting(h) /\ Heard(h)
      /\ refs \in [Obj -> Nat]
  BY DEF Sound
<1>3. /\ c \in h.live /\ c # p /\ h.owned[c] /\ d # NoDb /\ Kids(h, d) = {}
      /\ c \in Obj /\ p \in Obj /\ refs[c] = 0 /\ h.child[c] = NoObj
      /\ Kids(h, h.txn[p]) = {d}
  BY <1>2 DEF Nested, ChildEnds, HeapTyped, HasChild
<1>4. d \in Db /\ d \in h.active /\ h.hook[d] = c /\ h.txn[c] = d
  BY <1>2, <1>3 DEF Linked, HeapTyped
<1>5. \A x \in h.live \ {p} : h.child[x] # c
  BY <1>3, OneParent DEF HasChild
<1> HIDE DEF c, d
<1>6. Linked(g)
  <2>1. ASSUME NEW x \in Obj, g.txn[x] # NoDb
        PROVE  /\ x \in g.live /\ g.txn[x] \in g.active /\ g.hook[g.txn[x]] = x
               /\ g.told[x] = "none"
    <3>1. x # c /\ g.txn[x] = h.txn[x]
      BY <1>1, <1>2, <1>3, <2>1 DEF HeapTyped
    <3>2. /\ x \in h.live /\ h.txn[x] \in h.active /\ h.hook[h.txn[x]] = x
          /\ h.told[x] = "none" /\ h.txn[x] # d /\ h.txn[x] \in Db
      BY <1>2, <1>4, <2>1, <3>1 DEF Linked, HeapTyped
    <3> QED BY <1>1, <1>2, <1>4, <3>1, <3>2 DEF HeapTyped
  <2>2. ASSUME NEW e \in g.active, g.hook[e] # NoObj PROVE g.txn[g.hook[e]] = e
    <3>1. e \in h.active /\ e # d /\ g.hook[e] = h.hook[e] /\ h.hook[e] \in Obj
      BY <1>1, <1>2, <1>4, <2>2 DEF HeapTyped
    <3>2. h.txn[h.hook[e]] = e
      BY <1>2, <2>2, <3>1 DEF Linked
    <3> QED BY <1>1, <1>2, <1>4, <3>1, <3>2 DEF HeapTyped
  <2>3. ASSUME NEW e \in g.active PROVE g.parent[e] \in g.active \cup {NoDb}
    <3>1. h.parent[e] # d
      BY <1>1, <1>3, <2>3 DEF Kids
    <3> QED BY <1>1, <1>2, <2>3, <3>1 DEF Linked
  <2> QED BY <2>1, <2>2, <2>3 DEF Linked
<1>7. g.txn[p] = h.txn[p] /\ ~HasChild(g, p) /\ Kids(g, h.txn[p]) = {}
  <2>1. Kids(g, h.txn[p]) = Kids(h, h.txn[p]) \ {d}
    BY <1>1 DEF Kids
  <2> QED BY <1>1, <1>2, <1>3, <2>1 DEF HasChild, HeapTyped
<1>8. \A x \in Obj \ {p} : g.child[x] = h.child[x]
  BY <1>1, <1>2 DEF HeapTyped
<1>9. Nested(g)
  <2> SUFFICES ASSUME NEW x \in g.live, HasChild(g, x)
               PROVE  /\ g.child[x] \in g.live /\ g.child[x] # x /\ g.owned[g.child[x]]
                      /\ g.txn[x] # NoDb /\ g.txn[g.child[x]] # NoDb
                      /\ Kids(g, g.txn[x]) = {g.txn[g.child[x]]}
    BY DEF Nested
  <2>1. x \in h.live /\ x \in Obj /\ x # p /\ x # c /\ g.child[x] = h.child[x] /\ HasChild(h, x)
        /\ h.child[x] # c
    BY <1>1, <1>2, <1>5, <1>7, <1>8 DEF HasChild, HeapTyped
  <2> DEFINE b == h.child[x]
  <2>2. /\ b \in h.live /\ b # x /\ h.owned[b] /\ h.txn[x] # NoDb /\ h.txn[b] # NoDb
        /\ Kids(h, h.txn[x]) = {h.txn[b]} /\ b \in Obj
    BY <1>2, <2>1 DEF Nested, HeapTyped
  <2>3. g.txn[x] = h.txn[x] /\ g.txn[b] = h.txn[b] /\ g.owned[b] /\ b \in g.live
    BY <1>1, <1>2, <1>3, <2>1, <2>2 DEF HeapTyped
  <2>4. h.txn[b] # d
    BY <1>2, <1>4, <2>1, <2>2 DEF Linked
  <2>5. Kids(g, h.txn[x]) = Kids(h, h.txn[x]) \ {d}
    BY <1>1 DEF Kids
  <2> QED BY <2>1, <2>2, <2>3, <2>4, <2>5
<1>10. ASSUME NEW x \in g.live PROVE IsChild(g, x) <=> IsChild(h, x)
  <2>1. x \in Obj /\ x # c /\ x # NoObj /\ g.child[p] = NoObj /\ h.child[p] = c /\ h.child[c] = NoObj
    BY <1>1, <1>2, <1>3, NullAssumption DEF HeapTyped, c
  <2> QED BY <1>1, <1>2, <1>8, <2>1 DEF IsChild, HeapTyped
<1>11. Counted(g, refs)
  <2>1. ASSUME NEW x \in g.live
        PROVE  /\ g.count[x] = refs[x] + (IF g.owned[x] THEN 0 ELSE 1)
                                + (IF IsChild(g, x) THEN 1 ELSE 0)
               /\ g.count[x] > 0
    <3>1. x \in h.live /\ g.count[x] = h.count[x] /\ g.owned[x] = h.owned[x]
      BY <1>1, <1>2 DEF HeapTyped
    <3> QED BY <1>2, <1>10, <3>1 DEF Counted
  <2>2. ASSUME NEW x \in Obj \ g.live PROVE refs[x] = 0 /\ g.count[x] = 0
    <3>1. CASE x = c
      BY <1>1, <1>2, <1>3, <3>1 DEF HeapTyped
    <3>2. CASE x # c
      BY <1>1, <1>2, <1>3, <2>2, <3>2 DEF Counted, HeapTyped
    <3> QED BY <3>1, <3>2
  <2> QED BY <2>1, <2>2 DEF Counted
<1>12. Waiting(g)
  <2> SUFFICES ASSUME NEW x \in g.live, ~g.owned[x]
               PROVE  g.txn[x] # NoDb /\ (g.count[x] = 1 => g.notes[x])
    BY DEF Waiting
  <2>1. x \in h.live /\ x \in Obj /\ x # c
    BY <1>1, <1>2 DEF HeapTyped
  <2>2. g.owned[x] = h.owned[x] /\ g.txn[x] = h.txn[x] /\ g.count[x] = h.count[x]
    BY <1>1, <1>2, <2>1 DEF HeapTyped
  <2> QED BY <1>1, <1>2, <2>1, <2>2 DEF Waiting
<1>13. Heard(g)
  BY <1>1, <1>2, <1>3 DEF Heard, HeapTyped
<1> QED BY <1>1, <1>2, <1>6, <1>7, <1>9, <1>11, <1>12, <1>13 DEF Sound

-----------------------------------------------------------------------------
(* References *)

LEMMA DropSound ==
  ASSUME NEW h, NEW refs, Sound(h, refs), NEW o \in h.live, refs[o] > 0,
         h.count[o] = 1 => h.txn[o] = NoDb /\ ~HasChild(h, o),
         ~h.owned[o] /\ h.count[o] = 2 => h.notes[o],
         NEW g, Dropped(h, g, o)
  PROVE  Sound(g, [refs EXCEPT ![o] = @ - 1])
<1> DEFINE less == [refs EXCEPT ![o] = @ - 1]
<1>1. /\ HeapTyped(h) /\ Linked(h) /\ Nested(h) /\ Counted(h, refs) /\ Waiting(h) /\ Heard(h)
      /\ refs \in [Obj -> Nat] /\ h.misuse = {}
  BY DEF Sound
<1>2. o \in Obj /\ refs[o] \in Nat /\ h.count[o] \in Nat
  BY <1>1 DEF HeapTyped
<1>3. /\ h.count[o] = refs[o] + (IF h.owned[o] THEN 0 ELSE 1) + (IF IsChild(h, o) THEN 1 ELSE 0)
      /\ h.count[o] > 0
  BY <1>1 DEF Counted
<1>4. less \in [Obj -> Nat] /\ less[o] = refs[o] - 1 /\ \A x \in Obj \ {o} : less[x] = refs[x]
  BY <1>1, <1>2
<1> HIDE DEF less
<1>5. /\ HeapTyped(g)
      /\ g.live = IF h.count[o] = 1 THEN h.live \ {o} ELSE h.live
      /\ g.count[o] = h.count[o] - 1 /\ \A x \in Obj \ {o} : g.count[x] = h.count[x]
      /\ g.txn = h.txn /\ g.child = h.child /\ g.owned = h.owned /\ g.notes = h.notes
      /\ g.told = h.told /\ g.outcome = h.outcome /\ g.active = h.active
      /\ g.parent = h.parent /\ g.hook = h.hook /\ g.misuse = h.misuse
  BY <1>1, <1>2 DEF Dropped, HeapTyped
<1>6. h.count[o] = 1 => refs[o] = 1 /\ h.owned[o] /\ ~IsChild(h, o)
  BY <1>2, <1>3
<1>7. Linked(g)
  BY <1>1, <1>5 DEF Linked
<1>8. ASSUME NEW x \in g.live, HasChild(g, x)
      PROVE  x \in h.live /\ HasChild(h, x) /\ h.child[x] \in h.live /\ h.child[x] \in g.live
  <2>1. x \in h.live /\ HasChild(h, x)
    BY <1>5, <1>8 DEF HasChild
  <2>2. h.child[x] \in h.live
    BY <1>1, <2>1 DEF Nested
  <2>3. h.count[o] = 1 => h.child[x] # o
    BY <1>6, <2>1 DEF IsChild
  <2> QED BY <1>5, <2>1, <2>2, <2>3
<1>9. Nested(g)
  <2>1. \A d : Kids(g, d) = Kids(h, d)
    BY <1>5 DEF Kids
  <2> QED BY <1>1, <1>5, <1>8, <2>1 DEF Nested
<1>10. ASSUME NEW x \in g.live PROVE IsChild(g, x) <=> IsChild(h, x)
  <2>1. x # NoObj
    BY <1>1, <1>5, NullAssumption DEF HeapTyped
  <2> QED BY <1>5, <2>1 DEF IsChild, HasChild
<1>11. Counted(g, less)
  <2>1. ASSUME NEW x \in g.live
        PROVE  /\ g.count[x] = less[x] + (IF g.owned[x] THEN 0 ELSE 1)
                                + (IF IsChild(g, x) THEN 1 ELSE 0)
               /\ g.count[x] > 0
    <3>1. x \in h.live /\ x \in Obj /\ g.owned[x] = h.owned[x]
      BY <1>1, <1>5 DEF HeapTyped
    <3>2. CASE x = o
      <4>1. h.count[o] # 1
        BY <1>5, <3>2
      <4> QED BY <1>2, <1>3, <1>4, <1>5, <1>10, <3>1, <3>2, <4>1
    <3>3. CASE x # o
      BY <1>1, <1>4, <1>5, <1>10, <3>1, <3>3 DEF Counted
    <3> QED BY <3>2, <3>3
  <2>2. ASSUME NEW x \in Obj \ g.live PROVE less[x] = 0 /\ g.count[x] = 0
    <3>1. CASE x = o
      BY <1>1, <1>2, <1>3, <1>4, <1>5, <1>6, <2>2, <3>1 DEF Counted
    <3>2. CASE x # o
      BY <1>1, <1>2, <1>4, <1>5, <2>2, <3>2 DEF Counted
    <3> QED BY <3>1, <3>2
  <2> QED BY <2>1, <2>2 DEF Counted
<1>12. Waiting(g)
  <2> SUFFICES ASSUME NEW x \in g.live, ~g.owned[x]
               PROVE  g.txn[x] # NoDb /\ (g.count[x] = 1 => g.notes[x])
    BY DEF Waiting
  <2>1. x \in h.live /\ x \in Obj /\ ~h.owned[x]
    BY <1>1, <1>5 DEF HeapTyped
  <2>2. CASE x = o
    BY <1>1, <1>2, <1>5, <2>1, <2>2 DEF Waiting
  <2>3. CASE x # o
    BY <1>1, <1>5, <2>1, <2>3 DEF Waiting
  <2> QED BY <2>2, <2>3
<1>13. Heard(g)
  BY <1>1, <1>5 DEF Heard
<1> QED BY <1>1, <1>4, <1>5, <1>7, <1>9, <1>11, <1>12, <1>13 DEF Sound, less

\* An object that wraps the application's DB_TXN lets go of it.
Unwrapped(h, g, o) ==
  /\ HeapTyped(g) /\ g.misuse = {}
  /\ g.live = h.live \ {o}
  /\ g.txn = [h.txn EXCEPT ![o] = NoDb] /\ g.child = h.child
  /\ g.owned = h.owned /\ g.notes = h.notes
  /\ g.count = [h.count EXCEPT ![o] = 0]
  /\ g.told = h.told /\ g.outcome = h.outcome
  /\ g.active = h.active /\ g.parent = h.parent
  /\ g.hook = [h.hook EXCEPT ![h.txn[o]] = NoObj]

LEMMA UnwrapIs ==
  ASSUME NEW h, NEW refs, Sound(h, refs), NEW o \in h.live,
         ~h.owned[o], h.count[o] = 2, ~h.notes[o]
  PROVE  Unwrapped(h, ReleaseTransaction(h, o), o)
<1> DEFINE d == h.txn[o]
           a == [h EXCEPT !.txn[o] = NoDb, !.hook[d] = NoObj]
           b == Drop(a, o)
           g == Drop(b, o)
<1>1. /\ o \in Obj /\ d # NoDb /\ d \in Db /\ d \in h.active /\ HeapTyped(h) /\ h.misuse = {}
  BY DEF Sound, Waiting, Linked, HeapTyped
<1>2. ReleaseTransaction(h, o) = g
  <2>1. ClearDbNotification(h, o) = a
    BY <1>1 DEF ClearDbNotification, Flag
  <2> QED BY <1>1, <2>1 DEF ReleaseTransaction
<1>3. HeapTyped(a) /\ a.txn = [h.txn EXCEPT ![o] = NoDb] /\ a.active = h.active
      /\ a.parent = h.parent /\ a.hook = [h.hook EXCEPT ![d] = NoObj] /\ a.live = h.live
      /\ a.child = h.child /\ a.owned = h.owned /\ a.count = h.count /\ a.notes = h.notes
      /\ a.told = h.told /\ a.outcome = h.outcome /\ a.misuse = {}
  BY <1>1 DEF HeapTyped
<1> HIDE DEF a
<1>4. Dropped(a, b, o)
  BY <1>3, DropIs
<1> HIDE DEF b
<1>5. HeapTyped(b) /\ b.live = h.live /\ b.count = [h.count EXCEPT ![o] = 1] /\ b.count[o] = 1
  BY <1>1, <1>3, <1>4 DEF Dropped, HeapTyped
<1>6. Dropped(b, g, o)
  BY <1>5, DropIs
<1> HIDE DEF g
<1>7. g.count = [h.count EXCEPT ![o] = 0] /\ g.live = h.live \ {o}
  BY <1>1, <1>5, <1>6 DEF Dropped, HeapTyped
<1>8. Unwrapped(h, g, o)
  BY <1>3, <1>4, <1>6, <1>7 DEF Dropped, Unwrapped, d
<1> QED BY <1>2, <1>8

LEMMA UnwrapSound ==
  ASSUME NEW h, NEW refs, Sound(h, refs), NEW o \in h.live, refs[o] > 0,
         ~h.owned[o], h.count[o] = 2, ~HasChild(h, o), NEW g, Unwrapped(h, g, o)
  PROVE  Sound(g, [refs EXCEPT ![o] = @ - 1])
<1> DEFINE less == [refs EXCEPT ![o] = @ - 1]
           d == h.txn[o]
<1>1. /\ HeapTyped(h) /\ Linked(h) /\ Nested(h) /\ Counted(h, refs) /\ Waiting(h) /\ Heard(h)
      /\ refs \in [Obj -> Nat]
  BY DEF Sound
<1>2. o \in Obj /\ refs[o] \in Nat /\ h.txn[o] = d /\ d # NoDb /\ d \in Db /\ h.hook[d] = o
  BY <1>1 DEF HeapTyped, Waiting, Linked
<1>3. h.count[o] = refs[o] + (IF h.owned[o] THEN 0 ELSE 1) + (IF IsChild(h, o) THEN 1 ELSE 0)
  BY <1>1 DEF Counted
<1>4. refs[o] = 1 /\ ~IsChild(h, o)
  BY <1>2, <1>3
<1>5. less \in [Obj -> Nat] /\ less[o] = 0 /\ \A x \in Obj \ {o} : less[x] = refs[x]
  BY <1>1, <1>2, <1>4
<1> HIDE DEF less, d
<1>6. /\ HeapTyped(g) /\ g.misuse = {} /\ g.live = h.live \ {o}
      /\ g.txn[o] = NoDb /\ \A x \in Obj \ {o} : g.txn[x] = h.txn[x] /\ g.count[x] = h.count[x]
      /\ g.count[o] = 0
      /\ g.hook[d] = NoObj /\ \A e \in Db \ {d} : g.hook[e] = h.hook[e]
      /\ g.child = h.child /\ g.owned = h.owned /\ g.notes = h.notes
      /\ g.told = h.told /\ g.outcome = h.outcome /\ g.active = h.active /\ g.parent = h.parent
  BY <1>1, <1>2 DEF Unwrapped, HeapTyped, d
<1>7. h.live \subseteq Obj /\ h.active \subseteq Db
  BY <1>1 DEF HeapTyped
<1>8. Linked(g)
  <2>1. ASSUME NEW x \in Obj, g.txn[x] # NoDb
        PROVE  /\ x \in g.live /\ g.txn[x] \in g.active /\ g.hook[g.txn[x]] = x
               /\ g.told[x] = "none"
    BY <1>1, <1>2, <1>6, <1>7, <2>1 DEF Linked
  <2>2. ASSUME NEW e \in g.active, g.hook[e] # NoObj PROVE g.txn[g.hook[e]] = e
    <3>1. e \in h.active /\ e # d /\ g.hook[e] = h.hook[e] /\ h.hook[e] \in Obj
      BY <1>1, <1>6, <1>7, <2>2 DEF HeapTyped
    <3> QED BY <1>1, <1>2, <1>6, <2>2, <3>1 DEF Linked
  <2>3. ASSUME NEW e \in g.active PROVE g.parent[e] \in g.active \cup {NoDb}
    BY <1>1, <1>6, <2>3 DEF Linked
  <2> QED BY <2>1, <2>2, <2>3 DEF Linked
<1>9. \A x \in h.live : h.child[x] # o
  BY <1>4 DEF IsChild
<1>10. Nested(g)
  <2> SUFFICES ASSUME NEW x \in g.live, HasChild(g, x)
               PROVE  /\ g.child[x] \in g.live /\ g.child[x] # x /\ g.owned[g.child[x]]
                      /\ g.txn[x] # NoDb /\ g.txn[g.child[x]] # NoDb
                      /\ Kids(g, g.txn[x]) = {g.txn[g.child[x]]}
    BY DEF Nested
  <2>1. x \in h.live /\ x # o /\ HasChild(h, x) /\ h.child[x] # o
    BY <1>6, <1>9 DEF HasChild
  <2>2. \A e : Kids(g, e) = Kids(h, e)
    BY <1>6 DEF Kids
  <2> QED BY <1>1, <1>6, <1>7, <2>1, <2>2 DEF Nested
<1>11. ASSUME NEW x \in g.live PROVE IsChild(g, x) <=> IsChild(h, x)
  <2>1. x # NoObj
    BY <1>6, <1>7, NullAssumption
  <2> QED BY <1>6, <2>1 DEF IsChild, HasChild
<1>12. Counted(g, less)
  <2>1. ASSUME NEW x \in g.live
        PROVE  /\ g.count[x] = less[x] + (IF g.owned[x] THEN 0 ELSE 1)
                                + (IF IsChild(g, x) THEN 1 ELSE 0)
               /\ g.count[x] > 0
    BY <1>1, <1>5, <1>6, <1>7, <1>11 DEF Counted
  <2>2. ASSUME NEW x \in Obj \ g.live PROVE less[x] = 0 /\ g.count[x] = 0
    <3>1. CASE x = o
      BY <1>5, <1>6, <1>7, <3>1
    <3>2. CASE x # o
      BY <1>1, <1>5, <1>6, <1>7, <2>2, <3>2 DEF Counted
    <3> QED BY <3>1, <3>2
  <2> QED BY <2>1, <2>2 DEF Counted
<1>13. Waiting(g)
  BY <1>1, <1>6, <1>7 DEF Waiting
<1>14. Heard(g)
  BY <1>1, <1>6 DEF Heard
<1> QED BY <1>5, <1>6, <1>8, <1>10, <1>12, <1>13, <1>14 DEF Sound, less

\* What a release of object o leaves as it is.
Released(h, g, refs, o) ==
  /\ g.child = h.child /\ g.live \subseteq h.live /\ g.parent = h.parent
  /\ g.active \subseteq h.active /\ \A x \in Obj \ {o} : g.txn[x] = h.txn[x]
  /\ \A x \in h.live \ {o} : x \in g.live
  /\ refs[o] > 1 \/ IsChild(h, o) => o \in g.live /\ g.txn = h.txn /\ g.active = h.active

LEMMA ReleaseSound ==
  ASSUME NEW h, NEW refs, Sound(h, refs), NEW o \in h.live, refs[o] > 0,
         refs[o] = 1 => ~HasChild(h, o) \/ IsChild(h, o),
         ~IsChild(h, o) /\ h.txn[o] # NoDb /\ refs[o] = 1 /\ h.owned[o] => Kids(h, h.txn[o]) = {},
         NEW g, g = ReleaseTransaction(h, o)
  PROVE  Sound(g, [refs EXCEPT ![o] = @ - 1]) /\ Released(h, g, refs, o)
<1>1. /\ HeapTyped(h) /\ Linked(h) /\ Counted(h, refs) /\ Waiting(h)
      /\ refs \in [Obj -> Nat]
  BY DEF Sound
<1>2. o \in Obj /\ refs[o] \in Nat /\ h.count[o] \in Nat
  BY <1>1 DEF HeapTyped
<1>3. /\ h.count[o] = refs[o] + (IF h.owned[o] THEN 0 ELSE 1) + (IF IsChild(h, o) THEN 1 ELSE 0)
      /\ h.count[o] > 0
  BY <1>1 DEF Counted
<1>4. CASE ~h.owned[o] /\ h.count[o] = 2 /\ ~h.notes[o]
  <2>1. refs[o] = 1 /\ ~IsChild(h, o)
    BY <1>2, <1>3, <1>4
  <2>2. Unwrapped(h, g, o)
    BY <1>4, UnwrapIs
  <2>3. Sound(g, [refs EXCEPT ![o] = @ - 1])
    BY <1>4, <2>1, <2>2, UnwrapSound
  <2>4. Released(h, g, refs, o)
    BY <1>1, <1>2, <2>1, <2>2 DEF Unwrapped, Released, HeapTyped
  <2> QED BY <2>3, <2>4
<1>5. CASE ~(~h.owned[o] /\ h.count[o] = 2 /\ ~h.notes[o]) /\ ~(h.count[o] = 1 /\ h.txn[o] # NoDb)
  <2>1. g = Drop(h, o)
    BY <1>5 DEF ReleaseTransaction, Release
  <2>2. Dropped(h, g, o)
    BY <1>1, <1>3, <2>1, DropIs
  <2>3. h.count[o] = 1 => refs[o] = 1 /\ ~IsChild(h, o)
    BY <1>2, <1>3
  <2>4. Sound(g, [refs EXCEPT ![o] = @ - 1])
    BY <1>5, <2>2, <2>3, DropSound
  <2>5. refs[o] > 1 \/ IsChild(h, o) => h.count[o] # 1
    BY <1>2, <1>3
  <2>6. Released(h, g, refs, o)
    BY <2>2, <2>5 DEF Dropped, Released
  <2> QED BY <2>4, <2>6
<1>6. CASE h.count[o] = 1 /\ h.txn[o] # NoDb
  <2>1. refs[o] = 1 /\ ~IsChild(h, o) /\ h.owned[o]
    BY <1>2, <1>3, <1>6
  <2>2. Kids(h, h.txn[o]) = {} /\ ~HasChild(h, o)
    BY <1>6, <2>1
  <2> DEFINE e == RunDbNotification(h, o, "abort", FALSE)
  <2>3. Ended(h, e, o, "abort", "abort")
    BY <1>6, <2>2, RunDbNotificationIs
  <2>4. Sound(e, refs)
    BY <1>6, <2>1, <2>2, EndSound
  <2>5. g = Drop(e, o)
    BY <1>6, <2>1 DEF ReleaseTransaction, Release
  <2> HIDE DEF e
  <2>6. /\ o \in e.live /\ e.count[o] = 1 /\ e.owned[o] /\ e.txn[o] = NoDb /\ HeapTyped(e)
        /\ e.live = h.live /\ e.child = h.child /\ ~HasChild(e, o)
    BY <1>1, <1>2, <1>6, <2>1, <2>2, <2>3 DEF Ended, HeapTyped, HasChild
  <2>7. Dropped(e, g, o)
    BY <2>5, <2>6, DropIs
  <2>8. Sound(g, [refs EXCEPT ![o] = @ - 1])
    BY <2>1, <2>4, <2>6, <2>7, DropSound
  <2>9. Released(h, g, refs, o)
    BY <1>1, <1>2, <2>1, <2>3, <2>6, <2>7 DEF Ended, Dropped, Released, HeapTyped
  <2> QED BY <2>8, <2>9
<1> QED BY <1>4, <1>5, <1>6

\* Heap g is h with one more reference to object o.
Acquired(h, g, o) ==
  /\ HeapTyped(g)
  /\ g.count = [h.count EXCEPT ![o] = @ + 1] /\ g.live = h.live
  /\ g.txn = h.txn /\ g.child = h.child /\ g.owned = h.owned /\ g.notes = h.notes
  /\ g.told = h.told /\ g.outcome = h.outcome /\ g.active = h.active
  /\ g.parent = h.parent /\ g.hook = h.hook /\ g.misuse = h.misuse

LEMMA AcquireIs ==
  ASSUME NEW h, HeapTyped(h), NEW o \in h.live
  PROVE  Acquired(h, Acquire(h, o), o)
<1> DEFINE g == Acquire(h, o)
<1>1. o \in Obj /\ h.count[o] \in Nat
  BY DEF HeapTyped
<1>2. g = [h EXCEPT !.count[o] = @ + 1]
  BY DEF Acquire, Flag
<1>3. [h.count EXCEPT ![o] = @ + 1] \in [Obj -> Nat]
  BY <1>1 DEF HeapTyped
<1> QED BY <1>1, <1>2, <1>3 DEF HeapTyped, Acquired

LEMMA AcquireSound ==
  ASSUME NEW h, NEW refs, Sound(h, refs), NEW o \in h.live, NEW g, Acquired(h, g, o)
  PROVE  Sound(g, [refs EXCEPT ![o] = @ + 1])
<1> DEFINE more == [refs EXCEPT ![o] = @ + 1]
<1>1. /\ HeapTyped(h) /\ Linked(h) /\ Nested(h) /\ Counted(h, refs) /\ Waiting(h) /\ Heard(h)
      /\ refs \in [Obj -> Nat]
  BY DEF Sound
<1>2. o \in Obj /\ refs[o] \in Nat /\ h.count[o] \in Nat /\ h.live \subseteq Obj
  BY <1>1 DEF HeapTyped
<1>3. more \in [Obj -> Nat] /\ more[o] = refs[o] + 1 /\ \A x \in Obj \ {o} : more[x] = refs[x]
  BY <1>1, <1>2
<1> HIDE DEF more
<1>4. /\ HeapTyped(g) /\ g.live = h.live
      /\ g.count[o] = h.count[o] + 1 /\ \A x \in Obj \ {o} : g.count[x] = h.count[x]
      /\ g.txn = h.txn /\ g.child = h.child /\ g.owned = h.owned /\ g.notes = h.notes
      /\ g.told = h.told /\ g.outcome = h.outcome /\ g.active = h.active
      /\ g.parent = h.parent /\ g.hook = h.hook /\ g.misuse = h.misuse
  BY <1>1, <1>2 DEF Acquired, HeapTyped
<1>5. Linked(g) /\ Heard(g)
  BY <1>1, <1>4 DEF Linked, Heard
<1>6. Nested(g)
  <2>1. \A e : Kids(g, e) = Kids(h, e)
    BY <1>4 DEF Kids
  <2> QED BY <1>1, <1>4, <2>1 DEF Nested, HasChild
<1>7. Counted(g, more)
  <2>1. \A x : IsChild(g, x) <=> IsChild(h, x)
    BY <1>4 DEF IsChild
  <2>2. ASSUME NEW x \in g.live
        PROVE  /\ g.count[x] = more[x] + (IF g.owned[x] THEN 0 ELSE 1)
                                + (IF IsChild(g, x) THEN 1 ELSE 0)
               /\ g.count[x] > 0
    <3>1. /\ h.count[x] = refs[x] + (IF h.owned[x] THEN 0 ELSE 1) + (IF IsChild(h, x) THEN 1 ELSE 0)
          /\ h.count[x] > 0 /\ x \in Obj
      BY <1>1, <1>2, <1>4 DEF Counted
    <3>2. CASE x = o
      BY <1>2, <1>3, <1>4, <2>1, <3>1, <3>2
    <3>3. CASE x # o
      BY <1>3, <1>4, <2>1, <3>1, <3>3
    <3> QED BY <3>2, <3>3
  <2>3. \A x \in Obj \ g.live : more[x] = 0 /\ g.count[x] = 0
    BY <1>1, <1>3, <1>4 DEF Counted
  <2> QED BY <2>2, <2>3 DEF Counted
<1>8. Waiting(g)
  <2> SUFFICES ASSUME NEW x \in g.live, ~g.owned[x]
               PROVE  g.txn[x] # NoDb /\ (g.count[x] = 1 => g.notes[x])
    BY DEF Waiting
  <2>1. h.count[o] > 0
    BY <1>1 DEF Counted
  <2> QED BY <1>1, <1>2, <1>4, <2>1 DEF Waiting
<1> QED BY <1>3, <1>4, <1>5, <1>6, <1>7, <1>8 DEF Sound, more

-----------------------------------------------------------------------------
(* New objects *)

\* Heap g is h with a new object o around DB_TXN d, with one reference, and
\* with `child' for the internal children.
Made(h, g, o, d, parent, owned, child) ==
  /\ HeapTyped(g) /\ g.misuse = h.misuse
  /\ g.live = h.live \cup {o} /\ g.txn = [h.txn EXCEPT ![o] = d] /\ g.child = child
  /\ g.owned = [h.owned EXCEPT ![o] = owned]
  /\ g.count = [h.count EXCEPT ![o] = IF owned THEN 1 ELSE 2]
  /\ g.notes = [h.notes EXCEPT ![o] = FALSE]
  /\ g.told = [h.told EXCEPT ![o] = "none"] /\ g.outcome = [h.outcome EXCEPT ![o] = "none"]
  /\ g.active = h.active \cup {d}
  /\ g.parent = [h.parent EXCEPT ![d] = parent] /\ g.hook = [h.hook EXCEPT ![d] = o]

\* The internal children once the new object o has none, and is that of p.
Childfree(h, o) == [h.child EXCEPT ![o] = NoObj]
Adopted(h, p, o) == [h.child EXCEPT ![o] = NoObj, ![p] = o]

LEMMA NewIs ==
  ASSUME NEW h, HeapTyped(h), NEW o \in Obj, NEW d \in Db, NEW parent \in Db \cup {NoDb},
         NEW owned \in BOOLEAN
  PROVE  /\ Made(h, Acquire(New(h, o, d, parent, owned), o), o, d, parent, owned, Childfree(h, o))
         /\ \A p \in Obj \ {o} :
              Made(h, Acquire([New(h, o, d, parent, owned) EXCEPT !.child[p] = o], o),
                   o, d, parent, owned, Adopted(h, p, o))
<1> DEFINE n == New(h, o, d, parent, owned)
           one == IF owned THEN 0 ELSE 1
<1>1. /\ HeapTyped(n) /\ n.misuse = h.misuse /\ n.child = [h.child EXCEPT ![o] = NoObj]
      /\ n.live = h.live \cup {o} /\ n.txn = [h.txn EXCEPT ![o] = d]
      /\ n.owned = [h.owned EXCEPT ![o] = owned] /\ n.count = [h.count EXCEPT ![o] = one]
      /\ n.notes = [h.notes EXCEPT ![o] = FALSE]
      /\ n.told = [h.told EXCEPT ![o] = "none"] /\ n.outcome = [h.outcome EXCEPT ![o] = "none"]
      /\ n.active = h.active \cup {d}
      /\ n.parent = [h.parent EXCEPT ![d] = parent] /\ n.hook = [h.hook EXCEPT ![d] = o]
  <2>1. "none" \in Outcome
    BY DEF Outcome
  <2>2. n.live = h.live \cup {o} /\ n.txn = [h.txn EXCEPT ![o] = d]
    BY DEF New, HeapTyped
  <2>3. n.child = [h.child EXCEPT ![o] = NoObj] /\ n.owned = [h.owned EXCEPT ![o] = owned]
    BY DEF New, HeapTyped
  <2>4. n.count = [h.count EXCEPT ![o] = one] /\ n.notes = [h.notes EXCEPT ![o] = FALSE]
    BY DEF New, HeapTyped
  <2>5. n.told = [h.told EXCEPT ![o] = "none"] /\ n.outcome = [h.outcome EXCEPT ![o] = "none"]
    BY DEF New, HeapTyped
  <2>6. n.active = h.active \cup {d} /\ n.parent = [h.parent EXCEPT ![d] = parent]
    BY DEF New, HeapTyped
  <2>7. n.hook = [h.hook EXCEPT ![d] = o] /\ n.misuse = h.misuse
    BY DEF New, HeapTyped
  <2>8. HeapTyped(n)
    <3> DEFINE a == [h EXCEPT !.live = @ \cup {o}, !.txn[o] = d, !.child[o] = NoObj]
               b == [a EXCEPT !.owned[o] = owned, !.count[o] = IF owned THEN 0 ELSE 1,
                              !.notes[o] = FALSE]
               c == [b EXCEPT !.told[o] = "none", !.outcome[o] = "none"]
               e == [c EXCEPT !.active = @ \cup {d}, !.parent[d] = parent, !.hook[d] = o]
    <3>1. HeapTyped(a)
      BY DEF HeapTyped
    <3>2. n = e
      BY DEF New
    <3> HIDE DEF a, n
    <3>3. HeapTyped(b)
      BY <3>1 DEF HeapTyped
    <3> HIDE DEF b
    <3>4. HeapTyped(c)
      BY <2>1, <3>3 DEF HeapTyped
    <3> HIDE DEF c
    <3>5. HeapTyped(e)
      BY <3>4 DEF HeapTyped
    <3> HIDE DEF e
    <3> QED BY <3>2, <3>5
  <2> QED BY <2>2, <2>3, <2>4, <2>5, <2>6, <2>7, <2>8
<1> HIDE DEF n
<1>2. ASSUME NEW m, HeapTyped(m), m.live = n.live, m.txn = n.txn, m.owned = n.owned,
             m.count = n.count, m.notes = n.notes, m.told = n.told, m.outcome = n.outcome,
             m.active = n.active, m.parent = n.parent, m.hook = n.hook, m.misuse = n.misuse
      PROVE  Made(h, Acquire(m, o), o, d, parent, owned, m.child)
  <2>1. Acquired(m, Acquire(m, o), o)
    BY <1>1, <1>2, AcquireIs
  <2>2. [m.count EXCEPT ![o] = @ + 1] = [h.count EXCEPT ![o] = IF owned THEN 1 ELSE 2]
    BY <1>1, <1>2 DEF HeapTyped
  <2> QED BY <1>1, <1>2, <2>1, <2>2 DEF Acquired, Made
<1>3. Made(h, Acquire(n, o), o, d, parent, owned, n.child)
  BY <1>1, <1>2
<1>4. ASSUME NEW p \in Obj \ {o}
      PROVE  Made(h, Acquire([n EXCEPT !.child[p] = o], o), o, d, parent, owned,
                  Adopted(h, p, o))
  <2> DEFINE m == [n EXCEPT !.child[p] = o]
  <2>1. /\ HeapTyped(m) /\ m.live = n.live /\ m.txn = n.txn /\ m.owned = n.owned
        /\ m.count = n.count /\ m.notes = n.notes /\ m.told = n.told /\ m.outcome = n.outcome
        /\ m.active = n.active /\ m.parent = n.parent /\ m.hook = n.hook
        /\ m.misuse = n.misuse /\ m.child = [h.child EXCEPT ![o] = NoObj, ![p] = o]
    BY <1>1 DEF HeapTyped
  <2> HIDE DEF m
  <2>2. Made(h, Acquire(m, o), o, d, parent, owned, m.child)
    BY <1>2, <2>1
  <2> QED BY <2>1, <2>2 DEF m, Adopted
<1> QED BY <1>1, <1>3, <1>4 DEF n, Childfree

OneMore(refs, o) == [refs EXCEPT ![o] = @ + 1]

\* Object o may be made around d, which is new or the application's.
MayBegin(h, o, d, parent) ==
  /\ o \in Obj \ h.live /\ d \in Db /\ parent \in h.active \cup {NoDb}
  /\ d \notin h.active \/ (h.hook[d] = NoObj /\ parent = NoDb)
  /\ \A p \in h.live : HasChild(h, p) => h.txn[p] # parent

LEMMA NewSound ==
  ASSUME NEW h, NEW refs, Sound(h, refs), NEW o, NEW d, NEW parent, MayBegin(h, o, d, parent),
         NEW owned \in BOOLEAN, NEW g, Made(h, g, o, d, parent, owned, Childfree(h, o)),
         NEW more, more = OneMore(refs, o)
  PROVE  Sound(g, more)
<1>0. /\ o \in Obj \ h.live /\ d \in Db /\ parent \in h.active \cup {NoDb}
      /\ d \notin h.active \/ (h.hook[d] = NoObj /\ parent = NoDb)
      /\ \A p \in h.live : HasChild(h, p) => h.txn[p] # parent
  BY DEF MayBegin
<1> USE <1>0
<1>1. /\ HeapTyped(h) /\ Linked(h) /\ Nested(h) /\ Counted(h, refs) /\ Waiting(h) /\ Heard(h)
      /\ refs \in [Obj -> Nat] /\ h.misuse = {}
  BY DEF Sound
<1>2. /\ h.live \subseteq Obj /\ h.active \subseteq Db /\ d # NoDb /\ refs[o] = 0 /\ o # NoObj
      /\ h.txn[o] = NoDb /\ \A x \in Obj : h.txn[x] # d
  BY <1>1, NullAssumption DEF HeapTyped, Counted, Linked
<1>3. more \in [Obj -> Nat] /\ more[o] = 1 /\ \A x \in Obj \ {o} : more[x] = refs[x]
  BY <1>1, <1>2 DEF OneMore
<1>4. /\ HeapTyped(g) /\ g.misuse = {} /\ g.live = h.live \cup {o}
      /\ g.txn[o] = d /\ g.child[o] = NoObj /\ g.owned[o] = owned
      /\ g.count[o] = (IF owned THEN 1 ELSE 2) /\ g.told[o] = "none"
      /\ \A x \in Obj \ {o} :
           /\ g.txn[x] = h.txn[x] /\ g.child[x] = h.child[x] /\ g.owned[x] = h.owned[x]
           /\ g.count[x] = h.count[x] /\ g.notes[x] = h.notes[x]
           /\ g.told[x] = h.told[x] /\ g.outcome[x] = h.outcome[x]
      /\ g.active = h.active \cup {d} /\ g.parent[d] = parent /\ g.hook[d] = o
      /\ \A e \in Db \ {d} : g.parent[e] = h.parent[e] /\ g.hook[e] = h.hook[e]
  BY <1>1 DEF Made, HeapTyped, Childfree
<1>5. Linked(g)
  <2>1. ASSUME NEW x \in Obj, g.txn[x] # NoDb
        PROVE  /\ x \in g.live /\ g.txn[x] \in g.active /\ g.hook[g.txn[x]] = x
               /\ g.told[x] = "none"
    BY <1>1, <1>2, <1>4, <2>1 DEF Linked
  <2>2. ASSUME NEW e \in g.active, g.hook[e] # NoObj PROVE g.txn[g.hook[e]] = e
    <3>1. CASE e = d
      BY <1>4, <3>1
    <3>2. CASE e # d
      <4>1. e \in h.active /\ e \in Db /\ g.hook[e] = h.hook[e] /\ h.hook[e] \in Obj
        BY <1>1, <1>2, <1>4, <2>2, <3>2 DEF HeapTyped
      <4>2. h.txn[h.hook[e]] = e
        BY <1>1, <2>2, <4>1 DEF Linked
      <4>3. h.hook[e] # o
        BY <1>2, <4>1, <4>2, NullAssumption
      <4> QED BY <1>4, <4>1, <4>2, <4>3
    <3> QED BY <3>1, <3>2
  <2>3. ASSUME NEW e \in g.active PROVE g.parent[e] \in g.active \cup {NoDb}
    BY <1>1, <1>2, <1>4, <2>3 DEF Linked
  <2> QED BY <2>1, <2>2, <2>3 DEF Linked
<1>6. \A x \in h.live : HasChild(h, x) => h.child[x] \in h.live
  BY <1>1 DEF Nested
<1>7. ASSUME NEW x \in g.live, HasChild(g, x)
      PROVE  x \in h.live /\ x # o /\ HasChild(h, x) /\ g.child[x] = h.child[x]
  BY <1>2, <1>4, <1>7 DEF HasChild
<1>8. Nested(g)
  <2> SUFFICES ASSUME NEW x \in g.live, HasChild(g, x)
               PROVE  /\ g.child[x] \in g.live /\ g.child[x] # x /\ g.owned[g.child[x]]
                      /\ g.txn[x] # NoDb /\ g.txn[g.child[x]] # NoDb
                      /\ Kids(g, g.txn[x]) = {g.txn[g.child[x]]}
    BY DEF Nested
  <2> DEFINE c == h.child[x]
  <2>1. x \in h.live /\ x # o /\ HasChild(h, x) /\ g.child[x] = c
    BY <1>7
  <2>2. /\ c \in h.live /\ c # x /\ h.owned[c] /\ h.txn[x] # NoDb /\ h.txn[c] # NoDb
        /\ Kids(h, h.txn[x]) = {h.txn[c]} /\ c \in Obj /\ x \in Obj /\ c # o
    BY <1>1, <1>2, <2>1 DEF Nested
  <2>3. g.txn[x] = h.txn[x] /\ g.txn[c] = h.txn[c] /\ g.owned[c] /\ h.txn[x] # parent
    BY <1>4, <2>1, <2>2
  <2>4. h.txn[c] # d
    BY <1>2, <2>2
  <2>5. d \notin Kids(h, h.txn[x]) /\ d \notin Kids(g, h.txn[x])
    BY <1>4, <2>2, <2>3, <2>4 DEF Kids
  <2>6. \A e \in Db \ {d} : e \in Kids(g, h.txn[x]) <=> e \in Kids(h, h.txn[x])
    BY <1>4 DEF Kids
  <2>7. Kids(g, h.txn[x]) = Kids(h, h.txn[x])
    <3>1. Kids(g, h.txn[x]) \subseteq Db /\ Kids(h, h.txn[x]) \subseteq Db
      BY <1>2, <1>4 DEF Kids
    <3> QED BY <2>5, <2>6, <3>1
  <2> QED BY <1>4, <2>1, <2>2, <2>3, <2>7
<1>9. \A x \in h.live : IsChild(g, x) <=> IsChild(h, x)
  BY <1>2, <1>4, NullAssumption DEF IsChild
<1>10. ~IsChild(g, o)
  BY <1>2, <1>4, <1>6 DEF IsChild, HasChild
<1>11. Counted(g, more)
  <2>1. ASSUME NEW x \in g.live
        PROVE  /\ g.count[x] = more[x] + (IF g.owned[x] THEN 0 ELSE 1)
                                + (IF IsChild(g, x) THEN 1 ELSE 0)
               /\ g.count[x] > 0
    <3>1. CASE x = o
      BY <1>3, <1>4, <1>10, <3>1
    <3>2. CASE x # o
      BY <1>1, <1>2, <1>3, <1>4, <1>9, <3>2 DEF Counted
    <3> QED BY <3>1, <3>2
  <2>2. \A x \in Obj \ g.live : more[x] = 0 /\ g.count[x] = 0
    BY <1>1, <1>3, <1>4 DEF Counted
  <2> QED BY <2>1, <2>2 DEF Counted
<1>12. Waiting(g)
  <2> SUFFICES ASSUME NEW x \in g.live, ~g.owned[x]
               PROVE  g.txn[x] # NoDb /\ (g.count[x] = 1 => g.notes[x])
    BY DEF Waiting
  <2>1. CASE x = o
    BY <1>2, <1>4, <2>1
  <2>2. CASE x # o
    BY <1>1, <1>2, <1>4, <2>2 DEF Waiting
  <2> QED BY <2>1, <2>2
<1>13. Heard(g)
  BY <1>1, <1>4 DEF Heard
<1> QED BY <1>3, <1>4, <1>5, <1>8, <1>11, <1>12, <1>13 DEF Sound

\* Heap g is h with the internal child c, around DB_TXN d, of object p.
ChildBegun(h, g, refs, p, c, d) ==
  /\ ChildEnds(g, refs, p) /\ g.child[p] = c /\ g.child[c] = NoObj
  /\ \A x \in Obj \ {c, p} : g.child[x] = h.child[x]
  /\ \A x \in Obj \ {c} : g.txn[x] = h.txn[x]
  /\ g.txn[c] = d /\ g.live = h.live \cup {c} /\ g.active = h.active \cup {d}

\* An object that has no child, not even in Berkeley DB, gets an internal one.
LEMMA ChildSound ==
  ASSUME NEW h, NEW refs, Sound(h, refs), NEW p \in h.live, ~HasChild(h, p), h.txn[p] # NoDb,
         Kids(h, h.txn[p]) = {}, NEW c \in Obj \ h.live, NEW d \in Db \ h.active,
         NEW g, Made(h, g, c, d, h.txn[p], TRUE, Adopted(h, p, c))
  PROVE  Sound(g, refs) /\ ChildBegun(h, g, refs, p, c, d)
<1>1. /\ HeapTyped(h) /\ Linked(h) /\ Nested(h) /\ Counted(h, refs) /\ Waiting(h) /\ Heard(h)
      /\ refs \in [Obj -> Nat] /\ h.misuse = {}
  BY DEF Sound
<1>2. /\ h.live \subseteq Obj /\ h.active \subseteq Db /\ d # NoDb /\ refs[c] = 0 /\ c # NoObj
      /\ h.txn[c] = NoDb /\ c # p /\ p \in Obj /\ \A x \in Obj : h.txn[x] # d
  BY <1>1, NullAssumption DEF HeapTyped, Counted, Linked
<1>3. h.txn[p] \in h.active /\ h.txn[p] # d /\ \A x \in Obj \ {p} : h.txn[x] # h.txn[p]
  BY <1>1, <1>2 DEF Linked
<1>4. /\ HeapTyped(g) /\ g.misuse = {} /\ g.live = h.live \cup {c}
      /\ g.txn[c] = d /\ g.child[c] = NoObj /\ g.child[p] = c /\ g.owned[c] = TRUE
      /\ g.count[c] = 1 /\ g.told[c] = "none"
      /\ \A x \in Obj \ {c} :
           /\ g.txn[x] = h.txn[x] /\ g.owned[x] = h.owned[x]
           /\ g.count[x] = h.count[x] /\ g.notes[x] = h.notes[x]
           /\ g.told[x] = h.told[x] /\ g.outcome[x] = h.outcome[x]
      /\ \A x \in Obj \ {c, p} : g.child[x] = h.child[x]
      /\ g.active = h.active \cup {d} /\ g.parent[d] = h.txn[p] /\ g.hook[d] = c
      /\ \A e \in Db \ {d} : g.parent[e] = h.parent[e] /\ g.hook[e] = h.hook[e]
  BY <1>1, <1>2 DEF Made, HeapTyped, Adopted
<1>5. Linked(g)
  <2>1. ASSUME NEW x \in Obj, g.txn[x] # NoDb
        PROVE  /\ x \in g.live /\ g.txn[x] \in g.active /\ g.hook[g.txn[x]] = x
               /\ g.told[x] = "none"
    BY <1>1, <1>2, <1>4, <2>1 DEF Linked
  <2>2. ASSUME NEW e \in g.active, g.hook[e] # NoObj PROVE g.txn[g.hook[e]] = e
    <3>1. CASE e = d
      BY <1>4, <3>1
    <3>2. CASE e # d
      <4>1. e \in h.active /\ e \in Db /\ g.hook[e] = h.hook[e] /\ h.hook[e] \in Obj
        BY <1>1, <1>2, <1>4, <2>2, <3>2 DEF HeapTyped
      <4>2. h.txn[h.hook[e]] = e
        BY <1>1, <2>2, <4>1 DEF Linked
      <4>3. h.hook[e] # c
        BY <1>2, <4>1, <4>2, NullAssumption
      <4> QED BY <1>4, <4>1, <4>2, <4>3
    <3> QED BY <3>1, <3>2
  <2>3. ASSUME NEW e \in g.active PROVE g.parent[e] \in g.active \cup {NoDb}
    BY <1>1, <1>2, <1>3, <1>4, <2>3 DEF Linked
  <2> QED BY <2>1, <2>2, <2>3 DEF Linked
<1>6. \A x \in h.live : HasChild(h, x) => h.child[x] \in h.live
  BY <1>1 DEF Nested
<1>7. ASSUME NEW e \in h.active, e # h.txn[p] PROVE Kids(g, e) = Kids(h, e)
  <2>1. d \notin Kids(g, e) /\ d \notin Kids(h, e)
    BY <1>4, <1>7 DEF Kids
  <2>2. \A x \in Db \ {d} : x \in Kids(g, e) <=> x \in Kids(h, e)
    BY <1>4 DEF Kids
  <2>3. Kids(g, e) \subseteq Db /\ Kids(h, e) \subseteq Db
    BY <1>2, <1>4 DEF Kids
  <2> QED BY <2>1, <2>2, <2>3
<1>8. Kids(g, h.txn[p]) = {d}
  <2>1. d \in Kids(g, h.txn[p])
    BY <1>4 DEF Kids
  <2>2. \A x \in Db \ {d} : x \in Kids(g, h.txn[p]) <=> x \in Kids(h, h.txn[p])
    BY <1>4 DEF Kids
  <2>3. Kids(g, h.txn[p]) \subseteq Db
    BY <1>2, <1>4 DEF Kids
  <2> QED BY <2>1, <2>2, <2>3
<1>9. Kids(g, d) = {}
  <2>1. ASSUME NEW x \in Kids(g, d) PROVE FALSE
    <3>1. x \in h.active \cup {d} /\ g.parent[x] = d
      BY <1>4 DEF Kids
    <3>2. x \in h.active /\ x # d /\ h.parent[x] = d
      BY <1>2, <1>3, <1>4, <3>1
    <3> QED BY <1>1, <1>2, <3>2 DEF Linked
  <2> QED BY <2>1
<1>10. Nested(g)
  <2> SUFFICES ASSUME NEW x \in g.live, HasChild(g, x)
               PROVE  /\ g.child[x] \in g.live /\ g.child[x] # x /\ g.owned[g.child[x]]
                      /\ g.txn[x] # NoDb /\ g.txn[g.child[x]] # NoDb
                      /\ Kids(g, g.txn[x]) = {g.txn[g.child[x]]}
    BY DEF Nested
  <2>1. CASE x = p
    BY <1>2, <1>4, <1>8, <2>1
  <2>2. CASE x # p
    <3> DEFINE b == h.child[x]
    <3>1. x \in h.live /\ x # c /\ HasChild(h, x) /\ g.child[x] = b
      BY <1>2, <1>4, <2>2 DEF HasChild
    <3>2. /\ b \in h.live /\ b # x /\ h.owned[b] /\ h.txn[x] # NoDb /\ h.txn[b] # NoDb
          /\ Kids(h, h.txn[x]) = {h.txn[b]} /\ b \in Obj /\ x \in Obj /\ b # c
      BY <1>1, <1>2, <3>1 DEF Nested
    <3>3. g.txn[x] = h.txn[x] /\ g.txn[b] = h.txn[b] /\ g.owned[b]
      BY <1>4, <3>1, <3>2
    <3>4. h.txn[x] \in h.active /\ h.txn[x] # h.txn[p]
      BY <1>1, <1>3, <2>2, <3>2 DEF Linked
    <3> QED BY <1>4, <1>7, <3>1, <3>2, <3>3, <3>4
  <2> QED BY <2>1, <2>2
<1>11. \A x \in h.live : IsChild(g, x) <=> IsChild(h, x)
  <2>1. \A x \in h.live : x # NoObj /\ x # c
    BY <1>2, NullAssumption
  <2>2. h.child[p] = NoObj
    BY DEF HasChild
  <2> QED BY <1>2, <1>4, <2>1, <2>2 DEF IsChild
<1>12. IsChild(g, c)
  BY <1>4 DEF IsChild
<1>13. Counted(g, refs)
  <2>1. ASSUME NEW x \in g.live
        PROVE  /\ g.count[x] = refs[x] + (IF g.owned[x] THEN 0 ELSE 1)
                                + (IF IsChild(g, x) THEN 1 ELSE 0)
               /\ g.count[x] > 0
    <3>1. CASE x = c
      BY <1>2, <1>4, <1>12, <3>1
    <3>2. CASE x # c
      BY <1>1, <1>2, <1>4, <1>11, <3>2 DEF Counted
    <3> QED BY <3>1, <3>2
  <2>2. \A x \in Obj \ g.live : refs[x] = 0 /\ g.count[x] = 0
    BY <1>1, <1>4 DEF Counted
  <2> QED BY <2>1, <2>2 DEF Counted
<1>14. Waiting(g)
  <2> SUFFICES ASSUME NEW x \in g.live, ~g.owned[x]
               PROVE  g.txn[x] # NoDb /\ (g.count[x] = 1 => g.notes[x])
    BY DEF Waiting
  <2>1. CASE x = c
    BY <1>4, <2>1
  <2>2. CASE x # c
    BY <1>1, <1>2, <1>4, <2>2 DEF Waiting
  <2> QED BY <2>1, <2>2
<1>15. Heard(g)
  BY <1>1, <1>4 DEF Heard
<1>16. Sound(g, refs)
  BY <1>1, <1>4, <1>5, <1>10, <1>13, <1>14, <1>15 DEF Sound
<1>17. ChildEnds(g, refs, p)
  BY <1>2, <1>4, <1>9 DEF ChildEnds, HasChild
<1> QED BY <1>2, <1>4, <1>16, <1>17 DEF ChildBegun

-----------------------------------------------------------------------------
(* Guards *)

\* Object o and what it has in progress may be ended.
Ends(h, refs, o) ==
  IF HasChild(h, o) THEN ChildEnds(h, refs, o)
  ELSE ~IsChild(h, o) /\ (h.txn[o] # NoDb => Kids(h, h.txn[o]) = {})

\* What is the same after the end of what object o has in progress.
Finished(h, g, o) ==
  /\ \A x \in Obj \ {o} : g.child[x] = h.child[x]
  /\ ~HasChild(g, o) /\ g.live \subseteq h.live
  /\ HasChild(h, o) =>
       /\ g.txn[o] = h.txn[o] /\ Kids(g, h.txn[o]) = {}
       /\ g.active = h.active \ {h.txn[h.child[o]]}
       /\ \A x \in Obj \ {h.child[o]} : g.txn[x] = h.txn[x]
       /\ g.live = h.live \ {h.child[o]}
  /\ ~HasChild(h, o) => g.txn[o] = NoDb

LEMMA FinishSound ==
  ASSUME NEW h, NEW refs, Sound(h, refs), NEW o \in h.live, Ends(h, refs, o),
         NEW how \in {"commit", "abort"}, NEW fails \in BOOLEAN, fails => how = "commit",
         NEW g, g = Finish(h, o, how, fails)
  PROVE  Sound(g, refs) /\ Finished(h, g, o)
<1>0. HeapTyped(h) /\ o \in Obj /\ Nested(h)
  BY DEF Sound, HeapTyped
<1>1. CASE HasChild(h, o)
  <2>1. ChildEnds(h, refs, o) /\ h.child[h.child[o]] = NoObj
    BY <1>1 DEF Ends, ChildEnds, HasChild
  <2>2. g = ChildOp(h, o, how, fails)
    BY <1>1, <2>1 DEF Finish, HasChild
  <2>3. ChildEnded(h, g, o, how, IF fails THEN "failed" ELSE how)
    BY <1>1, <2>1, <2>2, ChildOpIs
  <2>4. Sound(g, refs) /\ g.txn[o] = h.txn[o] /\ ~HasChild(g, o) /\ Kids(g, h.txn[o]) = {}
    <3>1. PICK result \in {how, "failed"} :
            ChildEnded(h, g, o, how, result) /\ (result = "failed" => how = "commit")
      BY <2>3
    <3>2. Sound(h, refs) /\ o \in h.live /\ HasChild(h, o) /\ ChildEnds(h, refs, o)
      BY <1>1, <2>1
    <3> QED BY ONLY <3>1, <3>2, ChildOpSound, how \in {"commit", "abort"}
  <2>5. Finished(h, g, o)
    <3>1. /\ g.live = h.live \ {h.child[o]}
          /\ g.txn = [h.txn EXCEPT ![h.child[o]] = NoDb]
          /\ g.child = [h.child EXCEPT ![o] = NoObj]
          /\ g.active = h.active \ {h.txn[h.child[o]]}
      BY <2>3 DEF ChildEnded
    <3>2. \A x \in Obj \ {o} : g.child[x] = h.child[x]
      BY <1>0, <3>1 DEF HeapTyped
    <3>3. \A x \in Obj \ {h.child[o]} : g.txn[x] = h.txn[x]
      BY <1>0, <3>1 DEF HeapTyped
    <3> QED BY <1>1, <2>4, <3>1, <3>2, <3>3 DEF Finished
  <2> QED BY <2>4, <2>5
<1>2. CASE ~HasChild(h, o) /\ h.txn[o] = NoDb
  <2>1. g = h
    BY <1>2 DEF Finish, EndTxn, HasChild
  <2> QED BY <1>2, <2>1 DEF Finished
<1>3. CASE ~HasChild(h, o) /\ h.txn[o] # NoDb
  <2>1. ~IsChild(h, o) /\ Kids(h, h.txn[o]) = {}
    BY <1>3 DEF Ends
  <2>2. g = RunDbNotification(h, o, how, fails)
    BY <1>3 DEF Finish, EndTxn, HasChild
  <2>3. Ended(h, g, o, how, IF fails THEN "failed" ELSE how)
    BY <1>3, <2>1, <2>2, RunDbNotificationIs
  <2>4. Sound(g, refs)
    BY <1>3, <2>1, <2>2, EndSound
  <2>5. Finished(h, g, o)
    BY <1>0, <1>3, <2>3 DEF Ended, Finished, HeapTyped, HasChild
  <2> QED BY <2>4, <2>5
<1> QED BY <1>1, <1>2, <1>3

\* What is the same after the end of a TransactionGuard on object o.
Guarded(h, g, refs, o) ==
  /\ g.live \subseteq h.live /\ ~HasChild(g, o)
  /\ \A x \in Obj \ {o} : g.child[x] = h.child[x]
  /\ HasChild(h, o) /\ (refs[o] > 1 \/ IsChild(h, o)) =>
       /\ o \in g.live /\ g.live = h.live \ {h.child[o]} /\ Kids(g, h.txn[o]) = {}
       /\ g.active = h.active \ {h.txn[h.child[o]]}
       /\ \A x \in Obj \ {h.child[o]} : g.txn[x] = h.txn[x]

\* ~TransactionGuard and TransactionGuard::commit.
GuardEnds(h, o, how) ==
  ReleaseTransaction(IF h.txn[o] = NoDb THEN h ELSE Finish(h, o, how, FALSE), o)

LEMMA GuardSound ==
  ASSUME NEW h, NEW refs, Sound(h, refs), NEW o \in h.live, refs[o] > 0,
         h.txn[o] # NoDb => Ends(h, refs, o), NEW how \in {"commit", "abort"},
         NEW g, g = GuardEnds(h, o, how)
  PROVE  Sound(g, [refs EXCEPT ![o] = @ - 1]) /\ Guarded(h, g, refs, o)
<1> DEFINE f == IF h.txn[o] = NoDb THEN h ELSE Finish(h, o, how, FALSE)
<1>1. o \in Obj /\ h.live \subseteq Obj /\ (HasChild(h, o) => h.txn[o] # NoDb)
  BY DEF Sound, HeapTyped, Nested
<1>2. Sound(f, refs) /\ (h.txn[o] # NoDb => Finished(h, f, o)) /\ (h.txn[o] = NoDb => f = h)
  <2>1. CASE h.txn[o] # NoDb
    <3>1. f = Finish(h, o, how, FALSE)
      BY <2>1
    <3> HIDE DEF f
    <3> QED BY <2>1, <3>1, FinishSound
  <2>2. CASE h.txn[o] = NoDb
    BY <2>2
  <2> QED BY <2>1, <2>2
<1>3. g = ReleaseTransaction(f, o)
  BY DEF GuardEnds
<1> HIDE DEF f
<1>4. /\ f.live \subseteq h.live /\ ~HasChild(f, o) /\ \A x \in Obj \ {o} : f.child[x] = h.child[x]
      /\ f.txn[o] # NoDb => Kids(f, f.txn[o]) = {}
  <2>1. CASE h.txn[o] # NoDb
    BY <1>2, <2>1 DEF Finished
  <2>2. CASE h.txn[o] = NoDb
    BY <1>1, <1>2, <2>2
  <2> QED BY <2>1, <2>2
<1>5. o \in f.live
  BY <1>1, <1>2 DEF Sound, Counted
<1>6. Sound(g, [refs EXCEPT ![o] = @ - 1]) /\ Released(f, g, refs, o)
  BY <1>2, <1>3, <1>4, <1>5, ReleaseSound
<1>7. g.live \subseteq h.live /\ ~HasChild(g, o) /\ \A x \in Obj \ {o} : g.child[x] = h.child[x]
  BY <1>4, <1>6 DEF Released, HasChild
<1>8. ASSUME HasChild(h, o), refs[o] > 1 \/ IsChild(h, o)
      PROVE  /\ o \in g.live /\ g.live = h.live \ {h.child[o]} /\ Kids(g, h.txn[o]) = {}
             /\ g.active = h.active \ {h.txn[h.child[o]]}
             /\ \A x \in Obj \ {h.child[o]} : g.txn[x] = h.txn[x]
  <2> DEFINE c == h.child[o]
  <2>1. h.txn[o] # NoDb /\ ChildEnds(h, refs, o) /\ c \in h.live /\ c # o
    BY <1>1, <1>8 DEF Ends, Sound, Nested
  <2>2. /\ f.live = h.live \ {c} /\ Kids(f, h.txn[o]) = {}
        /\ f.active = h.active \ {h.txn[c]} /\ \A x \in Obj \ {c} : f.txn[x] = h.txn[x]
    BY <1>2, <1>8, <2>1 DEF Finished
  <2>3. refs[o] > 1 \/ IsChild(f, o)
    <3>1. ASSUME NEW p \in h.live, h.child[p] = o PROVE p \in f.live /\ f.child[p] = o
      <4>1. HasChild(h, p) /\ ~HasChild(h, c) /\ p # o
        BY <1>1, <2>1, <3>1, NullAssumption DEF ChildEnds, HasChild, Sound, Nested
      <4>2. p # c
        BY <4>1
      <4> QED BY <1>1, <1>4, <2>2, <3>1, <4>1, <4>2
    <3> QED BY <1>8, <3>1 DEF IsChild
  <2>4. o \in g.live /\ g.txn = f.txn /\ g.active = f.active /\ g.parent = f.parent
    BY <1>6, <2>3 DEF Released
  <2>5. g.live = f.live
    <3>1. \A x : x \in f.live => x \in g.live
      BY <1>6, <2>4 DEF Released
    <3>2. \A x : x \in g.live => x \in f.live
      BY <1>6 DEF Released
    <3>3. f.live \subseteq Obj /\ g.live \subseteq Obj
      BY <1>2, <1>6 DEF Sound, HeapTyped
    <3> QED BY <3>1, <3>2, <3>3
  <2>6. Kids(g, h.txn[o]) = Kids(f, h.txn[o])
    BY <2>4 DEF Kids
  <2> QED BY <2>2, <2>4, <2>5, <2>6
<1> QED BY <1>6, <1>7, <1>8 DEF Guarded

\* Object o has no internal child any more, and no other got one.
Childless(h, g, o) ==
  ~HasChild(g, o) /\ g.live \subseteq h.live /\ \A x \in Obj \ {o} : g.child[x] = h.child[x]

\* Object o is ended, and then the guard on it.
LEMMA TwiceSound ==
  ASSUME NEW h, NEW refs, Sound(h, refs), NEW o \in h.live, refs[o] > 0, ~IsChild(h, o),
         Ends(h, refs, o), NEW how \in {"commit", "abort"}, NEW fails \in BOOLEAN,
         fails => how = "commit", NEW g, g = GuardEnd(Finish(h, o, how, fails), o)
  PROVE  Sound(g, [refs EXCEPT ![o] = @ - 1]) /\ Childless(h, g, o)
<1> DEFINE f == Finish(h, o, how, fails)
<1>1. Sound(f, refs) /\ Finished(h, f, o)
  <2>1. f = Finish(h, o, how, fails)
    OBVIOUS
  <2> HIDE DEF f
  <2> QED BY <2>1, FinishSound
<1>2. g = GuardEnds(f, o, "abort")
  BY DEF GuardEnd, GuardEnds
<1> HIDE DEF f
<1>3. o \in Obj /\ o \in f.live
  BY <1>1 DEF Sound, HeapTyped, Counted
<1>4. /\ f.live \subseteq h.live /\ ~HasChild(f, o) /\ \A x \in Obj \ {o} : f.child[x] = h.child[x]
      /\ f.txn[o] # NoDb => Kids(f, f.txn[o]) = {}
  BY <1>1 DEF Finished
<1>5. ~IsChild(f, o)
  BY <1>3, <1>4, NullAssumption DEF IsChild, HasChild, Sound, HeapTyped
<1>6. f.txn[o] # NoDb => Ends(f, refs, o)
  BY <1>4, <1>5 DEF Ends
<1>7. Sound(g, [refs EXCEPT ![o] = @ - 1]) /\ Guarded(f, g, refs, o)
  BY <1>1, <1>2, <1>3, <1>6, GuardSound
<1> QED BY <1>4, <1>7 DEF Guarded, Childless

\* Object c and DB_TXN d are created below object p, and a guard on p.
Opened(h, p, c, d) ==
  Acquire(Acquire([New(h, c, d, h.txn[p], TRUE) EXCEPT !.child[p] = c], c), p)

\* What a heap b is after that; g, after they have been used and ended.
Open(h, b, more, p, c, d) ==
  /\ Ends(b, more, p) /\ HasChild(b, p) /\ b.child[p] = c /\ b.child[c] = NoObj
  /\ \A x \in Obj \ {c, p} : b.child[x] = h.child[x]
  /\ \A x \in Obj \ {c} : b.txn[x] = h.txn[x]
  /\ b.txn[c] = d /\ b.live = h.live \cup {c} /\ b.active = h.active \cup {d}

Closed(h, g, p, c) ==
  /\ ~HasChild(g, p) /\ Kids(g, h.txn[p]) = {}
  /\ g.live = h.live /\ g.active = h.active
  /\ \A x \in Obj \ {c, p} : g.child[x] = h.child[x]
  /\ \A x \in Obj \ {c} : g.txn[x] = h.txn[x]

LEMMA OpenedSound ==
  ASSUME NEW h, NEW refs, Sound(h, refs), NEW p \in h.live, ~HasChild(h, p), h.txn[p] # NoDb,
         Kids(h, h.txn[p]) = {}, NEW c \in Obj \ h.live, NEW d \in Db \ h.active,
         NEW more, more = [refs EXCEPT ![p] = @ + 1], NEW b, b = Opened(h, p, c, d)
  PROVE  Sound(b, more) /\ Open(h, b, more, p, c, d)
<1> DEFINE k == Acquire([New(h, c, d, h.txn[p], TRUE) EXCEPT !.child[p] = c], c)
<1>1. HeapTyped(h) /\ p \in Obj /\ p # c /\ h.txn[p] \in Db /\ refs \in [Obj -> Nat] /\ c # NoObj
  BY NullAssumption DEF Sound, HeapTyped
<1>2. Made(h, k, c, d, h.txn[p], TRUE, Adopted(h, p, c))
  BY <1>1, NewIs
<1>3. b = Acquire(k, p)
  BY DEF Opened
<1>4. more[c] = refs[c]
  BY <1>1
<1> HIDE DEF k
<1>5. Sound(k, refs) /\ ChildBegun(h, k, refs, p, c, d)
  BY <1>2, ChildSound
<1>6. /\ ChildEnds(k, refs, p) /\ k.child[p] = c /\ k.child[c] = NoObj
      /\ \A x \in Obj \ {c, p} : k.child[x] = h.child[x]
      /\ \A x \in Obj \ {c} : k.txn[x] = h.txn[x]
      /\ k.txn[c] = d /\ k.live = h.live \cup {c} /\ k.active = h.active \cup {d}
  BY <1>5 DEF ChildBegun
<1>7. HeapTyped(k) /\ p \in k.live
  BY <1>5, <1>6 DEF Sound
<1>8. Acquired(k, b, p)
  BY <1>3, <1>7, AcquireIs
<1>9. Sound(b, more)
  BY <1>5, <1>7, <1>8, AcquireSound
<1>10. b.live = k.live /\ b.txn = k.txn /\ b.child = k.child /\ b.active = k.active
       /\ b.parent = k.parent
  BY <1>8 DEF Acquired
<1>11. HasChild(b, p) /\ Ends(b, more, p)
  <2>1. Kids(b, b.txn[c]) = Kids(k, k.txn[c])
    BY <1>10 DEF Kids
  <2> QED BY <1>1, <1>4, <1>6, <1>10, <2>1 DEF Ends, ChildEnds, HasChild
<1> QED BY <1>6, <1>9, <1>10, <1>11 DEF Open

LEMMA OpenSound ==
  ASSUME NEW h, NEW refs, Sound(h, refs), NEW p \in h.live, ~HasChild(h, p), h.txn[p] # NoDb,
         Kids(h, h.txn[p]) = {}, refs[p] > 0 \/ IsChild(h, p),
         NEW c \in Obj \ h.live, NEW d \in Db \ h.active, NEW how \in {"commit", "abort"},
         NEW g, g = GuardEnds(Opened(h, p, c, d), p, how)
  PROVE  Sound(g, refs) /\ Closed(h, g, p, c)
<1> DEFINE b == Opened(h, p, c, d)
           more == [refs EXCEPT ![p] = @ + 1]
<1>1. /\ HeapTyped(h) /\ p \in Obj /\ p # c /\ refs \in [Obj -> Nat] /\ h.live \subseteq Obj
      /\ h.child[p] = NoObj /\ p # NoObj
  BY NullAssumption DEF Sound, HeapTyped, HasChild
<1>2. Sound(b, more) /\ Open(h, b, more, p, c, d)
  BY OpenedSound
<1>3. /\ more \in [Obj -> Nat] /\ more[p] = refs[p] + 1 /\ refs[p] \in Nat
      /\ \A x \in Obj \ {p} : more[x] = refs[x]
  BY <1>1
<1> HIDE DEF b, more
<1>4. /\ Ends(b, more, p) /\ HasChild(b, p) /\ b.child[p] = c /\ b.child[c] = NoObj
      /\ \A x \in Obj \ {c, p} : b.child[x] = h.child[x]
      /\ \A x \in Obj \ {c} : b.txn[x] = h.txn[x]
      /\ b.txn[c] = d /\ b.live = h.live \cup {c} /\ b.active = h.active \cup {d}
  BY <1>2 DEF Open
<1>5. more[p] > 0 /\ (more[p] > 1 \/ IsChild(b, p))
  <2>1. IsChild(h, p) => IsChild(b, p)
    BY <1>1, <1>4 DEF IsChild
  <2> QED BY <1>3, <2>1
<1>6. g = GuardEnds(b, p, how) /\ p \in b.live
  BY <1>4 DEF b
<1>7. Sound(g, [more EXCEPT ![p] = @ - 1]) /\ Guarded(b, g, more, p)
  BY <1>2, <1>4, <1>5, <1>6, GuardSound
<1>8. Sound(g, refs)
  <2>1. [more EXCEPT ![p] = @ - 1] = refs
    BY <1>1, <1>3
  <2> QED BY <1>7, <2>1
<1>9. /\ ~HasChild(g, p) /\ \A x \in Obj \ {p} : g.child[x] = b.child[x]
      /\ g.live = b.live \ {c} /\ Kids(g, b.txn[p]) = {} /\ g.active = b.active \ {d}
      /\ \A x \in Obj \ {c} : g.txn[x] = b.txn[x]
  BY <1>4, <1>5, <1>7 DEF Guarded
<1>10. g.live = h.live /\ g.active = h.active
  BY <1>4, <1>9
<1>11. Kids(g, h.txn[p]) = {} /\ \A x \in Obj \ {c} : g.txn[x] = h.txn[x]
  BY <1>1, <1>4, <1>9
<1>12. \A x \in Obj \ {c, p} : g.child[x] = h.child[x]
  BY <1>4, <1>9
<1> QED BY <1>8, <1>9, <1>10, <1>11, <1>12 DEF Closed

-----------------------------------------------------------------------------
(* The inductive invariant *)

Refs(hs, p) == [x \in Obj |-> hs[x] + (IF p.on = x THEN 1 ELSE 0)]

\* Only the operation in progress has an internal child.  The one it was called
\* with has one as long as it runs, and nothing but that child stands between
\* the operation and its end.
Good(h, hs, p) ==
  /\ hs \in [Obj -> 0..MaxHandles] /\ p \in [on : Obj \cup {NoObj}, own : BOOLEAN]
  /\ Sound(h, Refs(hs, p))
  /\ \A o \in h.live : HasChild(h, o) => o = p.on
  /\ p.on = NoObj => p = NoOp
  /\ p.on # NoObj =>
       /\ h.txn[p.on] # NoDb /\ Ends(h, Refs(hs, p), p.on)
       /\ ~p.own => HasChild(h, p.on) /\ hs[p.on] > 0

IInv == Good(heap, handles, op)

LEMMA IdleRefs ==
  ASSUME NEW hs \in [Obj -> 0..MaxHandles]
  PROVE  Refs(hs, NoOp) = hs /\ hs \in [Obj -> Nat]
<1>1. \A x \in Obj : (IF NoOp.on = x THEN 1 ELSE 0) = 0
  BY NullAssumption DEF NoOp
<1>2. hs \in [Obj -> Nat]
  BY BoundAssumption
<1>3. \A x \in Obj : hs[x] + 0 = hs[x]
  BY <1>2
<1>4. Refs(hs, NoOp) = [x \in Obj |-> hs[x]]
  BY <1>1, <1>3 DEF Refs
<1> QED BY <1>2, <1>4

LEMMA IdleGood ==
  ASSUME NEW h, NEW hs \in [Obj -> 0..MaxHandles], Sound(h, hs),
         \A o \in h.live : ~HasChild(h, o)
  PROVE  Good(h, hs, NoOp)
<1>1. NoOp \in [on : Obj \cup {NoObj}, own : BOOLEAN] /\ NoOp.on = NoObj
  BY DEF NoOp
<1> QED BY <1>1, IdleRefs DEF Good

LEMMA IdleIs ==
  ASSUME NEW h, NEW hs, Good(h, hs, NoOp)
  PROVE  /\ Sound(h, hs) /\ hs \in [Obj -> 0..MaxHandles] /\ hs \in [Obj -> Nat]
         /\ \A o \in h.live : ~HasChild(h, o)
         /\ \A o \in Obj : ~IsChild(h, o)
<1>1. Sound(h, hs) /\ hs \in [Obj -> 0..MaxHandles] /\ hs \in [Obj -> Nat]
  BY IdleRefs DEF Good
<1>2. \A o \in h.live : ~HasChild(h, o)
  BY <1>1, NullAssumption DEF Good, NoOp, Sound, HeapTyped
<1> QED BY <1>1, <1>2, NullAssumption DEF IsChild, HasChild

\* An operation in progress.
Runs(h, hs, p, refs) ==
  /\ p.on \in Obj /\ p.on \in h.live /\ refs \in [Obj -> Nat] /\ hs \in [Obj -> 0..MaxHandles]
  /\ Sound(h, refs) /\ refs[p.on] = hs[p.on] + 1 /\ hs[p.on] \in Nat
  /\ [refs EXCEPT ![p.on] = @ - 1] = hs
  /\ h.txn[p.on] # NoDb /\ Ends(h, refs, p.on) /\ ~IsChild(h, p.on)
  /\ ~p.own => HasChild(h, p.on) /\ hs[p.on] > 0
  /\ \A x \in h.live \ {p.on} : ~HasChild(h, x)

LEMMA RunningIs ==
  ASSUME NEW h, NEW hs, NEW p, Good(h, hs, p), p # NoOp
  PROVE  Runs(h, hs, p, Refs(hs, p))
<1> DEFINE refs == Refs(hs, p)
           o == p.on
<1>1. /\ hs \in [Obj -> 0..MaxHandles] /\ hs \in [Obj -> Nat] /\ o \in Obj
      /\ Sound(h, refs) /\ h.txn[o] # NoDb /\ Ends(h, refs, o)
      /\ (~p.own => HasChild(h, o) /\ hs[o] > 0) /\ \A x \in h.live \ {o} : ~HasChild(h, x)
  BY BoundAssumption DEF Good
<1>2. refs[o] = hs[o] + 1 /\ hs[o] \in Nat /\ \A x \in Obj \ {o} : refs[x] = hs[x]
  BY <1>1 DEF Refs
<1>3. refs \in [Obj -> Nat]
  BY <1>1 DEF Sound
<1> HIDE DEF refs
<1>4. [refs EXCEPT ![o] = @ - 1] = hs
  BY <1>1, <1>2, <1>3
<1>5. o \in h.live
  BY <1>1, <1>2 DEF Sound, Counted
<1>6. ~IsChild(h, o)
  <2> SUFFICES ASSUME NEW q \in h.live, h.child[q] = o PROVE FALSE
    BY DEF IsChild
  <2>1. HasChild(h, q)
    BY <1>1, NullAssumption DEF HasChild
  <2>2. q = o
    BY <1>1, <2>1
  <2> QED BY <1>1, <2>1, <2>2 DEF Sound, Nested
<1> QED BY <1>1, <1>2, <1>3, <1>4, <1>5, <1>6 DEF Runs, refs

LEMMA RunningGood ==
  ASSUME NEW h, NEW hs \in [Obj -> 0..MaxHandles], NEW p \in [on : Obj, own : BOOLEAN],
         Sound(h, Refs(hs, p)), h.txn[p.on] # NoDb, Ends(h, Refs(hs, p), p.on),
         ~p.own => HasChild(h, p.on) /\ hs[p.on] > 0,
         \A o \in h.live : HasChild(h, o) => o = p.on
  PROVE  Good(h, hs, p)
<1>1. p.on # NoObj /\ p \in [on : Obj \cup {NoObj}, own : BOOLEAN]
  BY NullAssumption
<1> QED BY <1>1 DEF Good

-----------------------------------------------------------------------------
(* The operations *)

\* An index database is opened and the child it was opened in is ended.
LEMMA OpenGood ==
  ASSUME NEW h, NEW hs, NEW p, Good(h, hs, p), p # NoOp,
         NEW c \in FreeObj(h), NEW d \in FreeDb(h), NEW how \in {"commit", "abort"},
         NEW g, g = GuardEnds(Acquire(CreateChildInternal(h, p.on, c, d), Innermost(h, p.on)),
                              Innermost(h, p.on), how)
  PROVE  Good(g, hs, p) /\ g.active = h.active
<1> DEFINE refs == Refs(hs, p)
           o == p.on
           q == Innermost(h, o)
<1>1. Runs(h, hs, p, refs)
  BY RunningIs
<1>2. /\ o \in Obj /\ o \in h.live /\ Sound(h, refs) /\ h.txn[o] # NoDb /\ Ends(h, refs, o)
      /\ ~IsChild(h, o) /\ \A x \in h.live \ {o} : ~HasChild(h, x)
      /\ refs[o] > 0 /\ (~p.own => HasChild(h, o) /\ hs[o] > 0)
  BY <1>1 DEF Runs
<1>3. c \in Obj \ h.live /\ d \in Db \ h.active /\ c # NoObj
  BY NullAssumption DEF FreeObj, FreeDb
<1>4. g = GuardEnds(Opened(h, q, c, d), q, how)
  BY DEF CreateChildInternal, Opened
<1>5. HeapTyped(h) /\ h.live \subseteq Obj /\ o # NoObj
  BY <1>2, NullAssumption DEF Sound, HeapTyped
<1>6. /\ q \in h.live /\ ~HasChild(h, q) /\ h.txn[q] # NoDb /\ Kids(h, h.txn[q]) = {}
      /\ refs[q] > 0 \/ IsChild(h, q)
      /\ HasChild(h, o) => q = h.child[o] /\ refs[q] = 0 /\ q # o
      /\ ~HasChild(h, o) => q = o
  <2>1. CASE HasChild(h, o)
    <3>1. q = h.child[o]
      BY <2>1 DEF HasChild, Innermost
    <3>2. q \in h.live /\ q # o /\ h.txn[q] # NoDb
      BY <1>2, <2>1, <3>1 DEF Sound, Nested
    <3>3. ~HasChild(h, q) /\ refs[q] = 0 /\ Kids(h, h.txn[q]) = {}
      BY <1>2, <2>1, <3>1 DEF Ends, ChildEnds
    <3>4. IsChild(h, q)
      BY <1>2, <3>1 DEF IsChild
    <3> QED BY <2>1, <3>1, <3>2, <3>3, <3>4
  <2>2. CASE ~HasChild(h, o)
    <3>1. q = o
      BY <2>2 DEF HasChild, Innermost
    <3> QED BY <1>2, <2>2, <3>1 DEF Ends
  <2> QED BY <2>1, <2>2
<1>7. hs \in [Obj -> 0..MaxHandles] /\ p \in [on : Obj, own : BOOLEAN]
  BY <1>2 DEF Good
<1> HIDE DEF refs, q
<1>8. /\ Sound(g, refs) /\ ~HasChild(g, q) /\ Kids(g, h.txn[q]) = {}
      /\ g.live = h.live /\ g.active = h.active
      /\ \A x \in Obj \ {c, q} : g.child[x] = h.child[x]
      /\ \A x \in Obj \ {c} : g.txn[x] = h.txn[x]
  <2>1. Sound(g, refs) /\ Closed(h, g, q, c)
    BY <1>2, <1>3, <1>4, <1>6, OpenSound
  <2> QED BY <2>1 DEF Closed
<1>9. o # c /\ q # c /\ g.txn[o] = h.txn[o] /\ g.txn[q] = h.txn[q] /\ q \in Obj
  BY <1>2, <1>3, <1>5, <1>6, <1>8
<1>10. \A x \in h.live : g.child[x] = h.child[x]
  <2>1. h.child[q] = NoObj /\ g.child[q] = NoObj
    BY <1>6, <1>8 DEF HasChild
  <2>2. ASSUME NEW x \in h.live PROVE g.child[x] = h.child[x]
    <3>1. x \in Obj /\ x # c
      BY <1>3, <1>5
    <3> QED BY <1>8, <2>1, <3>1
  <2> QED BY <2>2
<1>11. (HasChild(g, o) <=> HasChild(h, o)) /\ ~IsChild(g, o)
  <2>1. g.live = h.live
    BY <1>8
  <2>2. HasChild(g, o) <=> HasChild(h, o)
    BY <1>2, <1>10 DEF HasChild
  <2>3. IsChild(g, o) <=> IsChild(h, o)
    BY <1>10, <2>1 DEF IsChild
  <2> QED BY <1>2, <2>2, <2>3
<1>12. Ends(g, refs, o)
  <2>1. CASE HasChild(h, o)
    <3>1. HasChild(g, o) /\ g.child[o] = q /\ refs[q] = 0
      BY <1>2, <1>6, <1>10, <1>11, <2>1
    <3>2. ~HasChild(g, q) /\ Kids(g, g.txn[q]) = {}
      BY <1>8, <1>9
    <3> QED BY <3>1, <3>2 DEF Ends, ChildEnds
  <2>2. CASE ~HasChild(h, o)
    BY <1>6, <1>8, <1>9, <1>11, <2>2 DEF Ends
  <2> QED BY <2>1, <2>2
<1>13. \A x \in g.live : HasChild(g, x) => x = o
  BY <1>2, <1>8, <1>10 DEF HasChild
<1>14. Good(g, hs, p)
  BY <1>2, <1>7, <1>8, <1>9, <1>11, <1>12, <1>13, RunningGood DEF refs
<1> QED BY <1>8, <1>14

\* The operation ends with the guard it put on its object.
LEMMA LastGuardGood ==
  ASSUME NEW h, NEW hs, NEW p, Good(h, hs, p), p # NoOp, NEW how \in {"commit", "abort"},
         NEW g, g = GuardEnds(h, p.on, how)
  PROVE  /\ Good(g, hs, NoOp)
         /\ ~p.own => h.txn[p.on] \in g.active
<1> DEFINE refs == Refs(hs, p)
           o == p.on
<1>1. Runs(h, hs, p, refs)
  BY RunningIs
<1> HIDE DEF refs
<1>2. /\ o \in Obj /\ o \in h.live /\ Sound(h, refs) /\ h.txn[o] # NoDb /\ Ends(h, refs, o)
      /\ \A x \in h.live \ {o} : ~HasChild(h, x)
      /\ refs[o] = hs[o] + 1 /\ hs[o] \in Nat /\ (~p.own => HasChild(h, o) /\ hs[o] > 0)
      /\ [refs EXCEPT ![o] = @ - 1] = hs /\ hs \in [Obj -> 0..MaxHandles]
  BY <1>1 DEF Runs
<1>3. refs[o] > 0 /\ (~p.own => refs[o] > 1)
  BY <1>2
<1>4. Sound(g, [refs EXCEPT ![o] = @ - 1]) /\ Guarded(h, g, refs, o)
  BY <1>2, <1>3, GuardSound
<1>5. \A x \in g.live : ~HasChild(g, x)
  BY <1>2, <1>4 DEF Guarded, HasChild, Sound, HeapTyped
<1>6. Good(g, hs, NoOp)
  BY <1>2, <1>4, <1>5, IdleGood
<1>7. ASSUME ~p.own PROVE h.txn[o] \in g.active
  <2>1. g.active = h.active \ {h.txn[h.child[o]]}
    BY <1>2, <1>3, <1>4, <1>7 DEF Guarded
  <2>2. h.child[o] # o /\ h.child[o] \in Obj
    BY <1>2, <1>7 DEF Sound, Nested, HeapTyped
  <2>3. h.txn[o] \in h.active /\ h.txn[o] # h.txn[h.child[o]]
    BY <1>2, <2>2 DEF Sound, Linked
  <2> QED BY <2>1, <2>3
<1> QED BY <1>6, <1>7

\* The operation ends its object and then the guard on it.
LEMMA TwiceGood ==
  ASSUME NEW h, NEW hs, NEW p, Good(h, hs, p), p # NoOp, NEW how \in {"commit", "abort"},
         NEW fails \in BOOLEAN, fails => how = "commit",
         NEW g, g = GuardEnd(Finish(h, p.on, how, fails), p.on)
  PROVE  Good(g, hs, NoOp)
<1> DEFINE refs == Refs(hs, p)
           o == p.on
<1>1. Runs(h, hs, p, refs)
  BY RunningIs
<1> HIDE DEF refs
<1>2. /\ o \in Obj /\ o \in h.live /\ Sound(h, refs) /\ Ends(h, refs, o) /\ ~IsChild(h, o)
      /\ refs[o] > 0 /\ \A x \in h.live \ {o} : ~HasChild(h, x)
      /\ [refs EXCEPT ![o] = @ - 1] = hs /\ hs \in [Obj -> 0..MaxHandles]
  BY <1>1 DEF Runs
<1>3. Sound(g, hs) /\ Childless(h, g, o)
  BY <1>2, TwiceSound
<1>4. \A x \in g.live : ~HasChild(g, x)
  BY <1>2, <1>3 DEF Childless, HasChild, Sound, HeapTyped
<1> QED BY <1>2, <1>3, <1>4, IdleGood

\* The commit of a child fails, and the guard ends the internal child it was made
\* in: what that one's parent does then is what it does to a child not yet ended.
LEMMA EndedChildIs ==
  ASSUME NEW f, NEW more, Sound(f, more), NEW o \in f.live, NEW q \in f.live, f.child[o] = q,
         f.child[q] = NoObj, f.txn[q] # NoDb, Kids(f, f.txn[q]) = {}, more[q] = 1,
         NEW closed, closed = GuardEnd(f, q),
         NEW k, k = Finish(closed, o, "abort", FALSE)
  PROVE  Sound(k, [more EXCEPT ![q] = @ - 1]) /\ Finished(f, k, o)
<1> DEFINE refs == [more EXCEPT ![q] = @ - 1]
           e == RunDbNotification(f, q, "abort", FALSE)
           less == Drop(f, q)
           rest == Drop(closed, q)
<1>1. /\ HeapTyped(f) /\ Linked(f) /\ Nested(f) /\ Counted(f, more) /\ more \in [Obj -> Nat]
      /\ o \in Obj /\ q \in Obj /\ q # NoObj /\ f.live \subseteq Obj
  BY NullAssumption DEF Sound, HeapTyped
<1>2. HasChild(f, o) /\ IsChild(f, q) /\ q # o /\ f.owned[q] = TRUE /\ f.count[q] = 2
  <2>1. HasChild(f, o) /\ IsChild(f, q)
    BY <1>1 DEF HasChild, IsChild
  <2>2. q # o /\ f.owned[q]
    BY <1>1, <2>1 DEF Nested
  <2>3. f.count[q] = 2
    BY <1>1, <2>1, <2>2 DEF Counted
  <2>4. f.owned[q] \in BOOLEAN
    BY <1>1 DEF HeapTyped
  <2> QED BY <2>1, <2>2, <2>3, <2>4
<1>3. refs = [more EXCEPT ![q] = @ - 1] /\ refs \in [Obj -> Nat] /\ refs[q] = 0
  BY <1>1
<1>4. Ended(f, e, q, "abort", "abort")
  <2>1. e = RunDbNotification(f, q, "abort", FALSE)
    OBVIOUS
  <2> HIDE DEF e
  <2>2. Ended(f, e, q, "abort", IF FALSE THEN "failed" ELSE "abort")
    BY <2>1, RunDbNotificationIs
  <2> QED BY <2>2
<1>e. /\ e = RunDbNotification(f, q, "abort", FALSE) /\ rest = Drop(closed, q)
      /\ less = Drop(f, q)
  OBVIOUS
<1> HIDE DEF e, rest, less, refs
<1>5. /\ HeapTyped(e) /\ e.misuse = {} /\ e.live = f.live /\ e.child = f.child
      /\ e.txn = [f.txn EXCEPT ![q] = NoDb] /\ e.owned = f.owned /\ e.count = f.count
      /\ e.notes = f.notes /\ e.told = [f.told EXCEPT ![q] = "abort"]
      /\ e.outcome = [f.outcome EXCEPT ![q] = "abort"]
      /\ e.active = f.active \ {f.txn[q]} /\ e.parent = f.parent
      /\ e.hook = [f.hook EXCEPT ![f.txn[q]] = NoObj]
  <2>1. [f.owned EXCEPT ![q] = TRUE] = f.owned
    BY <1>1, <1>2 DEF HeapTyped
  <2> QED BY <1>2, <1>4, <2>1 DEF Ended
<1>6. closed = Drop(e, q)
  <2>1. Finish(f, q, "abort", FALSE) = e
    BY <1>e DEF Finish, EndTxn
  <2>2. closed = ReleaseTransaction(e, q)
    BY <2>1 DEF GuardEnd
  <2> QED BY <1>2, <1>5, <2>2 DEF ReleaseTransaction, Release
<1>7. Dropped(e, closed, q)
  BY <1>2, <1>5, <1>6, DropIs
<1>8. /\ HeapTyped(closed) /\ closed.live = f.live /\ closed.count = [f.count EXCEPT ![q] = 1]
      /\ closed.count[q] = 1 /\ closed.child = f.child /\ closed.owned = f.owned
      /\ closed.txn[q] = NoDb /\ closed.txn = e.txn /\ closed.notes = f.notes
      /\ closed.told = e.told /\ closed.outcome = e.outcome /\ closed.active = e.active
      /\ closed.parent = f.parent /\ closed.hook = e.hook /\ closed.misuse = {}
  BY <1>1, <1>2, <1>5, <1>7 DEF Dropped, HeapTyped
<1>9. Dropped(closed, rest, q)
  <2>1. q \in closed.live /\ closed.count[q] > 0
    BY <1>8
  <2>2. Dropped(closed, Drop(closed, q), q)
    BY <1>8, <2>1, DropIs
  <2> QED BY <1>e, <2>2
<1>10. k = [rest EXCEPT !.child[o] = NoObj]
  <2>1. k = ChildOp(closed, o, "abort", FALSE)
    BY <1>1, <1>8 DEF Finish
  <2>2. EndTxn(closed, q, "abort", FALSE) = closed
    BY <1>8 DEF EndTxn
  <2>3. ReleaseTransaction(closed, q) = rest
    BY <1>e, <1>2, <1>8 DEF ReleaseTransaction, Release
  <2>4. closed.child[o] = q
    BY <1>8
  <2> QED BY <2>1, <2>2, <2>3, <2>4 DEF ChildOp
<1>11. /\ HeapTyped(rest) /\ rest.live = f.live \ {q} /\ rest.count = [f.count EXCEPT ![q] = 0]
       /\ rest.child = f.child /\ rest.owned = f.owned /\ rest.notes = f.notes
       /\ rest.txn = [f.txn EXCEPT ![q] = NoDb] /\ rest.told = [f.told EXCEPT ![q] = "abort"]
       /\ rest.outcome = [f.outcome EXCEPT ![q] = "abort"] /\ rest.active = f.active \ {f.txn[q]}
       /\ rest.parent = f.parent /\ rest.hook = [f.hook EXCEPT ![f.txn[q]] = NoObj]
       /\ rest.misuse = {}
  <2>1. [[f.count EXCEPT ![q] = 1] EXCEPT ![q] = @ - 1] = [f.count EXCEPT ![q] = 0]
    BY <1>1 DEF HeapTyped
  <2>2. /\ HeapTyped(rest) /\ rest.live = f.live \ {q} /\ rest.count = [f.count EXCEPT ![q] = 0]
        /\ rest.child = f.child /\ rest.owned = f.owned /\ rest.notes = f.notes
        /\ rest.parent = f.parent /\ rest.misuse = {}
    BY <1>8, <1>9, <2>1 DEF Dropped
  <2>3. /\ rest.txn = closed.txn /\ rest.told = closed.told /\ rest.outcome = closed.outcome
        /\ rest.active = closed.active /\ rest.hook = closed.hook
    BY <1>9 DEF Dropped
  <2> QED BY <1>5, <1>8, <2>2, <2>3
<1>12. Dropped(f, less, q)
  BY <1>e, <1>1, <1>2, DropIs
<1>13. /\ less.live = f.live /\ less.count = [f.count EXCEPT ![q] = 1] /\ less.txn = f.txn
       /\ less.child = f.child /\ less.owned = f.owned /\ less.notes = f.notes
       /\ less.told = f.told /\ less.outcome = f.outcome /\ less.active = f.active
       /\ less.parent = f.parent /\ less.hook = f.hook /\ less.misuse = f.misuse
  BY <1>1, <1>2, <1>12 DEF Dropped, HeapTyped
<1>14. Sound(less, refs)
  <2>1. more[q] > 0 /\ (f.count[q] = 1 => f.txn[q] = NoDb /\ ~HasChild(f, q))
    BY <1>2
  <2>2. ~f.owned[q] /\ f.count[q] = 2 => f.notes[q]
    BY <1>2
  <2>3. Sound(less, [more EXCEPT ![q] = @ - 1])
    BY <1>12, <2>1, <2>2, DropSound
  <2> QED BY <1>3, <2>3
<1>15. HasChild(less, o) /\ ChildEnds(less, refs, o) /\ o \in less.live
  <2>1. Kids(less, f.txn[q]) = Kids(f, f.txn[q])
    BY <1>13 DEF Kids
  <2> QED BY <1>2, <1>3, <1>13, <2>1 DEF HasChild, ChildEnds
<1>16. ChildEnded(less, k, o, "abort", "abort")
  <2> DEFINE n == [rest EXCEPT !.child[o] = NoObj]
  <2>1. HeapTyped(n) /\ n.child = [rest.child EXCEPT ![o] = NoObj]
        /\ n.live = rest.live /\ n.txn = rest.txn /\ n.owned = rest.owned /\ n.notes = rest.notes
        /\ n.count = rest.count /\ n.told = rest.told /\ n.outcome = rest.outcome
        /\ n.active = rest.active /\ n.parent = rest.parent /\ n.hook = rest.hook
        /\ n.misuse = rest.misuse
    BY <1>1, <1>11 DEF HeapTyped
  <2>2. k = n
    BY <1>10
  <2> HIDE DEF n
  <2>3. /\ HeapTyped(k) /\ k.misuse = {} /\ k.live = f.live \ {q}
        /\ k.txn = [f.txn EXCEPT ![q] = NoDb] /\ k.child = [f.child EXCEPT ![o] = NoObj]
        /\ k.owned = f.owned /\ k.notes = f.notes /\ k.count = [f.count EXCEPT ![q] = 0]
        /\ k.told = [f.told EXCEPT ![q] = "abort"] /\ k.outcome = [f.outcome EXCEPT ![q] = "abort"]
        /\ k.active = f.active \ {f.txn[q]} /\ k.parent = f.parent
        /\ k.hook = [f.hook EXCEPT ![f.txn[q]] = NoObj]
    BY <1>11, <2>1, <2>2
  <2>4. [less.count EXCEPT ![q] = 0] = [f.count EXCEPT ![q] = 0]
    BY <1>1, <1>13 DEF HeapTyped
  <2>5. less.child[o] = q
    BY <1>13
  <2> QED BY <1>13, <2>3, <2>4, <2>5 DEF ChildEnded
<1>17. Sound(k, refs) /\ k.txn[o] = less.txn[o] /\ ~HasChild(k, o) /\ Kids(k, less.txn[o]) = {}
  <2>1. /\ "abort" \in {"commit", "abort"} /\ "abort" \in {"abort", "failed"}
        /\ ("abort" = "failed" => "abort" = "commit")
    OBVIOUS
  <2>2. /\ o \in less.live /\ HasChild(less, o) /\ ChildEnds(less, refs, o)
        /\ Sound(less, refs) /\ ChildEnded(less, k, o, "abort", "abort")
    BY <1>14, <1>15, <1>16
  <2> QED BY ONLY <2>1, <2>2, ChildOpSound
<1>18. Finished(f, k, o)
  <2>1. /\ k.live = f.live \ {q} /\ k.child = [f.child EXCEPT ![o] = NoObj]
        /\ k.txn = [f.txn EXCEPT ![q] = NoDb] /\ k.active = f.active \ {f.txn[q]}
    BY <1>13, <1>16 DEF ChildEnded
  <2>2. /\ \A x \in Obj \ {o} : k.child[x] = f.child[x]
        /\ \A x \in Obj \ {q} : k.txn[x] = f.txn[x]
        /\ k.live \subseteq f.live /\ HasChild(f, o)
    BY <1>1, <1>2, <2>1 DEF HeapTyped
  <2> QED BY <1>13, <1>17, <2>1, <2>2 DEF Finished
<1> QED BY <1>3, <1>17, <1>18

\* An index database is opened and the child it was opened in cannot be committed.
LEMMA OpenCommitFailsGood ==
  ASSUME NEW h, NEW hs, NEW p, Good(h, hs, p), p # NoOp,
         NEW c \in FreeObj(h), NEW d \in FreeDb(h), NEW q, q = Innermost(h, p.on),
         NEW closed,
         closed = GuardCommitFails(Acquire(CreateChildInternal(h, p.on, c, d), q), q),
         NEW g, g = GuardEnd(Finish(closed, p.on, "abort", FALSE), p.on)
  PROVE  Good(g, hs, NoOp)
<1> DEFINE refs == Refs(hs, p)
           o == p.on
           more == [refs EXCEPT ![q] = @ + 1]
           b == Opened(h, q, c, d)
           f == Finish(b, q, "commit", TRUE)
           k == Finish(closed, o, "abort", FALSE)
<1>1. Runs(h, hs, p, refs)
  BY RunningIs
<1>2. /\ o \in Obj /\ o \in h.live /\ Sound(h, refs) /\ h.txn[o] # NoDb /\ Ends(h, refs, o)
      /\ ~IsChild(h, o) /\ \A x \in h.live \ {o} : ~HasChild(h, x)
      /\ refs[o] > 0 /\ refs \in [Obj -> Nat]
      /\ [refs EXCEPT ![o] = @ - 1] = hs /\ hs \in [Obj -> 0..MaxHandles]
  BY <1>1 DEF Runs
<1>3. c \in Obj \ h.live /\ d \in Db \ h.active /\ c # NoObj /\ c \in Obj
  BY NullAssumption DEF FreeObj, FreeDb
<1>4. HeapTyped(h) /\ h.live \subseteq Obj /\ o # NoObj
  BY <1>2, NullAssumption DEF Sound, HeapTyped
<1>5. /\ q \in h.live /\ ~HasChild(h, q) /\ h.txn[q] # NoDb /\ Kids(h, h.txn[q]) = {}
      /\ HasChild(h, o) => q = h.child[o] /\ refs[q] = 0 /\ q # o
      /\ ~HasChild(h, o) => q = o
  <2>1. CASE HasChild(h, o)
    <3>1. q = h.child[o]
      BY <2>1 DEF HasChild, Innermost
    <3>2. q \in h.live /\ q # o /\ h.txn[q] # NoDb
      BY <1>2, <2>1, <3>1 DEF Sound, Nested
    <3>3. ~HasChild(h, q) /\ refs[q] = 0 /\ Kids(h, h.txn[q]) = {}
      BY <1>2, <2>1, <3>1 DEF Ends, ChildEnds
    <3> QED BY <2>1, <3>1, <3>2, <3>3
  <2>2. CASE ~HasChild(h, o)
    <3>1. q = o
      BY <2>2 DEF HasChild, Innermost
    <3> QED BY <1>2, <2>2, <3>1 DEF Ends
  <2> QED BY <2>1, <2>2
<1>6. closed = GuardEnd(f, q)
  BY DEF CreateChildInternal, Opened, GuardCommitFails
<1> HIDE DEF refs
<1>7. Sound(b, more) /\ Open(h, b, more, q, c, d)
  BY <1>2, <1>3, <1>5, OpenedSound
<1> HIDE DEF b
<1>8. /\ more \in [Obj -> Nat] /\ more[q] = refs[q] + 1 /\ refs[q] \in Nat /\ q \in Obj
      /\ \A x \in Obj \ {q} : more[x] = refs[x]
      /\ [more EXCEPT ![q] = @ - 1] = refs
  <2>1. q \in Obj /\ refs[q] \in Nat
    BY <1>2, <1>4, <1>5
  <2>2. more \in [Obj -> Nat] /\ more[q] = refs[q] + 1 /\ \A x \in Obj \ {q} : more[x] = refs[x]
    BY <1>2, <2>1
  <2> HIDE DEF more
  <2>3. [more EXCEPT ![q] = @ - 1] = refs
    BY <1>2, <2>1, <2>2
  <2> QED BY <2>1, <2>2, <2>3
<1> HIDE DEF more
<1>9. /\ Ends(b, more, q) /\ HasChild(b, q) /\ b.child[q] = c /\ b.child[c] = NoObj
      /\ \A x \in Obj \ {c, q} : b.child[x] = h.child[x]
      /\ \A x \in Obj \ {c} : b.txn[x] = h.txn[x]
      /\ b.live = h.live \cup {c} /\ q \in b.live
  BY <1>5, <1>7 DEF Open
<1>10. Sound(f, more) /\ Finished(b, f, q)
  <2>1. f = Finish(b, q, "commit", TRUE)
    OBVIOUS
  <2> HIDE DEF f
  <2> QED BY <1>7, <1>9, <2>1, FinishSound
<1> HIDE DEF f
<1>11. /\ f.child[q] = NoObj /\ \A x \in Obj \ {q} : f.child[x] = b.child[x]
       /\ f.txn[q] = h.txn[q] /\ Kids(f, h.txn[q]) = {} /\ f.live = h.live /\ q \in f.live
  <2>1. /\ f.child[q] = NoObj /\ \A x \in Obj \ {q} : f.child[x] = b.child[x]
        /\ f.txn[q] = b.txn[q] /\ Kids(f, b.txn[q]) = {} /\ f.live = b.live \ {c}
    BY <1>9, <1>10 DEF Finished, HasChild
  <2>2. q # c /\ b.txn[q] = h.txn[q] /\ b.live \ {c} = h.live
    BY <1>3, <1>5, <1>8, <1>9
  <2> QED BY <1>5, <2>1, <2>2
<1>12. \A x \in Obj \ {o} : x \in f.live => f.child[x] = NoObj
  <2>1. ASSUME NEW x \in Obj \ {o}, x \in f.live PROVE f.child[x] = NoObj
    <3>1. x \in h.live /\ x # c /\ h.child[x] = NoObj
      BY <1>2, <1>3, <1>11, <2>1 DEF HasChild
    <3> QED BY <1>9, <1>11, <2>1, <3>1
  <2> QED BY <2>1
<1>13. k = Finish(closed, o, "abort", FALSE) /\ g = GuardEnd(k, o)
  OBVIOUS
<1>14. CASE HasChild(h, o)
  <2>1. q # o /\ refs[q] = 0 /\ more[q] = 1 /\ o # c
    BY <1>2, <1>3, <1>5, <1>8, <1>14
  <2>2. f.child[o] = q
    BY <1>2, <1>5, <1>9, <1>11, <1>14, <2>1
  <2> HIDE DEF k
  <2>3. Sound(k, [more EXCEPT ![q] = @ - 1]) /\ Finished(f, k, o)
    <3>1. /\ o \in f.live /\ q \in f.live /\ f.child[q] = NoObj /\ f.txn[q] # NoDb
          /\ Kids(f, f.txn[q]) = {} /\ Sound(f, more)
      BY <1>2, <1>5, <1>10, <1>11
    <3> QED BY <1>6, <1>13, <2>1, <2>2, <3>1, EndedChildIs
  <2>4. Sound(k, refs)
    BY <1>8, <2>3
  <2>5. /\ ~HasChild(k, o) /\ k.live \subseteq f.live /\ k.txn[o] = f.txn[o]
        /\ Kids(k, f.txn[o]) = {} /\ \A x \in Obj \ {o} : k.child[x] = f.child[x]
    BY <1>4, <2>2, <2>3, <1>8, NullAssumption DEF Finished, HasChild
  <2>6. \A x \in k.live : ~HasChild(k, x)
    BY <1>4, <1>11, <1>12, <2>5 DEF HasChild
  <2>7. ~IsChild(k, o) /\ o \in k.live
    BY <1>2, <1>4, <2>4, <2>6, NullAssumption DEF IsChild, HasChild, Sound, Counted
  <2>8. g = GuardEnds(k, o, "abort")
    BY <1>13 DEF GuardEnd, GuardEnds
  <2>9. Ends(k, refs, o)
    BY <2>5, <2>7 DEF Ends
  <2>10. Sound(g, [refs EXCEPT ![o] = @ - 1]) /\ Guarded(k, g, refs, o)
    BY <1>2, <2>4, <2>7, <2>8, <2>9, GuardSound
  <2>11. \A x \in g.live : ~HasChild(g, x)
    <3>1. g.live \subseteq k.live /\ ~HasChild(g, o) /\ \A x \in Obj \ {o} : g.child[x] = k.child[x]
      BY <2>10 DEF Guarded
    <3> QED BY <1>4, <1>11, <2>5, <2>6, <3>1 DEF HasChild
  <2> QED BY <1>2, <2>10, <2>11, IdleGood
<1>15. CASE ~HasChild(h, o)
  <2>1. q = o /\ more[o] = refs[o] + 1
    BY <1>5, <1>8, <1>15
  <2> DEFINE e == Finish(f, o, "abort", FALSE)
  <2>2. closed = ReleaseTransaction(e, o)
    BY <1>5, <1>6, <1>11, <2>1 DEF GuardEnd
  <2>3. ~HasChild(f, o) /\ ~IsChild(f, o) /\ Ends(f, more, o)
    <3>1. \A x \in f.live : f.child[x] = NoObj
      BY <1>4, <1>11, <1>12, <2>1
    <3> QED BY <1>4, <1>11, <2>1, <3>1 DEF HasChild, IsChild, Ends
  <2>4. Sound(e, more) /\ Finished(f, e, o)
    <3>1. e = Finish(f, o, "abort", FALSE)
      OBVIOUS
    <3> HIDE DEF e
    <3> QED BY <1>10, <1>11, <2>1, <2>3, <3>1, FinishSound
  <2> HIDE DEF e, k
  <2>5. ~HasChild(e, o) /\ e.txn[o] = NoDb /\ e.live \subseteq f.live
        /\ \A x \in Obj \ {o} : e.child[x] = f.child[x]
    BY <2>3, <2>4 DEF Finished
  <2>6. more[o] > 1 /\ o \in e.live
    BY <1>2, <1>8, <2>1, <2>4 DEF Sound, Counted
  <2>7. Sound(closed, [more EXCEPT ![o] = @ - 1]) /\ Released(e, closed, more, o)
    <3>1. /\ more[o] > 0 /\ (more[o] = 1 => ~HasChild(e, o) \/ IsChild(e, o))
          /\ (~IsChild(e, o) /\ e.txn[o] # NoDb /\ more[o] = 1 /\ e.owned[o] => Kids(e, e.txn[o]) = {})
      BY <1>8, <2>1, <2>5, <2>6
    <3> QED BY <2>2, <2>4, <2>6, <3>1, ReleaseSound
  <2>8. Sound(closed, refs)
    BY <1>8, <2>1, <2>7
  <2>9. /\ closed.child = e.child /\ closed.live \subseteq e.live /\ o \in closed.live
        /\ closed.txn[o] = NoDb
    BY <2>5, <2>6, <2>7 DEF Released
  <2>10. \A x \in closed.live : closed.child[x] = NoObj
    BY <1>4, <1>11, <1>12, <2>5, <2>9 DEF HasChild
  <2>11. ~HasChild(closed, o) /\ ~IsChild(closed, o) /\ Ends(closed, refs, o)
    BY <1>4, <2>9, <2>10 DEF HasChild, IsChild, Ends
  <2>12. Sound(g, [refs EXCEPT ![o] = @ - 1]) /\ Childless(closed, g, o)
    BY <1>2, <1>13, <2>8, <2>9, <2>11, TwiceSound
  <2>13. \A x \in g.live : ~HasChild(g, x)
    <3>1. /\ g.child[o] = NoObj /\ g.live \subseteq closed.live
          /\ \A x \in Obj \ {o} : g.child[x] = closed.child[x]
      BY <2>12 DEF Childless, HasChild
    <3>2. closed.live \subseteq Obj
      BY <1>4, <1>11, <2>5, <2>9
    <3>3. ASSUME NEW x \in g.live PROVE g.child[x] = NoObj
      BY <2>10, <3>1, <3>2
    <3> QED BY <3>3 DEF HasChild
  <2> QED BY <1>2, <2>12, <2>13, IdleGood
<1> QED BY <1>14, <1>15

-----------------------------------------------------------------------------
(* The application's calls *)

\* In heap g there is no internal child, and nobody refers to o but its maker.
Alone(h, g, hs, o, d, parent) ==
  /\ hs[o] = 0 /\ g.txn[o] = d /\ \A x \in g.live : ~HasChild(g, x)
  /\ parent = NoDb /\ d \notin h.active => Kids(g, d) = {}

\* A new transaction, for a handle or for an operation.
LEMMA MadeGood ==
  ASSUME NEW h, NEW hs, Good(h, hs, NoOp), NEW o \in FreeObj(h), NEW d \in Db,
         NEW parent \in h.active \cup {NoDb}, NEW owned \in BOOLEAN,
         d \notin h.active \/ (h.hook[d] = NoObj /\ parent = NoDb),
         NEW g, g = Acquire(New(h, o, d, parent, owned), o),
         NEW more, more = [hs EXCEPT ![o] = 1]
  PROVE  Sound(g, more) /\ Alone(h, g, hs, o, d, parent)
<1>1. /\ Sound(h, hs) /\ \A x \in h.live : ~HasChild(h, x)
      /\ hs \in [Obj -> Nat] /\ o \in Obj \ h.live
  BY IdleIs DEF FreeObj
<1>2. HeapTyped(h) /\ parent \in Db \cup {NoDb} /\ Linked(h)
  BY <1>1 DEF Sound, HeapTyped
<1>3. Made(h, g, o, d, parent, owned, Childfree(h, o))
  BY <1>1, <1>2, NewIs
<1>4. hs[o] = 0
  BY <1>1 DEF Sound, Counted
<1>5. more = OneMore(hs, o)
  BY <1>1, <1>4 DEF OneMore
<1>6. Sound(g, more)
  <2>1. \A p \in h.live : HasChild(h, p) => h.txn[p] # parent
    BY <1>1
  <2>2. o \in Obj \ h.live
    BY <1>1
  <2>3. MayBegin(h, o, d, parent)
    BY <1>1, <2>1, <2>2 DEF MayBegin
  <2>4. \A x : \A own \in BOOLEAN : Made(h, x, o, d, parent, own, Childfree(h, o))
             => Sound(x, OneMore(hs, o))
    BY <1>1, <2>3, NewSound
  <2> QED BY <1>3, <1>5, <2>4
<1>7. g.txn[o] = d /\ \A x \in g.live : ~HasChild(g, x)
  BY <1>1, <1>2, <1>3 DEF Made, HeapTyped, HasChild, Childfree
<1>8. ASSUME parent = NoDb, d \notin h.active PROVE Kids(g, d) = {}
  <2>1. d # NoDb /\ g.active = h.active \cup {d} /\ g.parent = [h.parent EXCEPT ![d] = NoDb]
    BY <1>3, <1>8, NullAssumption DEF Made
  <2>2. \A k \in h.active : k \in Db /\ k # d /\ h.parent[k] # d
    BY <1>2, <1>8, <2>1 DEF Linked, HeapTyped
  <2> QED BY <1>2, <2>1, <2>2 DEF Kids, HeapTyped
<1> QED BY <1>1, <1>4, <1>6, <1>7, <1>8 DEF Alone

LEMMA CreateStep ==
  ASSUME IInv, NEW o \in Obj, NEW c \in Obj, NEW d \in Db,
         CreateTransaction(o, d) \/ WrapDbTxn(o, d) \/ CreateChild(c, o, d)
  PROVE  IInv'
<1>1. PICK parent \in heap.active \cup {NoDb}, owned \in BOOLEAN :
        /\ heap' = Acquire(New(heap, o, d, parent, owned), o)
        /\ d \notin heap.active \/ (heap.hook[d] = NoObj /\ parent = NoDb)
  BY DEF CreateTransaction, WrapDbTxn, CreateChild, FreeDb
<1>2. op = NoOp /\ op' = NoOp /\ handles' = [handles EXCEPT ![o] = 1] /\ o \in FreeObj(heap)
  BY DEF CreateTransaction, WrapDbTxn, CreateChild
<1>3. Good(heap, handles, NoOp)
  BY <1>2 DEF IInv
<1>4. Sound(heap', handles') /\ \A x \in heap'.live : ~HasChild(heap', x)
  <2>1. Sound(heap', handles') /\ Alone(heap, heap', handles, o, d, parent)
    BY <1>1, <1>2, <1>3, MadeGood
  <2> QED BY <2>1 DEF Alone
<1>5. handles' \in [Obj -> 0..MaxHandles]
  BY <1>2, <1>3, IdleIs, BoundAssumption
<1> QED BY <1>2, <1>4, <1>5, IdleGood DEF IInv

LEMMA OpBeginAutoStep ==
  ASSUME IInv, NEW o \in Obj, NEW d \in Db, OpBeginAuto(o, d)
  PROVE  IInv'
<1> DEFINE p == [on |-> o, own |-> TRUE]
<1>1. /\ op = NoOp /\ op' = p /\ handles' = handles /\ o \in FreeObj(heap) /\ d \notin heap.active
      /\ heap' = Acquire(New(heap, o, d, NoDb, TRUE), o)
  BY DEF OpBeginAuto, FreeDb
<1>2. Good(heap, handles, NoOp)
  BY <1>1 DEF IInv
<1> DEFINE more == [handles EXCEPT ![o] = 1]
<1>3. /\ Sound(heap', more) /\ handles[o] = 0 /\ heap'.txn[o] = d
      /\ \A x \in heap'.live : ~HasChild(heap', x) /\ Kids(heap', d) = {}
  <2>1. Sound(heap', more) /\ Alone(heap, heap', handles, o, d, NoDb)
    BY <1>1, <1>2, MadeGood
  <2> QED BY <1>1, <2>1 DEF Alone
<1>4. handles \in [Obj -> 0..MaxHandles] /\ handles \in [Obj -> Nat]
  BY <1>2, IdleIs
<1>5. Refs(handles, p) = more
  <2>1. \A x \in Obj : handles[x] + (IF p.on = x THEN 1 ELSE 0) = IF x = o THEN 1 ELSE handles[x]
    BY <1>3, <1>4
  <2>2. Refs(handles, p) = [x \in Obj |-> IF x = o THEN 1 ELSE handles[x]]
    BY <2>1 DEF Refs
  <2> QED BY <1>4, <2>2
<1>6. o \in heap'.live
  <2>1. more[o] = 1
    BY <1>4
  <2> QED BY <1>3, <2>1 DEF Sound, Counted
<1>7. ~IsChild(heap', o)
  BY <1>3, NullAssumption DEF IsChild, HasChild
<1>8. Ends(heap', Refs(handles, p), o)
  BY <1>3, <1>6, <1>7 DEF Ends
<1>9. p \in [on : Obj, own : BOOLEAN] /\ p.on = o /\ p.own /\ d # NoDb
  BY NullAssumption
<1> HIDE DEF p, more
<1>10. Good(heap', handles, p)
  BY <1>3, <1>4, <1>5, <1>8, <1>9, RunningGood
<1> QED BY <1>1, <1>10 DEF IInv

LEMMA OpBeginStep ==
  ASSUME IInv, NEW o \in Obj, NEW c \in Obj, NEW d \in Db, OpBegin(o, c, d)
  PROVE  IInv'
<1> DEFINE p == [on |-> o, own |-> FALSE]
<1>1. /\ op = NoOp /\ op' = p /\ handles' = handles /\ handles[o] > 0
      /\ heap.txn[o] \in heap.active /\ Kids(heap, heap.txn[o]) = {}
      /\ c \in Obj \ heap.live /\ d \in Db \ heap.active
      /\ heap' = Acquire(CreateChildInternal(heap, o, c, d), o)
  BY DEF OpBegin, FreeDb, FreeObj
<1>2. /\ Sound(heap, handles) /\ \A x \in heap.live : ~HasChild(heap, x)
      /\ handles \in [Obj -> 0..MaxHandles] /\ handles \in [Obj -> Nat]
      /\ \A x \in Obj : ~IsChild(heap, x)
  BY <1>1, IdleIs DEF IInv
<1>3. o \in heap.live /\ heap.txn[o] # NoDb
  BY <1>1, <1>2, NullAssumption DEF Sound, Counted, HeapTyped
<1>4. heap' = Opened(heap, o, c, d)
  BY <1>1, <1>2, <1>3 DEF Opened, CreateChildInternal, Innermost, HasChild
<1> DEFINE more == [handles EXCEPT ![o] = @ + 1]
<1>5. Refs(handles, p) = more
  <2>1. \A x \in Obj : handles[x] + (IF p.on = x THEN 1 ELSE 0)
                       = IF x = o THEN handles[x] + 1 ELSE handles[x]
    BY <1>2
  <2>2. Refs(handles, p) = [x \in Obj |-> IF x = o THEN handles[x] + 1 ELSE handles[x]]
    BY <2>1 DEF Refs
  <2> QED BY <1>2, <2>2
<1>6. Sound(heap', more) /\ Open(heap, heap', more, o, c, d)
  BY <1>1, <1>2, <1>3, <1>4, OpenedSound
<1> HIDE DEF more
<1>7. /\ Ends(heap', more, o) /\ HasChild(heap', o) /\ heap'.txn[o] = heap.txn[o]
      /\ heap'.live = heap.live \cup {c} /\ heap'.child[c] = NoObj
      /\ \A x \in Obj \ {c, o} : heap'.child[x] = heap.child[x]
  BY <1>1, <1>3, <1>6 DEF Open
<1>8. \A x \in heap'.live : HasChild(heap', x) => x = o
  BY <1>2, <1>7 DEF HasChild, Sound, HeapTyped
<1>9. p \in [on : Obj, own : BOOLEAN] /\ p.on = o /\ ~p.own
  OBVIOUS
<1> HIDE DEF p
<1>10. Good(heap', handles, p)
  BY <1>1, <1>2, <1>3, <1>5, <1>6, <1>7, <1>8, <1>9, RunningGood
<1> QED BY <1>1, <1>10 DEF IInv

LEMMA BeginDbTxnStep ==
  ASSUME IInv, NEW d \in Db, BeginDbTxn(d)
  PROVE  IInv'
<1>1. /\ op = NoOp /\ op' = NoOp /\ handles' = handles /\ d \in Db \ heap.active
      /\ heap' = [heap EXCEPT !.active = @ \cup {d}, !.parent[d] = NoDb, !.hook[d] = NoObj]
  BY DEF BeginDbTxn, FreeDb
<1>2. /\ Sound(heap, handles) /\ \A x \in heap.live : ~HasChild(heap, x)
      /\ handles \in [Obj -> 0..MaxHandles]
  BY <1>1, IdleIs DEF IInv
<1>3. /\ HeapTyped(heap) /\ Linked(heap) /\ Counted(heap, handles) /\ Waiting(heap) /\ Heard(heap)
      /\ handles \in [Obj -> Nat] /\ heap.misuse = {}
  BY <1>2 DEF Sound
<1>4. /\ heap'.live = heap.live /\ heap'.txn = heap.txn /\ heap'.child = heap.child
      /\ heap'.owned = heap.owned /\ heap'.count = heap.count /\ heap'.notes = heap.notes
      /\ heap'.told = heap.told /\ heap'.outcome = heap.outcome /\ heap'.misuse = heap.misuse
      /\ heap'.active = heap.active \cup {d} /\ heap'.parent = [heap.parent EXCEPT ![d] = NoDb]
      /\ heap'.hook = [heap.hook EXCEPT ![d] = NoObj]
  BY <1>1, <1>3 DEF HeapTyped
<1>5. HeapTyped(heap')
  BY <1>1, <1>3, <1>4 DEF HeapTyped
<1>6. \A x \in heap'.live : ~HasChild(heap', x)
  BY <1>2, <1>4 DEF HasChild
<1>7. Linked(heap')
  <2>1. ASSUME NEW x \in Obj, heap'.txn[x] # NoDb
        PROVE  /\ x \in heap'.live /\ heap'.txn[x] \in heap'.active
               /\ heap'.hook[heap'.txn[x]] = x /\ heap'.told[x] = "none"
    BY <1>1, <1>3, <1>4, <2>1 DEF Linked, HeapTyped
  <2>2. ASSUME NEW e \in heap'.active, heap'.hook[e] # NoObj PROVE heap'.txn[heap'.hook[e]] = e
    BY <1>1, <1>3, <1>4, <2>2 DEF Linked, HeapTyped
  <2>3. ASSUME NEW e \in heap'.active PROVE heap'.parent[e] \in heap'.active \cup {NoDb}
    BY <1>1, <1>3, <1>4, <2>3 DEF Linked, HeapTyped
  <2> QED BY <2>1, <2>2, <2>3 DEF Linked
<1>8. Counted(heap', handles)
  <2>1. \A x : IsChild(heap', x) <=> IsChild(heap, x)
    BY <1>4 DEF IsChild
  <2> QED BY <1>3, <1>4, <2>1 DEF Counted
<1>9. Nested(heap') /\ Waiting(heap') /\ Heard(heap')
  BY <1>3, <1>4, <1>6 DEF Nested, Waiting, Heard
<1>10. Sound(heap', handles)
  BY <1>3, <1>4, <1>5, <1>7, <1>8, <1>9 DEF Sound
<1> QED BY <1>1, <1>2, <1>6, <1>10, IdleGood DEF IInv

LEMMA CopyHandleStep ==
  ASSUME IInv, NEW o \in Obj, CopyHandle(o)
  PROVE  IInv'
<1>1. /\ op = NoOp /\ op' = NoOp /\ handles' = [handles EXCEPT ![o] = @ + 1]
      /\ handles[o] \in 1..(MaxHandles - 1) /\ heap' = Acquire(heap, o)
  BY DEF CopyHandle
<1>2. /\ Sound(heap, handles) /\ \A x \in heap.live : ~HasChild(heap, x)
      /\ handles \in [Obj -> 0..MaxHandles] /\ handles \in [Obj -> Nat]
  BY <1>1, IdleIs DEF IInv
<1>3. o \in heap.live /\ HeapTyped(heap)
  BY <1>1, <1>2 DEF Sound, Counted
<1>4. Acquired(heap, heap', o)
  BY <1>1, <1>3, AcquireIs
<1>5. Sound(heap', handles')
  BY <1>1, <1>2, <1>3, <1>4, AcquireSound
<1>6. \A x \in heap'.live : ~HasChild(heap', x)
  BY <1>2, <1>4 DEF Acquired, HasChild
<1>7. handles' \in [Obj -> 0..MaxHandles]
  BY <1>1, <1>2, BoundAssumption
<1> QED BY <1>1, <1>5, <1>6, <1>7, IdleGood DEF IInv

LEMMA DeleteHandleStep ==
  ASSUME IInv, ~OrphanChildren, NEW o \in Obj, DeleteHandle(o)
  PROVE  IInv'
<1>1. /\ op = NoOp /\ op' = NoOp /\ handles' = [handles EXCEPT ![o] = @ - 1] /\ handles[o] > 0
      /\ handles[o] = 1 /\ heap.owned[o] /\ heap.txn[o] # NoDb => Kids(heap, heap.txn[o]) = {}
      /\ heap' = ReleaseTransaction(heap, o)
  BY DEF DeleteHandle
<1>2. /\ Sound(heap, handles) /\ \A x \in heap.live : ~HasChild(heap, x)
      /\ handles \in [Obj -> 0..MaxHandles] /\ handles \in [Obj -> Nat]
  BY <1>1, IdleIs DEF IInv
<1>3. o \in heap.live
  BY <1>1, <1>2 DEF Sound, Counted
<1>4. Sound(heap', [handles EXCEPT ![o] = @ - 1]) /\ Released(heap, heap', handles, o)
  BY <1>1, <1>2, <1>3, ReleaseSound
<1>5. \A x \in heap'.live : ~HasChild(heap', x)
  BY <1>2, <1>4 DEF Released, HasChild
<1>6. handles' \in [Obj -> 0..MaxHandles]
  BY <1>1, <1>2, BoundAssumption
<1> QED BY <1>1, <1>4, <1>5, <1>6, IdleGood DEF IInv

LEMMA EndByHandleStep ==
  ASSUME IInv, ~OrphanChildren, NEW o \in Obj, NEW how \in {"commit", "abort"},
         NEW fails \in BOOLEAN, EndByHandle(o, how, fails)
  PROVE  IInv'
<1>1. /\ op = NoOp /\ op' = NoOp /\ handles' = handles /\ handles[o] > 0
      /\ Kids(heap, heap.txn[o]) = {} /\ (fails => how = "commit")
      /\ heap' = Finish(heap, o, how, fails)
  BY DEF EndByHandle, MayEnd
<1>2. /\ Sound(heap, handles) /\ \A x \in heap.live : ~HasChild(heap, x)
      /\ handles \in [Obj -> 0..MaxHandles] /\ \A x \in Obj : ~IsChild(heap, x)
  BY <1>1, IdleIs DEF IInv
<1>3. o \in heap.live
  BY <1>1, <1>2 DEF Sound, Counted
<1>4. Ends(heap, handles, o)
  BY <1>1, <1>2, <1>3 DEF Ends
<1>5. Sound(heap', handles) /\ Finished(heap, heap', o)
  BY <1>1, <1>2, <1>3, <1>4, FinishSound
<1>6. \A x \in heap'.live : ~HasChild(heap', x)
  BY <1>2, <1>5 DEF Finished, HasChild, Sound, HeapTyped
<1> QED BY <1>1, <1>2, <1>5, <1>6, IdleGood DEF IInv

LEMMA EndByDbTxnStep ==
  ASSUME IInv, ~OrphanChildren, NEW d \in Db, NEW how \in {"commit", "abort"},
         NEW fails \in BOOLEAN, EndByDbTxn(d, how, fails)
  PROVE  IInv'
<1> DEFINE o == heap.hook[d]
           result == IF fails THEN "failed" ELSE how
<1>1. /\ op = NoOp /\ op' = NoOp /\ handles' = handles /\ d \in heap.active
      /\ Kids(heap, d) = {} /\ (fails => how = "commit")
      /\ heap' = IF o = NoObj THEN DbEnd(heap, d, result) ELSE RunDbNotification(heap, o, how, fails)
  BY DEF EndByDbTxn, MayEnd
<1>2. /\ Sound(heap, handles) /\ \A x \in heap.live : ~HasChild(heap, x)
      /\ handles \in [Obj -> 0..MaxHandles] /\ \A x \in Obj : ~IsChild(heap, x)
  BY <1>1, IdleIs DEF IInv
<1>3. /\ HeapTyped(heap) /\ Linked(heap) /\ Counted(heap, handles) /\ Waiting(heap) /\ Heard(heap)
      /\ handles \in [Obj -> Nat] /\ heap.misuse = {}
  BY <1>2 DEF Sound
<1> HIDE DEF result
<1>4. CASE o = NoObj
  <2>1. \A x \in Obj : heap.txn[x] # d
    BY <1>1, <1>3, <1>4, NullAssumption DEF Linked
  <2>2. heap' = [heap EXCEPT !.active = @ \ {d}]
    BY <1>1, <1>3, <1>4, <2>1, DbEndIs
  <2>3. /\ heap'.live = heap.live /\ heap'.txn = heap.txn /\ heap'.child = heap.child
        /\ heap'.owned = heap.owned /\ heap'.count = heap.count /\ heap'.notes = heap.notes
        /\ heap'.told = heap.told /\ heap'.outcome = heap.outcome /\ heap'.misuse = heap.misuse
        /\ heap'.active = heap.active \ {d} /\ heap'.parent = heap.parent
        /\ heap'.hook = heap.hook
    BY <1>3, <2>2 DEF HeapTyped
  <2>4. HeapTyped(heap')
    BY <1>3, <2>2, <2>3 DEF HeapTyped
  <2>5. \A x \in heap'.live : ~HasChild(heap', x)
    BY <1>2, <2>3 DEF HasChild
  <2>6. Linked(heap')
    <3>1. \A e \in heap'.active : heap.parent[e] # d
      BY <1>1, <2>3 DEF Kids
    <3> QED BY <1>3, <2>1, <2>3, <3>1 DEF Linked
  <2>7. Counted(heap', handles)
    <3>1. \A x : IsChild(heap', x) <=> IsChild(heap, x)
      BY <2>3 DEF IsChild
    <3> QED BY <1>3, <2>3, <3>1 DEF Counted
  <2>8. Nested(heap') /\ Waiting(heap') /\ Heard(heap')
    BY <1>3, <2>3, <2>5 DEF Nested, Waiting, Heard
  <2>9. Sound(heap', handles)
    BY <1>3, <2>3, <2>4, <2>6, <2>7, <2>8 DEF Sound
  <2> QED BY <1>1, <1>2, <2>5, <2>9, IdleGood DEF IInv
<1>5. CASE o # NoObj
  <2>1. o \in Obj /\ heap.txn[o] = d /\ d # NoDb
    BY <1>1, <1>3, <1>5, NullAssumption DEF HeapTyped, Linked
  <2>2. o \in heap.live
    BY <1>3, <2>1 DEF Linked
  <2>3. heap' = RunDbNotification(heap, o, how, fails)
    BY <1>1, <1>5
  <2>4. /\ Kids(heap, heap.txn[o]) = {} /\ heap.txn[o] # NoDb
        /\ ~HasChild(heap, o) /\ ~IsChild(heap, o)
    BY <1>1, <1>2, <2>1, <2>2
  <2> HIDE DEF o
  <2>5. Sound(heap', handles)
    BY <1>1, <1>2, <2>2, <2>3, <2>4, EndSound
  <2>6. Ended(heap, heap', o, how, IF fails THEN "failed" ELSE how)
    BY <1>1, <1>2, <2>2, <2>3, <2>4, RunDbNotificationIs
  <2>7. \A x \in heap'.live : ~HasChild(heap', x)
    BY <1>2, <2>6 DEF Ended, HasChild
  <2> QED BY <1>1, <1>2, <2>5, <2>7, IdleGood DEF IInv
<1> QED BY <1>4, <1>5

-----------------------------------------------------------------------------
(* The steps of an operation *)

LEMMA RegisterNotifyStep ==
  ASSUME IInv, RegisterNotify
  PROVE  IInv'
<1> DEFINE refs == Refs(handles, op)
           o == op.on
<1>1. /\ op # NoOp /\ op' = op /\ handles' = handles
      /\ heap' = [heap EXCEPT !.notes[o] = TRUE]
  BY DEF RegisterNotify
<1>2. Good(heap, handles, op)
  BY DEF IInv
<1>3. /\ HeapTyped(heap) /\ Linked(heap) /\ Nested(heap) /\ Counted(heap, refs) /\ Waiting(heap)
      /\ Heard(heap) /\ refs \in [Obj -> Nat] /\ heap.misuse = {}
  BY <1>2 DEF Good, Sound
<1> HIDE DEF refs
<1>4. /\ heap'.live = heap.live /\ heap'.txn = heap.txn /\ heap'.child = heap.child
      /\ heap'.owned = heap.owned /\ heap'.count = heap.count
      /\ heap'.notes = [heap.notes EXCEPT ![o] = TRUE]
      /\ heap'.told = heap.told /\ heap'.outcome = heap.outcome /\ heap'.misuse = heap.misuse
      /\ heap'.active = heap.active /\ heap'.parent = heap.parent /\ heap'.hook = heap.hook
  BY <1>1, <1>3 DEF HeapTyped
<1>5. HeapTyped(heap')
  BY <1>1, <1>3, <1>4 DEF HeapTyped
<1>6. /\ \A x : Kids(heap', x) = Kids(heap, x)
      /\ \A x : IsChild(heap', x) <=> IsChild(heap, x)
      /\ \A x : HasChild(heap', x) <=> HasChild(heap, x)
  BY <1>4 DEF Kids, IsChild, HasChild
<1>7. Linked(heap') /\ Heard(heap') /\ Nested(heap') /\ Counted(heap', refs)
  BY <1>3, <1>4, <1>6 DEF Linked, Heard, Nested, Counted
<1>8. Waiting(heap')
  <2>1. \A x \in heap.live : heap.notes[x] => heap'.notes[x]
    BY <1>3, <1>4 DEF HeapTyped
  <2> QED BY <1>3, <1>4, <2>1 DEF Waiting
<1>9. Sound(heap', refs)
  BY <1>3, <1>4, <1>5, <1>7, <1>8 DEF Sound
<1>10. Ends(heap, refs, o) => Ends(heap', refs, o)
  BY <1>4, <1>6 DEF Ends, ChildEnds
<1> QED BY <1>1, <1>2, <1>4, <1>6, <1>9, <1>10 DEF Good, IInv, refs

LEMMA OpenIndexStep ==
  ASSUME IInv, NEW c \in Obj, NEW d \in Db, OpenIndex(c, d)
  PROVE  IInv' /\ heap'.active = heap.active
<1> DEFINE g == Innermost(heap, op.on)
           begun == Acquire(CreateChildInternal(heap, op.on, c, d), g)
<1>1. /\ op # NoOp /\ op' = op /\ handles' = handles /\ c \in FreeObj(heap) /\ d \in FreeDb(heap)
      /\ heap' = GuardEnds(begun, g, "commit")
  BY DEF OpenIndex, GuardCommit, GuardEnds
<1>2. Good(heap', handles, op) /\ heap'.active = heap.active
  BY <1>1, OpenGood DEF IInv
<1> QED BY <1>1, <1>2 DEF IInv

LEMMA OpenIndexFailsStep ==
  ASSUME IInv, NEW c \in Obj, NEW d \in Db, NEW by \in {"error", "deadlock", "commit"},
         OpenIndexFails(c, d, by)
  PROVE  IInv'
<1> DEFINE g == Innermost(heap, op.on)
           begun == Acquire(CreateChildInternal(heap, op.on, c, d), g)
<1>1. PICK closed :
        /\ closed = CASE by = "error" -> GuardCommit(begun, g)
                      [] by = "deadlock" -> GuardEnd(begun, g)
                      [] by = "commit" -> GuardCommitFails(begun, g)
        /\ op # NoOp /\ op' = NoOp /\ handles' = handles
        /\ c \in FreeObj(heap) /\ d \in FreeDb(heap)
        /\ heap' = GuardEnd(Finish(closed, op.on, "abort", FALSE), op.on)
  BY DEF OpenIndexFails
<1>2. CASE by = "commit"
  <2>1. closed = GuardCommitFails(begun, g)
    BY <1>1, <1>2
  <2>2. Good(heap, handles, op)
    BY DEF IInv
  <2>3. Good(heap', handles, NoOp)
    BY <1>1, <2>1, <2>2, OpenCommitFailsGood
  <2> QED BY <1>1, <2>3 DEF IInv
<1>3. CASE by # "commit"
  <2>1. PICK how \in {"commit", "abort"} : closed = GuardEnds(begun, g, how)
    BY <1>1, <1>3 DEF GuardEnd, GuardCommit, GuardEnds
  <2>2. Good(closed, handles, op)
    BY <1>1, <2>1, OpenGood DEF IInv
  <2>3. Good(heap', handles, NoOp)
    BY <1>1, <2>2, TwiceGood
  <2> QED BY <1>1, <2>3 DEF IInv
<1> QED BY <1>2, <1>3

\* OpCommit and OpFails.
LEMMA OpEndStep ==
  ASSUME IInv, OpCommit \/ OpFails
  PROVE  IInv' /\ (~op.own => heap.txn[op.on] \in heap'.active)
<1>1. PICK how \in {"commit", "abort"} : heap' = GuardEnds(heap, op.on, how)
  BY DEF OpCommit, OpFails, GuardCommit, GuardEnd, GuardEnds
<1>2. op # NoOp /\ op' = NoOp /\ handles' = handles
  BY DEF OpCommit, OpFails
<1>3. Good(heap', handles, NoOp) /\ (~op.own => heap.txn[op.on] \in heap'.active)
  BY <1>1, <1>2, LastGuardGood DEF IInv
<1> QED BY <1>2, <1>3 DEF IInv

LEMMA OpCommitFailsStep ==
  ASSUME IInv, OpCommitFails
  PROVE  IInv'
<1>1. /\ op # NoOp /\ op' = NoOp /\ handles' = handles
      /\ heap' = GuardEnd(Finish(heap, op.on, "commit", TRUE), op.on)
  BY DEF OpCommitFails, GuardCommitFails
<1>2. Good(heap', handles, NoOp)
  BY <1>1, TwiceGood DEF IInv
<1> QED BY <1>1, <1>2 DEF IInv

LEMMA InitIInv == Init => IInv
<1> SUFFICES ASSUME Init PROVE IInv
  OBVIOUS
<1>1. /\ heap.live = {} /\ heap.active = {} /\ heap.misuse = {} /\ HeapTyped(heap)
      /\ \A o \in Obj : heap.txn[o] = NoDb /\ heap.count[o] = 0 /\ heap.told[o] = "none"
      /\ op = NoOp /\ handles \in [Obj -> 0..MaxHandles] /\ \A o \in Obj : handles[o] = 0
  BY BoundAssumption DEF Init, HeapTyped, Outcome
<1>2. handles \in [Obj -> Nat]
  BY <1>1
<1>3. Linked(heap) /\ Nested(heap) /\ Counted(heap, handles) /\ Waiting(heap) /\ Heard(heap)
  BY <1>1 DEF Linked, Nested, Counted, Waiting, Heard
<1>4. Sound(heap, handles)
  BY <1>1, <1>2, <1>3 DEF Sound
<1> QED BY <1>1, <1>4, IdleGood DEF IInv

LEMMA NextIInv ==
  ASSUME IInv, ~OrphanChildren, [Next]_vars
  PROVE  IInv'
<1>1. CASE \E o \in Obj, d \in Db :
             CreateTransaction(o, d) \/ WrapDbTxn(o, d) \/ OpBeginAuto(o, d)
  BY <1>1, CreateStep, OpBeginAutoStep
<1>2. CASE \E d \in Db : BeginDbTxn(d)
  BY <1>2, BeginDbTxnStep
<1>3. CASE \E o, c \in Obj, d \in Db : CreateChild(o, c, d) \/ OpBegin(o, c, d)
  BY <1>3, CreateStep, OpBeginStep
<1>4. CASE \E o \in Obj : CopyHandle(o) \/ DeleteHandle(o)
  BY <1>4, CopyHandleStep, DeleteHandleStep
<1>5. CASE \E how \in {"commit", "abort"}, fails \in BOOLEAN :
             \/ \E o \in Obj : EndByHandle(o, how, fails)
             \/ \E d \in Db : EndByDbTxn(d, how, fails)
  BY <1>5, EndByHandleStep, EndByDbTxnStep
<1>6. CASE RegisterNotify
  BY <1>6, RegisterNotifyStep
<1>7. CASE \E c \in Obj, d \in Db :
             OpenIndex(c, d) \/ \E by \in {"error", "deadlock", "commit"} :
                                  OpenIndexFails(c, d, by)
  BY <1>7, OpenIndexStep, OpenIndexFailsStep
<1>8. CASE OpCommit \/ OpCommitFails \/ OpFails
  BY <1>8, OpEndStep, OpCommitFailsStep
<1>9. CASE UNCHANGED vars
  BY <1>9 DEF IInv, vars
<1> QED BY <1>1, <1>2, <1>3, <1>4, <1>5, <1>6, <1>7, <1>8, <1>9 DEF Next

\* The heap is sound in every reachable state.  The hypothesis is needed: a child
\* whose parent has ended still points to its DB_TXN, which is gone.
THEOREM Invariance == ~OrphanChildren => (Spec => []IInv)
<1> SUFFICES ASSUME ~OrphanChildren PROVE Spec => []IInv
  OBVIOUS
<1>1. Init => IInv
  BY InitIInv
<1>2. IInv /\ [Next]_vars => IInv'
  BY NextIInv
<1> QED BY <1>1, <1>2, PTL DEF Spec

-----------------------------------------------------------------------------
(* What it says *)

\* No method touches a deleted object or a DB_TXN that has been ended, and no
\* notification, which deletes itself (Transaction::runDbNotification), runs
\* twice.
THEOREM NoMisuseHolds == ~OrphanChildren => (Spec => []NoMisuse)
<1> SUFFICES ASSUME ~OrphanChildren PROVE Spec => []NoMisuse
  OBVIOUS
<1>1. IInv => NoMisuse
  BY DEF IInv, Good, Sound, NoMisuse
<1> QED BY <1>1, Invariance, PTL

\* Notifications hear of an abort exactly when there was one: by what they hear
\* they close index handles and delete string caches.
THEOREM AbortsAreHeard == ~OrphanChildren => (Spec => []AbortsHeard)
<1> SUFFICES ASSUME ~OrphanChildren PROVE Spec => []AbortsHeard
  OBVIOUS
<1>1. IInv => AbortsHeard
  BY DEF IInv, Good, Sound, Heard, AbortsHeard
<1> QED BY <1>1, Invariance, PTL

\* No handle, guard, child_ or xml_internal slot of a DB_TXN points to an object
\* that ReferenceCounted::release has deleted.
THEOREM NothingDangles == ~OrphanChildren => (Spec => []NoDangling)
<1> SUFFICES ASSUME ~OrphanChildren PROVE Spec => []NoDangling
  OBVIOUS
<1>1. IInv => NoDangling
  <2> SUFFICES ASSUME IInv PROVE NoDangling
    OBVIOUS
  <2> DEFINE refs == Refs(handles, op)
  <2>1. /\ HeapTyped(heap) /\ Linked(heap) /\ Nested(heap) /\ Counted(heap, refs)
        /\ handles \in [Obj -> Nat] /\ op.on \in Obj \cup {NoObj}
    BY BoundAssumption DEF IInv, Good, Sound
  <2>2. \A o \in Obj : handles[o] > 0 \/ op.on = o => refs[o] > 0
    BY <2>1 DEF Refs
  <2> HIDE DEF refs
  <2>3. \A o \in Obj : handles[o] > 0 \/ op.on = o => o \in heap.live
    BY <2>1, <2>2 DEF Counted
  <2>4. \A o \in heap.live : heap.child[o] \in heap.live \cup {NoObj}
    BY <2>1 DEF Nested, HasChild
  <2>5. ASSUME NEW d \in heap.active, heap.hook[d] # NoObj
        PROVE  heap.hook[d] \in heap.live /\ heap.txn[heap.hook[d]] = d
    BY <2>1, <2>5, NullAssumption DEF Linked, HeapTyped
  <2> QED BY <2>1, <2>3, <2>4, <2>5 DEF NoDangling
<1> QED BY <1>1, Invariance, PTL

\* No internal child outlives its operation, and an object without handles is
\* one that waits for a DbTxn that the application has still to end.
THEOREM NothingIsLeft == ~OrphanChildren => (Spec => []NothingLeft)
<1> SUFFICES ASSUME ~OrphanChildren PROVE Spec => []NothingLeft
  OBVIOUS
<1>1. IInv => NothingLeft
  <2> SUFFICES ASSUME IInv, op = NoOp PROVE /\ \A o \in heap.live : heap.child[o] = NoObj
                                            /\ \A o \in heap.live : handles[o] = 0 =>
                                                 /\ ~heap.owned[o] /\ heap.notes[o]
                                                 /\ heap.txn[o] \in heap.active
    BY DEF NothingLeft
  <2>1. /\ Sound(heap, handles) /\ \A o \in heap.live : ~HasChild(heap, o)
        /\ \A o \in Obj : ~IsChild(heap, o)
    BY IdleIs DEF IInv
  <2>2. ASSUME NEW o \in heap.live, handles[o] = 0
        PROVE  ~heap.owned[o] /\ heap.notes[o] /\ heap.txn[o] \in heap.active
    <3>1. o \in Obj /\ heap.count[o] > 0
          /\ heap.count[o] = 0 + (IF heap.owned[o] THEN 0 ELSE 1) + 0
      BY <2>1, <2>2 DEF Sound, HeapTyped, Counted
    <3>2. ~heap.owned[o] /\ heap.count[o] = 1
      BY <3>1
    <3> QED BY <2>1, <3>1, <3>2 DEF Sound, Waiting, Linked
  <2> QED BY <2>1, <2>2 DEF HasChild
<1> QED BY <1>1, Invariance, PTL

\* Every variable keeps its type, and no count_ of a Transaction exceeds the
\* handles by more than a guard, a parent and the object itself.
THEOREM TypeCorrect == ~OrphanChildren => (Spec => []TypeOK)
<1> SUFFICES ASSUME ~OrphanChildren PROVE Spec => []TypeOK
  OBVIOUS
<1>1. IInv => TypeOK
  <2> SUFFICES ASSUME IInv PROVE TypeOK
    OBVIOUS
  <2> DEFINE refs == Refs(handles, op)
  <2>1. /\ HeapTyped(heap) /\ Counted(heap, refs)
        /\ handles \in [Obj -> 0..MaxHandles] /\ op \in [on : Obj \cup {NoObj}, own : BOOLEAN]
    BY DEF IInv, Good, Sound
  <2>2. \A o \in Obj : refs[o] \in 0..(MaxHandles + 1)
    BY <2>1, BoundAssumption DEF Refs
  <2> HIDE DEF refs
  <2>3. ASSUME NEW o \in Obj PROVE heap.count[o] \in 0..(MaxHandles + 4)
    <3>1. heap.count[o] \in Nat /\ refs[o] \in Nat /\ refs[o] =< MaxHandles + 1
      BY <2>1, <2>2, BoundAssumption DEF HeapTyped
    <3>2. o \notin heap.live => heap.count[o] = 0
      BY <2>1 DEF Counted
    <3>3. o \in heap.live => heap.count[o] = refs[o] + (IF heap.owned[o] THEN 0 ELSE 1)
                                              + (IF IsChild(heap, o) THEN 1 ELSE 0)
      BY <2>1 DEF Counted
    <3> QED BY <3>1, <3>2, <3>3, BoundAssumption
  <2>4. heap.count \in [Obj -> 0..(MaxHandles + 4)]
    BY <2>1, <2>3 DEF HeapTyped
  <2> QED BY <2>1, <2>4 DEF TypeOK, Heap, HeapTyped
<1> QED BY <1>1, Invariance, PTL

\* count_ of a Transaction is the number of the handles, guards and parents that
\* refer to it, and one for itself while it wraps a DbTxn.
THEOREM CountsAreExact == ~OrphanChildren => (Spec => []CountsExact)
<1> SUFFICES ASSUME ~OrphanChildren PROVE Spec => []CountsExact
  OBVIOUS
<1>1. IInv => CountsExact
  <2> SUFFICES ASSUME IInv, NEW o \in heap.live
               PROVE  heap.count[o] = handles[o] + (IF op.on = o THEN 1 ELSE 0)
                                      + (IF heap.owned[o] THEN 0 ELSE 1)
                                      + Cardinality({p \in heap.live : heap.child[p] = o})
    BY DEF CountsExact
  <2> DEFINE refs == Refs(handles, op)
             parents == {p \in heap.live : heap.child[p] = o}
  <2>1. Sound(heap, refs)
    BY DEF IInv, Good
  <2>2. o \in Obj /\ refs[o] = handles[o] + (IF op.on = o THEN 1 ELSE 0)
    BY <2>1 DEF Sound, HeapTyped, Refs
  <2> HIDE DEF refs
  <2>3. Cardinality(parents) = IF IsChild(heap, o) THEN 1 ELSE 0
    <3>1. CASE IsChild(heap, o)
      <4>1. PICK p \in heap.live : heap.child[p] = o
        BY <3>1 DEF IsChild
      <4>2. HasChild(heap, p)
        BY <2>2, <4>1, NullAssumption DEF HasChild
      <4>3. \A x \in heap.live : heap.child[x] = o => x = p
        BY <2>1, <4>1, <4>2, OneParent
      <4>4. parents = {p}
        BY <4>1, <4>3
      <4> QED BY <3>1, <4>4, FS_Singleton
    <3>2. CASE ~IsChild(heap, o)
      <4>1. parents = {}
        BY <3>2 DEF IsChild
      <4> QED BY <3>2, <4>1, FS_EmptySet
    <3> QED BY <3>1, <3>2
  <2>4. heap.count[o] = refs[o] + (IF heap.owned[o] THEN 0 ELSE 1)
                         + (IF IsChild(heap, o) THEN 1 ELSE 0)
    BY <2>1 DEF Sound, Counted
  <2> QED BY <2>2, <2>3, <2>4
<1> QED BY <1>1, Invariance, PTL

\* An operation that autoTransact began under the caller's transaction ends that
\* one only where Berkeley DB fails to commit or to open under it.
THEOREM CallerContinues == ~OrphanChildren => (Spec => OperationLeavesTransaction)
<1> SUFFICES ASSUME ~OrphanChildren PROVE Spec => OperationLeavesTransaction
  OBVIOUS
<1> DEFINE Leaves == op # NoOp /\ ~op.own /\ heap.txn[op.on] \notin heap'.active => DbFails
<1>1. IInv /\ [Next]_vars => [Leaves]_vars
  <2> SUFFICES ASSUME IInv, Next, op # NoOp, ~op.own, heap.txn[op.on] \notin heap'.active
               PROVE  DbFails
    OBVIOUS
  <2>1. heap.txn[op.on] \in heap.active
    <3>1. Runs(heap, handles, op, Refs(handles, op))
      BY RunningIs DEF IInv
    <3> QED BY <3>1 DEF Runs, Sound, Linked
  <2>2. ~RegisterNotify
    BY <2>1 DEF RegisterNotify, IInv, Good, Sound, HeapTyped
  <2>3. \A c \in Obj, d \in Db : ~OpenIndex(c, d)
    BY <2>1, OpenIndexStep
  <2>4. ~OpCommit /\ ~OpFails
    BY OpEndStep
  <2>5. \/ OpCommitFails
        \/ \E c \in Obj, d \in Db, by \in {"error", "deadlock", "commit"} :
             OpenIndexFails(c, d, by)
    BY <2>2, <2>3, <2>4
       DEF Next, CreateTransaction, WrapDbTxn, OpBeginAuto, BeginDbTxn, CreateChild, OpBegin,
           CopyHandle, DeleteHandle, EndByHandle, EndByDbTxn, MayEnd
  <2> QED BY <2>5 DEF DbFails
<1> QED BY <1>1, Invariance, PTL DEF Spec, OperationLeavesTransaction
=============================================================================
