----------------------- MODULE DictionaryServiceProofs ----------------------
(***************************************************************************)
(* What the dictionary answers: a name has one id and the two databases    *)
(* agree, whatever applications do; and where they make no child           *)
(* transactions and abort a transaction in which an operation has failed,  *)
(* every id written into a document keeps the meaning it was written with, *)
(* and all that together is a NameService.                                 *)
(***************************************************************************)
EXTENDS DictionaryProofs

-----------------------------------------------------------------------------
(* Backs, and what moving rows does to it *)

LEMMA LiftMonotone ==
  ASSUME NEW S, NEW T, S \subseteq T, NEW from, NEW to
  PROVE  Lift(S, from, to) \subseteq Lift(T, from, to)
  BY DEF Lift

\* Every row has its image, and every image its row.
LEMMA LiftImage ==
  ASSUME NEW S, S \subseteq Row, NEW from \in Level, NEW to \in Level
  PROVE  /\ \A r \in S : \E q \in Lift(S, from, to) :
              /\ q.id = r.id /\ q.name = r.name
              /\ q.by = IF r.by = from THEN to ELSE r.by
         /\ \A q \in Lift(S, from, to) : \E r \in S :
              /\ q.id = r.id /\ q.name = r.name
              /\ q.by = IF r.by = from THEN to ELSE r.by
<1>1. ASSUME NEW r \in S
      PROVE  \E q \in Lift(S, from, to) :
               /\ q.id = r.id /\ q.name = r.name
               /\ q.by = IF r.by = from THEN to ELSE r.by
  <2> DEFINE q == [id |-> r.id, name |-> r.name,
                   by |-> IF r.by = from THEN to ELSE r.by]
  <2>1. q \in Lift(S, from, to)
    BY LiftMember
  <2>2. /\ q.id = r.id /\ q.name = r.name
        /\ q.by = IF r.by = from THEN to ELSE r.by
    OBVIOUS
  <2>3. QED
    BY <2>1, <2>2
<1>2. QED
  BY <1>1, LiftMember

\* Nothing is at the level of an operation that is not running.
LEMMA RowLevels ==
  ASSUME LevelInv, NEW t \in Txn, phase[t] \notin Running \/ auto[t]
  PROVE  \A r \in primary \cup secondary \cup stored : r.by # Op(t)
  BY Levels DEF LevelInv

-----------------------------------------------------------------------------
(* The steps of StoreInv *)

\* Steps that write no rows and no cache entries, and end nothing.
LEMMA StoreQuiet ==
  ASSUME TypeOK, StoreInv,
         UNCHANGED <<primary, secondary, stored, txnCache, failed>>,
         \A t \in Txn : phase'[t] = "appended" =>
           phase[t] = "appended" /\ arg'[t] = arg[t] /\ auto'[t] = auto[t],
         \A t \in Txn : failed[t] => phase'[t] = "open"
  PROVE  StoreInv'
<1>1. Paired'
  BY DEF StoreInv, Paired
<1>2. Appended'
  <2>1. ASSUME NEW t \in Txn, phase'[t] = "appended" PROVE Writing(t)' = Writing(t)
    BY <2>1 DEF Writing, Running, Own, Op
  <2>2. QED
    BY <2>1 DEF StoreInv, Appended
<1>3. FailedOpen'
  BY DEF FailedOpen
<1>4. CachesBacked' /\ DocumentsBacked'
  BY DEF StoreInv, CachesBacked, DocumentsBacked, Backs, Base, Own, Op
<1>5. QED
  BY <1>1, <1>2, <1>3, <1>4 DEF StoreInv

\* Steps that add rows to primary and ids to the documents, each id backed.
LEMMA StoreGrows ==
  ASSUME TypeOK, StoreInv, NEW s,
         primary \subseteq primary',
         UNCHANGED <<secondary, txnCache, failed, phase, arg, auto>>,
         stored' = stored \cup {s}, \E r \in primary' : Backs(r, s)
  PROVE  StoreInv'
<1>1. Paired' /\ FailedOpen'
  BY DEF StoreInv, Paired, FailedOpen
<1>2. Appended'
  BY DEF StoreInv, Appended, Writing, Own, Op
<1>3. CachesBacked'
  BY DEF StoreInv, CachesBacked, Base, Own, Op
<1>4. DocumentsBacked'
  <2>1. \A d \in stored' : \E r \in primary' : Backs(r, d)
    BY DEF StoreInv, DocumentsBacked
  <2>2. QED
    BY <2>1 DEF DocumentsBacked, Backs, Base, Own, Op
<1>5. QED
  BY <1>1, <1>2, <1>3, <1>4 DEF StoreInv

\* The internal child commits: a row and the ids it backs move together.
LEMMA StoreOpCommit ==
  ASSUME TypeOK, StoreInv, NEW t \in Txn, OpCommit(t)
  PROVE  StoreInv'
<1>1. /\ primary \subseteq Row /\ secondary \subseteq Row /\ stored \subseteq Row
      /\ Op(t) \in Level /\ Own(t) \in Level
  BY LevelType DEF TypeOK
<1>2. /\ primary' = Lift(primary, Op(t), Own(t))
      /\ secondary' = Lift(secondary, Op(t), Own(t))
      /\ stored' = Lift(stored, Op(t), Own(t))
      /\ UNCHANGED <<auto, failed, arg, txnCache>>
      /\ phase[t] = "op" /\ phase' = [phase EXCEPT ![t] = "open"]
  BY DEF OpCommit, caches
<1>3. \A r \in primary : \E q \in primary' :
        /\ q.id = r.id /\ q.name = r.name
        /\ q.by = IF r.by = Op(t) THEN Own(t) ELSE r.by
  BY <1>1, <1>2, LiftImage
<1>4. Paired'
  BY <1>2, LiftMonotone DEF StoreInv, Paired
<1>5. Appended'
  <2>1. ASSUME NEW u \in Txn, phase'[u] = "appended"
        PROVE  [id |-> arg[u].id, name |-> arg[u].name, by |-> Writing(u)] \in primary'
    <3>1. u # t /\ phase[u] = "appended"
      BY <1>2, <2>1 DEF TypeOK
    <3>2. [id |-> arg[u].id, name |-> arg[u].name, by |-> Writing(u)] \in primary
      BY <3>1 DEF StoreInv, Appended
    <3>3. Writing(u) # Op(t)
      BY <3>1, WritingLevel, Levels
    <3>4. QED
      BY <1>1, <1>2, <3>2, <3>3, LiftKeeps
  <2>2. ASSUME NEW u \in Txn, phase'[u] = "appended" PROVE Writing(u)' = Writing(u)
    BY <1>2, <2>2 DEF Writing, Running, Own, Op, TypeOK
  <2>3. QED
    BY <1>2, <2>1, <2>2 DEF Appended
<1>6. FailedOpen'
  BY <1>2 DEF StoreInv, FailedOpen, TypeOK
<1>7. CachesBacked'
  <2>1. ASSUME NEW u \in Txn, NEW n \in Name, txnCache[u][n] # NoId, ~failed[u]
        PROVE  \E q \in primary' : /\ q.id = txnCache[u][n] /\ q.name = n
                                   /\ q.by \in {Base, Own(u), Op(u)}
    <3>1. PICK r \in primary : /\ r.id = txnCache[u][n] /\ r.name = n
                               /\ r.by \in {Base, Own(u), Op(u)}
      BY <2>1 DEF StoreInv, CachesBacked
    <3>2. PICK q \in primary' :
            /\ q.id = r.id /\ q.name = r.name
            /\ q.by = IF r.by = Op(t) THEN Own(t) ELSE r.by
      BY <1>3
    <3>3. q.by \in {Base, Own(u), Op(u)}
      BY <3>1, <3>2, Levels
    <3>4. QED
      BY <3>1, <3>2, <3>3
  <2>2. QED
    BY <1>2, <2>1 DEF CachesBacked, Base, Own, Op
<1>8. DocumentsBacked'
  <2>1. ASSUME NEW s \in stored' PROVE \E q \in primary' : Backs(q, s)
    <3>1. PICK d \in stored : /\ s.id = d.id /\ s.name = d.name
                              /\ s.by = IF d.by = Op(t) THEN Own(t) ELSE d.by
      BY <1>1, <1>2, LiftImage
    <3>2. PICK r \in primary : Backs(r, d)
      BY DEF StoreInv, DocumentsBacked
    <3>3. PICK q \in primary' :
            /\ q.id = r.id /\ q.name = r.name
            /\ q.by = IF r.by = Op(t) THEN Own(t) ELSE r.by
      BY <1>3
    <3>4. q.id = s.id /\ q.name = s.name
      BY <3>1, <3>2, <3>3 DEF Backs
    <3>5. CASE r.by = Base
      BY <3>3, <3>4, <3>5, Levels DEF Backs
    <3>6. CASE r.by = d.by
      BY <3>1, <3>3, <3>4, <3>6 DEF Backs
    <3>7. ASSUME NEW u \in Txn, d.by = Op(u), r.by = Own(u)
          PROVE  Backs(q, s)
      <4>1. q.by = Own(u)
        BY <3>3, <3>7, Levels
      <4>2. s.by = Own(u) \/ s.by = Op(u)
        BY <3>1, <3>7, Levels
      <4>3. QED
        BY <3>4, <4>1, <4>2 DEF Backs
    <3>8. QED
      BY <3>2, <3>5, <3>6, <3>7 DEF Backs
  <2>2. QED
    BY <2>1 DEF DocumentsBacked, Backs, Base, Own, Op
<1>9. QED
  BY <1>4, <1>5, <1>6, <1>7, <1>8 DEF StoreInv

\* The operation fails: what it wrote goes, the ids of other levels keep their
\* rows, and its transaction is not asked any more.
LEMMA StoreOpFail ==
  ASSUME TypeOK, StoreInv, NEW t \in Txn, OpFail(t)
  PROVE  StoreInv'
<1>1. /\ primary' = Drop(primary, Op(t))
      /\ secondary' = Drop(secondary, Op(t))
      /\ stored' = Drop(stored, Op(t))
      /\ UNCHANGED <<auto, txnCache>>
      /\ phase' = [phase EXCEPT ![t] = "open"]
      /\ failed' = [failed EXCEPT ![t] = TRUE]
      /\ arg' = [arg EXCEPT ![t] = NoArg]
  BY DEF OpFail, caches
<1>2. \A r \in primary : r.by # Op(t) => r \in primary'
  BY <1>1, DropMember
<1>3. Paired'
  BY <1>1, DropMember DEF StoreInv, Paired
<1>4. Appended'
  <2>1. ASSUME NEW u \in Txn, phase'[u] = "appended"
        PROVE  /\ [id |-> arg[u].id, name |-> arg[u].name, by |-> Writing(u)] \in primary'
               /\ arg'[u] = arg[u]
    <3>1. u # t /\ phase[u] = "appended"
      BY <1>1, <2>1 DEF TypeOK
    <3>2. [id |-> arg[u].id, name |-> arg[u].name, by |-> Writing(u)] \in primary
      BY <3>1 DEF StoreInv, Appended
    <3>3. Writing(u) # Op(t)
      BY <3>1, WritingLevel, Levels
    <3>4. QED
      BY <1>1, <1>2, <3>1, <3>2, <3>3 DEF TypeOK
  <2>2. ASSUME NEW u \in Txn, phase'[u] = "appended" PROVE Writing(u)' = Writing(u)
    BY <1>1, <2>2 DEF Writing, Running, Own, Op, TypeOK
  <2>3. QED
    BY <2>1, <2>2 DEF Appended
<1>5. FailedOpen'
  BY <1>1 DEF StoreInv, FailedOpen, TypeOK
<1>6. CachesBacked'
  <2>1. ASSUME NEW u \in Txn, NEW n \in Name, txnCache[u][n] # NoId, ~failed'[u]
        PROVE  \E q \in primary' : /\ q.id = txnCache[u][n] /\ q.name = n
                                   /\ q.by \in {Base, Own(u), Op(u)}
    <3>1. u # t /\ ~failed[u]
      BY <1>1, <2>1 DEF TypeOK
    <3>2. PICK r \in primary : /\ r.id = txnCache[u][n] /\ r.name = n
                               /\ r.by \in {Base, Own(u), Op(u)}
      BY <2>1, <3>1 DEF StoreInv, CachesBacked
    <3>3. r.by # Op(t)
      BY <3>1, <3>2, Levels
    <3>4. QED
      BY <1>2, <3>2, <3>3
  <2>2. QED
    BY <1>1, <2>1 DEF CachesBacked, Base, Own, Op
<1>7. DocumentsBacked'
  <2>1. ASSUME NEW s \in stored' PROVE \E q \in primary' : Backs(q, s)
    <3>1. s \in stored /\ s.by # Op(t)
      BY <1>1, DropMember
    <3>2. PICK r \in primary : Backs(r, s)
      BY <3>1 DEF StoreInv, DocumentsBacked
    <3>3. r.by # Op(t)
      BY <3>1, <3>2, Levels DEF Backs
    <3>4. QED
      BY <1>2, <3>2, <3>3
  <2>2. QED
    BY <2>1 DEF DocumentsBacked, Backs, Base, Own, Op
<1>8. QED
  BY <1>3, <1>4, <1>5, <1>6, <1>7 DEF StoreInv

\* A transaction commits: rows and ids of its level become committed together,
\* and none is left at the level of an operation of it.
LEMMA StoreCommit ==
  ASSUME TypeOK, LevelInv, StoreInv, NEW t \in Txn, Commit(t)
  PROVE  StoreInv'
<1>1. /\ primary \subseteq Row /\ secondary \subseteq Row /\ stored \subseteq Row
      /\ Base \in Level /\ Own(t) \in Level
  BY LevelType DEF TypeOK
<1>2. /\ primary' = Lift(primary, Own(t), Base)
      /\ secondary' = Lift(secondary, Own(t), Base)
      /\ stored' = Lift(stored, Own(t), Base)
      /\ phase[t] # "appended"
      /\ phase' = [phase EXCEPT ![t] = "none"]
      /\ auto' = [auto EXCEPT ![t] = FALSE]
      /\ failed' = [failed EXCEPT ![t] = FALSE]
      /\ arg' = [arg EXCEPT ![t] = NoArg]
      /\ txnCache' = [txnCache EXCEPT ![t] = NoStrings]
  <2>1. parent[t] = NoTxn
    BY DEF LevelInv
  <2>2. QED
    BY <2>1 DEF Commit, MayCommit, End
<1>3. \A r \in primary : \E q \in primary' :
        /\ q.id = r.id /\ q.name = r.name
        /\ q.by = IF r.by = Own(t) THEN Base ELSE r.by
  BY <1>1, <1>2, LiftImage
<1>4. Paired'
  BY <1>2, LiftMonotone DEF StoreInv, Paired
<1>5. Appended'
  <2>1. ASSUME NEW u \in Txn, phase'[u] = "appended"
        PROVE  /\ [id |-> arg[u].id, name |-> arg[u].name, by |-> Writing(u)] \in primary'
               /\ arg'[u] = arg[u]
    <3>1. u # t /\ phase[u] = "appended"
      BY <1>2, <2>1 DEF TypeOK
    <3>2. [id |-> arg[u].id, name |-> arg[u].name, by |-> Writing(u)] \in primary
      BY <3>1 DEF StoreInv, Appended
    <3>3. Writing(u) # Own(t)
      BY <3>1, WritingLevel, Levels
    <3>4. [id |-> arg[u].id, name |-> arg[u].name, by |-> Writing(u)] \in primary'
      BY <1>1, <1>2, <3>2, <3>3, LiftKeeps
    <3>5. QED
      BY <1>2, <3>1, <3>4 DEF TypeOK
  <2>2. ASSUME NEW u \in Txn, phase'[u] = "appended" PROVE Writing(u)' = Writing(u)
    BY <1>2, <2>2 DEF Writing, Running, Own, Op, TypeOK
  <2>3. QED
    BY <2>1, <2>2 DEF Appended
<1>6. FailedOpen'
  BY <1>2 DEF StoreInv, FailedOpen, TypeOK
<1>7. CachesBacked'
  <2>1. ASSUME NEW u \in Txn, NEW n \in Name, txnCache'[u][n] # NoId, ~failed'[u]
        PROVE  \E q \in primary' : /\ q.id = txnCache'[u][n] /\ q.name = n
                                   /\ q.by \in {Base, Own(u), Op(u)}
    <3>1. u # t /\ txnCache'[u] = txnCache[u] /\ ~failed[u]
      BY <1>2, <2>1 DEF TypeOK, NoStrings
    <3>2. PICK r \in primary : /\ r.id = txnCache[u][n] /\ r.name = n
                               /\ r.by \in {Base, Own(u), Op(u)}
      BY <2>1, <3>1 DEF StoreInv, CachesBacked
    <3>3. PICK q \in primary' :
            /\ q.id = r.id /\ q.name = r.name
            /\ q.by = IF r.by = Own(t) THEN Base ELSE r.by
      BY <1>3
    <3>4. q.by \in {Base, Own(u), Op(u)}
      BY <3>2, <3>3
    <3>5. QED
      BY <3>1, <3>2, <3>3, <3>4
  <2>2. QED
    BY <2>1 DEF CachesBacked, Base, Own, Op
<1>8. DocumentsBacked'
  <2>1. ASSUME NEW s \in stored' PROVE \E q \in primary' : Backs(q, s)
    <3>1. PICK d \in stored : /\ s.id = d.id /\ s.name = d.name
                              /\ s.by = IF d.by = Own(t) THEN Base ELSE d.by
      BY <1>1, <1>2, LiftImage
    <3>2. PICK r \in primary : Backs(r, d)
      BY DEF StoreInv, DocumentsBacked
    <3>3. PICK q \in primary' :
            /\ q.id = r.id /\ q.name = r.name
            /\ q.by = IF r.by = Own(t) THEN Base ELSE r.by
      BY <1>3
    <3>4. q.id = s.id /\ q.name = s.name
      BY <3>1, <3>2, <3>3 DEF Backs
    <3>5. CASE r.by = Base \/ r.by = Own(t)
      BY <3>3, <3>4, <3>5 DEF Backs
    <3>6. CASE r.by = d.by /\ r.by # Own(t)
      BY <3>1, <3>3, <3>4, <3>6 DEF Backs
    <3>7. ASSUME NEW u \in Txn, d.by = Op(u), r.by = Own(u), r.by # Own(t)
          PROVE  Backs(q, s)
      <4>1. q.by = Own(u) /\ s.by = Op(u)
        BY <3>1, <3>3, <3>7, Levels
      <4>2. QED
        BY <3>4, <4>1 DEF Backs
    <3>8. QED
      BY <3>2, <3>5, <3>6, <3>7 DEF Backs
  <2>2. QED
    BY <2>1 DEF DocumentsBacked, Backs, Base, Own, Op
<1>9. QED
  BY <1>4, <1>5, <1>6, <1>7, <1>8 DEF StoreInv

\* A transaction aborts: no document of its operations is left for which its
\* rows would be missing.
LEMMA StoreAbort ==
  ASSUME TypeOK, LevelInv, StoreInv, NEW t \in Txn, Abort(t)
  PROVE  StoreInv'
<1>1. /\ primary' = Drop(primary, Own(t))
      /\ secondary' = Drop(secondary, Own(t))
      /\ stored' = Drop(stored, Own(t))
      /\ phase' = [phase EXCEPT ![t] = "none"]
      /\ auto' = [auto EXCEPT ![t] = FALSE]
      /\ failed' = [failed EXCEPT ![t] = FALSE]
      /\ arg' = [arg EXCEPT ![t] = NoArg]
      /\ txnCache' = [txnCache EXCEPT ![t] = NoStrings]
  BY DEF Abort, End
<1>2. \A r \in primary : r.by # Own(t) => r \in primary'
  BY <1>1, DropMember
<1>3. Paired'
  BY <1>1, DropMember DEF StoreInv, Paired
<1>4. Appended'
  <2>1. ASSUME NEW u \in Txn, phase'[u] = "appended"
        PROVE  /\ [id |-> arg[u].id, name |-> arg[u].name, by |-> Writing(u)] \in primary'
               /\ arg'[u] = arg[u]
    <3>1. u # t /\ phase[u] = "appended"
      BY <1>1, <2>1 DEF TypeOK
    <3>2. [id |-> arg[u].id, name |-> arg[u].name, by |-> Writing(u)] \in primary
      BY <3>1 DEF StoreInv, Appended
    <3>3. Writing(u) # Own(t)
      BY <3>1, WritingLevel, Levels
    <3>4. QED
      BY <1>1, <1>2, <3>1, <3>2, <3>3 DEF TypeOK
  <2>2. ASSUME NEW u \in Txn, phase'[u] = "appended" PROVE Writing(u)' = Writing(u)
    BY <1>1, <2>2 DEF Writing, Running, Own, Op, TypeOK
  <2>3. QED
    BY <2>1, <2>2 DEF Appended
<1>5. FailedOpen'
  BY <1>1 DEF StoreInv, FailedOpen, TypeOK
<1>6. CachesBacked'
  <2>1. ASSUME NEW u \in Txn, NEW n \in Name, txnCache'[u][n] # NoId, ~failed'[u]
        PROVE  \E q \in primary' : /\ q.id = txnCache'[u][n] /\ q.name = n
                                   /\ q.by \in {Base, Own(u), Op(u)}
    <3>1. u # t /\ txnCache'[u] = txnCache[u] /\ ~failed[u]
      BY <1>1, <2>1 DEF TypeOK, NoStrings
    <3>2. PICK r \in primary : /\ r.id = txnCache[u][n] /\ r.name = n
                               /\ r.by \in {Base, Own(u), Op(u)}
      BY <2>1, <3>1 DEF StoreInv, CachesBacked
    <3>3. r.by # Own(t)
      BY <3>1, <3>2, Levels
    <3>4. QED
      BY <1>2, <3>1, <3>2, <3>3
  <2>2. QED
    BY <2>1 DEF CachesBacked, Base, Own, Op
<1>7. DocumentsBacked'
  <2>1. ASSUME NEW s \in stored' PROVE \E q \in primary' : Backs(q, s)
    <3>1. s \in stored /\ s.by # Own(t)
      BY <1>1, DropMember
    <3>2. PICK r \in primary : Backs(r, s)
      BY <3>1 DEF StoreInv, DocumentsBacked
    <3>3. phase[t] \notin Running \/ auto[t]
      BY DEF Abort, MayAbort, Running
    <3>4. s.by # Op(t)
      BY <3>1, <3>3, RowLevels
    <3>5. r.by # Own(t)
      BY <3>1, <3>2, <3>4, Levels DEF Backs
    <3>6. QED
      BY <1>2, <3>2, <3>5
  <2>2. QED
    BY <2>1 DEF DocumentsBacked, Backs, Base, Own, Op
<1>8. QED
  BY <1>3, <1>4, <1>5, <1>6, <1>7 DEF StoreInv

\* The first half of a definition: the row that is appended is on its way.
LEMMA StoreAppend ==
  ASSUME TypeOK, StoreInv, NEW t \in Txn, DefineAppend(t)
  PROVE  StoreInv'
<1>1. PICK i \in Id :
        /\ primary' = primary \cup
             {[id |-> i, name |-> arg[t].name, by |-> Writing(t)]}
        /\ arg' = [arg EXCEPT ![t].id = i]
  BY DEF DefineAppend
<1>2. /\ phase[t] = "missed" /\ phase' = [phase EXCEPT ![t] = "appended"]
      /\ UNCHANGED <<secondary, stored, auto, failed, txnCache>>
  BY DEF DefineAppend
<1>3. Paired' /\ FailedOpen'
  BY <1>1, <1>2 DEF StoreInv, Paired, FailedOpen, TypeOK
<1>4. Appended'
  <2>1. ASSUME NEW u \in Txn, phase'[u] = "appended"
        PROVE  [id |-> arg'[u].id, name |-> arg'[u].name, by |-> Writing(u)] \in primary'
    <3>1. CASE u = t
      <4>1. arg'[t].id = i /\ arg'[t].name = arg[t].name
        BY <1>1 DEF TypeOK
      <4>2. QED
        BY <1>1, <3>1, <4>1
    <3>2. CASE u # t
      <4>1. phase[u] = "appended" /\ arg'[u] = arg[u]
        BY <1>1, <1>2, <2>1, <3>2 DEF TypeOK
      <4>2. QED
        BY <1>1, <4>1 DEF StoreInv, Appended
    <3>3. QED
      BY <3>1, <3>2
  <2>2. ASSUME NEW u \in Txn, phase'[u] = "appended" PROVE Writing(u)' = Writing(u)
    BY <1>2, <2>2 DEF Writing, Running, Own, Op, TypeOK
  <2>3. QED
    BY <2>1, <2>2 DEF Appended
<1>5. CachesBacked'
  BY <1>1, <1>2 DEF StoreInv, CachesBacked, Base, Own, Op
<1>6. DocumentsBacked'
  <2>1. \A d \in stored' : \E r \in primary' : Backs(r, d)
    BY <1>1, <1>2 DEF StoreInv, DocumentsBacked
  <2>2. QED
    BY <2>1 DEF DocumentsBacked, Backs, Base, Own, Op
<1>7. QED
  BY <1>3, <1>4, <1>5, <1>6 DEF StoreInv

\* The second half: what it puts into secondary, into the cache and into the
\* document is the row appended before.
LEMMA StorePut ==
  ASSUME TypeOK, StoreInv, NEW t \in Txn, DefinePut(t)
  PROVE  StoreInv'
<1> DEFINE row == [id |-> arg[t].id, name |-> arg[t].name, by |-> Writing(t)]
<1>1. /\ secondary' = secondary \cup {row}
      /\ stored' = stored \cup {row}
      /\ txnCache' = [txnCache EXCEPT ![t][arg[t].name] = arg[t].id]
      /\ phase[t] = "appended" /\ phase' = [phase EXCEPT ![t] = "op"]
      /\ arg' = [arg EXCEPT ![t] = NoArg]
      /\ UNCHANGED <<primary, auto, failed>>
  BY DEF DefinePut, Store
<1>2. row \in primary /\ row.by \in {Own(t), Op(t)}
  BY <1>1, WritingLevel DEF StoreInv, Appended
<1>3. Paired' /\ FailedOpen'
  BY <1>1, <1>2 DEF StoreInv, Paired, FailedOpen, TypeOK
<1>4. Appended'
  <2>1. ASSUME NEW u \in Txn, phase'[u] = "appended"
        PROVE  /\ Writing(u)' = Writing(u) /\ arg'[u] = arg[u]
               /\ phase[u] = "appended"
    BY <1>1, <2>1 DEF Writing, Running, Own, Op, TypeOK
  <2>2. QED
    BY <1>1, <2>1 DEF StoreInv, Appended
<1>5. CachesBacked'
  <2>1. ASSUME NEW u \in Txn, NEW n \in Name, txnCache'[u][n] # NoId, ~failed[u]
        PROVE  \E r \in primary : /\ r.id = txnCache'[u][n] /\ r.name = n
                                  /\ r.by \in {Base, Own(u), Op(u)}
    <3>1. CASE u = t /\ n = arg[t].name
      <4>1. txnCache'[u][n] = arg[t].id
        BY <1>1, <3>1 DEF TypeOK
      <4>2. QED
        BY <1>2, <3>1, <4>1
    <3>2. CASE ~(u = t /\ n = arg[t].name)
      <4>1. txnCache'[u][n] = txnCache[u][n]
        BY <1>1, <3>2 DEF TypeOK
      <4>2. QED
        BY <2>1, <4>1 DEF StoreInv, CachesBacked
    <3>3. QED
      BY <3>1, <3>2
  <2>2. QED
    BY <1>1, <2>1 DEF CachesBacked, Base, Own, Op
<1>6. DocumentsBacked'
  <2>1. ASSUME NEW d \in stored' PROVE \E r \in primary' : Backs(r, d)
    <3>1. CASE d \in stored
      BY <1>1, <3>1 DEF StoreInv, DocumentsBacked
    <3>2. CASE d = row
      <4>1. Backs(row, row)
        BY DEF Backs
      <4>2. QED
        BY <1>1, <1>2, <3>2, <4>1
    <3>3. QED
      BY <1>1, <3>1, <3>2
  <2>2. QED
    BY <2>1 DEF DocumentsBacked, Backs, Base, Own, Op
<1>7. QED
  BY <1>3, <1>4, <1>5, <1>6 DEF StoreInv

\* What a cache answers has its row: the cache of the transaction because nothing
\* failed in it, the cache of the process because the row is committed.
LEMMA CachedBacked ==
  ASSUME TypeOK, LevelInv, CacheInv, StoreInv, NEW t \in Txn, NEW n \in Name,
         LookupCached(t, n)
  PROVE  \E r \in primary :
           Backs(r, [id |-> Cached(t, n), name |-> n, by |-> Writing(t)])
<1>1. phase[t] = "op" /\ Cached(t, n) # NoId
  BY DEF LookupCached
<1>2. CASE txnCache[t][n] # NoId
  <2>1. Cached(t, n) = txnCache[t][n]
    BY <1>2 DEF Cached
  <2>2. ~failed[t]
    BY <1>1 DEF StoreInv, FailedOpen
  <2>3. PICK r \in primary : /\ r.id = txnCache[t][n] /\ r.name = n
                             /\ r.by \in {Base, Own(t), Op(t)}
    BY <1>2, <2>2 DEF StoreInv, CachesBacked
  <2>4. CASE auto[t]
    <3>1. r.by # Op(t)
      BY <2>4, RowLevels
    <3>2. Writing(t) = Own(t)
      BY <2>4 DEF Writing
    <3>3. QED
      BY <2>1, <2>3, <3>1, <3>2 DEF Backs
  <2>5. CASE ~auto[t]
    <3>1. Writing(t) = Op(t)
      BY <1>1, <2>5 DEF Writing, Running
    <3>2. QED
      BY <2>1, <2>3, <3>1 DEF Backs
  <2>6. QED
    BY <2>4, <2>5
<1>3. CASE txnCache[t][n] = NoId
  <2>1. Cached(t, n) = stringCache[ProcOf[t]][n] /\ ProcOf[t] \in Proc
    BY <1>3, ProcAssumption DEF Cached
  <2>2. PICK r \in secondary : r.by = Base /\ r.name = n /\ r.id = Cached(t, n)
    BY <1>1, <2>1 DEF CacheInv, StringCacheCommitted
  <2>3. r \in primary
    BY DEF StoreInv, Paired
  <2>4. QED
    BY <2>2, <2>3 DEF Backs
<1>4. QED
  BY <1>2, <1>3

LEMMA StoreStep ==
  ASSUME UserChildren = FALSE, RetryAfterFailure = FALSE,
         TypeOK, LevelInv, CacheInv, StoreInv, [Next]_vars
  PROVE  StoreInv'
<1>1. ASSUME NEW t \in Txn, Begin(t) \/ AutoBegin(t) \/ OpBegin(t)
      PROVE  StoreInv'
  <2>1. UNCHANGED <<primary, secondary, stored, txnCache, failed, arg>>
    BY <1>1 DEF Begin, AutoBegin, OpBegin, rows, caches
  <2>2. \A u \in Txn : phase'[u] = "appended" =>
          phase[u] = "appended" /\ auto'[u] = auto[u]
    BY <1>1 DEF Begin, AutoBegin, OpBegin, TypeOK
  <2>3. \A u \in Txn : failed[u] => phase'[u] = "open"
    BY <1>1 DEF Begin, AutoBegin, OpBegin, MayGoOn, StoreInv, FailedOpen, TypeOK
  <2>4. QED
    BY <2>1, <2>2, <2>3, StoreQuiet
<1>2. ASSUME NEW t \in Txn, NEW u \in Txn, CreateChild(t, u) PROVE StoreInv'
  BY <1>2 DEF CreateChild
<1>3. ASSUME NEW t \in Txn, NEW n \in Name, LookupMissed(t, n) PROVE StoreInv'
  <2>1. UNCHANGED <<primary, secondary, stored, txnCache, failed, auto>>
    BY <1>3 DEF LookupMissed, caches
  <2>2. \A u \in Txn : phase'[u] = "appended" =>
          phase[u] = "appended" /\ arg'[u] = arg[u]
    BY <1>3 DEF LookupMissed, TypeOK
  <2>3. \A u \in Txn : failed[u] => phase'[u] = "open"
    BY <1>3 DEF LookupMissed, StoreInv, FailedOpen, TypeOK
  <2>4. QED
    BY <2>1, <2>2, <2>3, StoreQuiet
<1>4. ASSUME \/ \E t \in Txn, n \in Name : QueryLookup(t, n)
             \/ \E p \in Proc, n \in Name : PlainLookup(p, n)
             \/ \E p \in Proc, i \in Id : ReadName(p, i)
             \/ UNCHANGED vars
      PROVE  StoreInv'
  <2>1. UNCHANGED <<primary, secondary, stored, txnCache, failed, phase, arg, auto>>
    BY <1>4 DEF QueryLookup, PlainLookup, ReadName, rows, txns, vars
  <2>2. \A u \in Txn : failed[u] => phase'[u] = "open"
    BY <2>1 DEF StoreInv, FailedOpen
  <2>3. QED
    BY <2>1, <2>2, StoreQuiet
<1>5. ASSUME NEW t \in Txn, NEW n \in Name, LookupCached(t, n) PROVE StoreInv'
  <2>1. /\ stored' = stored \cup
             {[id |-> Cached(t, n), name |-> n, by |-> Writing(t)]}
        /\ UNCHANGED <<primary, secondary, txnCache, failed, phase, arg, auto>>
    BY <1>5 DEF LookupCached, Store, txns, caches
  <2>2. QED
    BY <1>5, <2>1, CachedBacked, StoreGrows
<1>6. ASSUME NEW t \in Txn, NEW n \in Name, LookupFound(t, n) PROVE StoreInv'
  <2>1. PICK r \in secondary :
          /\ r.name = n /\ Visible(t, r) /\ Cached(t, n) = NoId
          /\ stored' = stored \cup {[id |-> r.id, name |-> n, by |-> Writing(t)]}
    BY <1>6 DEF LookupFound, Store
  <2>2. UNCHANGED <<primary, secondary, txnCache, failed, phase, arg, auto>>
    BY <1>6 DEF LookupFound, txns
  <2>3. r.by = Base /\ r \in primary
    BY <2>1, FoundIsCommitted DEF StoreInv, Paired
  <2>4. Backs(r, [id |-> r.id, name |-> n, by |-> Writing(t)])
    BY <2>1, <2>3 DEF Backs
  <2>5. QED
    BY <2>1, <2>2, <2>3, <2>4, StoreGrows
<1>7. ASSUME Crash PROVE StoreInv'
  <2>1. /\ primary' = {r \in primary : r.by = Base}
        /\ secondary' = {r \in secondary : r.by = Base}
        /\ stored' = {r \in stored : r.by = Base}
        /\ phase' = [t \in Txn |-> "none"] /\ failed' = [t \in Txn |-> FALSE]
        /\ txnCache' = [t \in Txn |-> NoStrings]
    BY <1>7 DEF Crash
  <2>2. Paired' /\ Appended' /\ FailedOpen' /\ CachesBacked'
    BY <2>1 DEF StoreInv, Paired, Appended, FailedOpen, CachesBacked, NoStrings
  <2>3. ASSUME NEW s \in stored' PROVE \E r \in primary' : Backs(r, s)
    <3>1. PICK r \in primary : Backs(r, s)
      BY <2>1 DEF StoreInv, DocumentsBacked
    <3>2. s.by = Base
      BY <2>1
    <3>3. r.by = Base
      BY <3>1, <3>2, Levels DEF Backs
    <3>4. QED
      BY <2>1, <3>1, <3>3
  <2>4. DocumentsBacked'
    BY <2>3 DEF DocumentsBacked, Backs, Base, Own, Op
  <2>5. QED
    BY <2>2, <2>4 DEF StoreInv
<1>8. QED
  BY <1>1, <1>2, <1>3, <1>4, <1>5, <1>6, <1>7, StoreOpCommit, StoreOpFail,
     StoreCommit, StoreAbort, StoreAppend, StorePut DEF Next

-----------------------------------------------------------------------------
(* StoredResolve *)

LEMMA StoreInit == Init => StoreInv
  BY DEF Init, StoreInv, Paired, Appended, FailedOpen, CachesBacked,
         DocumentsBacked, NoStrings

\* What backs an id resolves it.
LEMMA BackedResolves ==
  ASSUME LevelInv, StoreInv
  PROVE  StoredResolve
<1>1. ASSUME NEW s \in stored PROVE \E r \in primary : Resolves(s, r)
  <2>1. PICK r \in primary : Backs(r, s)
    BY DEF StoreInv, DocumentsBacked
  <2>2. s.by = Base \/ \E t \in Txn : s.by \in {Own(t), Op(t)}
    BY DEF LevelInv
  <2>3. CASE r.by = Base
    BY <2>1, <2>3 DEF Backs, Resolves
  <2>4. ASSUME NEW t \in Txn, s.by \in {Own(t), Op(t)}, r.by \in {Own(t), Op(t)}
        PROVE  Resolves(s, r)
    <3>1. s.by # Base /\ s.by.txn = t /\ r.by.txn = t
      BY <2>4, Levels
    <3>2. t \in Family(t)
      BY NestingMember DEF Family
    <3>3. QED
      BY <2>1, <3>1, <3>2 DEF Backs, Resolves
  <2>5. QED
    BY <2>1, <2>2, <2>3, <2>4, Levels DEF Backs
<1>2. QED
  BY <1>1 DEF StoredResolve

\* Where applications make no child transactions and abort a transaction in which
\* an operation has failed, every id written into a document has its row, with
\* the name it was written for, committed no later and undone no earlier.
THEOREM DocumentsResolve ==
  ASSUME UserChildren = FALSE, RetryAfterFailure = FALSE
  PROVE  Spec => []StoredResolve
<1>1. TypeOK /\ LevelInv /\ CacheInv /\ StoreInv /\ [Next]_vars
        => LevelInv' /\ CacheInv' /\ StoreInv'
  BY LevelStep, CacheStep, StoreStep
<1>2. LevelInv /\ StoreInv => StoredResolve
  BY BackedResolves
<1>3. QED
  BY <1>1, <1>2, FlatInit, StoreInit, TypeCorrect, PTL DEF Spec

-----------------------------------------------------------------------------
(* The steps of DefineInv *)

\* Steps that leave rows and locks alone, and begin no definition.
LEMMA DefineQuiet ==
  ASSUME TypeOK, DefineInv,
         UNCHANGED <<primary, secondary, readLock>>,
         \A t \in Txn : phase'[t] \in {"missed", "appended"} =>
           phase[t] = phase'[t] /\ arg'[t] = arg[t] /\ auto'[t] = auto[t],
         \A t \in Txn : phase[t] = "appended" => phase'[t] = "appended"
  PROVE  DefineInv'
<1>1. \A t \in Txn : phase'[t] \in {"missed", "appended"} => Writing(t)' = Writing(t)
  BY DEF Writing, Running, Own, Op
<1>2. Missing'
  BY <1>1 DEF DefineInv, Missing
<1>3. Mirror'
  <2>1. ASSUME NEW r \in primary \ secondary
        PROVE  \E t \in Txn : /\ phase'[t] = "appended" /\ arg'[t].id = r.id
                              /\ arg'[t].name = r.name /\ r.by = Writing(t)'
    <3>1. PICK t \in Txn : /\ phase[t] = "appended" /\ arg[t].id = r.id
                           /\ arg[t].name = r.name /\ r.by = Writing(t)
      BY DEF DefineInv, Mirror
    <3>2. phase'[t] = "appended"
      BY <3>1
    <3>3. QED
      BY <1>1, <3>1, <3>2
  <2>2. QED
    BY <2>1 DEF DefineInv, Mirror
<1>4. NamesUnique'
  BY DEF DefineInv, NamesUnique
<1>5. QED
  BY <1>2, <1>3, <1>4 DEF DefineInv

LEMMA LiftDifference ==
  ASSUME NEW S, S \subseteq Row, NEW T, T \subseteq Row,
         NEW from \in Level, NEW to \in Level,
         NEW q \in Lift(T, from, to) \ Lift(S, from, to)
  PROVE  \E r \in T \ S : /\ q.id = r.id /\ q.name = r.name
                          /\ q.by = IF r.by = from THEN to ELSE r.by
<1>1. PICK r \in T :
        /\ q = [id |-> r.id, name |-> r.name,
                by |-> IF r.by = from THEN to ELSE r.by]
        /\ q.id = r.id /\ q.name = r.name
        /\ q.by = IF r.by = from THEN to ELSE r.by
  BY LiftMember
<1>2. r \notin S
  BY <1>1, LiftMember
<1>3. QED
  BY <1>1, <1>2

\* The end of a level at which nothing is being defined any more: its rows and
\* locks move or go, and those of the definitions in progress stay.
LEMMA DefineEnds ==
  ASSUME DefineInv, NEW from,
         secondary' \subseteq primary',
         \A q \in primary' : \E r \in primary : q.id = r.id /\ q.name = r.name,
         \A q \in secondary' : \E r \in secondary : q.name = r.name,
         \A q \in primary' \ secondary' : \E r \in primary \ secondary :
           q.id = r.id /\ q.name = r.name /\ q.by = r.by /\ r.by # from,
         \A l \in readLock : l.by # from => l \in readLock',
         \A u \in Txn : phase'[u] \in {"missed", "appended"} =>
           /\ phase'[u] = phase[u] /\ arg'[u] = arg[u] /\ auto'[u] = auto[u]
           /\ Writing(u) # from,
         \A u \in Txn : phase[u] = "appended" /\ Writing(u) # from =>
           phase'[u] = "appended"
  PROVE  DefineInv'
<1>1. \A u \in Txn : phase'[u] \in {"missed", "appended"} => Writing(u)' = Writing(u)
  BY DEF Writing, Running, Own, Op
<1>2. Missing'
  <2>1. ASSUME NEW u \in Txn, phase'[u] \in {"missed", "appended"}
        PROVE  /\ [name |-> arg'[u].name, by |-> Writing(u)'] \in readLock'
               /\ \A q \in secondary' : q.name # arg'[u].name
    <3> DEFINE lock == [name |-> arg[u].name, by |-> Writing(u)]
    <3>1. lock \in readLock /\ \A r \in secondary : r.name # arg[u].name
      BY <2>1 DEF DefineInv, Missing
    <3>2. lock.by = Writing(u) /\ Writing(u) # from /\ arg'[u] = arg[u]
      BY <2>1
    <3>3. lock \in readLock'
      <4> HIDE DEF lock
      <4> QED BY <3>1, <3>2
    <3>4. QED
      BY <1>1, <2>1, <3>1, <3>2, <3>3
  <2>2. QED
    BY <2>1 DEF Missing
<1>3. Mirror'
  <2>1. ASSUME NEW q \in primary' \ secondary'
        PROVE  \E u \in Txn : /\ phase'[u] = "appended" /\ arg'[u].id = q.id
                              /\ arg'[u].name = q.name /\ q.by = Writing(u)'
    <3>1. PICK r \in primary \ secondary :
            q.id = r.id /\ q.name = r.name /\ q.by = r.by /\ r.by # from
      OBVIOUS
    <3>2. PICK u \in Txn : /\ phase[u] = "appended" /\ arg[u].id = r.id
                           /\ arg[u].name = r.name /\ r.by = Writing(u)
      BY DEF DefineInv, Mirror
    <3>3. phase'[u] = "appended"
      BY <3>1, <3>2
    <3>4. QED
      BY <1>1, <3>1, <3>2, <3>3
  <2>2. QED
    BY <2>1 DEF Mirror
<1>4. NamesUnique'
  BY DEF DefineInv, NamesUnique
<1>5. QED
  BY <1>2, <1>3, <1>4 DEF DefineInv

LEMMA DefineOpCommit ==
  ASSUME TypeOK, DefineInv, NEW t \in Txn, OpCommit(t)
  PROVE  DefineInv'
<1>1. /\ primary \subseteq Row /\ secondary \subseteq Row
      /\ readLock \subseteq [name : Name, by : Level]
      /\ Op(t) \in Level /\ Own(t) \in Level
  BY LevelType DEF TypeOK
<1>2. /\ primary' = Lift(primary, Op(t), Own(t))
      /\ secondary' = Lift(secondary, Op(t), Own(t))
      /\ readLock' = Lift(readLock, Op(t), Own(t))
      /\ phase[t] = "op" /\ phase' = [phase EXCEPT ![t] = "open"]
      /\ UNCHANGED <<auto, arg>>
  BY DEF OpCommit
<1>3. \A u \in Txn : phase[u] \in {"missed", "appended"} => Writing(u) # Op(t)
  <2>1. ASSUME NEW u \in Txn, phase[u] \in {"missed", "appended"} PROVE Writing(u) # Op(t)
    BY <1>2, <2>1, WritingLevel, Levels
  <2>2. QED
    BY <2>1
<1>4. secondary' \subseteq primary'
  BY <1>2, LiftMonotone DEF DefineInv, Mirror
<1>5. /\ \A q \in primary' : \E r \in primary : q.id = r.id /\ q.name = r.name
      /\ \A q \in secondary' : \E r \in secondary : q.name = r.name
  BY <1>1, <1>2, LiftImage
<1>6. ASSUME NEW q \in primary' \ secondary'
      PROVE  \E r \in primary \ secondary :
               q.id = r.id /\ q.name = r.name /\ q.by = r.by /\ r.by # Op(t)
  <2>1. PICK r \in primary \ secondary :
          /\ q.id = r.id /\ q.name = r.name
          /\ q.by = IF r.by = Op(t) THEN Own(t) ELSE r.by
    BY <1>1, <1>2, LiftDifference
  <2>2. r.by # Op(t)
    BY <1>3 DEF DefineInv, Mirror
  <2>3. QED
    BY <2>1, <2>2
<1>7. ASSUME NEW l \in readLock, l.by # Op(t) PROVE l \in readLock'
  <2>1. l = [l EXCEPT !.by = IF @ = Op(t) THEN Own(t) ELSE @]
    BY <1>1, <1>7
  <2>2. QED
    BY <1>2, <2>1 DEF Lift
<1>8. /\ \A u \in Txn : phase'[u] \in {"missed", "appended"} => phase'[u] = phase[u]
      /\ \A u \in Txn : phase[u] = "appended" => phase'[u] = "appended"
  BY <1>2 DEF TypeOK
<1>9. QED
  BY <1>2, <1>3, <1>4, <1>5, <1>6, <1>7, <1>8, DefineEnds

LEMMA DefineCommit ==
  ASSUME TypeOK, DefineInv, NEW t \in Txn, Commit(t)
  PROVE  DefineInv'
<1> DEFINE to == IF parent[t] = NoTxn THEN Base ELSE Own(parent[t])
<1>1. /\ primary \subseteq Row /\ secondary \subseteq Row
      /\ readLock \subseteq [name : Name, by : Level]
      /\ to \in Level /\ Own(t) \in Level
  BY LevelType DEF TypeOK, Own, Level
<1>2. /\ primary' = Lift(primary, Own(t), to)
      /\ secondary' = Lift(secondary, Own(t), to)
      /\ readLock' \in {Drop(readLock, Own(t)), Lift(readLock, Own(t), to)}
      /\ phase[t] \in {"open", "op"} /\ phase' = [phase EXCEPT ![t] = "none"]
      /\ auto' = [auto EXCEPT ![t] = FALSE]
      /\ arg' = [arg EXCEPT ![t] = NoArg]
  BY DEF Commit, MayCommit, End
<1> HIDE DEF to
<1>3. \A u \in Txn : phase[u] \in {"missed", "appended"} => Writing(u) # Own(t)
  <2>1. ASSUME NEW u \in Txn, phase[u] \in {"missed", "appended"} PROVE Writing(u) # Own(t)
    BY <1>2, <2>1, WritingLevel, Levels
  <2>2. QED
    BY <2>1
<1>4. secondary' \subseteq primary'
  BY <1>2, LiftMonotone DEF DefineInv, Mirror
<1>5. /\ \A q \in primary' : \E r \in primary : q.id = r.id /\ q.name = r.name
      /\ \A q \in secondary' : \E r \in secondary : q.name = r.name
  BY <1>1, <1>2, LiftImage
<1>6. ASSUME NEW q \in primary' \ secondary'
      PROVE  \E r \in primary \ secondary :
               q.id = r.id /\ q.name = r.name /\ q.by = r.by /\ r.by # Own(t)
  <2>1. PICK r \in primary \ secondary :
          /\ q.id = r.id /\ q.name = r.name
          /\ q.by = IF r.by = Own(t) THEN to ELSE r.by
    BY <1>1, <1>2, LiftDifference
  <2>2. r.by # Own(t)
    BY <1>3 DEF DefineInv, Mirror
  <2>3. QED
    BY <2>1, <2>2
<1>7. ASSUME NEW l \in readLock, l.by # Own(t) PROVE l \in readLock'
  <2>1. l = [l EXCEPT !.by = IF @ = Own(t) THEN to ELSE @]
    BY <1>1, <1>7
  <2>2. l \in Lift(readLock, Own(t), to)
    BY <2>1 DEF Lift
  <2>3. QED
    BY <1>2, <1>7, <2>2, DropMember
<1>8. \A u \in Txn :
        /\ phase'[u] \in {"missed", "appended"} =>
             phase'[u] = phase[u] /\ arg'[u] = arg[u] /\ auto'[u] = auto[u]
        /\ phase[u] = "appended" => phase'[u] = "appended"
  BY <1>2 DEF TypeOK
<1>9. QED
  BY <1>3, <1>4, <1>5, <1>6, <1>7, <1>8, DefineEnds

\* An operation or a transaction is undone, with the definition it was making.
LEMMA DefineUndone ==
  ASSUME TypeOK, DefineInv, NEW t \in Txn, OpFail(t) \/ Abort(t)
  PROVE  DefineInv'
<1> DEFINE from == IF OpFail(t) THEN Op(t) ELSE Own(t)
<1>1. /\ primary' = Drop(primary, from)
      /\ secondary' = Drop(secondary, from)
      /\ readLock' = Drop(readLock, from)
  BY DEF OpFail, Abort
<1>2. /\ \A u \in Txn \ {t} : phase'[u] = phase[u] /\ arg'[u] = arg[u] /\ auto'[u] = auto[u]
      /\ phase'[t] \in {"open", "none"}
  BY DEF OpFail, Abort, End, TypeOK
<1>3. from \in {Own(t), Op(t)} /\ (phase[t] \in Running => Writing(t) = from)
  BY DEF OpFail, Abort, MayAbort, Writing, Running
<1>4. \A u \in Txn \ {t} : Writing(u) # from
  <2> HIDE DEF from
  <2>1. ASSUME NEW u \in Txn \ {t} PROVE Writing(u) # from
    BY <1>3, WritingLevel, Levels
  <2>2. QED
    BY <2>1
<1> HIDE DEF from
<1>5. secondary' \subseteq primary'
  BY <1>1, DropMember DEF DefineInv, Mirror
<1>6. /\ \A q \in primary' : q \in primary /\ q.by # from
      /\ \A q \in secondary' : q \in secondary
      /\ \A q \in primary' \ secondary' : q \in primary \ secondary
      /\ \A l \in readLock : l.by # from => l \in readLock'
  BY <1>1, DropMember
<1>7. \A u \in Txn : phase[u] = "appended" /\ Writing(u) # from => phase'[u] = "appended"
  BY <1>2, <1>3 DEF Running
<1>8. \A u \in Txn : phase'[u] \in {"missed", "appended"} =>
        /\ phase'[u] = phase[u] /\ arg'[u] = arg[u] /\ auto'[u] = auto[u]
        /\ Writing(u) # from
  BY <1>2, <1>4
<1>9. QED
  BY <1>5, <1>6, <1>7, <1>8, DefineEnds

\* A lookup misses: its lock is new, those of the others stay.
LEMMA DefineMissed ==
  ASSUME TypeOK, DefineInv, NEW t \in Txn, NEW n \in Name, LookupMissed(t, n)
  PROVE  DefineInv'
<1>1. /\ UNCHANGED <<primary, secondary, auto>>
      /\ readLock' = readLock \cup {[name |-> n, by |-> Writing(t)]}
      /\ phase[t] = "op" /\ phase' = [phase EXCEPT ![t] = "missed"]
      /\ arg' = [arg EXCEPT ![t] = [name |-> n, id |-> NoId]]
      /\ \A r \in secondary : r.name # n
  BY DEF LookupMissed
<1>2. \A u \in Txn : phase[u] \in {"op", "missed", "appended"} => Writing(u)' = Writing(u)
  BY <1>1 DEF Writing, Running, Own, Op, TypeOK
<1>3. \A u \in Txn \ {t} : phase'[u] = phase[u] /\ arg'[u] = arg[u]
  BY <1>1 DEF TypeOK
<1>4. phase'[t] = "missed" /\ arg'[t].name = n
  BY <1>1 DEF TypeOK
<1>5. Missing'
  <2>1. [name |-> arg'[t].name, by |-> Writing(t)'] \in readLock'
    BY <1>1, <1>2, <1>4
  <2>2. \A r \in secondary' : r.name # arg'[t].name
    BY <1>1, <1>4
  <2>3. ASSUME NEW u \in Txn \ {t}, phase'[u] \in {"missed", "appended"}
        PROVE  /\ [name |-> arg'[u].name, by |-> Writing(u)'] \in readLock'
               /\ \A r \in secondary' : r.name # arg'[u].name
    BY <1>1, <1>2, <1>3, <2>3 DEF DefineInv, Missing
  <2>4. QED
    BY <2>1, <2>2, <2>3 DEF Missing
<1>6. Mirror'
  <2>1. ASSUME NEW r \in primary \ secondary
        PROVE  \E u \in Txn : /\ phase'[u] = "appended" /\ arg'[u].id = r.id
                              /\ arg'[u].name = r.name /\ r.by = Writing(u)'
    <3>1. PICK u \in Txn : /\ phase[u] = "appended" /\ arg[u].id = r.id
                           /\ arg[u].name = r.name /\ r.by = Writing(u)
      BY DEF DefineInv, Mirror
    <3>2. u # t
      BY <1>1, <3>1
    <3>3. QED
      BY <1>2, <1>3, <3>1, <3>2
  <2>2. QED
    BY <1>1, <2>1 DEF DefineInv, Mirror
<1>7. NamesUnique'
  BY <1>1 DEF DefineInv, NamesUnique
<1>8. QED
  BY <1>5, <1>6, <1>7 DEF DefineInv

\* An append: the row is the first of its name, because nobody has put that name
\* since it was missed, and an append of somebody else would have blocked this one.
LEMMA DefineAppended ==
  ASSUME TypeOK, FamilyInv, DefineInv, NEW t \in Txn, DefineAppend(t)
  PROVE  DefineInv'
<1>1. PICK i \in Id :
        /\ NextId(i)
        /\ primary' = primary \cup {[id |-> i, name |-> arg[t].name, by |-> Writing(t)]}
        /\ arg' = [arg EXCEPT ![t].id = i]
  BY DEF DefineAppend
<1> DEFINE new == [id |-> i, name |-> arg[t].name, by |-> Writing(t)]
<1>2. /\ UNCHANGED <<secondary, readLock, auto>> /\ CanAppend(t)
      /\ phase[t] = "missed" /\ phase' = [phase EXCEPT ![t] = "appended"]
  BY DEF DefineAppend
<1>3. \A u \in Txn : phase[u] \in {"missed", "appended"} => Writing(u)' = Writing(u)
  BY <1>2 DEF Writing, Running, Own, Op, TypeOK
<1>4. /\ \A u \in Txn \ {t} : phase'[u] = phase[u] /\ arg'[u] = arg[u]
      /\ phase'[t] = "appended" /\ arg'[t].id = i /\ arg'[t].name = arg[t].name
  BY <1>1, <1>2 DEF TypeOK
<1>5. \A r \in primary : r.name # arg[t].name /\ r.id # i
  <2>1. ASSUME NEW r \in primary, r \notin secondary PROVE FALSE
    <3>1. PICK u \in Txn : phase[u] = "appended" /\ r.by = Writing(u)
      BY <2>1 DEF DefineInv, Mirror
    <3>2. r.by # Base /\ r.by.txn = u
      BY <3>1, WritingLevel, Levels
    <3>3. u \in Family(t)
      BY <1>2, <3>2 DEF CanAppend, Visible
    <3>4. QED
      BY <1>2, <3>1, <3>3, AncestorsOpen
  <2>2. QED
    BY <1>1, <1>2, <2>1 DEF NextId, DefineInv, Missing
<1>6. Missing'
  BY <1>2, <1>3, <1>4 DEF DefineInv, Missing
<1>7. Mirror'
  <2>1. ASSUME NEW r \in primary' \ secondary'
        PROVE  \E u \in Txn : /\ phase'[u] = "appended" /\ arg'[u].id = r.id
                              /\ arg'[u].name = r.name /\ r.by = Writing(u)'
    <3>1. CASE r = new
      BY <1>2, <1>3, <1>4, <3>1
    <3>2. CASE r \in primary
      <4>1. PICK u \in Txn : /\ phase[u] = "appended" /\ arg[u].id = r.id
                             /\ arg[u].name = r.name /\ r.by = Writing(u)
        BY <1>2, <2>1, <3>2 DEF DefineInv, Mirror
      <4>2. QED
        BY <1>2, <1>3, <1>4, <4>1
    <3>3. QED
      BY <1>1, <3>1, <3>2
  <2>2. secondary' \subseteq primary'
    BY <1>1, <1>2 DEF DefineInv, Mirror
  <2>3. QED
    BY <2>1, <2>2 DEF Mirror
<1>8. NamesUnique'
  <2>1. new.id = i /\ new.name = arg[t].name
    OBVIOUS
  <2>2. QED
    BY <1>1, <1>5, <2>1 DEF DefineInv, NamesUnique
<1>9. QED
  BY <1>6, <1>7, <1>8 DEF DefineInv

\* A put: nobody else can have missed the name, its read lock would block the put.
LEMMA DefinePutDone ==
  ASSUME TypeOK, FamilyInv, Appended, DefineInv, NEW t \in Txn, DefinePut(t)
  PROVE  DefineInv'
<1> DEFINE new == [id |-> arg[t].id, name |-> arg[t].name, by |-> Writing(t)]
<1>1. /\ UNCHANGED <<primary, readLock, auto>> /\ CanPut(t)
      /\ secondary' = secondary \cup {new}
      /\ phase[t] = "appended" /\ phase' = [phase EXCEPT ![t] = "op"]
      /\ arg' = [arg EXCEPT ![t] = NoArg]
  BY DEF DefinePut
<1>2. \A u \in Txn \ {t} : phase'[u] = phase[u] /\ arg'[u] = arg[u] /\ Writing(u)' = Writing(u)
  BY <1>1 DEF Writing, Running, Own, Op, TypeOK
<1>3. phase'[t] = "op"
  BY <1>1 DEF TypeOK
<1>4. ASSUME NEW u \in Txn \ {t}, phase[u] \in {"missed", "appended"}
      PROVE  arg[u].name # arg[t].name
  <2> DEFINE lock == [name |-> arg[u].name, by |-> Writing(u)]
  <2>1. lock \in readLock /\ lock.name = arg[u].name /\ lock.by = Writing(u)
    BY <1>4 DEF DefineInv, Missing
  <2>2. ~Visible(t, lock)
    <3>1. Writing(u).txn = u /\ Writing(u) # Base
      BY WritingLevel, Levels
    <3>2. u \notin Family(t)
      BY <1>4, AncestorsOpen
    <3>3. QED
      BY <2>1, <3>1, <3>2 DEF Visible
  <2> HIDE DEF lock
  <2>3. QED
    BY <1>1, <2>1, <2>2 DEF CanPut
<1>5. Missing'
  <2>1. ASSUME NEW u \in Txn, phase'[u] \in {"missed", "appended"}
        PROVE  /\ [name |-> arg'[u].name, by |-> Writing(u)'] \in readLock'
               /\ \A r \in secondary' : r.name # arg'[u].name
    <3>1. u # t /\ phase[u] \in {"missed", "appended"}
      BY <1>2, <1>3, <2>1
    <3>2. arg[u].name # arg[t].name /\ new.name = arg[t].name
      BY <1>4, <3>1
    <3>3. QED
      BY <1>1, <1>2, <3>1, <3>2 DEF DefineInv, Missing
  <2>2. QED
    BY <2>1 DEF Missing
<1>6. Mirror'
  <2>1. secondary' \subseteq primary'
    BY <1>1 DEF DefineInv, Mirror, Appended
  <2>2. ASSUME NEW r \in primary' \ secondary'
        PROVE  \E u \in Txn : /\ phase'[u] = "appended" /\ arg'[u].id = r.id
                              /\ arg'[u].name = r.name /\ r.by = Writing(u)'
    <3>1. PICK u \in Txn : /\ phase[u] = "appended" /\ arg[u].id = r.id
                           /\ arg[u].name = r.name /\ r.by = Writing(u)
      BY <1>1, <2>2 DEF DefineInv, Mirror
    <3>2. r = [id |-> r.id, name |-> r.name, by |-> r.by]
      BY <1>1 DEF TypeOK, Row
    <3>3. u # t
      BY <1>1, <2>2, <3>1, <3>2
    <3>4. QED
      BY <1>2, <3>1, <3>3
  <2>3. QED
    BY <2>1, <2>2 DEF Mirror
<1>7. NamesUnique'
  BY <1>1 DEF DefineInv, NamesUnique
<1>8. QED
  BY <1>5, <1>6, <1>7 DEF DefineInv

LEMMA DefineStep ==
  ASSUME TypeOK, FamilyInv, Appended, DefineInv, [Next]_vars
  PROVE  DefineInv'
<1>1. ASSUME NEW t \in Txn, Begin(t) \/ AutoBegin(t) \/ OpBegin(t) PROVE DefineInv'
  <2>1. UNCHANGED <<primary, secondary, readLock, arg>>
    BY <1>1 DEF Begin, AutoBegin, OpBegin, rows
  <2>2. \A u \in Txn : phase'[u] \in {"missed", "appended"} =>
          phase[u] = phase'[u] /\ auto'[u] = auto[u]
    BY <1>1 DEF Begin, AutoBegin, OpBegin, TypeOK
  <2>3. \A u \in Txn : phase[u] = "appended" => phase'[u] = "appended"
    BY <1>1 DEF Begin, AutoBegin, OpBegin, TypeOK
  <2>4. QED
    BY <2>1, <2>2, <2>3, DefineQuiet
<1>2. ASSUME NEW t \in Txn, NEW u \in Txn, CreateChild(t, u) PROVE DefineInv'
  <2>1. UNCHANGED <<primary, secondary, readLock, arg, auto>>
    BY <1>2 DEF CreateChild, rows
  <2>2. \A v \in Txn : /\ phase'[v] \in {"missed", "appended"} => phase[v] = phase'[v]
                       /\ phase[v] = "appended" => phase'[v] = "appended"
    BY <1>2 DEF CreateChild, TypeOK
  <2>3. QED
    BY <2>1, <2>2, DefineQuiet
<1>3. ASSUME \/ \E t \in Txn, n \in Name : LookupCached(t, n) \/ LookupFound(t, n)
                                           \/ QueryLookup(t, n)
             \/ \E p \in Proc, n \in Name : PlainLookup(p, n)
             \/ \E p \in Proc, i \in Id : ReadName(p, i)
             \/ UNCHANGED vars
      PROVE  DefineInv'
  <2>1. UNCHANGED <<primary, secondary, readLock, phase, arg, auto>>
    BY <1>3 DEF LookupCached, LookupFound, QueryLookup, PlainLookup, ReadName,
                rows, txns, vars
  <2>2. QED
    BY <2>1, DefineQuiet
<1>4. ASSUME Crash PROVE DefineInv'
  <2>1. /\ primary' = {r \in primary : r.by = Base}
        /\ secondary' = {r \in secondary : r.by = Base}
        /\ phase' = [t \in Txn |-> "none"]
    BY <1>4 DEF Crash
  <2>2. \A r \in primary : r.by = Base => r \in secondary
    <3>1. \A t \in Txn : Writing(t) # Base
      BY WritingLevel, Levels
    <3>2. QED
      BY <3>1 DEF DefineInv, Mirror
  <2>3. Missing'
    BY <2>1 DEF Missing
  <2>4. Mirror' /\ NamesUnique'
    BY <2>1, <2>2 DEF DefineInv, Mirror, NamesUnique
  <2>5. QED
    BY <2>3, <2>4 DEF DefineInv
<1>5. QED
  BY <1>1, <1>2, <1>3, <1>4, DefineOpCommit, DefineCommit, DefineUndone,
     DefineMissed, DefineAppended, DefinePutDone DEF Next

\* A row appended for a definition in progress stays until its put: it is at the
\* level of the operation that runs, which nobody else ends.
LEMMA AppendedStep ==
  ASSUME TypeOK, Appended, [Next]_vars
  PROVE  Appended'
<1> DEFINE Pending(u) == [id |-> arg[u].id, name |-> arg[u].name, by |-> Writing(u)]
<1>1. ASSUME \A u \in Txn : phase'[u] = "appended" =>
               /\ phase[u] = "appended" /\ arg'[u] = arg[u] /\ auto'[u] = auto[u]
               /\ Pending(u) \in primary'
      PROVE  Appended'
  <2>1. \A u \in Txn : phase'[u] = "appended" => Writing(u)' = Writing(u)
    BY <1>1 DEF Writing, Running, Own, Op
  <2>2. QED
    BY <1>1, <2>1 DEF Appended
<1>2. \A u \in Txn : phase[u] = "appended" =>
        Pending(u) \in primary /\ Pending(u).by = Writing(u)
  BY DEF Appended
<1>3. ASSUME NEW t \in Txn,
             \/ Begin(t) \/ AutoBegin(t) \/ OpBegin(t) \/ DefinePut(t)
             \/ \E u \in Txn : CreateChild(t, u)
             \/ \E n \in Name : LookupCached(t, n) \/ LookupFound(t, n)
                                \/ LookupMissed(t, n) \/ QueryLookup(t, n)
      PROVE  Appended'
  <2>1. UNCHANGED primary
    BY <1>3 DEF Begin, AutoBegin, OpBegin, DefinePut, CreateChild, LookupCached,
                LookupFound, LookupMissed, QueryLookup, rows
  <2>2. \A u \in Txn : phase'[u] = "appended" =>
          phase[u] = "appended" /\ arg'[u] = arg[u] /\ auto'[u] = auto[u]
    BY <1>3 DEF Begin, AutoBegin, OpBegin, DefinePut, CreateChild, LookupCached,
                LookupFound, LookupMissed, QueryLookup, txns, TypeOK
  <2> HIDE DEF Pending
  <2>3. QED
    BY <1>1, <1>2, <2>1, <2>2
<1>4. ASSUME NEW t \in Txn, OpCommit(t) \/ OpFail(t) \/ Commit(t) \/ Abort(t)
      PROVE  Appended'
  <2>1. ASSUME NEW u \in Txn, phase'[u] = "appended"
        PROVE  /\ u # t /\ phase[u] = "appended"
               /\ arg'[u] = arg[u] /\ auto'[u] = auto[u]
    BY <1>4, <2>1 DEF OpCommit, OpFail, Commit, Abort, End, TypeOK
  <2>2. ASSUME NEW u \in Txn, u # t, phase[u] = "appended"
        PROVE  Pending(u) \in primary'
    <3> DEFINE to == IF parent[t] = NoTxn THEN Base ELSE Own(parent[t])
    <3>1. /\ Pending(u) \in primary /\ primary \subseteq Row
          /\ Pending(u).by # Own(t) /\ Pending(u).by # Op(t)
      BY <1>2, <2>2, WritingLevel, Levels DEF TypeOK
    <3>2. to \in Level /\ Own(t) \in Level /\ Op(t) \in Level
      BY LevelType DEF TypeOK, Own, Level
    <3>3. \/ primary' = Lift(primary, Op(t), Own(t))
          \/ primary' = Lift(primary, Own(t), to)
          \/ primary' = Drop(primary, Op(t)) \/ primary' = Drop(primary, Own(t))
      BY <1>4 DEF OpCommit, OpFail, Commit, Abort
    <3> HIDE DEF Pending, to
    <3>4. QED
      BY <3>1, <3>2, <3>3, LiftKeeps, DropMember
  <2> HIDE DEF Pending
  <2>3. QED
    BY <1>1, <2>1, <2>2
<1>5. ASSUME NEW t \in Txn, DefineAppend(t) PROVE Appended'
  <2>1. PICK i \in Id :
          /\ primary' = primary \cup
               {[id |-> i, name |-> arg[t].name, by |-> Writing(t)]}
          /\ arg' = [arg EXCEPT ![t].id = i]
    BY <1>5 DEF DefineAppend
  <2>2. /\ phase[t] = "missed" /\ phase' = [phase EXCEPT ![t] = "appended"]
        /\ UNCHANGED auto
    BY <1>5 DEF DefineAppend
  <2>3. \A u \in Txn : phase'[u] = "appended" => Writing(u)' = Writing(u)
    BY <2>2 DEF Writing, Running, Own, Op, TypeOK
  <2>4. arg'[t].id = i /\ arg'[t].name = arg[t].name
    BY <2>1 DEF TypeOK
  <2>5. \A u \in Txn \ {t} : arg'[u] = arg[u] /\ phase'[u] = phase[u]
    BY <2>1, <2>2 DEF TypeOK
  <2>6. QED
    BY <2>1, <2>3, <2>4, <2>5 DEF Appended
<1>6. ASSUME \/ \E p \in Proc, n \in Name : PlainLookup(p, n)
             \/ \E p \in Proc, i \in Id : ReadName(p, i)
             \/ UNCHANGED vars
      PROVE  Appended'
  <2>1. UNCHANGED <<primary, phase, arg, auto>>
    BY <1>6 DEF PlainLookup, ReadName, rows, txns, vars
  <2> HIDE DEF Pending
  <2>2. QED
    BY <1>1, <1>2, <2>1
<1>7. ASSUME Crash PROVE Appended'
  BY <1>7 DEF Crash, Appended
<1>8. QED
  BY <1>3, <1>4, <1>5, <1>6, <1>7 DEF Next

LEMMA DefineInit == Init => Appended /\ DefineInv
  BY DEF Init, Appended, DefineInv, Missing, Mirror, NamesUnique

-----------------------------------------------------------------------------
(* NamesUnique, Mirror and the NameService *)

\* What is being defined, with children and after failures.
LEMMA DefineInvariant == Spec => [](Appended /\ DefineInv)
<1>1. TypeOK /\ FamilyInv /\ Appended /\ DefineInv /\ [Next]_vars
        => FamilyInv' /\ Appended' /\ DefineInv'
  BY FamilyStep, AppendedStep, DefineStep
<1>2. Init => FamilyInv
  BY UndoInit DEF UndoInv
<1>3. QED
  BY <1>1, <1>2, DefineInit, TypeCorrect, PTL DEF Spec

\* A name has one id and an id one name, among the rows not yet committed too,
\* whatever children applications make and whether or not they go on after a
\* failure: of two transactions that miss the same name, one waits for the other.
THEOREM NamesStayUnique == Spec => []NamesUnique
<1>1. DefineInv => NamesUnique
  BY DEF DefineInv
<1>2. QED
  BY <1>1, DefineInvariant, PTL

\* The two databases hold the same rows, but for those of definitions in
\* progress, with children and after failures.
THEOREM DatabasesMirror == Spec => []Mirror
<1>1. DefineInv => Mirror
  BY DEF DefineInv
<1>2. QED
  BY <1>1, DefineInvariant, PTL

\* The inductive invariant without children and failures as a whole, TypeOK apart.
LEMMA FlatInvariant ==
  ASSUME UserChildren = FALSE, RetryAfterFailure = FALSE
  PROVE  Spec => []FlatInv
<1>1. TypeOK /\ LevelInv /\ CacheInv /\ StoreInv /\ [Next]_vars
        => LevelInv' /\ CacheInv' /\ StoreInv'
  BY LevelStep, CacheStep, StoreStep
<1>2. LevelInv /\ CacheInv /\ StoreInv /\ DefineInv => FlatInv
  BY DEF FlatInv
<1>3. QED
  BY <1>1, <1>2, FlatInit, StoreInit, DefineInvariant, TypeCorrect, PTL DEF Spec

LEMMA CommittedMember ==
  ASSUME NEW S
  PROVE  /\ \A r \in S : r.by = Base => [name |-> r.name, id |-> r.id] \in Committed(S)
         /\ \A a \in Committed(S) : \E r \in S :
              /\ r.by = Base /\ a.name = r.name /\ a.id = r.id
              /\ a = [name |-> r.name, id |-> r.id]
  BY DEF Committed

\* What is committed, in one state: pairs of names and ids, one to one, and
\* among them all those of the committed documents.
LEMMA CommittedConsistent ==
  ASSUME TypeOK, FlatInv
  PROVE  /\ Committed(secondary) \in SUBSET Service!Pair
         /\ Committed(stored) \in SUBSET Service!Pair
         /\ Service!Injective(Committed(secondary))
         /\ Committed(stored) \subseteq Committed(secondary)
<1>1. /\ Committed(secondary) \in SUBSET Service!Pair
      /\ Committed(stored) \in SUBSET Service!Pair
  BY DEF TypeOK, Committed, Row, Service!Pair
<1>2. Service!Injective(Committed(secondary))
  <2>1. \A r, s \in secondary : (r.name = s.name) <=> (r.id = s.id)
    BY DEF FlatInv, DefineInv, Mirror, NamesUnique
  <2>2. QED
    BY <2>1, CommittedMember DEF Service!Injective
<1>3. ASSUME NEW a \in Committed(stored) PROVE a \in Committed(secondary)
  <2>1. PICK s \in stored : s.by = Base /\ a = [name |-> s.name, id |-> s.id]
    BY CommittedMember
  <2>2. PICK r \in primary : Backs(r, s)
    BY DEF FlatInv, StoreInv, DocumentsBacked
  <2>3. r.by = Base /\ r.name = s.name /\ r.id = s.id
    BY <2>1, <2>2, Levels DEF Backs
  <2>4. r \in secondary
    <3>1. \A t \in Txn : Writing(t) # Base
      BY WritingLevel, Levels
    <3>2. QED
      BY <2>3, <3>1 DEF FlatInv, DefineInv, Mirror
  <2>5. QED
    BY <2>1, <2>3, <2>4, CommittedMember
<1>4. QED
  BY <1>1, <1>2, <1>3

\* Seen through what is committed, the dictionary with its two databases, its
\* three caches, its locks and its recovery is a NameService: every step is a
\* commit of it, or changes nothing that is committed.
THEOREM DictionaryIsNameService ==
  ASSUME UserChildren = FALSE, RetryAfterFailure = FALSE
  PROVE  Spec => ImplementsService
<1> DEFINE Consistent == /\ Committed(secondary) \in SUBSET Service!Pair
                         /\ Committed(stored) \in SUBSET Service!Pair
                         /\ Service!Injective(Committed(secondary))
                         /\ Committed(stored) \subseteq Committed(secondary)
<1>1. Init => Service!Init
  BY DEF Init, Service!Init, Committed
<1>2. TypeOK' /\ FlatInv' => Consistent'
  <2>1. TypeOK /\ FlatInv => Consistent
    BY CommittedConsistent
  <2> HIDE DEF Consistent
  <2>2. QED
    BY <2>1, PTL
<1>3. TypeOK /\ TypeOK' /\ FlatInv /\ FlatInv' /\ [Next]_vars
        => [Service!Next]_<<Committed(secondary), Committed(stored)>>
  <2> SUFFICES ASSUME TypeOK, Consistent', [Next]_vars
               PROVE  Service!Commit
    BY <1>2 DEF Service!Next
  <2>1. /\ \A r \in secondary : r.by = Base => r \in secondary'
        /\ \A r \in stored : r.by = Base => r \in stored'
    BY CommittedStay
  <2>2. /\ Committed(secondary) \subseteq Committed(secondary)'
        /\ Committed(stored) \subseteq Committed(stored)'
    BY <2>1 DEF Committed, Base
  <2>3. QED
    BY <2>2 DEF Service!Commit, Service!Injective
<1>4. QED
  BY <1>1, <1>3, TypeCorrect, FlatInvariant, PTL
  DEF Spec, ImplementsService, Service!Spec
=============================================================================
