-------------------------- MODULE DictionaryProofs --------------------------
(***************************************************************************)
(* What holds of the dictionary for every set of names, transactions and   *)
(* processes and every bound on the ids: its types; under applications     *)
(* that make no child transactions, the levels rows are at and what the    *)
(* string cache of a process answers; and under any applications, which    *)
(* rows may be undone, and what the id cache of a single process answers.  *)
(***************************************************************************)
EXTENDS Dictionary, TLAPS

\* Moving rows from one level to another keeps them rows.
LEMMA LiftType ==
  ASSUME NEW S, S \subseteq Row, NEW from \in Level, NEW to \in Level
  PROVE  Lift(S, from, to) \subseteq Row
  BY DEF Lift, Row

LEMMA LiftLockType ==
  ASSUME NEW S, S \subseteq [name : Name, by : Level],
         NEW from \in Level, NEW to \in Level
  PROVE  Lift(S, from, to) \subseteq [name : Name, by : Level]
  BY DEF Lift

LEMMA LevelType ==
  ASSUME TypeOK, NEW t \in Txn
  PROVE  /\ Base \in Level /\ Own(t) \in Level /\ Op(t) \in Level
         /\ Writing(t) \in Level
  BY DEF Base, Own, Op, Level, Writing

LEMMA CachedType ==
  ASSUME TypeOK, NEW t \in Txn, NEW n \in Name, Cached(t, n) # NoId
  PROVE  Cached(t, n) \in Id
  BY ProcAssumption DEF TypeOK, Cached

\* Every variable keeps its type: in particular the string caches hold ids.
THEOREM TypeCorrect == Spec => []TypeOK
<1>1. Init => TypeOK
  BY DEF Init, TypeOK, Phase, NoArg, NoStrings, NoNames
<1>2. TypeOK /\ [Next]_vars => TypeOK'
  <2> SUFFICES ASSUME TypeOK, [Next]_vars PROVE TypeOK'
    OBVIOUS
  <2> USE DEF Phase
  <2>1. ASSUME NEW t \in Txn, Begin(t) \/ AutoBegin(t) \/ OpBegin(t)
        PROVE  TypeOK'
    BY <2>1 DEF TypeOK, Begin, AutoBegin, OpBegin, rows, caches
  <2>2. ASSUME NEW t \in Txn, OpCommit(t) PROVE TypeOK'
    <3>1. /\ primary' \subseteq Row /\ secondary' \subseteq Row
          /\ stored' \subseteq Row
      BY <2>2, LiftType, LevelType DEF TypeOK, OpCommit
    <3>2. readLock' \subseteq [name : Name, by : Level]
      BY <2>2, LiftLockType, LevelType DEF TypeOK, OpCommit
    <3> QED BY <2>2, <3>1, <3>2 DEF TypeOK, OpCommit, caches
  <2>3. ASSUME NEW t \in Txn, OpFail(t) PROVE TypeOK'
    BY <2>3 DEF TypeOK, OpFail, Drop, NoArg, caches
  <2>4. ASSUME NEW t \in Txn, Commit(t) PROVE TypeOK'
    <3> DEFINE to == IF parent[t] = NoTxn THEN Base ELSE Own(parent[t])
    <3>1. to \in Level
      BY LevelType DEF TypeOK, Own, Level
    <3>2. /\ primary' \subseteq Row /\ secondary' \subseteq Row
          /\ stored' \subseteq Row
      BY <2>4, <3>1, LiftType, LevelType DEF TypeOK, Commit
    <3>3. readLock' \subseteq [name : Name, by : Level]
      BY <2>4, <3>1, LiftLockType, LevelType DEF TypeOK, Commit, Drop
    <3> QED BY <2>4, <3>2, <3>3 DEF TypeOK, Commit, End, NoArg, NoStrings
  <2>5. ASSUME NEW t \in Txn, Abort(t) PROVE TypeOK'
    BY <2>5 DEF TypeOK, Abort, End, Drop, NoArg, NoStrings
  <2>6. ASSUME NEW t \in Txn, DefineAppend(t) PROVE TypeOK'
    <3>1. PICK i \in Id :
            /\ primary' = primary \cup
                 {[id |-> i, name |-> arg[t].name, by |-> Writing(t)]}
            /\ CacheName(ProcOf[t], i, arg[t].name)
            /\ arg' = [arg EXCEPT ![t].id = i]
      BY <2>6 DEF DefineAppend
    <3>2. arg[t].name \in Name /\ Writing(t) \in Level
      <4>1. phase[t] \in {"missed", "appended"}
        BY <2>6 DEF DefineAppend
      <4>2. arg[t].name \in Name
        BY <4>1 DEF TypeOK
      <4> QED BY <4>2, LevelType
    <3>3. primary' \subseteq Row
      BY <3>1, <3>2 DEF TypeOK, Row
    <3>4. idCache' \in [Proc -> [Id -> Name \cup {NoName}]]
      BY <3>1, <3>2, ProcAssumption DEF TypeOK, CacheName
    <3>5. /\ arg' \in [Txn -> [name : Name \cup {NoName}, id : Id \cup {NoId}]]
          /\ arg'[t].name \in Name /\ arg'[t].id \in Id
          /\ \A u \in Txn \ {t} : arg'[u] = arg[u]
      BY <3>1, <3>2 DEF TypeOK
    <3>6. \A u \in Txn \ {t} : phase'[u] = phase[u]
      BY <2>6 DEF TypeOK, DefineAppend
    <3> QED BY <2>6, <3>3, <3>4, <3>5, <3>6 DEF TypeOK, DefineAppend
  <2>7. ASSUME NEW t \in Txn, DefinePut(t) PROVE TypeOK'
    <3>1. arg[t].name \in Name /\ arg[t].id \in Id /\ Writing(t) \in Level
      <4>1. phase[t] = "appended"
        BY <2>7 DEF DefinePut
      <4>2. arg[t].name \in Name /\ arg[t].id \in Id
        BY <4>1 DEF TypeOK
      <4> QED BY <4>2, LevelType
    <3>2. secondary' \subseteq Row /\ stored' \subseteq Row
      BY <2>7, <3>1 DEF TypeOK, DefinePut, Store, Row
    <3>3. txnCache' \in [Txn -> [Name -> Id \cup {NoId}]]
      BY <2>7, <3>1 DEF TypeOK, DefinePut
    <3>4. /\ phase' \in [Txn -> Phase] /\ phase'[t] = "op"
          /\ \A u \in Txn \ {t} : phase'[u] = phase[u] /\ arg'[u] = arg[u]
          /\ arg' \in [Txn -> [name : Name \cup {NoName}, id : Id \cup {NoId}]]
      BY <2>7 DEF TypeOK, DefinePut, NoArg
    <3> QED BY <2>7, <3>2, <3>3, <3>4 DEF TypeOK, DefinePut
  <2>8. ASSUME NEW t \in Txn, NEW u \in Txn, CreateChild(t, u) PROVE TypeOK'
    BY <2>8 DEF TypeOK, CreateChild, rows, caches
  <2>9. ASSUME NEW t \in Txn, NEW n \in Name, LookupCached(t, n) PROVE TypeOK'
    BY <2>9, LevelType, CachedType DEF TypeOK, LookupCached, Store, Row, txns, caches
  <2>10. ASSUME NEW t \in Txn, NEW n \in Name, LookupFound(t, n) PROVE TypeOK'
    BY <2>10, LevelType, ProcAssumption
    DEF TypeOK, LookupFound, Store, CacheString, Row, txns
  <2>11. ASSUME NEW t \in Txn, NEW n \in Name, LookupMissed(t, n) PROVE TypeOK'
    BY <2>11, LevelType DEF TypeOK, LookupMissed, caches
  <2>12. ASSUME NEW t \in Txn, NEW n \in Name, QueryLookup(t, n) PROVE TypeOK'
    BY <2>12, ProcAssumption
    DEF TypeOK, QueryLookup, CacheString, Row, rows, txns
  <2>13. ASSUME NEW p \in Proc, NEW n \in Name, PlainLookup(p, n) PROVE TypeOK'
    BY <2>13 DEF TypeOK, PlainLookup, CacheString, Row, rows, txns
  <2>14. ASSUME NEW p \in Proc, NEW i \in Id, ReadName(p, i) PROVE TypeOK'
    BY <2>14 DEF TypeOK, ReadName, CacheName, Row, rows, txns
  <2>15. ASSUME Crash PROVE TypeOK'
    BY <2>15 DEF TypeOK, Crash, NoArg, NoStrings, NoNames
  <2>16. ASSUME UNCHANGED vars PROVE TypeOK'
    BY <2>16 DEF TypeOK, vars
  <2> QED
    BY <2>1, <2>2, <2>3, <2>4, <2>5, <2>6, <2>7, <2>8, <2>9, <2>10, <2>11,
       <2>12, <2>13, <2>14, <2>15, <2>16 DEF Next
<1>3. QED
  BY <1>1, <1>2, PTL DEF Spec

-----------------------------------------------------------------------------
(* Levels and what moves rows between them *)

LEMMA Levels ==
  /\ \A t \in Txn : /\ Own(t).txn = t /\ Op(t).txn = t
                    /\ Own(t) # Base /\ Op(t) # Base
  /\ \A t, u \in Txn : /\ Own(t) # Op(u)
                       /\ Own(t) = Own(u) => t = u
                       /\ Op(t) = Op(u) => t = u
  /\ Base.txn = NoTxn
  BY TxnAssumption DEF Own, Op, Base

LEMMA LiftMember ==
  ASSUME NEW S, S \subseteq Row, NEW from \in Level, NEW to \in Level
  PROVE  /\ \A r \in S : [id |-> r.id, name |-> r.name,
                          by |-> IF r.by = from THEN to ELSE r.by] \in Lift(S, from, to)
         /\ \A q \in Lift(S, from, to) : \E r \in S :
              /\ q = [id |-> r.id, name |-> r.name,
                      by |-> IF r.by = from THEN to ELSE r.by]
              /\ q.id = r.id /\ q.name = r.name
              /\ q.by = IF r.by = from THEN to ELSE r.by
<1>1. \A r \in S : [r EXCEPT !.by = IF @ = from THEN to ELSE @]
                     = [id |-> r.id, name |-> r.name,
                        by |-> IF r.by = from THEN to ELSE r.by]
  BY DEF Row
<1>2. ASSUME NEW q \in Lift(S, from, to)
      PROVE  \E r \in S :
               /\ q = [id |-> r.id, name |-> r.name,
                       by |-> IF r.by = from THEN to ELSE r.by]
               /\ q.id = r.id /\ q.name = r.name
               /\ q.by = IF r.by = from THEN to ELSE r.by
  <2>1. PICK r \in S : q = [r EXCEPT !.by = IF @ = from THEN to ELSE @]
    BY DEF Lift
  <2>2. q = [id |-> r.id, name |-> r.name,
             by |-> IF r.by = from THEN to ELSE r.by]
    BY <1>1, <2>1
  <2>3. QED
    BY <2>2
<1>3. ASSUME NEW r \in S
      PROVE  [id |-> r.id, name |-> r.name,
              by |-> IF r.by = from THEN to ELSE r.by] \in Lift(S, from, to)
  <2>1. [r EXCEPT !.by = IF @ = from THEN to ELSE @] \in Lift(S, from, to)
    BY DEF Lift
  <2>2. QED
    BY <1>1, <2>1
<1>4. QED
  BY <1>2, <1>3

LEMMA DropMember ==
  ASSUME NEW S, NEW level
  PROVE  \A r : r \in Drop(S, level) <=> r \in S /\ r.by # level
  BY DEF Drop

LEMMA WritingLevel ==
  ASSUME NEW t \in Txn
  PROVE  Writing(t) \in {Own(t), Op(t)}
  BY DEF Writing

-----------------------------------------------------------------------------
(* What a transaction is nested in, where `up' gives each its parent *)

LEMMA NestingMember ==
  ASSUME NEW up, NEW t \in Txn
  PROVE  t \in Nesting(up, t) /\ Nesting(up, t) \subseteq Txn
  BY DEF Nesting

LEMMA NestingLeast ==
  ASSUME NEW up, NEW t \in Txn, NEW S \in SUBSET Txn, t \in S,
         \A v \in S : up[v] \in S \cup {NoTxn}
  PROVE  Nesting(up, t) \subseteq S
  BY DEF Nesting

LEMMA NestingTop ==
  ASSUME NEW up, NEW t \in Txn, up[t] = NoTxn
  PROVE  Nesting(up, t) = {t}
<1>1. t \in Nesting(up, t)
  BY NestingMember
<1>2. Nesting(up, t) \subseteq {t}
  <2>1. {t} \in SUBSET Txn /\ t \in {t} /\ \A v \in {t} : up[v] \in {t} \cup {NoTxn}
    OBVIOUS
  <2> DEFINE S == {t}
  <2> HIDE DEF S
  <2>2. S \in SUBSET Txn /\ t \in S /\ \A v \in S : up[v] \in S \cup {NoTxn}
    BY <2>1 DEF S
  <2>3. Nesting(up, t) \subseteq S
    BY <2>2, NestingLeast
  <2> QED BY <2>3 DEF S
<1> QED BY <1>1, <1>2

LEMMA NestingOfChild ==
  ASSUME NEW up, up \in [Txn -> Txn \cup {NoTxn}], NEW t \in Txn, up[t] \in Txn
  PROVE  Nesting(up, t) = {t} \cup Nesting(up, up[t])
<1> DEFINE S == {t} \cup Nesting(up, up[t])
<1>1. \A v \in Nesting(up, up[t]) : up[v] \in Nesting(up, up[t]) \cup {NoTxn}
  BY DEF Nesting
<1>2. S \in SUBSET Txn /\ t \in S /\ \A v \in S : up[v] \in S \cup {NoTxn}
  BY <1>1, NestingMember
<1>3. Nesting(up, t) \subseteq S
  <2> HIDE DEF S
  <2> QED BY <1>2, NestingLeast
<1>4. Nesting(up, up[t]) \subseteq Nesting(up, t)
  BY TxnAssumption DEF Nesting
<1> QED BY <1>3, <1>4, NestingMember

LEMMA NestingTransitive ==
  ASSUME NEW up, NEW t \in Txn, NEW u \in Nesting(up, t)
  PROVE  Nesting(up, u) \subseteq Nesting(up, t)
  BY DEF Nesting

\* Nothing is nested in what is nobody's parent,
LEMMA NestingInParents ==
  ASSUME NEW up, up \in [Txn -> Txn \cup {NoTxn}], NEW u \in Txn, \A v \in Txn : up[v] # u
  PROVE  \A v \in Txn \ {u} : u \notin Nesting(up, v)
<1>1. \A v \in Txn \ {u} : up[v] \in (Txn \ {u}) \cup {NoTxn}
  OBVIOUS
<1>2. ASSUME NEW v \in Txn \ {u} PROVE u \notin Nesting(up, v)
  <2> DEFINE S == Txn \ {u}
  <2>1. S \in SUBSET Txn /\ v \in S /\ u \notin S /\ \A w \in S : up[w] \in S \cup {NoTxn}
    BY <1>1
  <2> HIDE DEF S
  <2>2. Nesting(up, v) \subseteq S
    BY <2>1, NestingLeast
  <2> QED BY <2>1, <2>2
<1> QED BY <1>2

\* and it matters to nobody else what that is nested in.
LEMMA NestingOfOthers ==
  ASSUME NEW up, NEW new, NEW u \in Txn, \A v \in Txn \ {u} : new[v] = up[v],
         \A v \in Txn \ {u} : up[v] # u
  PROVE  \A v \in Txn \ {u} : Nesting(up, v) = Nesting(new, v)
<1>1. ASSUME NEW f, NEW g, \A v \in Txn \ {u} : f[v] = g[v] /\ f[v] # u,
             NEW v \in Txn \ {u}, NEW x \in Nesting(f, v)
      PROVE  x \in Nesting(g, v)
  <2>1. ASSUME NEW S \in SUBSET Txn, v \in S, \A w \in S : g[w] \in S \cup {NoTxn}
        PROVE  x \in S
    <3>1. S \ {u} \in SUBSET Txn /\ v \in S \ {u}
      BY <2>1
    <3>2. \A w \in S \ {u} : f[w] \in (S \ {u}) \cup {NoTxn}
      BY <1>1, <2>1
    <3> QED BY <3>1, <3>2, <1>1, NestingLeast
  <2>2. x \in Txn
    BY <1>1, NestingMember
  <2> QED BY <2>1, <2>2 DEF Nesting
<1>2. ASSUME NEW v \in Txn \ {u}
      PROVE  Nesting(up, v) \subseteq Nesting(new, v) /\ Nesting(new, v) \subseteq Nesting(up, v)
  BY <1>1
<1> QED BY <1>2

-----------------------------------------------------------------------------
(* What is seen without children *)

\* Without children a transaction sees what is committed and what is its own.
LEMMA VisibleFlat ==
  ASSUME TypeOK, LevelInv, NEW t \in Txn,
         NEW r \in primary \cup secondary, Visible(t, r)
  PROVE  r.by \in {Base, Own(t), Op(t)}
<1>1. r.by = Base \/ r.by.txn = t
  BY NestingTop DEF Visible, Family, LevelInv
<1>2. CASE r.by.txn = t
  <2>1. r.by = Base \/ \E u \in Txn : r.by = Own(u) \/ r.by = Op(u)
    BY DEF LevelInv
  <2>2. QED
    BY <1>2, <2>1, Levels
<1>3. QED
  BY <1>1, <1>2

-----------------------------------------------------------------------------
(* LevelInv *)

LEMMA LevelStep ==
  ASSUME UserChildren = FALSE, TypeOK, LevelInv, [Next]_vars
  PROVE  LevelInv'
<1> USE DEF LevelInv, Running
<1>1. ASSUME NEW t \in Txn, Begin(t) \/ AutoBegin(t) \/ OpBegin(t)
      PROVE  LevelInv'
  <2>1. \A u \in Txn : phase[u] \in Running /\ ~auto[u] =>
                         phase'[u] \in Running /\ ~auto'[u]
    BY <1>1 DEF TypeOK, Begin, AutoBegin, OpBegin, rows
  <2>2. UNCHANGED <<primary, secondary, stored, parent>>
    BY <1>1 DEF Begin, AutoBegin, OpBegin, rows
  <2>3. QED
    BY <2>1, <2>2 DEF Own, Op, Base
<1>2. ASSUME NEW t \in Txn, OpCommit(t) PROVE LevelInv'
  <2>1. \A q \in primary' \cup secondary' \cup stored' :
          \E r \in primary \cup secondary \cup stored :
            q.by = IF r.by = Op(t) THEN Own(t) ELSE r.by
    <3>1. Op(t) \in Level /\ Own(t) \in Level
      BY LevelType
    <3>2. primary \subseteq Row /\ secondary \subseteq Row /\ stored \subseteq Row
      BY DEF TypeOK
    <3>3. /\ \A q \in Lift(primary, Op(t), Own(t)) : \E r \in primary :
               q.by = IF r.by = Op(t) THEN Own(t) ELSE r.by
          /\ \A q \in Lift(secondary, Op(t), Own(t)) : \E r \in secondary :
               q.by = IF r.by = Op(t) THEN Own(t) ELSE r.by
          /\ \A q \in Lift(stored, Op(t), Own(t)) : \E r \in stored :
               q.by = IF r.by = Op(t) THEN Own(t) ELSE r.by
      BY <3>1, <3>2, LiftMember
    <3>4. QED
      BY <1>2, <3>3 DEF OpCommit
  <2>2. \A u \in Txn \ {t} : phase'[u] = phase[u]
    BY <1>2 DEF OpCommit, TypeOK
  <2>3. UNCHANGED <<auto, parent>>
    BY <1>2 DEF OpCommit
  <2>4. ASSUME NEW q \in primary' \cup secondary' \cup stored'
        PROVE  q.by = Base \/ \E u \in Txn :
                 q.by = Own(u) \/ (q.by = Op(u) /\ phase'[u] \in Running /\ ~auto'[u])
    <3>1. PICK r \in primary \cup secondary \cup stored :
            q.by = IF r.by = Op(t) THEN Own(t) ELSE r.by
      BY <2>1
    <3>2. CASE r.by = Op(t)
      BY <3>1, <3>2
    <3>3. CASE r.by # Op(t)
      BY <3>1, <3>3, <2>2, <2>3
    <3>4. QED
      BY <3>2, <3>3
  <2>5. QED
    BY <2>3, <2>4 DEF Own, Op, Base
<1>3. ASSUME NEW t \in Txn, OpFail(t) PROVE LevelInv'
  <2>1. \A q \in primary' \cup secondary' \cup stored' :
          q \in primary \cup secondary \cup stored /\ q.by # Op(t)
    BY <1>3, DropMember DEF OpFail
  <2>2. \A u \in Txn \ {t} : phase'[u] = phase[u]
    BY <1>3 DEF OpFail, TypeOK
  <2>3. UNCHANGED <<auto, parent>>
    BY <1>3 DEF OpFail
  <2>4. QED
    BY <2>1, <2>2, <2>3 DEF Own, Op, Base
<1>4. ASSUME NEW t \in Txn, Commit(t) \/ Abort(t) PROVE LevelInv'
  <2>1. /\ parent[t] = NoTxn
        /\ \A r \in primary \cup secondary \cup stored : r.by # Op(t)
    BY <1>4, Levels DEF Commit, Abort, MayCommit, MayAbort
  <2>2. \A q \in primary' \cup secondary' \cup stored' :
          q.by = Base \/ (q \in primary \cup secondary \cup stored /\ q.by # Op(t))
    <3>1. CASE Commit(t)
      <4>1. \A q \in primary' \cup secondary' \cup stored' :
              \E r \in primary \cup secondary \cup stored :
                /\ q.by = IF r.by = Own(t) THEN Base ELSE r.by
                /\ q = [id |-> r.id, name |-> r.name,
                        by |-> IF r.by = Own(t) THEN Base ELSE r.by]
        BY <3>1, <2>1, LiftMember, LevelType DEF Commit, TypeOK
      <4>2. \A r \in primary \cup secondary \cup stored :
              r = [id |-> r.id, name |-> r.name, by |-> r.by]
        BY DEF TypeOK, Row
      <4>3. QED
        BY <4>1, <4>2, <2>1
    <3>2. CASE Abort(t)
      BY <3>2, <2>1, DropMember DEF Abort
    <3>3. QED
      BY <1>4, <3>1, <3>2
  <2>3. /\ \A u \in Txn \ {t} : phase'[u] = phase[u] /\ auto'[u] = auto[u]
        /\ \A u \in Txn : parent'[u] = NoTxn
    BY <1>4, <2>1 DEF Commit, Abort, End, TypeOK
  <2>4. ASSUME NEW q \in primary' \cup secondary' \cup stored', q.by # Base
        PROVE  \E u \in Txn :
                 q.by = Own(u) \/ (q.by = Op(u) /\ phase'[u] \in Running /\ ~auto'[u])
    <3>1. q \in primary \cup secondary \cup stored /\ q.by # Op(t)
      BY <2>2, <2>4
    <3>2. PICK u \in Txn :
            q.by = Own(u) \/ (q.by = Op(u) /\ phase[u] \in Running /\ ~auto[u])
      BY <2>4, <3>1
    <3>3. QED
      BY <2>3, <3>1, <3>2
  <2>5. QED
    BY <2>3, <2>4 DEF Own, Op, Base
<1>5. ASSUME NEW t \in Txn, DefineAppend(t) \/ DefinePut(t) PROVE LevelInv'
  <2>1. \A q \in primary' \cup secondary' \cup stored' :
          q \in primary \cup secondary \cup stored \/ q.by = Writing(t)
    BY <1>5 DEF DefineAppend, DefinePut, Store
  <2>2. \A u \in Txn : phase[u] \in Running => phase'[u] \in Running
    BY <1>5 DEF DefineAppend, DefinePut, TypeOK
  <2>3. UNCHANGED <<auto, parent>>
    BY <1>5 DEF DefineAppend, DefinePut
  <2>4. phase[t] \in Running
    BY <1>5 DEF DefineAppend, DefinePut
  <2>5. QED
    BY <2>1, <2>2, <2>3, <2>4 DEF Own, Op, Base, Writing
<1>6. ASSUME NEW t \in Txn, NEW u \in Txn, CreateChild(t, u) PROVE LevelInv'
  BY <1>6 DEF CreateChild
<1>7. ASSUME NEW t \in Txn, NEW n \in Name,
             LookupCached(t, n) \/ LookupFound(t, n) \/ LookupMissed(t, n)
      PROVE  LevelInv'
  <2>1. \A q \in primary' \cup secondary' \cup stored' :
          q \in primary \cup secondary \cup stored \/ q.by = Writing(t)
    BY <1>7 DEF LookupCached, LookupFound, LookupMissed, Store
  <2>2. \A u \in Txn : phase[u] \in Running => phase'[u] \in Running
    BY <1>7 DEF LookupCached, LookupFound, LookupMissed, TypeOK, txns
  <2>3. UNCHANGED <<auto, parent>> /\ phase[t] \in Running
    BY <1>7 DEF LookupCached, LookupFound, LookupMissed, txns
  <2>4. QED
    BY <2>1, <2>2, <2>3 DEF Own, Op, Base, Writing
<1>8. ASSUME NEW t \in Txn, NEW n \in Name, QueryLookup(t, n) PROVE LevelInv'
  BY <1>8 DEF QueryLookup, rows, txns, Own, Op, Base
<1>9. ASSUME NEW p \in Proc, NEW n \in Name, PlainLookup(p, n) PROVE LevelInv'
  BY <1>9 DEF PlainLookup, rows, txns, Own, Op, Base
<1>10. ASSUME NEW p \in Proc, NEW i \in Id, ReadName(p, i) PROVE LevelInv'
  BY <1>10 DEF ReadName, rows, txns, Own, Op, Base
<1>11. ASSUME Crash PROVE LevelInv'
  BY <1>11 DEF Crash, Own, Op, Base
<1>12. ASSUME UNCHANGED vars PROVE LevelInv'
  BY <1>12 DEF vars, Own, Op, Base
<1>13. QED
  BY <1>1, <1>2, <1>3, <1>4, <1>5, <1>6, <1>7, <1>8, <1>9, <1>10, <1>11, <1>12
  DEF Next

-----------------------------------------------------------------------------
(* CacheInv *)

LEMMA LiftKeeps ==
  ASSUME NEW S, S \subseteq Row, NEW from \in Level, NEW to \in Level,
         NEW r \in S, r.by # from
  PROVE  r \in Lift(S, from, to)
<1>1. r = [id |-> r.id, name |-> r.name, by |-> r.by]
  BY DEF Row
<1>2. QED
  BY <1>1, LiftMember

\* No step takes back what has been committed.
LEMMA CommittedStay ==
  ASSUME TypeOK, [Next]_vars
  PROVE  /\ \A r \in primary : r.by = Base => r \in primary'
         /\ \A r \in secondary : r.by = Base => r \in secondary'
         /\ \A r \in stored : r.by = Base => r \in stored'
<1> DEFINE Kept == /\ \A r \in primary : r.by = Base => r \in primary'
                   /\ \A r \in secondary : r.by = Base => r \in secondary'
                   /\ \A r \in stored : r.by = Base => r \in stored'
<1>0. primary \subseteq Row /\ secondary \subseteq Row /\ stored \subseteq Row
  BY DEF TypeOK
<1>1. ASSUME NEW t \in Txn, OpCommit(t) PROVE Kept
  <2>1. /\ \A r \in primary : r.by = Base => r \in Lift(primary, Op(t), Own(t))
        /\ \A r \in secondary : r.by = Base => r \in Lift(secondary, Op(t), Own(t))
        /\ \A r \in stored : r.by = Base => r \in Lift(stored, Op(t), Own(t))
    BY <1>0, LiftKeeps, LevelType, Levels
  <2>2. QED
    BY <1>1, <2>1 DEF OpCommit
<1>2. ASSUME NEW t \in Txn, Commit(t) PROVE Kept
  <2> DEFINE to == IF parent[t] = NoTxn THEN Base ELSE Own(parent[t])
  <2>1. to \in Level /\ Own(t) \in Level
    BY LevelType DEF TypeOK, Own, Level
  <2>2. /\ \A r \in primary : r.by = Base => r \in Lift(primary, Own(t), to)
        /\ \A r \in secondary : r.by = Base => r \in Lift(secondary, Own(t), to)
        /\ \A r \in stored : r.by = Base => r \in Lift(stored, Own(t), to)
    <3> HIDE DEF to
    <3> QED BY <1>0, <2>1, LiftKeeps, Levels
  <2>3. QED
    BY <1>2, <2>2 DEF Commit
<1>3. ASSUME NEW t \in Txn, OpFail(t) \/ Abort(t) PROVE Kept
  BY <1>3, DropMember, Levels DEF OpFail, Abort
<1>4. ASSUME NEW t \in Txn,
             \/ Begin(t) \/ AutoBegin(t) \/ OpBegin(t)
             \/ DefineAppend(t) \/ DefinePut(t)
             \/ \E u \in Txn : CreateChild(t, u)
             \/ \E n \in Name : \/ LookupCached(t, n) \/ LookupFound(t, n)
                                \/ LookupMissed(t, n) \/ QueryLookup(t, n)
      PROVE  Kept
  BY <1>4 DEF Begin, AutoBegin, OpBegin, DefineAppend, DefinePut, CreateChild,
              LookupCached, LookupFound, LookupMissed, QueryLookup, Store, rows
<1>5. ASSUME NEW p \in Proc, \/ \E n \in Name : PlainLookup(p, n)
                             \/ \E i \in Id : ReadName(p, i)
      PROVE  Kept
  BY <1>5 DEF PlainLookup, ReadName, rows
<1>6. ASSUME Crash \/ UNCHANGED vars PROVE Kept
  BY <1>6 DEF Crash, vars
<1>7. QED
  BY <1>1, <1>2, <1>3, <1>4, <1>5, <1>6 DEF Next

\* A row of its own that is not committed answers no lookup of a transaction.
LEMMA FoundIsCommitted ==
  ASSUME TypeOK, LevelInv, CacheInv, NEW t \in Txn, NEW n \in Name,
         Cached(t, n) = NoId, NEW r \in secondary, r.name = n, Visible(t, r)
  PROVE  r.by = Base
<1>1. r.by \in {Base, Own(t), Op(t)}
  BY VisibleFlat
<1>2. txnCache[t][n] = NoId
  BY DEF Cached
<1>3. QED
  BY <1>1, <1>2 DEF CacheInv

\* The cache of a process gains what was read from a committed row.
LEMMA CacheRead ==
  ASSUME TypeOK, StringCacheCommitted, NEW p \in Proc, NEW n \in Name,
         NEW r \in secondary, r.name = n, r.by = Base,
         CacheString(p, n, r.id), UNCHANGED secondary
  PROVE  StringCacheCommitted'
<1>1. stringCache \in [Proc -> [Name -> Id \cup {NoId}]]
  BY DEF TypeOK
<1>2. stringCache' = [stringCache EXCEPT ![p] = [stringCache[p] EXCEPT ![n] = r.id]]
  BY <1>1 DEF CacheString
<1>3. ASSUME NEW q \in Proc, NEW m \in Name, stringCache'[q][m] # NoId
      PROVE  \E s \in secondary :
               s.by = Base /\ s.name = m /\ s.id = stringCache'[q][m]
  <2>1. CASE q = p /\ m = n
    <3>1. stringCache'[q][m] = r.id
      BY <1>1, <1>2, <2>1
    <3>2. QED
      BY <2>1, <3>1
  <2>2. CASE ~(q = p /\ m = n)
    <3>1. stringCache'[q][m] = stringCache[q][m]
      BY <1>1, <1>2, <2>2
    <3>2. QED
      BY <1>3, <3>1 DEF StringCacheCommitted
  <2>3. QED
    BY <2>1, <2>2
<1>4. QED
  BY <1>3 DEF StringCacheCommitted, Base

LEMMA CacheStep ==
  ASSUME UserChildren = FALSE, TypeOK, LevelInv, CacheInv, [Next]_vars
  PROVE  CacheInv'
<1> DEFINE Held == \A t \in Txn, r \in secondary :
                     r.by \in {Own(t), Op(t)} => txnCache[t][r.name] # NoId
<1>a. Held
  BY DEF CacheInv
<1>b. \A r \in secondary : r.by = Base => r \in secondary'
  BY CommittedStay
<1>c. ASSUME UNCHANGED stringCache PROVE StringCacheCommitted'
  BY <1>b, <1>c DEF CacheInv, StringCacheCommitted, Base
<1>1. ASSUME NEW t \in Txn,
             \/ Begin(t) \/ AutoBegin(t) \/ OpBegin(t) \/ DefineAppend(t)
             \/ \E u \in Txn : CreateChild(t, u)
             \/ \E n \in Name : LookupCached(t, n) \/ LookupMissed(t, n)
      PROVE  CacheInv'
  <2>1. UNCHANGED <<secondary, txnCache, stringCache>>
    BY <1>1 DEF Begin, AutoBegin, OpBegin, DefineAppend, CreateChild,
                LookupCached, LookupMissed, rows, caches
  <2>2. Held'
    BY <1>a, <2>1 DEF Own, Op
  <2>3. QED
    BY <1>c, <2>1, <2>2 DEF CacheInv, Own, Op
<1>2. ASSUME NEW t \in Txn, OpCommit(t) PROVE CacheInv'
  <2>1. UNCHANGED <<txnCache, stringCache>>
    BY <1>2 DEF OpCommit, caches
  <2>2. secondary \subseteq Row /\ Op(t) \in Level /\ Own(t) \in Level
    BY LevelType DEF TypeOK
  <2>3. \A q \in secondary' : \E r \in secondary :
          q.name = r.name /\ q.by = IF r.by = Op(t) THEN Own(t) ELSE r.by
    BY <1>2, <2>2, LiftMember DEF OpCommit
  <2>4. ASSUME NEW u \in Txn, NEW q \in secondary', q.by \in {Own(u), Op(u)}
        PROVE  txnCache[u][q.name] # NoId
    <3>1. PICK r \in secondary :
            q.name = r.name /\ q.by = IF r.by = Op(t) THEN Own(t) ELSE r.by
      BY <2>3
    <3>2. CASE r.by = Op(t)
      BY <1>a, <2>4, <3>1, <3>2, Levels
    <3>3. CASE r.by # Op(t)
      BY <1>a, <2>4, <3>1, <3>3
    <3>4. QED
      BY <3>2, <3>3
  <2>5. QED
    BY <1>c, <2>1, <2>4 DEF CacheInv, Own, Op
<1>3. ASSUME NEW t \in Txn, OpFail(t) PROVE CacheInv'
  <2>1. UNCHANGED <<txnCache, stringCache>> /\ secondary' \subseteq secondary
    BY <1>3, DropMember DEF OpFail, caches
  <2>2. QED
    BY <1>a, <1>c, <2>1 DEF CacheInv, Own, Op
<1>4. ASSUME NEW t \in Txn, Commit(t) \/ Abort(t) PROVE CacheInv'
  <2>1. /\ parent[t] = NoTxn
        /\ \A r \in secondary : r.by # Op(t)
    BY <1>4, Levels DEF Commit, Abort, MayCommit, MayAbort, LevelInv, Running
  <2>2. /\ UNCHANGED stringCache
        /\ \A u \in Txn \ {t} : txnCache'[u] = txnCache[u]
    BY <1>4 DEF Commit, Abort, End, TypeOK
  <2>3. ASSUME NEW u \in Txn, NEW q \in secondary', q.by \in {Own(u), Op(u)}
        PROVE  u # t /\ q \in secondary
    <3>1. CASE Commit(t)
      <4>1. secondary \subseteq Row /\ Base \in Level /\ Own(t) \in Level
        BY LevelType DEF TypeOK
      <4>2. PICK r \in secondary :
              /\ q = [id |-> r.id, name |-> r.name,
                      by |-> IF r.by = Own(t) THEN Base ELSE r.by]
              /\ q.by = IF r.by = Own(t) THEN Base ELSE r.by
        BY <3>1, <2>1, <4>1, LiftMember DEF Commit
      <4>3. r.by # Own(t) /\ q.by = r.by
        BY <2>3, <4>2, Levels
      <4>4. r = [id |-> r.id, name |-> r.name, by |-> r.by]
        BY <4>1 DEF Row
      <4>5. QED
        BY <2>1, <2>3, <4>2, <4>3, <4>4
    <3>2. CASE Abort(t)
      BY <2>1, <2>3, <3>2, DropMember DEF Abort
    <3>3. QED
      BY <1>4, <3>1, <3>2
  <2>4. Held'
    BY <1>a, <2>2, <2>3 DEF Own, Op
  <2>5. QED
    BY <1>c, <2>2, <2>4 DEF CacheInv, Own, Op
<1>5. ASSUME NEW t \in Txn, DefinePut(t) PROVE CacheInv'
  <2>1. arg[t].name \in Name /\ arg[t].id \in Id /\ arg[t].id # NoId
    BY <1>5, IdAssumption DEF DefinePut, TypeOK, Id
  <2>2. /\ secondary' = secondary \cup
             {[id |-> arg[t].id, name |-> arg[t].name, by |-> Writing(t)]}
        /\ txnCache' = [txnCache EXCEPT ![t][arg[t].name] = arg[t].id]
        /\ UNCHANGED stringCache
    BY <1>5 DEF DefinePut
  <2>3. txnCache \in [Txn -> [Name -> Id \cup {NoId}]] /\ secondary \subseteq Row
    BY DEF TypeOK
  <2>4. \A u \in Txn, n \in Name : txnCache[u][n] # NoId => txnCache'[u][n] # NoId
    BY <2>1, <2>2, <2>3
  <2>5. txnCache'[t][arg[t].name] # NoId
    BY <2>1, <2>2, <2>3
  <2>6. ASSUME NEW u \in Txn, NEW q \in secondary', q.by \in {Own(u), Op(u)}
        PROVE  txnCache'[u][q.name] # NoId
    <3>1. CASE q \in secondary
      <4>1. q.name \in Name
        BY <2>3, <3>1 DEF Row
      <4>2. QED
        BY <1>a, <2>4, <2>6, <3>1, <4>1
    <3>2. CASE q = [id |-> arg[t].id, name |-> arg[t].name, by |-> Writing(t)]
      <4>1. u = t /\ q.name = arg[t].name
        BY <2>6, <3>2, WritingLevel, Levels
      <4>2. QED
        BY <4>1, <2>5
    <3>3. QED
      BY <2>2, <3>1, <3>2
  <2>7. QED
    BY <1>c, <2>2, <2>6 DEF CacheInv, Own, Op
<1>6. ASSUME NEW t \in Txn, NEW n \in Name, LookupFound(t, n) \/ QueryLookup(t, n)
      PROVE  CacheInv'
  <2>1. UNCHANGED <<secondary, txnCache>>
    BY <1>6 DEF LookupFound, QueryLookup, rows
  <2>2. PICK r \in secondary :
          /\ r.name = n /\ Visible(t, r) /\ Cached(t, n) = NoId
          /\ CacheString(ProcOf[t], n, r.id)
    BY <1>6 DEF LookupFound, QueryLookup
  <2>3. r.by = Base
    BY <2>2, FoundIsCommitted
  <2>4. ProcOf[t] \in Proc /\ StringCacheCommitted
    BY ProcAssumption DEF CacheInv
  <2>5. StringCacheCommitted'
    BY <2>1, <2>2, <2>3, <2>4, CacheRead
  <2>6. QED
    BY <1>a, <2>1, <2>5 DEF CacheInv, Own, Op
<1>7. ASSUME NEW p \in Proc, NEW n \in Name, PlainLookup(p, n) PROVE CacheInv'
  <2>1. UNCHANGED <<secondary, txnCache>>
    BY <1>7 DEF PlainLookup, rows
  <2>2. PICK r \in secondary :
          r.name = n /\ r.by = Base /\ CacheString(p, n, r.id)
    BY <1>7 DEF PlainLookup
  <2>3. StringCacheCommitted'
    BY <2>1, <2>2, CacheRead DEF CacheInv
  <2>4. QED
    BY <1>a, <2>1, <2>3 DEF CacheInv, Own, Op
<1>8. ASSUME NEW p \in Proc, NEW i \in Id, ReadName(p, i) PROVE CacheInv'
  <2>1. UNCHANGED <<secondary, txnCache, stringCache>>
    BY <1>8 DEF ReadName, rows
  <2>2. QED
    BY <1>a, <1>c, <2>1 DEF CacheInv, Own, Op
<1>9. ASSUME Crash PROVE CacheInv'
  <2>1. \A r \in secondary' : r.by = Base
    BY <1>9 DEF Crash
  <2>2. \A p \in Proc, n \in Name : stringCache'[p][n] = NoId
    BY <1>9 DEF Crash, NoStrings
  <2>3. QED
    BY <2>1, <2>2, Levels DEF CacheInv, StringCacheCommitted, Own, Op
<1>10. ASSUME UNCHANGED vars PROVE CacheInv'
  BY <1>10, <1>a, <1>c DEF vars, CacheInv, Own, Op
<1>11. QED
  BY <1>1, <1>2, <1>3, <1>4, <1>5, <1>6, <1>7, <1>8, <1>9, <1>10 DEF Next

LEMMA FlatInit == Init => LevelInv /\ CacheInv
  BY DEF Init, LevelInv, CacheInv, StringCacheCommitted, NoStrings

\* Where applications make no child transactions, an answer from the cache
\* shared by the transactions of a process was committed, whatever fails and
\* whether or not they go on after a failure.
THEOREM CommittedAnswers ==
  ASSUME UserChildren = FALSE
  PROVE  Spec => []StringCacheCommitted
<1>1. TypeOK /\ LevelInv /\ CacheInv /\ [Next]_vars => LevelInv' /\ CacheInv'
  BY LevelStep, CacheStep
<1>2. CacheInv => StringCacheCommitted
  BY DEF CacheInv
<1>3. QED
  BY <1>1, <1>2, FlatInit, TypeCorrect, PTL DEF Spec
-----------------------------------------------------------------------------
(* UndoInv: the rows that may be undone, with children and after failures *)

\* When the parent of t changes, which is itself nobody's parent.
LEMMA FamilyOfOthers ==
  ASSUME TypeOK, NEW t \in Txn, \A v \in Txn : parent[v] # t,
         \A v \in Txn \ {t} : parent'[v] = parent[v]
  PROVE  \A v \in Txn \ {t} : Family(v)' = Family(v) /\ t \notin Family(v)
<1>1. \A v \in Txn \ {t} : Nesting(parent, v) = Nesting(parent', v)
  BY NestingOfOthers
<1>2. \A v \in Txn \ {t} : t \notin Nesting(parent, v)
  <2>1. parent \in [Txn -> Txn \cup {NoTxn}]
    BY DEF TypeOK
  <2> QED BY <2>1, NestingInParents
<1> QED BY <1>1, <1>2 DEF Family

LEMMA FamilyStep ==
  ASSUME TypeOK, FamilyInv, [Next]_vars
  PROVE  FamilyInv'
<1>1. ASSUME NEW t \in Txn, UNCHANGED parent,
             \A u \in Txn \ {t} : phase'[u] = phase[u],
             phase[t] # "open" \/ ~HasChild(t),
             phase'[t] # "none"
      PROVE  FamilyInv'
  BY <1>1 DEF HasChild, TypeOK, FamilyInv, Family
<1>2. ASSUME NEW t \in Txn,
             \/ Begin(t) \/ AutoBegin(t) \/ OpBegin(t) \/ OpCommit(t) \/ OpFail(t)
             \/ DefineAppend(t) \/ DefinePut(t)
             \/ \E n \in Name : LookupMissed(t, n)
      PROVE  FamilyInv'
  <2>1. UNCHANGED parent /\ \A u \in Txn \ {t} : phase'[u] = phase[u]
    BY <1>2 DEF TypeOK, Begin, AutoBegin, OpBegin, OpCommit, OpFail,
                DefineAppend, DefinePut, LookupMissed
  <2>2. phase[t] # "open" \/ ~HasChild(t)
    BY <1>2 DEF Begin, AutoBegin, OpBegin, OpCommit, OpFail, Running,
                DefineAppend, DefinePut, LookupMissed
  <2>3. phase'[t] # "none"
    BY <1>2 DEF TypeOK, Begin, AutoBegin, OpBegin, OpCommit, OpFail,
                DefineAppend, DefinePut, LookupMissed
  <2>4. QED
    BY <1>1, <2>1, <2>2, <2>3
<1>3. ASSUME NEW t \in Txn, NEW u \in Txn, CreateChild(t, u) PROVE FamilyInv'
  <2>1. phase[t] = "open" /\ phase[u] = "none" /\ u # t
    BY <1>3 DEF CreateChild
  <2>2. /\ phase'[u] = "open" /\ \A v \in Txn \ {u} : phase'[v] = phase[v]
        /\ parent'[u] = t /\ \A v \in Txn \ {u} : parent'[v] = parent[v]
    BY <1>3 DEF CreateChild, TypeOK
  <2>3. parent[u] = NoTxn /\ \A v \in Txn : parent[v] # u
    BY <2>1, TxnAssumption DEF FamilyInv
  <2>4. \A v \in Txn \ {u} : Family(v)' = Family(v) /\ u \notin Family(v)
    BY <2>2, <2>3, FamilyOfOthers
  <2>5. \A v \in Txn : phase'[v] = "none" => parent'[v] = NoTxn
    BY <2>1, <2>2 DEF FamilyInv
  <2>6. \A v \in Txn : parent'[v] # NoTxn => phase'[parent'[v]] = "open"
    BY <2>1, <2>2, <2>3 DEF TypeOK, FamilyInv
  <2>7. ASSUME NEW v \in Txn, NEW w \in Txn, v \in Family(w)', w \in Family(v)'
        PROVE  v = w
    <3>1. CASE v = u \/ w = u
      BY <2>4, <2>7, <3>1
    <3>2. CASE v # u /\ w # u
      BY <2>4, <2>7, <3>2 DEF FamilyInv
    <3> QED BY <3>1, <3>2
  <2> QED BY <2>5, <2>6, <2>7 DEF FamilyInv
<1>4. ASSUME NEW t \in Txn, Commit(t) \/ Abort(t) PROVE FamilyInv'
  <2>1. \A v \in Txn : parent[v] # t
    BY <1>4, TxnAssumption
       DEF FamilyInv, Commit, Abort, MayCommit, MayAbort, HasChild, Running
  <2>2. /\ phase'[t] = "none" /\ \A v \in Txn \ {t} : phase'[v] = phase[v]
        /\ parent'[t] = NoTxn /\ \A v \in Txn \ {t} : parent'[v] = parent[v]
    BY <1>4 DEF Commit, Abort, End, TypeOK
  <2>3. \A v \in Txn \ {t} : Family(v)' = Family(v) /\ t \notin Family(v)
    BY <2>1, <2>2, FamilyOfOthers
  <2>4. \A v \in Txn : phase'[v] = "none" => parent'[v] = NoTxn
    BY <2>2 DEF FamilyInv
  <2>5. \A v \in Txn : parent'[v] # NoTxn => phase'[parent'[v]] = "open"
    BY <2>1, <2>2 DEF TypeOK, FamilyInv
  <2>6. ASSUME NEW v \in Txn, NEW w \in Txn, v \in Family(w)', w \in Family(v)'
        PROVE  v = w
    <3>1. CASE v = t \/ w = t
      BY <2>3, <2>6, <3>1
    <3>2. CASE v # t /\ w # t
      BY <2>3, <2>6, <3>2 DEF FamilyInv
    <3> QED BY <3>1, <3>2
  <2> QED BY <2>4, <2>5, <2>6 DEF FamilyInv
<1>5. ASSUME \/ \E t \in Txn, n \in Name :
                  LookupCached(t, n) \/ LookupFound(t, n) \/ QueryLookup(t, n)
             \/ \E p \in Proc, n \in Name : PlainLookup(p, n)
             \/ \E p \in Proc, i \in Id : ReadName(p, i)
             \/ UNCHANGED vars
      PROVE  FamilyInv'
  <2>1. UNCHANGED <<phase, parent>>
    BY <1>5 DEF LookupCached, LookupFound, QueryLookup, PlainLookup, ReadName,
                txns, vars
  <2>2. QED
    BY <2>1 DEF FamilyInv, Family
<1>6. ASSUME Crash PROVE FamilyInv'
  <2>1. \A u \in Txn : parent'[u] = NoTxn
    BY <1>6 DEF Crash
  <2>2. \A u \in Txn : Family(u)' = {u}
    BY <2>1, NestingTop DEF Family
  <2> QED BY <2>1, <2>2 DEF FamilyInv
<1>7. QED
  BY <1>2, <1>3, <1>4, <1>5, <1>6 DEF Next

\* What a step does to primary, which the other conjuncts are about: nothing, one
\* more row, rows moved to another level, or the rows of levels dropped.
LEMMA PrimaryKept ==
  ASSUME TypeOK, [Next]_vars
  PROVE  \/ UNCHANGED <<primary, parent>>
         \/ \E t, u \in Txn : CreateChild(t, u) /\ UNCHANGED primary
         \/ \E t \in Txn : OpCommit(t) \/ OpFail(t) \/ Commit(t) \/ Abort(t)
                           \/ DefineAppend(t)
         \/ Crash
  BY DEF Next, vars, Begin, AutoBegin, OpBegin, DefinePut, CreateChild, rows, txns,
         LookupCached, LookupFound, LookupMissed, QueryLookup, PlainLookup, ReadName

LEMMA RowsStep ==
  ASSUME TypeOK, FamilyInv, RowsInv, [Next]_vars
  PROVE  RowsInv'
<1> USE DEF RowsInv
<1>1. ASSUME UNCHANGED primary,
             \A t \in Txn : /\ phase[t] # "none" => phase'[t] # "none"
                            /\ phase[t] \in Running /\ ~auto[t] =>
                                 phase'[t] \in Running /\ ~auto'[t]
      PROVE  RowsInv'
  BY <1>1 DEF Own, Op, Base
<1>2. ASSUME NEW t \in Txn,
             \/ Begin(t) \/ AutoBegin(t) \/ OpBegin(t) \/ DefinePut(t)
             \/ \E n \in Name : LookupCached(t, n) \/ LookupFound(t, n)
                                \/ LookupMissed(t, n) \/ QueryLookup(t, n)
      PROVE  RowsInv'
  <2>1. UNCHANGED primary
    BY <1>2 DEF Begin, AutoBegin, OpBegin, DefinePut, LookupCached, LookupFound,
                LookupMissed, QueryLookup, rows
  <2>2. \A u \in Txn : /\ phase[u] # "none" => phase'[u] # "none"
                       /\ phase[u] \in Running /\ ~auto[u] =>
                            phase'[u] \in Running /\ ~auto'[u]
    BY <1>2 DEF TypeOK, Running, Begin, AutoBegin, OpBegin, DefinePut, LookupCached,
                LookupFound, LookupMissed, QueryLookup, txns
  <2>3. QED
    BY <1>1, <2>1, <2>2
<1>3. ASSUME NEW t \in Txn, NEW u \in Txn, CreateChild(t, u) PROVE RowsInv'
  <2>1. UNCHANGED primary
    BY <1>3 DEF CreateChild, rows
  <2>2. \A v \in Txn : /\ phase[v] # "none" => phase'[v] # "none"
                       /\ phase[v] \in Running /\ ~auto[v] =>
                            phase'[v] \in Running /\ ~auto'[v]
    BY <1>3 DEF CreateChild, TypeOK, Running
  <2>3. QED
    BY <1>1, <2>1, <2>2
<1>4. ASSUME NEW t \in Txn, OpCommit(t) PROVE RowsInv'
  <2>1. \A q \in primary' : \E r \in primary :
          q.by = IF r.by = Op(t) THEN Own(t) ELSE r.by
    BY <1>4, LiftMember, LevelType DEF OpCommit, TypeOK
  <2>2. /\ phase'[t] = "open" /\ \A v \in Txn \ {t} : phase'[v] = phase[v]
        /\ phase[t] # "none" /\ UNCHANGED auto
    BY <1>4 DEF OpCommit, TypeOK
  <2>3. ASSUME NEW q \in primary', q.by # Base
        PROVE  \E v \in Txn : \/ q.by = Own(v) /\ phase'[v] # "none"
                              \/ q.by = Op(v) /\ phase'[v] \in Running /\ ~auto'[v]
    <3>1. PICK r \in primary : q.by = IF r.by = Op(t) THEN Own(t) ELSE r.by
      BY <2>1
    <3>2. CASE r.by = Op(t)
      BY <3>1, <3>2, <2>2
    <3>3. CASE r.by # Op(t)
      <4>1. PICK v \in Txn : \/ r.by = Own(v) /\ phase[v] # "none"
                             \/ r.by = Op(v) /\ phase[v] \in Running /\ ~auto[v]
        BY <2>3, <3>1, <3>3
      <4>2. q.by = r.by
        BY <3>1, <3>3
      <4>3. CASE v = t
        BY <4>1, <4>2, <4>3, <3>3, <2>2
      <4>4. CASE v # t
        BY <4>1, <4>2, <4>4, <2>2
      <4>5. QED
        BY <4>3, <4>4
    <3>4. QED
      BY <3>2, <3>3
  <2>4. QED
    BY <2>3 DEF Own, Op, Base
<1>5. ASSUME NEW t \in Txn, OpFail(t) PROVE RowsInv'
  <2>1. \A q \in primary' : q \in primary /\ q.by # Op(t)
    BY <1>5, DropMember DEF OpFail
  <2>2. /\ phase'[t] = "open" /\ \A v \in Txn \ {t} : phase'[v] = phase[v]
        /\ UNCHANGED auto
    BY <1>5 DEF OpFail, TypeOK
  <2>3. ASSUME NEW q \in primary', q.by # Base
        PROVE  \E v \in Txn : \/ q.by = Own(v) /\ phase'[v] # "none"
                              \/ q.by = Op(v) /\ phase'[v] \in Running /\ ~auto'[v]
    <3>1. PICK v \in Txn : \/ q.by = Own(v) /\ phase[v] # "none"
                           \/ q.by = Op(v) /\ phase[v] \in Running /\ ~auto[v]
      BY <2>1, <2>3
    <3>2. CASE v = t
      BY <3>1, <3>2, <2>1, <2>2
    <3>3. CASE v # t
      BY <3>1, <3>3, <2>2
    <3>4. QED
      BY <3>2, <3>3
  <2>4. QED
    BY <2>3 DEF Own, Op, Base
<1>6. ASSUME NEW t \in Txn, Commit(t) PROVE RowsInv'
  <2> DEFINE to == IF parent[t] = NoTxn THEN Base ELSE Own(parent[t])
  <2>1. to \in Level /\ Own(t) \in Level /\ primary \subseteq Row
    BY LevelType DEF TypeOK, Own, Level
  <2>2. \A q \in primary' : \E r \in primary :
          q.by = IF r.by = Own(t) THEN to ELSE r.by
    <3>1. primary' = Lift(primary, Own(t), to)
      BY <1>6 DEF Commit
    <3> HIDE DEF to
    <3>2. QED
      BY <2>1, <3>1, LiftMember
  <2>3. /\ \A v \in Txn \ {t} : phase'[v] = phase[v] /\ auto'[v] = auto[v]
        /\ phase[t] = "open" \/ auto[t]
    BY <1>6 DEF Commit, MayCommit, End, TypeOK
  <2>4. ASSUME NEW q \in primary', q.by # Base
        PROVE  \E v \in Txn : \/ q.by = Own(v) /\ phase'[v] # "none"
                              \/ q.by = Op(v) /\ phase'[v] \in Running /\ ~auto'[v]
    <3>1. PICK r \in primary : q.by = IF r.by = Own(t) THEN to ELSE r.by
      BY <2>2
    <3>2. CASE r.by = Own(t)
      <4>1. parent[t] \in Txn /\ q.by = Own(parent[t])
        BY <2>4, <3>1, <3>2 DEF TypeOK
      <4>2. phase[parent[t]] = "open" /\ parent[t] # t
        BY <4>1, <1>6, TxnAssumption DEF FamilyInv, Commit, MayCommit, HasChild
      <4>3. QED
        BY <4>1, <4>2, <2>3
    <3>3. CASE r.by # Own(t)
      <4>1. q.by = r.by
        BY <3>1, <3>3
      <4>2. PICK v \in Txn : \/ r.by = Own(v) /\ phase[v] # "none"
                             \/ r.by = Op(v) /\ phase[v] \in Running /\ ~auto[v]
        BY <2>4, <4>1
      <4>3. v # t
        BY <3>3, <4>2, <2>3 DEF Running
      <4>4. QED
        BY <4>1, <4>2, <4>3, <2>3
    <3>4. QED
      BY <3>2, <3>3
  <2>5. QED
    BY <2>4 DEF Own, Op, Base
<1>7. ASSUME NEW t \in Txn, Abort(t) PROVE RowsInv'
  <2>1. \A q \in primary' : q \in primary /\ q.by # Own(t)
    BY <1>7, DropMember DEF Abort
  <2>2. /\ \A v \in Txn \ {t} : phase'[v] = phase[v] /\ auto'[v] = auto[v]
        /\ phase[t] = "open" \/ auto[t]
    BY <1>7 DEF Abort, MayAbort, End, TypeOK
  <2>3. ASSUME NEW q \in primary', q.by # Base
        PROVE  \E v \in Txn : \/ q.by = Own(v) /\ phase'[v] # "none"
                              \/ q.by = Op(v) /\ phase'[v] \in Running /\ ~auto'[v]
    <3>1. PICK v \in Txn : \/ q.by = Own(v) /\ phase[v] # "none"
                           \/ q.by = Op(v) /\ phase[v] \in Running /\ ~auto[v]
      BY <2>1, <2>3
    <3>2. CASE v = t
      BY <3>1, <3>2, <2>1, <2>2 DEF Running
    <3>3. CASE v # t
      BY <3>1, <3>3, <2>2
    <3>4. QED
      BY <3>2, <3>3
  <2>4. QED
    BY <2>3 DEF Own, Op, Base
<1>8. ASSUME NEW t \in Txn, DefineAppend(t) PROVE RowsInv'
  <2>1. \A q \in primary' : q \in primary \/ q.by = Writing(t)
    BY <1>8 DEF DefineAppend
  <2>2. /\ phase[t] = "missed" /\ phase'[t] = "appended" /\ UNCHANGED auto
        /\ \A v \in Txn \ {t} : phase'[v] = phase[v]
    BY <1>8 DEF DefineAppend, TypeOK
  <2>3. Writing(t) = IF auto[t] THEN Own(t) ELSE Op(t)
    BY <2>2 DEF Writing, Running
  <2>4. QED
    BY <2>1, <2>2, <2>3 DEF Own, Op, Base, Running
<1>9. ASSUME \/ \E p \in Proc, n \in Name : PlainLookup(p, n)
             \/ \E p \in Proc, i \in Id : ReadName(p, i)
             \/ UNCHANGED vars
      PROVE  RowsInv'
  <2>1. UNCHANGED <<primary, phase, auto>>
    BY <1>9 DEF PlainLookup, ReadName, rows, txns, vars
  <2>2. QED
    BY <2>1 DEF Own, Op, Base
<1>10. ASSUME Crash PROVE RowsInv'
  BY <1>10 DEF Crash, Base
<1>11. QED
  BY <1>2, <1>3, <1>4, <1>5, <1>6, <1>7, <1>8, <1>9, <1>10 DEF Next

LEMMA RowType ==
  ASSUME TypeOK, RowsInv, NEW r \in primary
  PROVE  /\ r.id \in 1..MaxId /\ r.id \in Nat
         /\ r.by # Base => /\ r.by.txn \in Txn
                           /\ r.by \in {Own(r.by.txn), Op(r.by.txn)}
                           /\ phase[r.by.txn] # "none"
<1>1. r.id \in 1..MaxId /\ r.id \in Nat
  BY IdAssumption DEF TypeOK, Row, Id
<1>2. ASSUME r.by # Base
      PROVE  /\ r.by.txn \in Txn /\ r.by \in {Own(r.by.txn), Op(r.by.txn)}
             /\ phase[r.by.txn] # "none"
  <2>1. PICK t \in Txn : \/ r.by = Own(t) /\ phase[t] # "none"
                         \/ r.by = Op(t) /\ phase[t] \in Running /\ ~auto[t]
    BY <1>2 DEF RowsInv
  <2>2. QED
    BY <2>1, Levels DEF Running
<1>3. QED
  BY <1>1, <1>2

\* Rows dropped from the end leave the others without a gap.
LEMMA DropLast ==
  ASSUME TypeOK, RowsInv, Unbroken,
         NEW D \in SUBSET primary, primary' = primary \ D,
         \A r \in primary \ D, s \in D : r.id < s.id
  PROVE  Unbroken'
<1>1. ASSUME NEW r \in primary', NEW j \in 1..(r.id - 1)
      PROVE  \E s \in primary' : s.id = j
  <2>1. PICK s \in primary : s.id = j
    BY <1>1 DEF Unbroken
  <2>2. r.id \in Nat /\ s.id < r.id
    BY <1>1, <2>1, RowType
  <2>3. s \notin D
    BY <2>1, <2>2, RowType
  <2>4. QED
    BY <2>1, <2>3
<1>2. QED
  BY <1>1 DEF Unbroken

\* Moved rows keep their numbers.
LEMMA LiftUnbroken ==
  ASSUME TypeOK, Unbroken, NEW from \in Level, NEW to \in Level,
         primary' = Lift(primary, from, to)
  PROVE  Unbroken'
<1>1. /\ \A q \in primary' : \E r \in primary : q.id = r.id
      /\ \A r \in primary : \E q \in primary' : q.id = r.id
  <2>1. /\ \A r \in primary : [id |-> r.id, name |-> r.name,
               by |-> IF r.by = from THEN to ELSE r.by] \in Lift(primary, from, to)
        /\ \A q \in Lift(primary, from, to) : \E r \in primary : q.id = r.id
    BY LiftMember DEF TypeOK
  <2>2. QED
    BY <2>1
<1>2. ASSUME NEW q \in primary', NEW j \in 1..(q.id - 1)
      PROVE  \E s \in primary' : s.id = j
  <2>1. PICK r \in primary : q.id = r.id
    BY <1>1
  <2>2. PICK s \in primary : s.id = j
    BY <1>2, <2>1 DEF Unbroken
  <2>3. QED
    BY <1>1, <2>2
<1>3. QED
  BY <1>2 DEF Unbroken

\* A transaction that ends, or in which an operation runs, is nobody's parent.
LEMMA Childless ==
  ASSUME FamilyInv, NEW t \in Txn,
         MayCommit(t) \/ MayAbort(t) \/ phase[t] \in Running
  PROVE  \A v \in Txn : parent[v] # t
  BY TxnAssumption DEF FamilyInv, MayCommit, MayAbort, HasChild, Running

LEMMA NestedInParents ==
  ASSUME TypeOK, NEW t \in Txn, \A v \in Txn : parent[v] # t
  PROVE  \A v \in Txn \ {t} : t \notin Family(v)
<1>1. parent \in [Txn -> Txn \cup {NoTxn}]
  BY DEF TypeOK
<1> QED BY <1>1, NestingInParents DEF Family

\* What a transaction is nested in is open, and no operation runs in it.
LEMMA AncestorsOpen ==
  ASSUME TypeOK, FamilyInv, NEW t \in Txn, NEW u \in Family(t) \ {t}
  PROVE  u \in Txn /\ phase[u] = "open"
<1>1. u \in Txn
  BY NestingMember DEF Family
<1>2. \E v \in Txn : parent[v] = u
  BY <1>1, NestedInParents
<1> QED BY <1>1, <1>2, TxnAssumption DEF FamilyInv

LEMMA SameFamilies ==
  ASSUME UNCHANGED parent
  PROVE  /\ \A v : Family(v)' = Family(v)
         /\ \A a, b : Inside(a, b)' <=> Inside(a, b)
<1>1. \A v : Family(v)' = Family(v)
  BY DEF Family
<1> QED BY <1>1 DEF Inside, Own, Op, Base

LEMMA OpCommitNested ==
  ASSUME TypeOK, FamilyInv, RowsInv, OneFamily, Nested, NEW t \in Txn, OpCommit(t)
  PROVE  OneFamily' /\ Nested'
<1>1. phase[t] # "open"
  BY DEF OpCommit
<1>2. UNCHANGED parent /\ Own(t).txn = t /\ Op(t).txn = t /\ Own(t) # Base /\ Op(t) # Base
  BY Levels DEF OpCommit
<1>3. \A q \in primary' : \E r \in primary :
        q.id = r.id /\ q.by = IF r.by = Op(t) THEN Own(t) ELSE r.by
  BY LiftMember, LevelType DEF OpCommit, TypeOK
<1>4. ASSUME NEW q1 \in primary', NEW q2 \in primary'
      PROVE  /\ q1.by # Base /\ q2.by # Base =>
                  q1.by.txn \in Family(q2.by.txn) \/ q2.by.txn \in Family(q1.by.txn)
             /\ Inside(q1.by, q2.by) => q1.id < q2.id
  <2>1. PICK r1 \in primary :
          q1.id = r1.id /\ q1.by = IF r1.by = Op(t) THEN Own(t) ELSE r1.by
    BY <1>3
  <2>2. PICK r2 \in primary :
          q2.id = r2.id /\ q2.by = IF r2.by = Op(t) THEN Own(t) ELSE r2.by
    BY <1>3
  <2>3. /\ q1.by.txn = r1.by.txn /\ (q1.by = Base <=> r1.by = Base)
        /\ q2.by.txn = r2.by.txn /\ (q2.by = Base <=> r2.by = Base)
    BY <1>2, <2>1, <2>2
  <2>4. q1.by # Base /\ q2.by # Base =>
          q1.by.txn \in Family(q2.by.txn) \/ q2.by.txn \in Family(q1.by.txn)
    BY <2>3 DEF OneFamily
  <2>5. ASSUME Inside(q1.by, q2.by) PROVE Inside(r1.by, r2.by)
    <3>1. CASE q1.by = Base /\ q2.by # Base
      BY <2>3, <3>1 DEF Inside
    <3>2. ASSUME NEW v \in Txn, q1.by = Own(v), q2.by = Op(v)
          PROVE  Inside(r1.by, r2.by)
      <4>1. v # t /\ r2.by = Op(v)
        BY <2>2, <3>2, Levels
      <4>2. r1.by = Own(v)
        BY <2>1, <3>2, <4>1, Levels
      <4>3. QED
        BY <4>1, <4>2 DEF Inside
    <3>3. ASSUME NEW v \in Txn, NEW u \in Family(v) \ {v}, q1.by = Own(u),
                 q2.by \in {Own(v), Op(v)}
          PROVE  Inside(r1.by, r2.by)
      <4>1. u \in Txn /\ u # t
        BY <1>1, AncestorsOpen
      <4>2. r1.by = Own(u)
        BY <2>1, <3>3, <4>1, Levels
      <4>3. r2.by \in {Own(v), Op(v)}
        BY <2>2, <3>3, Levels
      <4>4. QED
        BY <3>3, <4>2, <4>3 DEF Inside
    <3>4. QED
      BY <2>5, <3>1, <3>2, <3>3 DEF Inside
  <2>6. QED
    BY <2>1, <2>2, <2>4, <2>5 DEF Nested
<1>5. /\ \A r, s \in primary' : r.by # Base /\ s.by # Base =>
             r.by.txn \in Family(s.by.txn)' \/ s.by.txn \in Family(r.by.txn)'
      /\ \A r, s \in primary' : Inside(r.by, s.by)' => r.id < s.id
  BY <1>2, <1>4, SameFamilies
<1> QED BY <1>5 DEF OneFamily, Nested, Base

LEMMA CommitNested ==
  ASSUME TypeOK, FamilyInv, RowsInv, OneFamily, Nested, NEW t \in Txn, Commit(t)
  PROVE  OneFamily' /\ Nested'
<1> DEFINE to == IF parent[t] = NoTxn THEN Base ELSE Own(parent[t])
<1>1. \A v \in Txn : parent[v] # t
  BY Childless DEF Commit
<1>2. parent'[t] = NoTxn /\ \A v \in Txn \ {t} : parent'[v] = parent[v]
  BY DEF Commit, End, TypeOK
<1>3. \A q \in primary' : \E r \in primary :
        q.id = r.id /\ q.by = IF r.by = Own(t) THEN to ELSE r.by
  <2>1. to \in Level /\ Own(t) \in Level /\ primary \subseteq Row
    BY LevelType DEF TypeOK, Own, Level
  <2>2. primary' = Lift(primary, Own(t), to)
    BY DEF Commit
  <2> HIDE DEF to
  <2>3. QED
    BY <2>1, <2>2, LiftMember
<1>4. \A r \in primary : r.by # Op(t)
  BY Levels DEF RowsInv, Commit, MayCommit, Running
<1>5. \A r \in primary : r.by # Base /\ r.by # Own(t) =>
        r.by.txn \in Txn /\ r.by.txn # t
  BY <1>4, RowType
<1>a. \A v \in Txn \ {t} : Family(v)' = Family(v) /\ t \notin Family(v)
  BY <1>1, <1>2, FamilyOfOthers
<1>b. Family(t)' = {t}
  BY <1>2, NestingTop DEF Family
<1>c. /\ parent[t] \in Txn => Family(t) = {t} \cup Family(parent[t])
      /\ parent[t] \notin Txn => Family(t) = {t}
  BY NestingTop, NestingOfChild DEF Family, TypeOK
\* A row of t and a row of another transaction: the parent is nested in that one.
<1>6. ASSUME NEW r \in primary, NEW s \in primary,
             r.by = Own(t), s.by # Own(t), s.by # Base
      PROVE  s.by.txn \in Family(parent[t]) /\ parent[t] \in Txn
  <2>1. s.by.txn \in Txn /\ s.by.txn # t /\ r.by.txn = t /\ r.by # Base
    BY <1>5, <1>6, Levels
  <2>2. t \in Family(s.by.txn) \/ s.by.txn \in Family(t)
    BY <1>6, <2>1 DEF OneFamily
  <2>3. QED
    BY <1>a, <1>c, <2>1, <2>2
<1>7. parent[t] \in Txn => /\ phase[parent[t]] = "open" /\ to = Own(parent[t])
                           /\ parent[t] # t
                           /\ parent[t] \in Family(parent[t])
  BY <1>1, TxnAssumption, NestingMember DEF FamilyInv, Family
<1>8. ASSUME NEW q1 \in primary', NEW q2 \in primary'
      PROVE  /\ q1.by # Base /\ q2.by # Base =>
                  q1.by.txn \in Family(q2.by.txn)' \/ q2.by.txn \in Family(q1.by.txn)'
             /\ Inside(q1.by, q2.by)' => q1.id < q2.id
  <2>1. PICK r1 \in primary :
          q1.id = r1.id /\ q1.by = IF r1.by = Own(t) THEN to ELSE r1.by
    BY <1>3
  <2>2. PICK r2 \in primary :
          q2.id = r2.id /\ q2.by = IF r2.by = Own(t) THEN to ELSE r2.by
    BY <1>3
  <2>3. ASSUME q1.by # Base, q2.by # Base
        PROVE  q1.by.txn \in Family(q2.by.txn)' \/ q2.by.txn \in Family(q1.by.txn)'
    <3>1. CASE r1.by = Own(t) /\ r2.by = Own(t)
      <4>1. parent[t] \in Txn /\ q1.by = Own(parent[t]) /\ q2.by = Own(parent[t])
        BY <2>1, <2>2, <2>3, <3>1 DEF TypeOK
      <4>2. q1.by.txn = parent[t] /\ q2.by.txn = parent[t]
        BY <4>1, Levels
      <4>3. QED
        BY <1>a, <1>7, <4>1, <4>2
    <3>2. CASE r1.by = Own(t) /\ r2.by # Own(t)
      <4>1. q2.by = r2.by /\ r2.by.txn \in Family(parent[t]) /\ parent[t] \in Txn
        BY <2>2, <2>3, <3>2, <1>6
      <4>2. q1.by.txn = parent[t]
        BY <1>7, <2>1, <3>2, <4>1, Levels
      <4>3. QED
        BY <1>a, <1>7, <4>1, <4>2
    <3>3. CASE r1.by # Own(t) /\ r2.by = Own(t)
      <4>1. q1.by = r1.by /\ r1.by.txn \in Family(parent[t]) /\ parent[t] \in Txn
        BY <2>1, <2>3, <3>3, <1>6
      <4>2. q2.by.txn = parent[t]
        BY <1>7, <2>2, <3>3, <4>1, Levels
      <4>3. QED
        BY <1>a, <1>7, <4>1, <4>2
    <3>4. CASE r1.by # Own(t) /\ r2.by # Own(t)
      <4>1. q1.by = r1.by /\ q2.by = r2.by
        BY <2>1, <2>2, <3>4
      <4>2. /\ q1.by.txn \in Txn /\ q1.by.txn # t
            /\ q2.by.txn \in Txn /\ q2.by.txn # t
        BY <1>5, <2>3, <3>4, <4>1
      <4>3. q1.by.txn \in Family(q2.by.txn) \/ q2.by.txn \in Family(q1.by.txn)
        BY <2>3, <4>1 DEF OneFamily
      <4>4. QED
        BY <1>a, <4>2, <4>3
    <3>5. QED
      BY <3>1, <3>2, <3>3, <3>4
  <2>4. ASSUME Inside(q1.by, q2.by)' PROVE Inside(r1.by, r2.by)
    <3>1. CASE q1.by = Base /\ q2.by # Base
      <4>1. CASE r1.by = Own(t)
        <5>1. parent[t] = NoTxn
          BY <2>1, <3>1, <4>1, <1>7, Levels DEF TypeOK
        <5>2. r2.by # Own(t) /\ r2.by # Base
          BY <2>2, <3>1, <5>1
        <5>3. QED
          BY <1>6, <4>1, <5>1, <5>2, TxnAssumption
      <4>2. CASE r1.by # Own(t)
        <5>1. r1.by = Base /\ r2.by # Base
          BY <2>1, <2>2, <3>1, <4>2, Levels
        <5>2. QED
          BY <5>1 DEF Inside
      <4>3. QED
        BY <4>1, <4>2
    <3>2. ASSUME NEW v \in Txn, q1.by = Own(v), q2.by = Op(v)
          PROVE  Inside(r1.by, r2.by)
      <4>1. r2.by = Op(v)
        BY <2>2, <3>2, Levels DEF TypeOK
      <4>2. r1.by # Own(t)
        <5>1. SUFFICES ASSUME r1.by = Own(t) PROVE FALSE
          OBVIOUS
        <5>2. parent[t] = v
          BY <2>1, <3>2, <5>1, Levels DEF TypeOK
        <5>3. phase[v] = "open"
          BY <5>2, <1>7
        <5>4. phase[v] \in Running
          BY <4>1, Levels DEF RowsInv
        <5>5. QED
          BY <5>3, <5>4 DEF Running
      <4>3. QED
        BY <2>1, <3>2, <4>1, <4>2 DEF Inside
    <3>3. ASSUME NEW v \in Txn, NEW u \in Family(v)' \ {v}, q1.by = Own(u),
                 q2.by \in {Own(v), Op(v)}
          PROVE  Inside(r1.by, r2.by)
      <4>1. v # t /\ u \in Family(v) \ {v} /\ u # t /\ u \in Txn
        BY <1>a, <1>b, <3>3, AncestorsOpen
      <4>2. ASSUME r1.by = Own(t) PROVE FALSE
        <5>1. parent[t] = u
          BY <2>1, <3>3, <4>1, <4>2, Levels DEF TypeOK
        <5>2. CASE r2.by = Own(t)
          BY <2>2, <3>3, <4>1, <5>1, <5>2, Levels
        <5>3. CASE r2.by # Own(t)
          <6>1. r2.by.txn = v /\ r2.by # Base
            BY <2>2, <3>3, <5>3, Levels
          <6>2. v \in Family(u)
            BY <1>6, <4>2, <5>1, <5>3, <6>1
          <6> QED BY <4>1, <6>2 DEF FamilyInv
        <5> QED BY <5>2, <5>3
      <4>3. r1.by = Own(u)
        BY <2>1, <3>3, <4>2
      <4>4. CASE r2.by = Own(t)
        <5>1. parent[t] = v
          BY <2>2, <3>3, <4>1, <4>4, Levels DEF TypeOK
        <5>2. u \in Family(t) \ {t}
          BY <1>c, <4>1, <5>1
        <5> QED BY <4>3, <4>4, <5>2 DEF Inside
      <4>5. CASE r2.by # Own(t)
        BY <2>2, <3>3, <4>1, <4>3, <4>5 DEF Inside
      <4> QED BY <4>4, <4>5
    <3>4. QED
      BY <2>4, <3>1, <3>2, <3>3 DEF Inside, Base, Own, Op
  <2>5. QED
    BY <2>1, <2>2, <2>3, <2>4 DEF Nested
<1>9. QED
  BY <1>8 DEF OneFamily, Nested, Base

\* Dropping the rows of a level leaves the order of the others.
LEMMA DropNested ==
  ASSUME OneFamily, Nested, primary' \subseteq primary, NEW t \in Txn,
         \A r \in primary' : r.by # Base => r.by.txn # t,
         parent'[t] = NoTxn, \A v \in Txn \ {t} : parent'[v] = parent[v],
         \A v \in Txn : parent[v] # t, TypeOK, RowsInv
  PROVE  OneFamily' /\ Nested'
<1>a. /\ Family(t)' = {t}
      /\ \A v \in Txn \ {t} : Family(v)' = Family(v)
  BY FamilyOfOthers, NestingTop DEF Family
<1>1. ASSUME NEW r \in primary', NEW s \in primary', r.by # Base, s.by # Base
      PROVE  r.by.txn \in Family(s.by.txn)' \/ s.by.txn \in Family(r.by.txn)'
  <2>1. r.by.txn \in Txn \ {t} /\ s.by.txn \in Txn \ {t}
    BY <1>1, RowType
  <2>2. QED
    BY <1>a, <1>1, <2>1 DEF OneFamily
<1>2. ASSUME NEW r \in primary', NEW s \in primary', Inside(r.by, s.by)'
      PROVE  r.id < s.id
  <2>1. Inside(r.by, s.by)
    BY <1>a, <1>2 DEF Inside, Base, Own, Op
  <2> QED BY <2>1 DEF Nested
<1>3. OneFamily'
  BY <1>1 DEF OneFamily, Base
<1>4. \A r, s \in primary' : Inside(r.by, s.by)' => r.id < s.id
  BY <1>2
<1>5. Nested'
  BY <1>4 DEF Nested
<1> QED BY <1>3, <1>5

\* Which rows may be undone while others stay: those with the last numbers.
LEMMA UndoStep ==
  ASSUME TypeOK, UndoInv, [Next]_vars
  PROVE  UndoInv'
<1> DEFINE Order == OneFamily /\ Nested /\ Unbroken
<1>a. FamilyInv /\ RowsInv /\ OneFamily /\ Nested /\ Unbroken
  BY DEF UndoInv
<1>b. FamilyInv' /\ RowsInv'
  BY <1>a, FamilyStep, RowsStep
<1>1. ASSUME UNCHANGED <<primary, parent>> PROVE Order'
  <2>1. /\ \A v : Family(v)' = Family(v)
        /\ \A a, b : Inside(a, b)' <=> Inside(a, b)
    BY <1>1, SameFamilies
  <2>2. OneFamily'
    BY <1>a, <1>1, <2>1 DEF OneFamily, Base
  <2>3. Nested'
    BY <1>a, <1>1, <2>1 DEF Nested
  <2>4. Unbroken'
    BY <1>a, <1>1 DEF Unbroken
  <2> QED BY <2>2, <2>3, <2>4
<1>2. ASSUME NEW t \in Txn, NEW u \in Txn, CreateChild(t, u), UNCHANGED primary
      PROVE  Order'
  <2>1. /\ phase[u] = "none" /\ parent[u] = NoTxn
        /\ parent'[u] = t /\ \A v \in Txn \ {u} : parent'[v] = parent[v]
    BY <1>a, <1>2 DEF CreateChild, FamilyInv, TypeOK
  <2>2. \A r \in primary : r.by # Base => r.by.txn \in Txn \ {u}
    BY <1>a, <2>1, RowType
  <2>a. \A v \in Txn \ {u} : Family(v)' = Family(v)
    <3>1. \A v \in Txn : parent[v] # u
      BY <1>a, <2>1, TxnAssumption DEF FamilyInv
    <3> QED BY <2>1, <3>1, FamilyOfOthers
  <2>3. OneFamily'
    BY <1>2, <1>a, <2>2, <2>a DEF OneFamily, Base
  <2>4. ASSUME NEW r \in primary, NEW s \in primary, Inside(r.by, s.by)'
        PROVE  Inside(r.by, s.by)
    <3>1. s.by \notin {Own(u), Op(u)}
      BY <2>2, Levels
    <3>2. QED
      BY <2>a, <2>4, <3>1 DEF Inside, Base, Own, Op
  <2>5. Nested'
    BY <1>2, <1>a, <2>4 DEF Nested
  <2>6. QED
    BY <1>2, <1>a, <2>3, <2>5 DEF Unbroken
<1>3. ASSUME NEW t \in Txn, OpCommit(t) PROVE Order'
  <2>1. OneFamily' /\ Nested'
    BY <1>3, <1>a, OpCommitNested
  <2>2. Unbroken'
    BY <1>3, <1>a, LiftUnbroken, LevelType DEF OpCommit
  <2>3. QED
    BY <2>1, <2>2
<1>4. ASSUME NEW t \in Txn, Commit(t) PROVE Order'
  <2>1. OneFamily' /\ Nested'
    BY <1>4, <1>a, CommitNested
  <2>2. Unbroken'
    <3> DEFINE to == IF parent[t] = NoTxn THEN Base ELSE Own(parent[t])
    <3>1. to \in Level /\ Own(t) \in Level
      BY LevelType DEF TypeOK, Own, Level
    <3>2. primary' = Lift(primary, Own(t), to)
      BY <1>4 DEF Commit
    <3> HIDE DEF to
    <3>3. QED
      BY <1>a, <3>1, <3>2, LiftUnbroken
  <2>3. QED
    BY <2>1, <2>2
<1>5. ASSUME NEW t \in Txn, OpFail(t) PROVE Order'
  <2>1. /\ primary' = primary \ {r \in primary : r.by = Op(t)} /\ UNCHANGED parent
        /\ phase[t] \in Running
    BY <1>5 DEF OpFail, Drop
  <2>2. OneFamily' /\ Nested'
    BY <1>a, <2>1, SameFamilies DEF OneFamily, Nested, Base
  <2>3. ASSUME NEW r \in primary, NEW s \in primary, r.by # Op(t), s.by = Op(t)
        PROVE  r.id < s.id
    <3>1. s.by # Base /\ s.by.txn = t
      BY <2>3, Levels
    <3>2. CASE r.by = Base
      BY <1>a, <3>1, <3>2 DEF Nested, Inside
    <3>3. CASE r.by # Base
      <4>1. r.by.txn \in Txn /\ r.by \in {Own(r.by.txn), Op(r.by.txn)}
        BY <1>a, <3>3, RowType
      <4>2. r.by.txn \in Family(t)
        <5>1. r.by.txn \in Family(t) \/ t \in Family(r.by.txn)
          BY <1>a, <3>1, <3>3 DEF OneFamily
        <5>2. r.by.txn = t \/ t \notin Family(r.by.txn)
          BY <1>a, <2>1, <4>1, Childless, NestedInParents
        <5>3. QED
          BY <5>1, <5>2
      <4>3. CASE r.by.txn = t
        BY <1>a, <2>3, <4>1, <4>3 DEF Nested, Inside
      <4>4. CASE r.by.txn # t
        <5>1. phase[r.by.txn] = "open"
          BY <1>a, <4>2, <4>4, AncestorsOpen
        <5>2. r.by = Own(r.by.txn)
          BY <1>a, <4>1, <5>1, Levels DEF RowsInv, Running
        <5>3. Inside(r.by, s.by)
          BY <2>3, <4>2, <4>4, <5>2 DEF Inside
        <5>4. QED
          BY <1>a, <5>3 DEF Nested
      <4>5. QED
        BY <4>2, <4>3, <4>4
    <3>4. QED
      BY <3>2, <3>3
  <2>4. Unbroken'
    BY <1>a, <2>1, <2>3, DropLast
  <2>5. QED
    BY <2>2, <2>4
<1>6. ASSUME NEW t \in Txn, Abort(t) PROVE Order'
  <2>1. /\ primary' = primary \ {r \in primary : r.by = Own(t)}
        /\ parent'[t] = NoTxn /\ \A v \in Txn \ {t} : parent'[v] = parent[v]
        /\ MayAbort(t)
    BY <1>6 DEF Abort, End, Drop, TypeOK
  <2>2. \A r \in primary : r.by # Op(t)
    BY <1>a, <2>1, Levels DEF RowsInv, MayAbort, Running
  <2>3. \A r \in primary : r.by # Base /\ r.by # Own(t) =>
          r.by.txn \in Txn /\ r.by.txn # t
    BY <1>a, <2>2, RowType
  <2>4. OneFamily' /\ Nested'
    <3>1. \A r \in primary' : r.by # Base => r.by.txn # t
      BY <2>1, <2>3
    <3>2. QED
      BY <1>a, <2>1, <3>1, Childless, DropNested
  <2>5. ASSUME NEW r \in primary, NEW s \in primary, r.by # Own(t), s.by = Own(t)
        PROVE  r.id < s.id
    <3>1. s.by # Base /\ s.by.txn = t
      BY <2>5, Levels
    <3>2. CASE r.by = Base
      BY <1>a, <3>1, <3>2 DEF Nested, Inside
    <3>3. CASE r.by # Base
      <4>1. /\ r.by.txn \in Txn /\ r.by.txn # t
            /\ r.by \in {Own(r.by.txn), Op(r.by.txn)}
        BY <1>a, <2>3, <2>5, <3>3, RowType
      <4>2. r.by.txn \in Family(t)
        <5>1. r.by.txn \in Family(t) \/ t \in Family(r.by.txn)
          BY <1>a, <3>1, <3>3 DEF OneFamily
        <5>2. t \notin Family(r.by.txn)
          BY <1>a, <2>1, <4>1, Childless, NestedInParents
        <5>3. QED
          BY <5>1, <5>2
      <4>3. phase[r.by.txn] = "open"
        BY <1>a, <4>1, <4>2, AncestorsOpen
      <4>4. r.by = Own(r.by.txn)
        BY <1>a, <4>1, <4>3, Levels DEF RowsInv, Running
      <4>5. Inside(r.by, s.by)
        BY <2>5, <4>1, <4>2, <4>4 DEF Inside
      <4>6. QED
        BY <1>a, <4>5 DEF Nested
    <3>4. QED
      BY <3>2, <3>3
  <2>6. Unbroken'
    BY <1>a, <2>1, <2>5, DropLast
  <2>7. QED
    BY <2>4, <2>6
<1>7. ASSUME NEW t \in Txn, DefineAppend(t) PROVE Order'
  <2>1. PICK i \in Id :
          /\ NextId(i)
          /\ primary' = primary \cup
               {[id |-> i, name |-> arg[t].name, by |-> Writing(t)]}
    BY <1>7 DEF DefineAppend
  <2> DEFINE new == [id |-> i, name |-> arg[t].name, by |-> Writing(t)]
  <2>2. /\ UNCHANGED parent /\ CanAppend(t) /\ phase[t] = "missed"
        /\ i \in Nat /\ i \in 1..MaxId
    BY <1>7, IdAssumption DEF DefineAppend, Id
  <2>3. new.by \in {Own(t), Op(t)} /\ new.by # Base /\ new.by.txn = t
    BY WritingLevel, Levels
  <2>4. \A r \in primary : r.id < i
    <3>1. SUFFICES ASSUME NEW r \in primary, ~(r.id < i) PROVE FALSE
      OBVIOUS
    <3>2. r.id \in 1..MaxId /\ r.id # i
      BY <1>a, <2>1, RowType DEF NextId
    <3>3. i \in 1..(r.id - 1)
      BY <2>2, <3>1, <3>2, IdAssumption
    <3>4. QED
      BY <1>a, <2>1, <3>3 DEF Unbroken, NextId
  <2>5. \A r \in primary : r.by # Base => r.by.txn \in Family(t)
    BY <2>2 DEF CanAppend, Visible
  <2>6. OneFamily'
    <3>1. \A u \in Txn : Family(u)' = Family(u)
      BY <2>2, SameFamilies
    <3>2. t \in Family(t)
      BY NestingMember DEF Family
    <3>3. \A r \in primary : r.by # Base => r.by.txn \in Txn
      BY <1>a, RowType
    <3>4. ASSUME NEW r \in primary', NEW s \in primary', r.by # Base, s.by # Base
          PROVE  r.by.txn \in Family(s.by.txn) \/ s.by.txn \in Family(r.by.txn)
      <4>1. CASE r \in primary /\ s \in primary
        BY <1>a, <3>4, <4>1 DEF OneFamily
      <4>2. CASE r = new
        BY <2>1, <2>3, <2>5, <3>2, <3>4, <4>2
      <4>3. CASE s = new
        BY <2>1, <2>3, <2>5, <3>2, <3>4, <4>3
      <4>4. QED
        BY <2>1, <4>1, <4>2, <4>3
    <3>5. \A r \in primary' : r.by # Base => r.by.txn \in Txn
      BY <2>1, <2>3, <3>3
    <3>6. QED
      BY <3>1, <3>4, <3>5 DEF OneFamily, Base
  <2>7. ASSUME NEW s \in primary' PROVE ~Inside(new.by, s.by)
    <3>1. SUFFICES ASSUME Inside(new.by, s.by) PROVE FALSE
      OBVIOUS
    <3>2. ASSUME NEW v \in Txn, new.by = Own(v), s.by = Op(v) PROVE FALSE
      <4>1. v = t /\ Writing(t) = Own(t)
        BY <2>3, <3>2, Levels
      <4>2. auto[t]
        BY <2>2, <4>1, Levels DEF Writing, Running
      <4>3. s \in primary
        BY <2>1, <3>2, <4>1, Levels
      <4>4. QED
        BY <1>a, <3>2, <4>1, <4>2, <4>3, Levels DEF RowsInv
    <3>3. ASSUME NEW v \in Txn, NEW u \in Family(v) \ {v}, new.by = Own(u)
          PROVE  FALSE
      <4>1. u \in Txn /\ phase[u] = "open"
        BY <1>a, <3>3, AncestorsOpen
      <4>2. phase[t] = "open"
        BY <2>3, <3>3, <4>1, Levels
      <4>3. QED
        BY <2>2, <4>2
    <3>4. QED
      BY <2>3, <3>1, <3>2, <3>3 DEF Inside
  <2>8. Nested'
    <3>1. \A a, b : Inside(a, b)' <=> Inside(a, b)
      BY <2>2, SameFamilies
    <3>2. ASSUME NEW r \in primary', NEW s \in primary', Inside(r.by, s.by)
          PROVE  r.id < s.id
      <4>1. r # new
        BY <2>7, <3>2
      <4>2. r \in primary
        BY <2>1, <4>1
      <4>3. CASE s = new
        BY <2>4, <4>2, <4>3
      <4>4. CASE s \in primary
        BY <1>a, <3>2, <4>2, <4>4 DEF Nested
      <4>5. QED
        BY <2>1, <4>3, <4>4
    <3>3. QED
      BY <3>1, <3>2 DEF Nested
  <2>9. Unbroken'
    <3>1. ASSUME NEW r \in primary', NEW j \in 1..(r.id - 1)
          PROVE  \E s \in primary : s.id = j
      <4>1. CASE r \in primary
        BY <1>a, <3>1, <4>1 DEF Unbroken
      <4>2. CASE r = new
        BY <2>1, <3>1, <4>2 DEF NextId
      <4>3. QED
        BY <2>1, <4>1, <4>2
    <3>2. QED
      BY <2>1, <3>1 DEF Unbroken
  <2>10. QED
    BY <2>6, <2>8, <2>9
<1>8. ASSUME Crash PROVE Order'
  <2>1. primary' = primary \ {r \in primary : r.by # Base}
    BY <1>8 DEF Crash
  <2>2. \A r, s \in primary : r.by = Base /\ s.by # Base => r.id < s.id
    BY <1>a DEF Nested, Inside
  <2>3. Unbroken'
    BY <1>a, <2>1, <2>2, DropLast
  <2>4. \A v \in Txn : parent'[v] = NoTxn
    BY <1>8 DEF Crash
  <2>5. OneFamily' /\ Nested'
    <3>1. \A r \in primary' : r.by = Base
      BY <2>1
    <3>2. ~Inside(Base, Base)'
      BY <2>4, Levels DEF Inside, Base, Own, Op
    <3>3. QED
      BY <3>1, <3>2 DEF OneFamily, Nested, Base
  <2>6. QED
    BY <2>3, <2>5
<1>9. Order'
  BY <1>1, <1>2, <1>3, <1>4, <1>5, <1>6, <1>7, <1>8, PrimaryKept
<1>10. QED
  BY <1>b, <1>9 DEF UndoInv

LEMMA UndoInit == Init => UndoInv
<1> SUFFICES ASSUME Init PROVE UndoInv
  OBVIOUS
<1>1. \A t \in Txn : parent[t] = NoTxn
  BY DEF Init
<1>2. \A t \in Txn : Family(t) = {t}
  BY <1>1, NestingTop DEF Family
<1>3. FamilyInv
  BY <1>1, <1>2 DEF FamilyInv
<1>4. RowsInv /\ OneFamily /\ Nested /\ Unbroken
  BY DEF Init, RowsInv, OneFamily, Nested, Unbroken
<1> QED BY <1>3, <1>4 DEF UndoInv

\* Rows that may be undone have the last record numbers and no number is left
\* out, whatever children applications make and whether or not they go on after
\* a failure: undoing rows gives back only numbers that no committed row has.
THEOREM UndoneAreLast == Spec => []UncommittedLast
<1>1. TypeOK /\ UndoInv /\ [Next]_vars => UndoInv'
  BY UndoStep
<1>2. UndoInv => UncommittedLast
  BY DEF UndoInv, Nested, Unbroken, Inside, UncommittedLast
<1>3. QED
  BY <1>1, <1>2, UndoInit, TypeCorrect, PTL DEF Spec

-----------------------------------------------------------------------------
(* NumbersInv: the cache from ids to names of a single process *)

\* Rows that are left, at the level they had or at another, say what they said.
LEMMA NumbersKept ==
  ASSUME NumbersInv, UNCHANGED idCache,
         \A q \in primary' : \E r \in primary : q.id = r.id /\ q.name = r.name
  PROVE  NumbersInv'
<1>1. \A r, s \in primary' : r.id = s.id => r.name = s.name
  BY DEF NumbersInv
<1>2. \A p \in Proc, r \in primary' : idCache[p][r.id] \in {NoName, r.name}
  BY DEF NumbersInv
<1>3. QED
  BY <1>1, <1>2 DEF NumbersInv

LEMMA LiftKeepsNames ==
  ASSUME TypeOK, NEW from \in Level, NEW to \in Level,
         primary' = Lift(primary, from, to)
  PROVE  \A q \in primary' : \E r \in primary : q.id = r.id /\ q.name = r.name
<1>1. primary \subseteq Row
  BY DEF TypeOK
<1>2. \A q \in Lift(primary, from, to) : \E r \in primary :
        q.id = r.id /\ q.name = r.name
  BY <1>1, LiftMember
<1>3. QED
  BY <1>2

LEMMA NumbersStep ==
  ASSUME \A p, q \in Proc : p = q, TypeOK, NumbersInv, [Next]_vars
  PROVE  NumbersInv'
<1> DEFINE Same == \A q \in primary' : \E r \in primary : q.id = r.id /\ q.name = r.name
<1>1. ASSUME NEW t \in Txn, OpCommit(t) PROVE NumbersInv'
  BY <1>1, LevelType, LiftKeepsNames, NumbersKept DEF OpCommit, caches
<1>2. ASSUME NEW t \in Txn, Commit(t) PROVE NumbersInv'
  <2> DEFINE to == IF parent[t] = NoTxn THEN Base ELSE Own(parent[t])
  <2>1. to \in Level /\ Own(t) \in Level
    BY LevelType DEF TypeOK, Own, Level
  <2>2. primary' = Lift(primary, Own(t), to) /\ UNCHANGED idCache
    BY <1>2 DEF Commit, End
  <2> HIDE DEF to
  <2>3. QED
    BY <2>1, <2>2, LiftKeepsNames, NumbersKept
<1>3. ASSUME NEW t \in Txn, OpFail(t) \/ Abort(t) PROVE NumbersInv'
  BY <1>3, DropMember, NumbersKept DEF OpFail, Abort, End, caches
<1>4. ASSUME NEW t \in Txn,
             \/ Begin(t) \/ AutoBegin(t) \/ OpBegin(t) \/ DefinePut(t)
             \/ \E u \in Txn : CreateChild(t, u)
             \/ \E n \in Name : LookupCached(t, n) \/ LookupFound(t, n)
                                \/ LookupMissed(t, n) \/ QueryLookup(t, n)
      PROVE  NumbersInv'
  <2>1. UNCHANGED <<primary, idCache>>
    BY <1>4 DEF Begin, AutoBegin, OpBegin, DefinePut, CreateChild, LookupCached,
                LookupFound, LookupMissed, QueryLookup, rows, caches
  <2>2. QED
    BY <2>1, NumbersKept
<1>5. ASSUME NEW t \in Txn, DefineAppend(t) PROVE NumbersInv'
  <2>1. PICK i \in Id :
          /\ NextId(i)
          /\ primary' = primary \cup
               {[id |-> i, name |-> arg[t].name, by |-> Writing(t)]}
          /\ CacheName(ProcOf[t], i, arg[t].name)
    BY <1>5 DEF DefineAppend
  <2>2. \A r \in primary : r.id # i /\ r.id \in Id
    BY <2>1 DEF NextId, TypeOK, Row
  <2>3. ASSUME NEW p \in Proc
        PROVE  /\ idCache'[p][i] = arg[t].name
               /\ \A j \in Id \ {i} : idCache'[p][j] = idCache[p][j]
    <3>1. p = ProcOf[t]
      BY ProcAssumption
    <3>2. QED
      BY <2>1, <3>1 DEF CacheName, TypeOK
  <2>4. \A r, s \in primary' : r.id = s.id => r.name = s.name
    BY <2>1, <2>2 DEF NumbersInv
  <2>5. ASSUME NEW p \in Proc, NEW r \in primary'
        PROVE  idCache'[p][r.id] \in {NoName, r.name}
    <3>1. CASE r \in primary
      BY <2>2, <2>3, <3>1 DEF NumbersInv
    <3>2. CASE r \notin primary
      BY <2>1, <2>3, <3>2
    <3>3. QED
      BY <3>1, <3>2
  <2>6. QED
    BY <2>4, <2>5 DEF NumbersInv
<1>6. ASSUME NEW p \in Proc, NEW i \in Id, ReadName(p, i) PROVE NumbersInv'
  <2>1. PICK r \in primary : r.id = i /\ CacheName(p, i, r.name)
    BY <1>6 DEF ReadName
  <2>2. UNCHANGED primary
    BY <1>6 DEF ReadName, rows
  <2>3. ASSUME NEW q \in Proc, NEW s \in primary
        PROVE  idCache'[q][s.id] \in {NoName, s.name}
    <3>1. s.id \in Id /\ q = p
      BY DEF TypeOK, Row
    <3>2. CASE s.id = i
      BY <2>1, <3>1, <3>2 DEF CacheName, TypeOK, NumbersInv
    <3>3. CASE s.id # i
      BY <2>1, <3>1, <3>3 DEF CacheName, TypeOK, NumbersInv
    <3>4. QED
      BY <3>2, <3>3
  <2>4. QED
    BY <2>2, <2>3 DEF NumbersInv
<1>7. ASSUME NEW p \in Proc, NEW n \in Name, PlainLookup(p, n) PROVE NumbersInv'
  BY <1>7, NumbersKept DEF PlainLookup, rows
<1>8. ASSUME Crash PROVE NumbersInv'
  <2>1. primary' \subseteq primary /\ \A p \in Proc, i \in Id : idCache'[p][i] = NoName
    BY <1>8 DEF Crash, NoNames
  <2>2. \A r \in primary : r.id \in Id
    BY DEF TypeOK, Row
  <2>3. QED
    BY <2>1, <2>2 DEF NumbersInv
<1>9. ASSUME UNCHANGED vars PROVE NumbersInv'
  BY <1>9, NumbersKept DEF vars
<1>10. QED
  BY <1>1, <1>2, <1>3, <1>4, <1>5, <1>6, <1>7, <1>8, <1>9 DEF Next

\* In an environment of one process the cache from ids to names, from which
\* nothing is ever removed, answers for a committed id with its committed name,
\* whatever was appended under that number and undone before.
THEOREM NumbersAnswered ==
  ASSUME \A p, q \in Proc : p = q
  PROVE  Spec => []IdCacheAgrees
<1>1. Init => NumbersInv
  BY DEF Init, NumbersInv
<1>2. TypeOK /\ NumbersInv /\ [Next]_vars => NumbersInv'
  BY NumbersStep
<1>3. NumbersInv => IdCacheAgrees
  BY DEF NumbersInv, IdCacheAgrees
<1>4. QED
  BY <1>1, <1>2, <1>3, TypeCorrect, PTL DEF Spec
=============================================================================
