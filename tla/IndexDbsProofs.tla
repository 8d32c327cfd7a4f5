-------------------------- MODULE IndexDbsProofs --------------------------
(***************************************************************************)
(* What holds of the index databases of a container for every set of       *)
(* transactions and types and any number of handles: types, that one       *)
(* IndexDbNotify at most is registered, and, where transactions follow one *)
(* another and no operation fails in between, that no handle outlives its  *)
(* database or is used after it is deleted.                                *)
(***************************************************************************)
EXTENDS IndexDbs, TLAPS

InOp == {"op", "open", "store", "register"}

\* Every handle has been opened, on the database of its type.
HandlesOK ==
  /\ \A y \in Types : indexes[y] # NoHandle =>
       indexes[y] \in DOMAIN opened /\ opened[indexes[y]] = y
  /\ \A t \in Txns : state[t] \in {"store", "register"} =>
       mine[t] \in DOMAIN opened /\ opened[mine[t]] = arg[t]

\* What the operation in progress has created is under its transaction's lock.
ByOpOK ==
  \A y \in byOp : master \in Txns /\ creator[y] = master /\ state[master] \in InOp

DbsInv == TypeOK /\ HandlesOK /\ ByOpOK

-----------------------------------------------------------------------------
LEMMA InitDbs == Init => DbsInv
<1> SUFFICES ASSUME Init PROVE DbsInv
  OBVIOUS
<1>1. TypeOK
  <2>1. opened \in [1..0 -> Types] /\ 0 \in 0..MaxHandles
    BY BoundAssumption DEF Init
  <2>2. arg \in [Txns -> Types]
    BY TypesAssumption DEF Init
  <2>3. /\ usage \in Usages /\ exists \subseteq Types
        /\ creator \in [Types -> Txns \cup {NoTxn}] /\ byOp \subseteq exists
        /\ master \in Txns \cup {NoTxn} /\ masterByOp \in BOOLEAN
        /\ indexes \in [Types -> Handles \cup {NoHandle}]
        /\ stale = {} /\ freed = {} /\ notify \in Txns \cup {NoTxn}
        /\ dbs \subseteq Types /\ registered \subseteq Txns
        /\ state \in [Txns -> State] /\ mine \in [Txns -> Handles \cup {NoHandle}]
        /\ use \in [Txns -> SUBSET DOMAIN opened]
    BY DEF Init, State
  <2> QED BY <2>1, <2>2, <2>3 DEF TypeOK
<1> QED BY <1>1 DEF DbsInv, HandlesOK, ByOpOK, Init

\* A handle is its place in the order of opening.
LEMMA OpenedIsSeq ==
  ASSUME TypeOK
  PROVE  /\ opened \in Seq(Types) /\ Len(opened) \in 0..MaxHandles
         /\ DOMAIN opened = 1..Len(opened)
<1>1. PICK n \in 0..MaxHandles : opened \in [1..n -> Types]
  BY DEF TypeOK
<1>2. n \in Nat
  BY <1>1, BoundAssumption
<1> QED BY <1>1, <1>2

(* The invariant of every usage, one lemma for each action *)

LEMMA OtherCreatesKeeps ==
  ASSUME DbsInv, UNCHANGED usage, NEW y \in Types, OtherCreates(y)
  PROVE  DbsInv'
<1>1. TypeOK'
  BY DEF DbsInv, TypeOK, HandlesOK, ByOpOK, OtherCreates,
                         notices, State, InOp
<1>2. HandlesOK'
  BY DEF DbsInv, TypeOK, HandlesOK, OtherCreates, notices
<1>3. ByOpOK'
  BY DEF DbsInv, TypeOK, ByOpOK, InOp, OtherCreates, notices
<1> QED BY <1>1, <1>2, <1>3 DEF DbsInv

LEMMA GetKeeps ==
  ASSUME DbsInv, UNCHANGED usage, NEW t \in Txns, NEW y \in Types, Get(t, y)
  PROVE  DbsInv'
<1>1. TypeOK'
  BY DEF DbsInv, TypeOK, HandlesOK, ByOpOK, Get, Goto, database,
                         notices, State, InOp
<1>2. HandlesOK'
  BY DEF DbsInv, TypeOK, HandlesOK, Get, Goto, database, notices
<1>3. ByOpOK'
  BY DEF DbsInv, TypeOK, ByOpOK, InOp, Get, Goto, database,
                         notices
<1> QED BY <1>1, <1>2, <1>3 DEF DbsInv

LEMMA OpenKeeps ==
  ASSUME DbsInv, UNCHANGED usage, NEW t \in Txns, Open(t)
  PROVE  DbsInv'
<1> DEFINE n == Len(opened)
<1>1. /\ n \in 0..MaxHandles /\ opened \in Seq(Types) /\ DOMAIN opened = 1..n
      /\ n < MaxHandles /\ arg[t] \in Types
      /\ opened' = Append(opened, arg[t]) /\ mine' = [mine EXCEPT ![t] = n + 1]
  BY OpenedIsSeq DEF DbsInv, TypeOK, Open
<1>2. /\ n + 1 \in 1..MaxHandles /\ n + 1 \in 0..MaxHandles
      /\ opened' \in [1..(n + 1) -> Types]
      /\ DOMAIN opened' = DOMAIN opened \cup {n + 1}
      /\ \A h \in DOMAIN opened : opened'[h] = opened[h]
      /\ opened'[n + 1] = arg[t]
  <2>1. n \in Nat /\ n + 1 \in 1..MaxHandles /\ n + 1 \in 0..MaxHandles
    BY <1>1, BoundAssumption
  <2>2. /\ opened' \in Seq(Types) /\ Len(opened') = n + 1 /\ opened'[n + 1] = arg[t]
        /\ \A h \in 1..n : opened'[h] = opened[h]
    BY <1>1
  <2>3. DOMAIN opened' = 1..(n + 1) /\ opened' \in [1..(n + 1) -> Types]
    BY <2>2
  <2>4. 1..(n + 1) = 1..n \cup {n + 1}
    BY <2>1
  <2> QED BY <1>1, <2>1, <2>2, <2>3, <2>4
<1> HIDE DEF n
<1>3. TypeOK'
  <2>1. \E m \in 0..MaxHandles : opened' \in [1..m -> Types]
    BY <1>2
  <2>2. /\ stale' \subseteq DOMAIN opened' /\ freed' \subseteq DOMAIN opened'
        /\ use' \in [Txns -> SUBSET DOMAIN opened']
    BY <1>2 DEF DbsInv, TypeOK, Open, notices
  <2>3. mine' \in [Txns -> Handles \cup {NoHandle}]
    BY <1>1, <1>2 DEF DbsInv, TypeOK, Handles
  <2>4. /\ exists' \subseteq Types /\ byOp' \subseteq exists'
        /\ creator' \in [Types -> Txns \cup {NoTxn}]
    BY <1>1 DEF DbsInv, TypeOK, Open
  <2>5. state' \in [Txns -> State]
    BY DEF DbsInv, TypeOK, Open, Goto, State
  <2>6. /\ master' \in Txns \cup {NoTxn} /\ masterByOp' \in BOOLEAN
        /\ UNCHANGED <<usage, indexes, notify, dbs, registered, arg>>
    BY DEF DbsInv, TypeOK, Open, notices
  <2> QED BY <2>1, <2>2, <2>3, <2>4, <2>5, <2>6 DEF DbsInv, TypeOK
<1>4. HandlesOK'
  BY <1>1, <1>2 DEF DbsInv, TypeOK, HandlesOK, Open, Goto, notices
<1>5. ByOpOK'
  BY NoTxnAssumption DEF DbsInv, TypeOK, ByOpOK, InOp, Open, Goto, notices
<1> QED BY <1>3, <1>4, <1>5 DEF DbsInv

LEMMA StoreKeeps ==
  ASSUME DbsInv, UNCHANGED usage, NEW t \in Txns, Store(t)
  PROVE  DbsInv'
<1>1. TypeOK'
  <2>1. arg[t] \in Types /\ mine[t] \in Handles \cup {NoHandle}
    BY DEF DbsInv, TypeOK
  <2>2. indexes[arg[t]] \in DOMAIN opened \cup {NoHandle}
    BY <2>1 DEF DbsInv, HandlesOK
  <2>3. freed' \subseteq DOMAIN opened /\ opened' = opened
    BY <2>2 DEF DbsInv, TypeOK, Store
  <2>4. indexes' \in [Types -> Handles \cup {NoHandle}]
    BY <2>1 DEF DbsInv, TypeOK, Store
  <2>5. state' \in [Txns -> State]
    BY DEF DbsInv, TypeOK, Store, Goto, State
  <2> QED BY <2>3, <2>4, <2>5 DEF DbsInv, TypeOK, Store, database, notices
<1>2. HandlesOK'
  BY DEF DbsInv, TypeOK, HandlesOK, Store, Goto, database, notices
<1>3. ByOpOK'
  BY DEF DbsInv, TypeOK, ByOpOK, InOp, Store, Goto, database,
                         notices
<1> QED BY <1>1, <1>2, <1>3 DEF DbsInv

LEMMA RegisterKeeps ==
  ASSUME DbsInv, UNCHANGED usage, NEW t \in Txns, Register(t)
  PROVE  DbsInv'
<1>1. TypeOK'
  BY DEF DbsInv, TypeOK, HandlesOK, ByOpOK, Register, Used,
                         Goto, database, State, InOp
<1>2. HandlesOK'
  BY DEF DbsInv, TypeOK, HandlesOK, Register, Used, Goto, database
<1>3. ByOpOK'
  BY DEF DbsInv, TypeOK, ByOpOK, InOp, Register, Used, Goto,
                         database
<1> QED BY <1>1, <1>2, <1>3 DEF DbsInv

LEMMA BeginKeeps ==
  ASSUME DbsInv, UNCHANGED usage, NEW t \in Txns, Begin(t)
  PROVE  DbsInv'
<1>1. TypeOK'
  BY DEF DbsInv, TypeOK, HandlesOK, ByOpOK, Begin, Goto,
                         database, notices, State, InOp
<1>2. HandlesOK'
  BY DEF DbsInv, TypeOK, HandlesOK, Begin, Goto, database, notices
<1>3. ByOpOK'
  BY DEF DbsInv, TypeOK, ByOpOK, InOp, Begin, Goto, database,
                         notices
<1> QED BY <1>1, <1>2, <1>3 DEF DbsInv

LEMMA OpBeginKeeps ==
  ASSUME DbsInv, UNCHANGED usage, NEW t \in Txns, OpBegin(t)
  PROVE  DbsInv'
<1>1. TypeOK'
  BY DEF DbsInv, TypeOK, HandlesOK, ByOpOK, OpBegin, Goto,
                         database, notices, State, InOp
<1>2. HandlesOK'
  BY DEF DbsInv, TypeOK, HandlesOK, OpBegin, Goto, database, notices
<1>3. ByOpOK'
  BY DEF DbsInv, TypeOK, ByOpOK, InOp, OpBegin, Goto, database,
                         notices
<1> QED BY <1>1, <1>2, <1>3 DEF DbsInv

LEMMA OpCommitKeeps ==
  ASSUME DbsInv, UNCHANGED usage, NEW t \in Txns, OpCommit(t)
  PROVE  DbsInv'
<1>1. TypeOK'
  BY DEF DbsInv, TypeOK, HandlesOK, ByOpOK, OpCommit, OpDone,
                         Goto, notices, State, InOp
<1>2. HandlesOK'
  BY DEF DbsInv, TypeOK, HandlesOK, OpCommit, OpDone, Goto, notices
<1>3. ByOpOK'
  BY DEF DbsInv, TypeOK, ByOpOK, InOp, OpCommit, OpDone, Goto,
                         notices
<1> QED BY <1>1, <1>2, <1>3 DEF DbsInv

LEMMA OpAbortKeeps ==
  ASSUME DbsInv, UNCHANGED usage, NEW t \in Txns, OpAbort(t)
  PROVE  DbsInv'
<1>1. TypeOK'
  <2>1. state' \in [Txns -> State] /\ use' \in [Txns -> SUBSET DOMAIN opened]
    BY DEF DbsInv, TypeOK, OpAbort, OpDone, Goto, State
  <2>2. /\ exists' \subseteq Types /\ creator' \in [Types -> Txns \cup {NoTxn}]
        /\ byOp' \subseteq exists' /\ stale' \subseteq DOMAIN opened
        /\ master' \in Txns \cup {NoTxn} /\ masterByOp' \in BOOLEAN
    <3>1. CASE master = t
      BY <3>1 DEF DbsInv, TypeOK, OpAbort, Undo, Unlock
    <3>2. CASE master # t
      BY <3>2 DEF DbsInv, TypeOK, OpAbort, database
    <3> QED BY <3>1, <3>2
  <2> QED BY <2>1, <2>2 DEF DbsInv, TypeOK, OpAbort, OpDone, notices
<1>2. HandlesOK'
  BY DEF DbsInv, TypeOK, HandlesOK, OpAbort, Undo, Unlock, OpDone, Goto,
         database, notices
<1>3. ByOpOK'
  BY DEF DbsInv, TypeOK, ByOpOK, InOp, OpAbort, Undo, Unlock,
                         OpDone, Goto, database, notices
<1> QED BY <1>1, <1>2, <1>3 DEF DbsInv

LEMMA OpenFailsKeeps ==
  ASSUME DbsInv, UNCHANGED usage, NEW t \in Txns, OpenFails(t)
  PROVE  DbsInv'
<1>1. TypeOK'
  BY DEF DbsInv, TypeOK, HandlesOK, ByOpOK, OpenFails, Undo,
                         Unlock, Goto, notices, State, InOp
<1>2. HandlesOK'
  BY DEF DbsInv, TypeOK, HandlesOK, OpenFails, Undo, Unlock, Goto, notices
<1>3. ByOpOK'
  BY DEF DbsInv, TypeOK, ByOpOK, InOp, OpenFails, Undo, Unlock,
                         Goto, notices
<1> QED BY <1>1, <1>2, <1>3 DEF DbsInv

LEMMA CommitKeeps ==
  ASSUME DbsInv, UNCHANGED usage, NEW t \in Txns, Commit(t)
  PROVE  DbsInv'
<1>1. TypeOK'
  BY DEF DbsInv, TypeOK, HandlesOK, ByOpOK, Commit, Unlock,
                         Goto, notices, State, InOp
<1>2. HandlesOK'
  BY DEF DbsInv, TypeOK, HandlesOK, Commit, Unlock, Goto, notices
<1>3. ByOpOK'
  BY DEF DbsInv, TypeOK, ByOpOK, InOp, Commit, Unlock, Goto,
                         notices
<1> QED BY <1>1, <1>2, <1>3 DEF DbsInv

LEMMA AbortKeeps ==
  ASSUME DbsInv, UNCHANGED usage, NEW t \in Txns, Abort(t)
  PROVE  DbsInv'
<1>1. TypeOK'
  BY DEF DbsInv, TypeOK, HandlesOK, ByOpOK, Abort, Undo, Unlock,
                         Goto, notices, State, InOp
<1>2. HandlesOK'
  BY DEF DbsInv, TypeOK, HandlesOK, Abort, Undo, Unlock, Goto, notices
<1>3. ByOpOK'
  BY DEF DbsInv, TypeOK, ByOpOK, InOp, Abort, Undo, Unlock,
                         Goto, notices
<1> QED BY <1>1, <1>2, <1>3 DEF DbsInv

LEMMA PostCloseKeeps ==
  ASSUME DbsInv, UNCHANGED usage, NEW t \in Txns, PostClose(t)
  PROVE  DbsInv'
<1>1. TypeOK'
  BY DEF DbsInv, TypeOK, HandlesOK, ByOpOK, PostClose, Goto,
                         database, notices, State, InOp
<1>2. HandlesOK'
  BY DEF DbsInv, TypeOK, HandlesOK, PostClose, Goto, database, notices
<1>3. ByOpOK'
  BY DEF DbsInv, TypeOK, ByOpOK, InOp, PostClose, Goto,
                         database, notices
<1> QED BY <1>1, <1>2, <1>3 DEF DbsInv

LEMMA PostClearKeeps ==
  ASSUME DbsInv, UNCHANGED usage, NEW t \in Txns, PostClear(t)
  PROVE  DbsInv'
<1>1. TypeOK'
  BY DEF DbsInv, TypeOK, HandlesOK, ByOpOK, PostClear, Goto,
                         database, State, InOp
<1>2. HandlesOK'
  BY DEF DbsInv, TypeOK, HandlesOK, PostClear, Goto, database
<1>3. ByOpOK'
  BY DEF DbsInv, TypeOK, ByOpOK, InOp, PostClear, Goto, database
<1> QED BY <1>1, <1>2, <1>3 DEF DbsInv

LEMMA NothingToNotifyKeeps ==
  ASSUME DbsInv, UNCHANGED usage, NEW t \in Txns, NothingToNotify(t)
  PROVE  DbsInv'
<1>1. TypeOK'
  BY DEF DbsInv, TypeOK, HandlesOK, ByOpOK, NothingToNotify,
                         Goto, database, notices, State, InOp
<1>2. HandlesOK'
  BY DEF DbsInv, TypeOK, HandlesOK, NothingToNotify, Goto, database, notices
<1>3. ByOpOK'
  BY DEF DbsInv, TypeOK, ByOpOK, InOp, NothingToNotify, Goto,
                         database, notices
<1> QED BY <1>1, <1>2, <1>3 DEF DbsInv

LEMMA DbsSteps == DbsInv /\ [Next]_vars => DbsInv'
<1> SUFFICES ASSUME DbsInv, [Next]_vars PROVE DbsInv'
  OBVIOUS
<1>1. CASE UNCHANGED vars
  BY <1>1 DEF DbsInv, TypeOK, HandlesOK, ByOpOK, vars, database, notices
<1>2. ASSUME UNCHANGED usage, NEW y \in Types,
             OtherCreates(y) \/ \E t \in Txns : Get(t, y)
      PROVE  DbsInv'
  BY <1>2, OtherCreatesKeeps, GetKeeps
<1>3. ASSUME UNCHANGED usage, NEW t \in Txns,
             \/ Open(t) \/ Store(t) \/ Register(t)
             \/ Begin(t) \/ OpBegin(t) \/ OpCommit(t) \/ OpAbort(t)
             \/ OpenFails(t) \/ Commit(t) \/ Abort(t)
             \/ PostClose(t) \/ PostClear(t) \/ NothingToNotify(t)
      PROVE  DbsInv'
  BY <1>3, OpenKeeps, StoreKeeps, RegisterKeeps, BeginKeeps, OpBeginKeeps,
     OpCommitKeeps, OpAbortKeeps, OpenFailsKeeps, CommitKeeps, AbortKeeps,
     PostCloseKeeps, PostClearKeeps, NothingToNotifyKeeps
<1> QED BY <1>1, <1>2, <1>3 DEF Next

LEMMA DbsAlways == Spec => []DbsInv
  BY InitDbs, DbsSteps, PTL DEF Spec

\* Type correctness, for every usage: also where transactions interleave and
\* operations fail, no step of getIndexDB, of a rollback or of a notification
\* leaves a handle that was never opened.
THEOREM TypeCorrect == Spec => []TypeOK
<1>1. DbsInv => TypeOK
  BY DEF DbsInv
<1> QED BY DbsAlways, <1>1, PTL

-----------------------------------------------------------------------------
(* One notification *)

LEMMA NotifySteps ==
  ASSUME TypeOK, NotifySingle, [Next]_vars
  PROVE  NotifySingle'
<1>1. CASE UNCHANGED vars
  BY <1>1 DEF NotifySingle, vars, notices
<1>2. ASSUME NEW y \in Types, OtherCreates(y) \/ \E t \in Txns : Get(t, y)
      PROVE  NotifySingle'
  BY <1>2 DEF TypeOK, NotifySingle, OtherCreates, Get, Goto, notices
<1>3. ASSUME NEW t \in Txns, Register(t)
      PROVE  NotifySingle'
  BY <1>3, NoTxnAssumption DEF TypeOK, NotifySingle, Register, Used, Goto,
                               notices
<1>4. ASSUME NEW t \in Txns, PostClose(t)
      PROVE  NotifySingle'
  BY <1>4 DEF TypeOK, NotifySingle, PostClose, Goto, notices
<1>5. ASSUME NEW t \in Txns, PostClear(t)
      PROVE  NotifySingle'
  BY <1>5 DEF TypeOK, NotifySingle, PostClear, Goto, notices
<1>6. ASSUME NEW t \in Txns,
             \/ Open(t) \/ Store(t) \/ Begin(t) \/ OpBegin(t) \/ OpCommit(t) \/ OpAbort(t)
             \/ OpenFails(t) \/ Commit(t) \/ Abort(t) \/ NothingToNotify(t)
      PROVE  NotifySingle'
  <2>1. UNCHANGED notices /\ \E s \in State \ {"closed"} : Goto(t, s)
    BY <1>6 DEF Open, Store, Begin, OpBegin, OpCommit, OpAbort, OpDone, OpenFails,
                Commit, Abort, NothingToNotify, State
  <2> QED BY <2>1 DEF TypeOK, NotifySingle, Goto, notices
<1> QED BY <1>1, <1>2, <1>3, <1>4, <1>5, <1>6 DEF Next

\* The assertion of postNotify, for every usage: the IndexDbNotify that is
\* being run is the one the container points to, and no other is registered.
THEOREM NotifyIsSingle == Spec => []NotifySingle
<1>1. Init => NotifySingle
  BY DEF Init, NotifySingle
<1>2. TypeOK /\ NotifySingle /\ [Next]_vars => NotifySingle'
  BY NotifySteps
<1> QED BY TypeCorrect, <1>1, <1>2, PTL DEF Spec

-----------------------------------------------------------------------------
(* One transaction after another *)

OneAtATime == \A u \in Txns : state[u] # "idle" => u \in usage.threads

\* A handle that is being opened takes no other's place.
Getting ==
  \A u \in Txns :
    /\ state[u] \in {"open", "store"} => indexes[arg[u]] = NoHandle
    /\ state[u] = "register" => indexes[arg[u]] = mine[u]
    /\ state[u] \in {"store", "register"} => mine[u] \notin stale \cup freed

Using ==
  /\ \A u \in Txns : state[u] \notin InOp => use[u] = {}
  /\ \A u \in Txns : use[u] \cap freed = {}
  /\ \A y \in Types : indexes[y] \notin freed

\* What an abort makes stale is recorded, and its notification has yet to run.
Recorded ==
  \A y \in Types :
    indexes[y] \in stale =>
      y \in dbs /\ \E u \in Txns : state[u] = "aborted" /\ u \in registered

\* A handle on a database created by a transaction in progress is recorded, or
\* about to be.
Created ==
  /\ \A y \in Types : creator[y] # NoTxn =>
       /\ state[creator[y]] \in InOp \cup {"txn"}
       /\ \/ indexes[y] = NoHandle \/ y \in dbs
          \/ state[creator[y]] = "register" /\ arg[creator[y]] = y
  /\ notify \in usage.threads \cup {NoTxn}
  /\ dbs # {} => notify # NoTxn

AloneInv == OneAtATime /\ Getting /\ Using /\ Recorded /\ Created

AloneAssumed == \A u \in Orderly : ~u.opsFail /\ \A s, t \in u.threads : s = t
Ready == DbsInv /\ NotifySingle /\ AloneAssumed /\ usage \in Orderly /\ AloneInv

\* Only the thread that acts is in a transaction.
LEMMA NobodyElse ==
  ASSUME Ready, NEW t \in Txns, t \in usage.threads \/ state[t] # "idle",
         NEW u \in Txns, u # t
  PROVE  state[u] = "idle"
  BY DEF Ready, AloneInv, OneAtATime, AloneAssumed

LEMMA OtherCreatesAlone ==
  ASSUME Ready, UNCHANGED usage, NEW y \in Types, OtherCreates(y)
  PROVE  AloneInv'
<1>1. OneAtATime'
  BY DEF Ready, DbsInv, TypeOK, AloneInv, OneAtATime, OtherCreates, notices
<1>2. Getting'
  BY DEF Ready, DbsInv, TypeOK, AloneInv, Getting, OtherCreates, notices
<1>3. Using'
  BY DEF Ready, DbsInv, TypeOK, AloneInv, Using, InOp, OtherCreates, notices
<1>4. Recorded'
  BY DEF Ready, DbsInv, TypeOK, AloneInv, Recorded, OtherCreates, notices
<1>5. Created'
  BY DEF Ready, DbsInv, TypeOK, AloneInv, Created, OneAtATime, InOp,
         OtherCreates, notices
<1> QED BY <1>1, <1>2, <1>3, <1>4, <1>5 DEF AloneInv

LEMMA GetAlone ==
  ASSUME Ready, UNCHANGED usage, NEW t \in Txns, NEW y \in Types, Get(t, y)
  PROVE  AloneInv'
<1>1. \A u \in Txns : u # t => state[u] = "idle"
  BY NobodyElse DEF Get
<1>2. OneAtATime'
  BY <1>1 DEF Ready, DbsInv, TypeOK, AloneInv, OneAtATime, Get, Goto, database,
              notices
<1>3. Getting'
  BY <1>1 DEF Ready, DbsInv, TypeOK, AloneInv, Getting, Get, Goto, database,
              notices
<1>4. Using'
  BY <1>1 DEF Ready, DbsInv, TypeOK, AloneInv, Using, InOp, Get, Goto, database,
              notices
<1>5. Recorded'
  BY <1>1 DEF Ready, DbsInv, TypeOK, AloneInv, Recorded, Get, Goto, database,
              notices
<1>6. Created'
  BY <1>1 DEF Ready, DbsInv, TypeOK, AloneInv, Created, OneAtATime, InOp, Get,
              Goto, database, notices
<1> QED BY <1>2, <1>3, <1>4, <1>5, <1>6 DEF AloneInv

LEMMA OpenAlone ==
  ASSUME Ready, UNCHANGED usage, NEW t \in Txns, Open(t)
  PROVE  AloneInv'
<1>1. \A u \in Txns : u # t => state[u] = "idle"
  BY NobodyElse DEF Open
<1>2. OneAtATime'
  BY <1>1 DEF Ready, DbsInv, TypeOK, AloneInv, OneAtATime, Open, Goto, notices
<1>3. Getting'
  BY <1>1 DEF Ready, DbsInv, TypeOK, AloneInv, Getting, Open, Goto, notices
<1>4. Using'
  BY <1>1 DEF Ready, DbsInv, TypeOK, AloneInv, Using, InOp, Open, Goto, notices
<1>5. Recorded'
  BY <1>1 DEF Ready, DbsInv, TypeOK, AloneInv, Recorded, Open, Goto, notices
<1>6. Created'
  <2>1. arg[t] \in Types /\ indexes[arg[t]] = NoHandle
    BY DEF Ready, DbsInv, TypeOK, AloneInv, Getting, Open
  <2>2. \A y \in Types : creator'[y] = creator[y] \/ (y = arg[t] /\ creator'[y] = t)
    BY DEF Ready, DbsInv, TypeOK, Open
  <2>3. \A y \in Types : creator[y] # NoTxn =>
          creator[y] = t /\ (indexes[y] = NoHandle \/ y \in dbs)
    BY <1>1 DEF Ready, DbsInv, TypeOK, AloneInv, Created, InOp, Open
  <2>4. state'[t] = "store" /\ UNCHANGED <<indexes, dbs, notify, usage>>
    BY DEF Ready, DbsInv, TypeOK, Open, Goto, notices
  <2>5. notify \in usage.threads \cup {NoTxn} /\ (dbs # {} => notify # NoTxn)
    BY DEF Ready, AloneInv, Created
  <2> QED BY <2>1, <2>2, <2>3, <2>4, <2>5 DEF Created, InOp
<1> QED BY <1>2, <1>3, <1>4, <1>5, <1>6 DEF AloneInv

LEMMA StoreAlone ==
  ASSUME Ready, UNCHANGED usage, NEW t \in Txns, Store(t)
  PROVE  AloneInv'
<1>1. \A u \in Txns : u # t => state[u] = "idle"
  BY NobodyElse DEF Store
<1>2. OneAtATime'
  BY <1>1 DEF Ready, DbsInv, TypeOK, AloneInv, OneAtATime, Store, Goto,
              database, notices
<1>3. Getting'
  BY <1>1 DEF Ready, DbsInv, TypeOK, AloneInv, Getting, Store, Goto, database,
              notices
<1>4. Using'
  <2>1. arg[t] \in Types /\ indexes[arg[t]] = NoHandle /\ mine[t] \notin freed
    BY DEF Ready, DbsInv, TypeOK, AloneInv, Getting, Store
  <2>2. freed' = freed /\ indexes' = [indexes EXCEPT ![arg[t]] = mine[t]]
    BY <2>1 DEF Store
  <2>3. \A y \in Types : indexes'[y] \notin freed'
    BY <2>1, <2>2 DEF Ready, DbsInv, TypeOK, AloneInv, Using
  <2>4. use' = use /\ \A u \in Txns : state'[u] \notin InOp => state[u] \notin InOp
    BY DEF Ready, DbsInv, TypeOK, Store, Goto, InOp
  <2> QED BY <2>2, <2>3, <2>4 DEF Ready, AloneInv, Using
<1>5. Recorded'
  <2>1. arg[t] \in Types /\ mine[t] \notin stale
    BY DEF Ready, DbsInv, TypeOK, AloneInv, Getting, Store
  <2>2. \A y \in Types : indexes[y] \notin stale
    BY <1>1 DEF Ready, AloneInv, Recorded, Store
  <2>3. stale' = stale /\ indexes' = [indexes EXCEPT ![arg[t]] = mine[t]]
    BY DEF Store
  <2>4. \A y \in Types : indexes'[y] \notin stale'
    BY <2>1, <2>2, <2>3 DEF Ready, DbsInv, TypeOK
  <2> QED BY <2>4 DEF Recorded
<1>6. Created'
  BY <1>1 DEF Ready, DbsInv, TypeOK, AloneInv, Created, OneAtATime, InOp, Store,
              Goto, database, notices
<1> QED BY <1>2, <1>3, <1>4, <1>5, <1>6 DEF AloneInv

LEMMA RegisterAlone ==
  ASSUME Ready, UNCHANGED usage, NEW t \in Txns, Register(t)
  PROVE  AloneInv'
<1>1. \A u \in Txns : u # t => state[u] = "idle"
  BY NobodyElse DEF Register
<1>2. OneAtATime'
  BY <1>1 DEF Ready, DbsInv, TypeOK, AloneInv, OneAtATime, Register, Used, Goto,
              database
<1>3. Getting'
  BY <1>1 DEF Ready, DbsInv, TypeOK, AloneInv, Getting, Register, Used, Goto,
              database
<1>4. Using'
  <2>1. mine[t] \notin freed /\ freed' = freed /\ indexes' = indexes
    BY DEF Ready, AloneInv, Getting, Register
  <2>2. /\ use' = [use EXCEPT ![t] = @ \cup {mine[t]}]
        /\ \A u \in Txns : state'[u] \notin InOp => state[u] \notin InOp
    BY DEF Ready, DbsInv, TypeOK, Register, Used, Goto, InOp
  <2>3. \A u \in Txns : use'[u] \cap freed' = {}
    BY <2>1, <2>2 DEF Ready, DbsInv, TypeOK, AloneInv, Using
  <2>4. ASSUME NEW u \in Txns, state'[u] \notin InOp PROVE use'[u] = {}
    <3>1. u # t
      BY <2>4 DEF Ready, DbsInv, TypeOK, Register, Used, Goto, InOp
    <3> QED BY <2>2, <2>4, <3>1 DEF Ready, DbsInv, TypeOK, AloneInv, Using
  <2> QED BY <2>1, <2>3, <2>4 DEF Ready, AloneInv, Using
<1>5. Recorded'
  BY <1>1 DEF Ready, DbsInv, TypeOK, AloneInv, Recorded, Register, Used, Goto,
              database
<1>6. Created'
  <2>1. arg[t] \in Types /\ t \in usage.threads /\ usage' = usage
    BY DEF Ready, DbsInv, TypeOK, AloneInv, OneAtATime, Register
  <2>2. notify \in usage.threads \cup {NoTxn} /\ (dbs # {} => notify # NoTxn)
    BY DEF Ready, AloneInv, Created
  <2>3. dbs' = dbs \cup {arg[t]} /\ notify' \in usage.threads \cup {NoTxn} /\ notify' # NoTxn
    BY <2>1, <2>2, NoTxnAssumption DEF Register
  <2>4. \A y \in Types : creator[y] # NoTxn =>
          creator[y] = t /\ (indexes[y] = NoHandle \/ y \in dbs \/ y = arg[t])
    BY <1>1 DEF Ready, DbsInv, TypeOK, AloneInv, Created, InOp
  <2>5. state'[t] = "op" /\ UNCHANGED <<creator, indexes>>
    BY DEF Ready, DbsInv, TypeOK, Register, Used, Goto, database
  <2> QED BY <2>1, <2>3, <2>4, <2>5 DEF Created, InOp
<1> QED BY <1>2, <1>3, <1>4, <1>5, <1>6 DEF AloneInv

LEMMA BeginAlone ==
  ASSUME Ready, UNCHANGED usage, NEW t \in Txns, Begin(t)
  PROVE  AloneInv'
<1>1. \A u \in Txns : u # t => state[u] = "idle"
  BY NobodyElse DEF Begin
<1>2. OneAtATime'
  BY <1>1 DEF Ready, DbsInv, TypeOK, AloneInv, OneAtATime, Begin, Goto,
              database, notices
<1>3. Getting'
  BY <1>1 DEF Ready, DbsInv, TypeOK, AloneInv, Getting, Begin, Goto, database,
              notices
<1>4. Using'
  BY <1>1 DEF Ready, DbsInv, TypeOK, AloneInv, Using, InOp, Begin, Goto,
              database, notices
<1>5. Recorded'
  BY <1>1 DEF Ready, DbsInv, TypeOK, AloneInv, Recorded, Begin, Goto, database,
              notices
<1>6. Created'
  BY <1>1 DEF Ready, DbsInv, TypeOK, AloneInv, Created, OneAtATime, InOp, Begin,
              Goto, database, notices
<1> QED BY <1>2, <1>3, <1>4, <1>5, <1>6 DEF AloneInv

LEMMA OpBeginAlone ==
  ASSUME Ready, UNCHANGED usage, NEW t \in Txns, OpBegin(t)
  PROVE  AloneInv'
<1>1. \A u \in Txns : u # t => state[u] = "idle"
  BY NobodyElse DEF OpBegin
<1>2. OneAtATime'
  BY <1>1 DEF Ready, DbsInv, TypeOK, AloneInv, OneAtATime, OpBegin, Goto,
              database, notices
<1>3. Getting'
  BY <1>1 DEF Ready, DbsInv, TypeOK, AloneInv, Getting, OpBegin, Goto, database,
              notices
<1>4. Using'
  BY <1>1 DEF Ready, DbsInv, TypeOK, AloneInv, Using, InOp, OpBegin, Goto,
              database, notices
<1>5. Recorded'
  BY <1>1 DEF Ready, DbsInv, TypeOK, AloneInv, Recorded, OpBegin, Goto,
              database, notices
<1>6. Created'
  BY <1>1 DEF Ready, DbsInv, TypeOK, AloneInv, Created, OneAtATime, InOp,
              OpBegin, Goto, database, notices
<1> QED BY <1>2, <1>3, <1>4, <1>5, <1>6 DEF AloneInv

LEMMA OpCommitAlone ==
  ASSUME Ready, UNCHANGED usage, NEW t \in Txns, OpCommit(t)
  PROVE  AloneInv'
<1>1. \A u \in Txns : u # t => state[u] = "idle"
  BY NobodyElse DEF OpCommit
<1>2. OneAtATime'
  BY <1>1 DEF Ready, DbsInv, TypeOK, AloneInv, OneAtATime, OpCommit, OpDone,
              Goto, notices
<1>3. Getting'
  BY <1>1 DEF Ready, DbsInv, TypeOK, AloneInv, Getting, OpCommit, OpDone, Goto,
              notices
<1>4. Using'
  BY <1>1 DEF Ready, DbsInv, TypeOK, AloneInv, Using, InOp, OpCommit, OpDone,
              Goto, notices
<1>5. Recorded'
  BY <1>1 DEF Ready, DbsInv, TypeOK, AloneInv, Recorded, OpCommit, OpDone, Goto,
              notices
<1>6. Created'
  BY <1>1 DEF Ready, DbsInv, TypeOK, AloneInv, Created, OneAtATime, InOp,
              OpCommit, OpDone, Goto, notices
<1> QED BY <1>2, <1>3, <1>4, <1>5, <1>6 DEF AloneInv

LEMMA CommitAlone ==
  ASSUME Ready, UNCHANGED usage, NEW t \in Txns, Commit(t)
  PROVE  AloneInv'
<1>1. \A u \in Txns : u # t => state[u] = "idle"
  BY NobodyElse DEF Commit
<1>2. OneAtATime'
  BY <1>1 DEF Ready, DbsInv, TypeOK, AloneInv, OneAtATime, Commit, Unlock, Goto,
              notices
<1>3. Getting'
  BY <1>1 DEF Ready, DbsInv, TypeOK, AloneInv, Getting, Commit, Unlock, Goto,
              notices
<1>4. Using'
  BY <1>1 DEF Ready, DbsInv, TypeOK, AloneInv, Using, InOp, Commit, Unlock,
              Goto, notices
<1>5. Recorded'
  BY <1>1 DEF Ready, DbsInv, TypeOK, AloneInv, Recorded, Commit, Unlock, Goto,
              notices
<1>6. Created'
  BY <1>1 DEF Ready, DbsInv, TypeOK, AloneInv, Created, OneAtATime, InOp,
              Commit, Unlock, Goto, notices
<1> QED BY <1>2, <1>3, <1>4, <1>5, <1>6 DEF AloneInv

LEMMA AbortAlone ==
  ASSUME Ready, UNCHANGED usage, NEW t \in Txns, Abort(t)
  PROVE  AloneInv'
<1>1. \A u \in Txns : u # t => state[u] = "idle"
  BY NobodyElse DEF Abort
<1>2. OneAtATime'
  BY <1>1 DEF Ready, DbsInv, TypeOK, AloneInv, OneAtATime, Abort, Unlock, Undo,
              Goto, notices
<1>3. Getting'
  BY <1>1 DEF Ready, DbsInv, TypeOK, AloneInv, Getting, Abort, Unlock, Undo,
              Goto, notices
<1>4. Using'
  BY <1>1 DEF Ready, DbsInv, TypeOK, AloneInv, Using, InOp, Abort, Unlock, Undo,
              Goto, notices
<1>5. Recorded'
  <2> SUFFICES ASSUME NEW y \in Types, indexes'[y] \in stale'
               PROVE  y \in dbs' /\ state'[t] = "aborted" /\ t \in registered'
    BY DEF Recorded
  <2>1. state'[t] = "aborted" /\ UNCHANGED <<indexes, dbs, registered>>
    BY DEF Ready, DbsInv, TypeOK, Abort, Goto, notices
  <2>2. indexes[y] \notin stale
    BY <1>1 DEF Ready, AloneInv, Recorded, Abort
  <2>3. indexes[y] \in DOMAIN opened /\ creator[opened[indexes[y]]] = t
    BY <2>1, <2>2 DEF Abort, Undo
  <2>4. indexes[y] # NoHandle
    BY <2>3, OpenedIsSeq DEF Ready, DbsInv, NoHandle
  <2>5. creator[y] = t
    BY <2>3, <2>4 DEF Ready, DbsInv, HandlesOK
  <2>6. y \in dbs /\ notify # NoTxn /\ notify \in usage.threads
    BY <2>4, <2>5, NoTxnAssumption DEF Ready, AloneInv, Created, Abort
  <2>7. notify \in registered
    BY <2>6 DEF Ready, NotifySingle
  <2>8. notify = t
    BY <2>6 DEF Ready, AloneAssumed, AloneInv, OneAtATime, Abort
  <2> QED BY <2>1, <2>6, <2>7, <2>8
<1>6. Created'
  BY <1>1 DEF Ready, DbsInv, TypeOK, AloneInv, Created, OneAtATime, InOp, Abort,
              Unlock, Undo, Goto, notices
<1> QED BY <1>2, <1>3, <1>4, <1>5, <1>6 DEF AloneInv

LEMMA PostCloseAlone ==
  ASSUME Ready, UNCHANGED usage, NEW t \in Txns, PostClose(t)
  PROVE  AloneInv'
<1>1. \A u \in Txns : u # t => state[u] = "idle"
  BY NobodyElse DEF PostClose
<1>2. OneAtATime'
  BY <1>1 DEF Ready, DbsInv, TypeOK, AloneInv, OneAtATime, PostClose, Goto,
              database, notices
<1>3. Getting'
  BY <1>1 DEF Ready, DbsInv, TypeOK, AloneInv, Getting, PostClose, Goto,
              database, notices
<1>4. Using'
  <2> DEFINE closing == {y \in dbs : state[t] = "aborted"}
  <2>1. /\ freed' = freed \cup ({indexes[y] : y \in closing} \ {NoHandle})
        /\ indexes' = [y \in Types |-> IF y \in closing THEN NoHandle ELSE indexes[y]]
        /\ closing \subseteq Types /\ use' = use
    BY DEF Ready, DbsInv, TypeOK, PostClose
  <2> HIDE DEF closing
  <2>2. NoHandle \notin freed'
    <3>1. NoHandle \notin DOMAIN opened
      BY OpenedIsSeq DEF Ready, DbsInv, NoHandle
    <3> QED BY <2>1, <3>1 DEF Ready, DbsInv, TypeOK
  <2>3. ASSUME NEW z \in Types, indexes'[z] \in freed' PROVE FALSE
    <3>1. z \notin closing /\ indexes'[z] = indexes[z] /\ indexes[z] # NoHandle
      BY <2>1, <2>2, <2>3
    <3>2. indexes[z] \notin freed
      BY DEF Ready, AloneInv, Using
    <3>3. PICK y \in closing : indexes[y] = indexes[z]
      BY <2>1, <2>3, <3>1, <3>2
    <3>4. y = z
      BY <2>1, <3>1, <3>3 DEF Ready, DbsInv, HandlesOK
    <3> QED BY <3>1, <3>3, <3>4
  <2>4. \A u \in Txns : use[u] = {}
    BY <1>1 DEF Ready, AloneInv, Using, InOp, PostClose
  <2> QED BY <2>1, <2>3, <2>4 DEF Using
<1>5. Recorded'
  <2>1. /\ stale' = stale
        /\ \A y \in Types : indexes'[y] = indexes[y] \/ indexes'[y] = NoHandle
        /\ \A y \in dbs : state[t] = "aborted" /\ y \in Types => indexes'[y] = NoHandle
    BY DEF PostClose
  <2>2. NoHandle \notin stale
    BY OpenedIsSeq DEF Ready, DbsInv, TypeOK, NoHandle
  <2>3. \A y \in Types : indexes[y] \in stale => y \in dbs /\ state[t] = "aborted"
    BY <1>1 DEF Ready, AloneInv, Recorded
  <2> QED BY <2>1, <2>2, <2>3 DEF Recorded
<1>6. Created'
  BY <1>1 DEF Ready, DbsInv, TypeOK, AloneInv, Created, OneAtATime, InOp,
              PostClose, Goto, database, notices
<1> QED BY <1>2, <1>3, <1>4, <1>5, <1>6 DEF AloneInv

LEMMA PostClearAlone ==
  ASSUME Ready, UNCHANGED usage, NEW t \in Txns, PostClear(t)
  PROVE  AloneInv'
<1>1. \A u \in Txns : u # t => state[u] = "idle"
  BY NobodyElse DEF PostClear
<1>2. OneAtATime'
  BY <1>1 DEF Ready, DbsInv, TypeOK, AloneInv, OneAtATime, PostClear, Goto,
              database
<1>3. Getting'
  BY <1>1 DEF Ready, DbsInv, TypeOK, AloneInv, Getting, PostClear, Goto,
              database
<1>4. Using'
  BY <1>1 DEF Ready, DbsInv, TypeOK, AloneInv, Using, InOp, PostClear, Goto,
              database
<1>5. Recorded'
  BY <1>1 DEF Ready, DbsInv, TypeOK, AloneInv, Recorded, PostClear, Goto,
              database
<1>6. Created'
  BY <1>1 DEF Ready, DbsInv, TypeOK, AloneInv, Created, OneAtATime, InOp,
              PostClear, Goto, database
<1> QED BY <1>2, <1>3, <1>4, <1>5, <1>6 DEF AloneInv

LEMMA NothingToNotifyAlone ==
  ASSUME Ready, UNCHANGED usage, NEW t \in Txns, NothingToNotify(t)
  PROVE  AloneInv'
<1>1. \A u \in Txns : u # t => state[u] = "idle"
  BY NobodyElse DEF NothingToNotify
<1>2. OneAtATime'
  BY <1>1 DEF Ready, DbsInv, TypeOK, AloneInv, OneAtATime, NothingToNotify,
              Goto, database, notices
<1>3. Getting'
  BY <1>1 DEF Ready, DbsInv, TypeOK, AloneInv, Getting, NothingToNotify, Goto,
              database, notices
<1>4. Using'
  BY <1>1 DEF Ready, DbsInv, TypeOK, AloneInv, Using, InOp, NothingToNotify,
              Goto, database, notices
<1>5. Recorded'
  BY <1>1 DEF Ready, DbsInv, TypeOK, AloneInv, Recorded, NothingToNotify, Goto,
              database, notices
<1>6. Created'
  BY <1>1 DEF Ready, DbsInv, TypeOK, AloneInv, Created, OneAtATime, InOp,
              NothingToNotify, Goto, database, notices
<1> QED BY <1>2, <1>3, <1>4, <1>5, <1>6 DEF AloneInv

LEMMA AloneSteps ==
  ASSUME Ready, [Next]_vars
  PROVE  AloneInv' /\ usage' = usage
<1>1. CASE UNCHANGED vars
  BY <1>1 DEF Ready, AloneInv, OneAtATime, Getting, Using, Recorded, Created,
              vars, database, notices
<1>2. ASSUME UNCHANGED usage, NEW y \in Types,
             OtherCreates(y) \/ \E t \in Txns : Get(t, y)
      PROVE  AloneInv'
  BY <1>2, OtherCreatesAlone, GetAlone
<1>3. ASSUME UNCHANGED usage, NEW t \in Txns,
             \/ Open(t) \/ Store(t) \/ Register(t)
             \/ Begin(t) \/ OpBegin(t) \/ OpCommit(t) \/ Commit(t) \/ Abort(t)
             \/ PostClose(t) \/ PostClear(t) \/ NothingToNotify(t)
      PROVE  AloneInv'
  BY <1>3, OpenAlone, StoreAlone, RegisterAlone, BeginAlone, OpBeginAlone,
     OpCommitAlone, CommitAlone, AbortAlone, PostCloseAlone, PostClearAlone,
     NothingToNotifyAlone
<1>4. ASSUME NEW t \in Txns, OpAbort(t) \/ OpenFails(t)
      PROVE  FALSE
  BY <1>4 DEF OpAbort, OpenFails, Ready, AloneAssumed
<1>5. usage' = usage
  BY DEF Next, vars
<1> QED BY <1>1, <1>2, <1>3, <1>4, <1>5 DEF Next

LEMMA AloneAlways ==
  ASSUME AloneAssumed
  PROVE  Spec => [](usage \in Orderly => AloneInv)
<1> DEFINE I == usage \in Orderly => AloneInv
<1>1. Init => I
  <2>1. Init => AloneInv
    BY DEF Init, AloneInv, OneAtATime, Getting, Using, Recorded, Created, InOp
  <2> QED BY <2>1
<1>2. DbsInv /\ NotifySingle /\ I /\ [Next]_vars => I'
  <2> SUFFICES ASSUME DbsInv, NotifySingle, I, [Next]_vars, usage' \in Orderly
               PROVE  AloneInv'
    OBVIOUS
  <2>1. usage' = usage
    BY DEF Next, vars
  <2>2. Ready
    BY <2>1 DEF Ready
  <2> QED BY <2>2, AloneSteps
<1> HIDE DEF I
<1>3. Spec => []I
  BY <1>1, <1>2, DbsAlways, NotifyIsSingle, PTL DEF Spec
<1> QED BY <1>3 DEF I

\* What the comment of IndexDbNotify is about: where transactions follow one
\* another and no operation of theirs fails before the transaction ends, a
\* handle on a database that was rolled back is gone once the notification of
\* the abort has run.
THEOREM HandlesNotStale ==
  ASSUME AloneAssumed
  PROVE  Spec => []NoStaleHandle
<1>1. (usage \in Orderly => AloneInv) => NoStaleHandle
  BY DEF AloneInv, Recorded, NoStaleHandle
<1> QED BY AloneAlways, <1>1, PTL

\* Under the same assumption no operation works with a handle that getIndexDB
\* or a notification has deleted.
THEOREM HandlesNotFreed ==
  ASSUME AloneAssumed
  PROVE  Spec => []NoFreedUse
<1>1. (usage \in Orderly => AloneInv) => NoFreedUse
  BY DEF AloneInv, Using, NoFreedUse
<1> QED BY AloneAlways, <1>1, PTL
=============================================================================
