------------------------------ MODULE IndexDbs ------------------------------
(***************************************************************************)
(* The index databases of one Container, opened on demand.                 *)
(*                                                                         *)
(* The threads of a process share the handles: indexes_ has one for each   *)
(* syntax type.  A handle opened under a transaction is recorded with an   *)
(* IndexDbNotify, which closes it if that transaction is aborted, since a  *)
(* database the transaction created then no longer exists.  There is one   *)
(* such object for the container, registered with one transaction.         *)
(*                                                                         *)
(* Each member of Txns is a thread that runs one transaction after another *)
(* and, in each, operations that have an internal child of their own.      *)
(***************************************************************************)
EXTENDS Naturals, FiniteSets, Sequences

CONSTANTS
  Txns,
  Types,      \* the syntax types
  NoTxn,
  MaxHandles, \* bound on the handles opened
  Usages,     \* how the container may be used: by which threads, and whether
              \* an operation may fail and leave its transaction open
  Orderly     \* the usages in which handles are to stay valid

ASSUME NoTxnAssumption == NoTxn \notin Txns
ASSUME TypesAssumption == Types # {}
ASSUME BoundAssumption == MaxHandles \in Nat \ {0}
ASSUME UsageAssumption ==
  /\ Usages \subseteq [threads : SUBSET Txns, opsFail : BOOLEAN]
  /\ Orderly \subseteq Usages

Handles == 1..MaxHandles
NoHandle == 0

VARIABLES
  usage,      \* how this container is used
  exists,     \* the types whose database is in the container file
  creator,    \* the transaction that created it and has not ended
  byOp,       \* the types created by the operation in progress
  master,     \* the transaction with the write lock on the file's directory
  masterByOp, \* whether the operation in progress took that lock
  indexes,    \* indexes_: the handle of each type
  opened,     \* the type of each handle opened so far
  stale,      \* handles whose database has been rolled back
  freed,      \* handles that have been deleted
  notify,     \* indexDbNotify_: the transaction it was registered with
  dbs,        \* dbs_: the types recorded with it
  registered, \* the transactions whose notify_ has an IndexDbNotify
  state, arg, \* what each thread is doing, and with which type
  mine,       \* the handle it has opened and not yet stored
  use         \* the handles its operation works with

database == <<exists, creator, byOp, master, masterByOp>>
notices == <<notify, dbs, registered>>
vars == <<usage, database, indexes, opened, stale, freed, notices, state, arg, mine, use>>

State == {"idle", "txn", "op", "open", "store", "register", "committed",
          "aborted", "closed"}

TypeOK ==
  /\ usage \in Usages
  /\ exists \subseteq Types
  /\ creator \in [Types -> Txns \cup {NoTxn}]
  /\ byOp \subseteq exists
  /\ master \in Txns \cup {NoTxn} /\ masterByOp \in BOOLEAN
  /\ indexes \in [Types -> Handles \cup {NoHandle}]
  /\ \E n \in 0..MaxHandles : opened \in [1..n -> Types]
  /\ stale \subseteq DOMAIN opened /\ freed \subseteq DOMAIN opened
  /\ notify \in Txns \cup {NoTxn}
  /\ dbs \subseteq Types /\ registered \subseteq Txns
  /\ state \in [Txns -> State] /\ arg \in [Txns -> Types]
  /\ mine \in [Txns -> Handles \cup {NoHandle}]
  /\ use \in [Txns -> SUBSET DOMAIN opened]

\* The container has been opened: a handle for every type it has.
Init ==
  /\ usage \in Usages
  /\ exists = {} /\ creator = [y \in Types |-> NoTxn] /\ byOp = {}
  /\ master = NoTxn /\ masterByOp = FALSE
  /\ indexes = [y \in Types |-> NoHandle] /\ opened = <<>>
  /\ stale = {} /\ freed = {}
  /\ notify = NoTxn /\ dbs = {} /\ registered = {}
  /\ state = [t \in Txns |-> "idle"]
  /\ arg = [t \in Txns |-> CHOOSE y \in Types : TRUE]
  /\ mine = [t \in Txns |-> NoHandle] /\ use = [t \in Txns |-> {}]

Goto(t, s) == state' = [state EXCEPT ![t] = s]

-----------------------------------------------------------------------------
(* Berkeley DB *)

\* What a rollback undoes: the databases, and what was opened on them.
Undo(types) ==
  /\ exists' = exists \ types
  /\ creator' = [y \in Types |-> IF y \in types THEN NoTxn ELSE creator[y]]
  /\ stale' = stale \cup {h \in DOMAIN opened : opened[h] \in types}

Unlock(t) == master' = IF master = t THEN NoTxn ELSE master

\* Another process adds a database to the container and commits.
OtherCreates(y) ==
  /\ y \notin exists /\ master = NoTxn
  /\ exists' = exists \cup {y}
  /\ UNCHANGED <<creator, byOp, master, masterByOp, indexes, opened, stale,
                 freed, notices, state, arg, mine, use>>

-----------------------------------------------------------------------------
(* Container::getIndexDB(type, txn, toWrite) *)

\* Mutant: a null handle is used as it is.
GetUnchecked(t, y) ==
  /\ state[t] = "op"
  /\ arg' = [arg EXCEPT ![t] = y]
  /\ use' = [use EXCEPT ![t] = @ \cup {indexes[y]}]
  /\ UNCHANGED <<database, indexes, opened, stale, freed, notices, state, mine>>

\* Mutant: the database is opened whether or not there is a handle.
GetAnew(t, y) ==
  /\ state[t] = "op"
  /\ arg' = [arg EXCEPT ![t] = y]
  /\ Goto(t, "open")
  /\ UNCHANGED <<database, indexes, opened, stale, freed, notices, mine, use>>

\* indexes_[type], read without a lock.
Get(t, y) ==
  /\ state[t] = "op"
  /\ arg' = [arg EXCEPT ![t] = y]
  /\ IF indexes[y] # NoHandle
     THEN use' = [use EXCEPT ![t] = @ \cup {indexes[y]}] /\ UNCHANGED state
     ELSE Goto(t, "open") /\ UNCHANGED use
  /\ UNCHANGED <<database, indexes, opened, stale, freed, notices, mine>>

\* SyntaxDatabase: opened, and created if it does not exist, in a child of the
\* operation's transaction.  To open with DB_CREATE takes a write lock on the
\* page of the directory, held until the transaction ends.
Open(t) ==
  LET y == arg[t] IN
  /\ state[t] = "open" /\ master \in {t, NoTxn}
  /\ Len(opened) < MaxHandles
  /\ opened' = Append(opened, y)
  /\ mine' = [mine EXCEPT ![t] = Len(opened) + 1]
  /\ exists' = exists \cup {y}
  /\ IF y \in exists THEN UNCHANGED <<creator, byOp>>
     ELSE creator' = [creator EXCEPT ![y] = t] /\ byOp' = byOp \cup {y}
  /\ master' = t
  /\ masterByOp' = IF master = t THEN masterByOp ELSE TRUE
  /\ Goto(t, "store")
  /\ UNCHANGED <<indexes, stale, freed, notices, arg, use>>

\* indexes_[type].reset(sdb) deletes the handle that was there.
Store(t) ==
  LET y == arg[t] IN
  /\ state[t] = "store"
  /\ freed' = freed \cup ({indexes[y]} \ {NoHandle})
  /\ indexes' = [indexes EXCEPT ![y] = mine[t]]
  /\ Goto(t, "register")
  /\ UNCHANGED <<database, opened, stale, notices, arg, mine, use>>

Used(t) == /\ use' = [use EXCEPT ![t] = @ \cup {mine[t]}]
           /\ mine' = [mine EXCEPT ![t] = NoHandle]
           /\ Goto(t, "op")

\* Mutant: every type gets an IndexDbNotify of its own.
RegisterEach(t) ==
  /\ state[t] = "register"
  /\ notify' = t /\ registered' = registered \cup {t}
  /\ dbs' = {arg[t]}
  /\ Used(t)
  /\ UNCHANGED <<database, indexes, opened, stale, freed, arg>>

\* Mutant: only the type that made the IndexDbNotify is added.
RegisterFirst(t) ==
  /\ state[t] = "register"
  /\ IF notify = NoTxn
     THEN notify' = t /\ registered' = registered \cup {t} /\ dbs' = {arg[t]}
     ELSE UNCHANGED notices
  /\ Used(t)
  /\ UNCHANGED <<database, indexes, opened, stale, freed, arg>>

\* Under the lock of the container: the type is added to the IndexDbNotify,
\* which is made and registered if there is none.
Register(t) ==
  /\ state[t] = "register"
  /\ IF notify = NoTxn
     THEN notify' = t /\ registered' = registered \cup {t} /\ dbs' = {arg[t]}
     ELSE dbs' = dbs \cup {arg[t]} /\ UNCHANGED <<notify, registered>>
  /\ Used(t)
  /\ UNCHANGED <<database, indexes, opened, stale, freed, arg>>

-----------------------------------------------------------------------------
(* Operations and transactions *)

Begin(t) ==
  /\ state[t] = "idle" /\ t \in usage.threads
  /\ Goto(t, "txn")
  /\ UNCHANGED <<database, indexes, opened, stale, freed, notices, arg, mine, use>>

OpBegin(t) ==
  /\ state[t] = "txn"
  /\ Goto(t, "op")
  /\ UNCHANGED <<database, indexes, opened, stale, freed, notices, arg, mine, use>>

\* byOp and masterByOp speak of the one operation that has the lock.
OpDone(t) ==
  /\ use' = [use EXCEPT ![t] = {}]
  /\ Goto(t, "txn")
  /\ UNCHANGED <<indexes, opened, freed, notices, arg, mine>>

OpCommit(t) ==
  /\ state[t] = "op"
  /\ byOp' = IF master = t THEN {} ELSE byOp
  /\ masterByOp' = IF master = t THEN FALSE ELSE masterByOp
  /\ OpDone(t)
  /\ UNCHANGED <<exists, creator, master, stale>>

\* The operation fails: the guard aborts its internal child, and nobody is
\* notified.
OpAbort(t) ==
  /\ usage.opsFail /\ state[t] = "op"
  /\ IF master = t
     THEN /\ Undo(byOp)
          /\ IF masterByOp THEN Unlock(t) ELSE UNCHANGED master
          /\ byOp' = {} /\ masterByOp' = FALSE
     ELSE UNCHANGED <<database, stale>>
  /\ OpDone(t)

\* Transaction::commit or abort ends the DB_TXN, and with it its locks...
Commit(t) ==
  /\ state[t] = "txn"
  /\ creator' = [y \in Types |-> IF creator[y] = t THEN NoTxn ELSE creator[y]]
  /\ Unlock(t)
  /\ Goto(t, "committed")
  /\ UNCHANGED <<exists, byOp, masterByOp, indexes, opened, stale, freed,
                 notices, arg, mine, use>>

Abort(t) ==
  /\ state[t] = "txn"
  /\ Undo({y \in Types : creator[y] = t})
  /\ Unlock(t)
  /\ Goto(t, "aborted")
  /\ UNCHANGED <<byOp, masterByOp, indexes, opened, freed, notices, arg, mine, use>>

\* Berkeley DB cannot open the database, for a deadlock or any other error: the
\* constructor aborts the internal child and the guard, then, the transaction.
OpenFails(t) ==
  /\ usage.opsFail /\ state[t] = "open"
  /\ Undo({y \in Types : creator[y] = t})
  /\ Unlock(t)
  /\ byOp' = IF master = t THEN {} ELSE byOp
  /\ masterByOp' = IF master = t THEN FALSE ELSE masterByOp
  /\ use' = [use EXCEPT ![t] = {}]
  /\ Goto(t, "aborted")
  /\ UNCHANGED <<indexes, opened, freed, notices, arg, mine>>

\* ... and then runs the notifications: IndexDbNotify::postNotify closes the
\* handles it was told of if the transaction was aborted,
PostClose(t) ==
  /\ state[t] \in {"committed", "aborted"} /\ t \in registered
  /\ LET closing == {y \in dbs : state[t] = "aborted"} IN
     /\ freed' = freed \cup ({indexes[y] : y \in closing} \ {NoHandle})
     /\ indexes' = [y \in Types |-> IF y \in closing THEN NoHandle ELSE indexes[y]]
  /\ Goto(t, "closed")
  /\ UNCHANGED <<database, opened, stale, notices, arg, mine, use>>

\* and, under the lock of the container, makes room for the next one.
PostClear(t) ==
  /\ state[t] = "closed"
  /\ notify' = NoTxn /\ dbs' = {} /\ registered' = registered \ {t}
  /\ Goto(t, "idle")
  /\ UNCHANGED <<database, indexes, opened, stale, freed, arg, mine, use>>

NothingToNotify(t) ==
  /\ state[t] \in {"committed", "aborted"} /\ t \notin registered
  /\ Goto(t, "idle")
  /\ UNCHANGED <<database, indexes, opened, stale, freed, notices, arg, mine, use>>

-----------------------------------------------------------------------------
Next ==
  /\ UNCHANGED usage
  /\ \/ \E y \in Types : OtherCreates(y)
     \/ \E t \in Txns :
          \/ \E y \in Types : Get(t, y)
          \/ Open(t) \/ Store(t) \/ Register(t)
          \/ Begin(t) \/ OpBegin(t) \/ OpCommit(t) \/ OpAbort(t)
          \/ OpenFails(t) \/ Commit(t) \/ Abort(t)
          \/ PostClose(t) \/ PostClear(t) \/ NothingToNotify(t)

Spec == Init /\ [][Next]_vars

-----------------------------------------------------------------------------
(* Properties *)

\* The assertion of postNotify: the object the container points to is the one
\* that is being run, so that the right one is deleted and no other forgotten.
NotifySingle ==
  /\ \A t \in Txns : state[t] = "closed" => notify = t
  /\ registered = {notify} \ {NoTxn}

\* "If the transaction in which the DB(s) is/are created is aborted, the new DBs
\* must be cleared": only until the notification of an abort has run does the
\* container keep a handle whose database was rolled back.
NoStaleHandle ==
  usage \in Orderly =>
    \A y \in Types :
      indexes[y] \in stale => \E t \in Txns : state[t] = "aborted"

\* An operation works only with handles that have not been deleted.
NoFreedUse == usage \in Orderly => \A t \in Txns : use[t] \cap freed = {}
=============================================================================
