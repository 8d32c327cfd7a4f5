---------------------------- MODULE Transactions ----------------------------
(***************************************************************************)
(* Transaction objects: reference counts, the DB_TXN each one owns or      *)
(* wraps, the internal child of the running operation, the guards that end *)
(* it, and the notifications run when a DB_TXN ends.                       *)
(*                                                                         *)
(* One application thread uses one family of transactions: XmlTransaction  *)
(* handles "may be used by multiple threads, but only serially".  The heap *)
(* is one record, and each C++ method is an operator from heap to heap, so *)
(* that the calls a method makes are the operators its definition applies. *)
(***************************************************************************)
EXTENDS Naturals, FiniteSets

CONSTANTS
  Obj,           \* addresses of Transaction objects, reused after delete
  Db,            \* addresses of DB_TXN structures, reused when freed
  NoObj, NoDb,   \* null pointers
  MaxHandles,    \* bound on the XmlTransaction copies of one Transaction
  DbErrors,      \* whether Berkeley DB may fail to commit a transaction
                 \* and to open an index database
  OrphanChildren \* whether an application ends a parent before its children

ASSUME NullAssumption == NoObj \notin Obj /\ NoDb \notin Db
ASSUME BoundAssumption == MaxHandles \in Nat \ {0}
ASSUME UsageAssumption == DbErrors \in BOOLEAN /\ OrphanChildren \in BOOLEAN

VARIABLES
  heap,      \* the objects and the DB_TXN structures
  handles,   \* the XmlTransaction objects that refer to each Transaction
  op         \* the operation in progress: the Transaction it was called with
             \* or made, and whether it made it

vars == <<heap, handles, op>>

(***************************************************************************)
(* The heap.  "told" and "outcome" are what the notifications of an object *)
(* were told and what became of its DB_TXN, "failed" for a commit that      *)
(* Berkeley DB could not make and turned into an abort; "misuse" holds the *)
(* violations of the rules of C++ and of Berkeley DB met so far.           *)
(***************************************************************************)
Outcome == {"none", "commit", "abort", "failed"}
Misuse == {"use after delete", "use of an ended DB_TXN", "notified twice"}

Heap == [
  live : SUBSET Obj,
  txn : [Obj -> Db \cup {NoDb}],          \* txn_
  child : [Obj -> Obj \cup {NoObj}],      \* child_
  owned : [Obj -> BOOLEAN],               \* owned_
  count : [Obj -> 0..(MaxHandles + 4)],   \* ReferenceCounted::count_
  notes : [Obj -> BOOLEAN],               \* notify_ is not empty
  told : [Obj -> Outcome],
  outcome : [Obj -> Outcome],
  active : SUBSET Db,                     \* DB_TXNs begun and not ended
  parent : [Db -> Db \cup {NoDb}],
  hook : [Db -> Obj \cup {NoObj}],        \* xml_internal
  misuse : SUBSET Misuse ]

NoOp == [on |-> NoObj, own |-> FALSE]

TypeOK ==
  /\ heap \in Heap
  /\ handles \in [Obj -> 0..MaxHandles]
  /\ op \in [on : Obj \cup {NoObj}, own : BOOLEAN]

Init ==
  /\ heap = [live |-> {}, txn |-> [o \in Obj |-> NoDb],
             child |-> [o \in Obj |-> NoObj], owned |-> [o \in Obj |-> TRUE],
             count |-> [o \in Obj |-> 0], notes |-> [o \in Obj |-> FALSE],
             told |-> [o \in Obj |-> "none"],
             outcome |-> [o \in Obj |-> "none"],
             active |-> {}, parent |-> [d \in Db |-> NoDb],
             hook |-> [d \in Db |-> NoObj], misuse |-> {}]
  /\ handles = [o \in Obj |-> 0]
  /\ op = NoOp

-----------------------------------------------------------------------------
(* Berkeley DB *)

Flag(h, bad, what) == IF bad THEN [h EXCEPT !.misuse = @ \cup {what}] ELSE h

Kids(h, d) == {k \in h.active : h.parent[k] = d}

\* DB_TXN->commit or abort: the transaction ends, and with it the children it
\* still has, by internal functions that call nothing a Transaction hooked.
DbEnd(h, d, how) ==
  LET gone == {d} \cup Kids(h, d) \cup UNION {Kids(h, k) : k \in Kids(h, d)} IN
  Flag([h EXCEPT !.active = @ \ gone,
                 !.outcome = [o \in Obj |-> IF h.txn[o] \in gone
                                            THEN how ELSE h.outcome[o]]],
       d \notin h.active, "use of an ended DB_TXN")

\* txn_begin returns a structure no Transaction points to.
FreeDb(h) == {d \in Db \ h.active : \A o \in h.live : h.txn[o] # d}
FreeObj(h) == Obj \ h.live

-----------------------------------------------------------------------------
(* Transaction *)

\* Constructing o around the new DB_TXN d: setDbNotification takes the slot.
\* Only the constructor for an external DbTxn acquires the object itself.
New(h, o, d, parent, owned) ==
  [h EXCEPT !.live = @ \cup {o}, !.txn[o] = d, !.child[o] = NoObj,
            !.owned[o] = owned, !.count[o] = IF owned THEN 0 ELSE 1,
            !.notes[o] = FALSE, !.told[o] = "none", !.outcome[o] = "none",
            !.active = @ \cup {d}, !.parent[d] = parent, !.hook[d] = o]

Acquire(h, o) ==
  Flag([h EXCEPT !.count[o] = @ + 1], o \notin h.live, "use after delete")

\* ReferenceCounted::release of an object whose txn_ is null.
Drop(h, o) ==
  Flag([h EXCEPT !.count[o] = IF @ = 0 THEN 0 ELSE @ - 1,
                 !.live = IF h.count[o] = 1 THEN @ \ {o} ELSE @],
       o \notin h.live, "use after delete")

ClearDbNotification(h, o) ==
  Flag([h EXCEPT !.txn[o] = NoDb, !.hook[h.txn[o]] = NoObj],
       h.txn[o] \notin h.active, "use of an ended DB_TXN")

\* The notifications are told how the transaction was to end.
PostNotify(h, o, how) ==
  Flag([h EXCEPT !.told[o] = how], h.told[o] # "none", "notified twice")

\* Mutant: the slots are cleared after the DB_TXN has been ended and freed.
RunDbNotificationLate(h, o, how, fails) ==
  LET result == IF fails THEN "failed" ELSE how
      ended == PostNotify(ClearDbNotification(
                 [DbEnd(h, h.txn[o], result) EXCEPT !.outcome[o] = result], o),
                 o, how)
  IN IF h.owned[o] THEN ended ELSE Drop([ended EXCEPT !.owned[o] = TRUE], o)

\* Mutant: the notifications hear of a commit whatever the caller asked for.
RunDbNotificationAsCommit(h, o, how, fails) ==
  LET result == IF fails THEN "failed" ELSE how
      ended == PostNotify([DbEnd(ClearDbNotification(h, o), h.txn[o], result)
                             EXCEPT !.outcome[o] = result], o, "commit")
  IN IF h.owned[o] THEN ended ELSE Drop([ended EXCEPT !.owned[o] = TRUE], o)

\* runDbNotification: txn_ is nulled and the slots cleared, the DB_TXN is
\* ended, the notifications run, and the reference a wrapping object holds on
\* itself is released.  A commit that fails is an abort in Berkeley DB; the
\* notifications hear of a commit all the same.
RunDbNotification(h, o, how, fails) ==
  LET result == IF fails THEN "failed" ELSE how
      ended == PostNotify([DbEnd(ClearDbNotification(h, o), h.txn[o], result)
                             EXCEPT !.outcome[o] = result], o, how)
  IN IF h.owned[o] THEN ended ELSE Drop([ended EXCEPT !.owned[o] = TRUE], o)

\* release(), and the destructor that aborts what has not been ended.
Release(h, o) ==
  Drop(IF h.count[o] = 1 /\ h.txn[o] # NoDb
       THEN RunDbNotification(h, o, "abort", FALSE) ELSE h, o)

\* Mutant: a plain release.
ReleaseTransactionPlain(h, o) == Release(h, o)

\* The reference a wrapping object holds on itself goes with the last other
\* one, provided nobody waits to be notified.
ReleaseTransaction(h, o) ==
  IF ~h.owned[o] /\ h.count[o] = 2 /\ ~h.notes[o]
  THEN Drop(Drop(IF h.txn[o] # NoDb THEN ClearDbNotification(h, o) ELSE h, o), o)
  ELSE Release(h, o)

\* abort() or commit() of an object without an internal child; it raises
\* TRANSACTION_ERROR, and changes nothing, when the object has been ended.
EndTxn(h, o, how, fails) ==
  IF h.txn[o] = NoDb THEN h ELSE RunDbNotification(h, o, how, fails)

\* Mutant: the internal child is ended and kept.
ChildOpKeeping(h, o, how, fails) ==
  ReleaseTransaction(EndTxn(h, h.child[o], how, fails), h.child[o])

\* childOp: the internal child is ended and released, whether or not its end
\* raises an exception.
ChildOp(h, o, how, fails) ==
  [ReleaseTransaction(EndTxn(h, h.child[o], how, fails), h.child[o])
     EXCEPT !.child[o] = NoObj]

\* Mutant: commit and abort do not look for an internal child.
FinishSelf(h, o, how, fails) == EndTxn(h, o, how, fails)

\* abort() or commit(): the internal child if there is one, and that one's own
\* if it has one (internal children are at most two deep), else the object.
Finish(h, o, how, fails) ==
  LET c == h.child[o] IN
  IF c = NoObj THEN EndTxn(h, o, how, fails)
  ELSE IF h.child[c] = NoObj THEN ChildOp(h, o, how, fails)
  ELSE [ReleaseTransaction(ChildOp(h, c, how, fails), c) EXCEPT !.child[o] = NoObj]

\* createChildInternal: the new child goes to the innermost object, which the
\* call returns.
Innermost(h, o) == IF h.child[o] = NoObj THEN o ELSE h.child[o]

CreateChildInternal(h, o, c, d) ==
  LET p == Innermost(h, o) IN
  Acquire([New(h, c, d, h.txn[p], TRUE) EXCEPT !.child[p] = c], c)

-----------------------------------------------------------------------------
(* TransactionGuard *)

\* ~TransactionGuard: abort what the guarded object has in progress.
GuardEnd(h, o) ==
  ReleaseTransaction(IF h.txn[o] = NoDb THEN h ELSE Finish(h, o, "abort", FALSE), o)

\* Mutant: commit() forgets the guarded object without releasing it.
GuardCommitKeeping(h, o) ==
  IF h.txn[o] = NoDb THEN h ELSE Finish(h, o, "commit", FALSE)

\* TransactionGuard::commit
GuardCommit(h, o) ==
  ReleaseTransaction(IF h.txn[o] = NoDb THEN h ELSE Finish(h, o, "commit", FALSE), o)

\* TransactionGuard::commit raises an exception before it forgets the object,
\* and the destructor then ends what is in progress a second time.
GuardCommitFails(h, o) == GuardEnd(Finish(h, o, "commit", TRUE), o)

-----------------------------------------------------------------------------
(* The application: Manager::createTransaction, XmlTransaction *)

\* createTransaction(flags), returned in an XmlTransaction.
CreateTransaction(o, d) ==
  /\ op = NoOp /\ o \in FreeObj(heap) /\ d \in FreeDb(heap)
  /\ heap' = Acquire(New(heap, o, d, NoDb, TRUE), o)
  /\ handles' = [handles EXCEPT ![o] = 1]
  /\ UNCHANGED op

\* The application begins a DbTxn of its own.
BeginDbTxn(d) ==
  /\ op = NoOp /\ d \in FreeDb(heap)
  /\ heap' = [heap EXCEPT !.active = @ \cup {d}, !.parent[d] = NoDb,
                          !.hook[d] = NoObj]
  /\ UNCHANGED <<handles, op>>

\* createTransaction(DB_TXN *): refused if the slot of d is taken.
WrapDbTxn(o, d) ==
  /\ op = NoOp /\ o \in FreeObj(heap)
  /\ d \in heap.active /\ heap.hook[d] = NoObj
  /\ heap' = Acquire(New(heap, o, d, NoDb, FALSE), o)
  /\ handles' = [handles EXCEPT ![o] = 1]
  /\ UNCHANGED op

CreateChild(o, c, d) ==
  /\ op = NoOp /\ handles[o] > 0 /\ heap.txn[o] # NoDb
  /\ heap.txn[o] \in heap.active
  /\ c \in FreeObj(heap) /\ d \in FreeDb(heap)
  /\ heap' = Acquire(New(heap, c, d, heap.txn[o], TRUE), c)
  /\ handles' = [handles EXCEPT ![c] = 1]
  /\ UNCHANGED op

CopyHandle(o) ==
  /\ op = NoOp /\ handles[o] \in 1..(MaxHandles - 1)
  /\ heap' = Acquire(heap, o)
  /\ handles' = [handles EXCEPT ![o] = @ + 1]
  /\ UNCHANGED op

\* The last one ends the DB_TXN that the Transaction owns, if it has not ended.
DeleteHandle(o) ==
  /\ op = NoOp /\ handles[o] > 0
  /\ handles[o] = 1 /\ heap.owned[o] /\ heap.txn[o] # NoDb =>
       OrphanChildren \/ Kids(heap, heap.txn[o]) = {}
  /\ heap' = ReleaseTransaction(heap, o)
  /\ handles' = [handles EXCEPT ![o] = @ - 1]
  /\ UNCHANGED op

\* A parent that has children may be ended; whether applications do is a
\* constant.
MayEnd(d) ==
  /\ op = NoOp /\ d \in heap.active
  /\ OrphanChildren \/ Kids(heap, d) = {}

\* XmlTransaction::commit and abort.
EndByHandle(o, how, fails) ==
  /\ handles[o] > 0 /\ MayEnd(heap.txn[o])
  /\ fails => DbErrors /\ how = "commit"
  /\ heap' = Finish(heap, o, how, fails)
  /\ UNCHANGED <<handles, op>>

\* DbTxn::commit and abort on a DB_TXN, which call abortFunction or
\* commitFunction where a Transaction has taken the slots.
EndByDbTxn(d, how, fails) ==
  /\ MayEnd(d)
  /\ fails => DbErrors /\ how = "commit"
  /\ heap' = IF heap.hook[d] = NoObj
             THEN DbEnd(heap, d, IF fails THEN "failed" ELSE how)
             ELSE RunDbNotification(heap, heap.hook[d], how, fails)
  /\ UNCHANGED <<handles, op>>

-----------------------------------------------------------------------------
(* Operations of the API: Transaction::autoTransact and what runs under it *)

\* Called with a transaction: an internal child, and a guard on the caller's.
OpBegin(o, c, d) ==
  /\ op = NoOp /\ handles[o] > 0
  /\ heap.txn[o] \in heap.active /\ Kids(heap, heap.txn[o]) = {}
  /\ c \in FreeObj(heap) /\ d \in FreeDb(heap)
  /\ heap' = Acquire(CreateChildInternal(heap, o, c, d), o)
  /\ op' = [on |-> o, own |-> FALSE]
  /\ UNCHANGED handles

\* Called without: a transaction of its own, and a guard on that.
OpBeginAuto(o, d) ==
  /\ op = NoOp /\ o \in FreeObj(heap) /\ d \in FreeDb(heap)
  /\ heap' = Acquire(New(heap, o, d, NoDb, TRUE), o)
  /\ op' = [on |-> o, own |-> TRUE]
  /\ UNCHANGED handles

\* getStringCache or getIndexDB register with the caller's transaction.
RegisterNotify ==
  /\ op # NoOp
  /\ heap' = [heap EXCEPT !.notes[op.on] = TRUE]
  /\ UNCHANGED <<handles, op>>

\* The constructor of SyntaxDatabase or StructuralStatsDatabase begins a child
\* of the innermost transaction, guards the object that got it, opens the
\* database in it and commits it.
OpenIndex(c, d) ==
  /\ op # NoOp /\ c \in FreeObj(heap) /\ d \in FreeDb(heap)
  /\ LET g == Innermost(heap, op.on)
         begun == Acquire(CreateChildInternal(heap, op.on, c, d), g)
     IN heap' = GuardCommit(begun, g)
  /\ UNCHANGED <<handles, op>>

\* Berkeley DB cannot open the database: an error code is committed, a deadlock
\* is an exception and aborts the child; or it cannot commit the child.  Unless
\* the file does not exist, the transaction the constructor was given is aborted
\* too, and the exception ends the operation.
OpenIndexFails(c, d, by) ==
  /\ DbErrors /\ op # NoOp /\ c \in FreeObj(heap) /\ d \in FreeDb(heap)
  /\ LET g == Innermost(heap, op.on)
         begun == Acquire(CreateChildInternal(heap, op.on, c, d), g)
         closed == CASE by = "error" -> GuardCommit(begun, g)
                     [] by = "deadlock" -> GuardEnd(begun, g)
                     [] by = "commit" -> GuardCommitFails(begun, g)
     IN heap' = GuardEnd(Finish(closed, op.on, "abort", FALSE), op.on)
  /\ op' = NoOp
  /\ UNCHANGED handles

OpCommit ==
  /\ op # NoOp
  /\ heap' = GuardCommit(heap, op.on)
  /\ op' = NoOp
  /\ UNCHANGED handles

OpCommitFails ==
  /\ DbErrors /\ op # NoOp
  /\ heap' = GuardCommitFails(heap, op.on)
  /\ op' = NoOp
  /\ UNCHANGED handles

\* The operation returns an error or raises an exception: ~TransactionGuard.
OpFails ==
  /\ op # NoOp
  /\ heap' = GuardEnd(heap, op.on)
  /\ op' = NoOp
  /\ UNCHANGED handles

-----------------------------------------------------------------------------
Next ==
  \/ \E o \in Obj, d \in Db :
       CreateTransaction(o, d) \/ WrapDbTxn(o, d) \/ OpBeginAuto(o, d)
  \/ \E d \in Db : BeginDbTxn(d)
  \/ \E o, c \in Obj, d \in Db : CreateChild(o, c, d) \/ OpBegin(o, c, d)
  \/ \E o \in Obj : CopyHandle(o) \/ DeleteHandle(o)
  \/ \E how \in {"commit", "abort"}, fails \in BOOLEAN :
       \/ \E o \in Obj : EndByHandle(o, how, fails)
       \/ \E d \in Db : EndByDbTxn(d, how, fails)
  \/ RegisterNotify
  \/ \E c \in Obj, d \in Db :
       \/ OpenIndex(c, d)
       \/ \E by \in {"error", "deadlock", "commit"} : OpenIndexFails(c, d, by)
  \/ OpCommit \/ OpCommitFails \/ OpFails

Spec == Init /\ [][Next]_vars

-----------------------------------------------------------------------------
(* Properties *)

\* The count of an object is the number of its XmlTransactions and guards, plus
\* one held by its parent if it is an internal child, plus one it holds itself
\* while it wraps a DbTxn of the application.
CountsExact ==
  \A o \in heap.live :
    heap.count[o] = handles[o] + (IF op.on = o THEN 1 ELSE 0)
                    + (IF heap.owned[o] THEN 0 ELSE 1)
                    + Cardinality({p \in heap.live : heap.child[p] = o})

\* No method touches a deleted object or a DB_TXN that has been ended, and no
\* notification, which deletes itself, is run twice.
NoMisuse == heap.misuse = {}

\* Nothing points to an object that has been deleted: not a handle, a guard,
\* the parent of an internal child or the slot of a DB_TXN.
NoDangling ==
  /\ \A o \in Obj : handles[o] > 0 => o \in heap.live
  /\ op.on \in heap.live \cup {NoObj}
  /\ \A o \in heap.live : heap.child[o] \in heap.live \cup {NoObj}
  /\ \A d \in heap.active :
       heap.hook[d] # NoObj => /\ heap.hook[d] \in heap.live
                               /\ heap.txn[heap.hook[d]] = d

\* Notifications hear of an abort exactly when a transaction was aborted, by its
\* application, a guard or a destructor.  (They hear of a commit that failed as
\* of a commit: runDbNotification passes on what was asked for.)
AbortsHeard ==
  \A o \in Obj : heap.told[o] # "none" =>
    (heap.told[o] = "abort" <=> heap.outcome[o] = "abort")

\* Between operations no internal child is left, and once the application has
\* dropped its handles every transaction it did not begin itself is over and
\* every object is deleted, except those that wait for the end of a DbTxn.
NothingLeft ==
  op = NoOp =>
    /\ \A o \in heap.live : heap.child[o] = NoObj
    /\ \A o \in heap.live : handles[o] = 0 =>
         ~heap.owned[o] /\ heap.notes[o] /\ heap.txn[o] \in heap.active

\* An operation called with a transaction may fail, but it ends only what it
\* began: the transaction of the caller is still there to be continued or
\* aborted by the caller.  Only when Berkeley DB cannot commit the internal child
\* or open an index database does the library abort what it was given.
DbFails ==
  \/ OpCommitFails
  \/ \E c \in Obj, d \in Db, by \in {"error", "deadlock", "commit"} : OpenIndexFails(c, d, by)

OperationLeavesTransaction ==
  [][op # NoOp /\ ~op.own /\ heap.txn[op.on] \notin heap'.active => DbFails]_vars
=============================================================================
