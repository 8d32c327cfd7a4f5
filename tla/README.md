# Berkeley DB XML in TLA+

Berkeley DB XML is a native XML database: a C++ library (`src/dbxml/src/dbxml`)
that stores XML documents in *containers*, files of Berkeley DB databases, and
evaluates XQuery over them with the XQilla engine. It links against vendored
copies of Berkeley DB, XQilla and Xerces-C. This directory holds TLA+ models of
the parts of the library that keep state shared by transactions, threads and
processes, of the document operations of a container, and of the joins queries
are executed with; the TLC runs that check them; and TLAPS proofs about
six of the modules: `Dictionary`, `Transactions`, `ContainerStore`, `IndexDbs`, `Documents`
and `Joins`.

Paths below are relative to the library, `src/dbxml/src/dbxml/`, unless they
begin with `src/`.

## Contents

| module | models | checked by | proved in |
|---|---|---|---|
| `NameService` | what a dictionary promises (abstract) | `dictionary_flat` (refinement) | |
| `Dictionary` | DictionaryDatabase, DictionaryCache, string caches of transactions | `dictionary_*` | `DictionaryProofs`, `DictionaryServiceProofs` |
| `Transactions` | Transaction, TransactionGuard, autoTransact, notifications | `transactions` | `TransactionsProofs` |
| `ContainerStore` | Manager::ContainerStore, Container::acquire/release | `containers*` | `ContainerStoreProofs` |
| `IndexDbs` | Container::getIndexDB, SyntaxDatabase, IndexDbNotify | `index_dbs*` | `IndexDbsProofs` |
| `DocumentStore` | what a container promises (abstract) | `documents` (refinement) | |
| `Documents` | put, update and delete of documents, index keys, index specification, auto-indexing | `documents*` | `DocumentsProofs` |
| `NodeInfo` | forests of nodes, comparison and nesting of node ids, what a seek may skip | with `Joins` | |
| `NodeIterator` | what an iterator of a query plan promises (abstract) | `joins*` (refinement) | |
| `Joins` | the three merges and ten structural joins | `joins*` | `JoinsProofs`, `AnswersProofs` |
| `MC...` | one per module: model values, symmetry, views | | |

`tlc -config X.cfg MCModule` runs a check, `tlapm Module.tla` checks proofs.
`PROJECT.json` lists runs, mutants, hazards, findings and, under `map`, the
source lines every definition stands for.

## Inventory

### The parts and how they interact

* **XmlManager / Manager** owns the environment, the *container store* and a
  transient dictionary. Any number of threads call it.
  State: the map of names to ids, the vector of open containers, a mutex.
  Operations: open, create, find, alias, close; rename, remove, upgrade.
* **Container** owns one file: a configuration database, a dictionary, a
  document database, one index database per syntax type, structural statistics.
  State: a reference count and its mutex, `indexes_`, the one `IndexDbNotify`.
  Called by every XmlContainer method, by the query evaluator and by results.
* **Transaction** wraps a `DB_TXN`. State: reference count, `child_` (the
  internal child of the running operation), `owned_`, the notifications, a
  string cache. Berkeley DB calls back into it through two function slots of
  `DB_TXN` when an application ends the transaction from outside.
* **Dictionary** maps names to ids and back, for the whole life of a container;
  stored nodes, index keys and queries hold ids only. State: two databases,
  two caches per process, and a cache per Transaction, deleted by a
  notification.
* **Documents**: content, metadata, index keys and statistics of a document are
  written by one operation, in one transaction (`Container.cpp`,
  `DocumentDatabase.cpp`, `nodeStore/NsDocumentDatabase.cpp`, `Indexer.cpp`,
  `KeyStash.cpp`).
* **Index specification, configuration, document ids** are rows of the
  configuration database and a Berkeley DB sequence.
* **Query plans** are trees of iterators that a query pulls on: `next()` and
  `seek()` go down from the root to index cursors, one thread per query. State:
  where each input is, buffers and stacks of the joins.
* **Optimizer, XQuery adapters, node storage** are functions over data, run
  under a transaction of one of the parts above.
* **Wrappers, events, streams, bindings, utilities** hold no state of their own
  that several actors share.

An operation of the API goes through the parts in this order: `autoTransact`
begins an internal child (Transactions); the container is found and referenced
(ContainerStore); names become ids (Dictionary); documents and keys are written,
index databases opened on the way (IndexDbs); the guard commits or aborts the
child; the end of the *application's* transaction runs the notifications, which
delete the string cache (Dictionary) and close handles (IndexDbs).

### What is hard about them, and what makes them correct

| part | hard behaviour | correct if |
|---|---|---|
| Dictionary | three caches in front of transactional rows; record numbers reused after an abort; internal children aborted without notice; several processes; recovery | a stored id means its name for ever; shared caches answer with committed ids; one id per name although the database allows duplicates |
| Transactions | objects that end in five ways, an object that holds a reference on itself, exceptions from commit, callbacks out of Berkeley DB | counts exact; nothing touched after its end; notified once, of what happened; an operation ends only what it began |
| ContainerStore | the count falls under one mutex, the store changes under another; callers are free-threaded | a handle keeps its container; one container per file; closed and deleted exactly once; every call returns |
| IndexDbs | lazy opening by several threads; a database created inside a transaction that may be rolled back; one notification for all transactions | no handle on a database that no longer exists; no use of a deleted handle |
| Documents | four databases written by one operation, at different times and by what was read long before; errors after the first writes; XmlDocument objects that outlive what they were read from | all parts of a document or none; to a user, one step on a map from names to contents |
| Index keys | additions and deletions cancel out; uniqueness is checked before keys are written, without a lock | the index is that of the committed documents; no two equal keys under a unique index |
| Index specification | read without a lock, changed, written back; auto-indexing does so inside other operations | no update lost; keys of all documents under it |
| Query plans | next and seek in any order, inputs that may skip what nobody needs, stacks of ancestors, answers that are found out of order | every call ends, with the next answer; no input is used once deleted |
| Results, values | a container found by id without a reference | no use after close |
| Node ids | a dense order on byte strings | an id between any two, order kept |

`PROJECT.json` lists the hazards at their lines with the properties that cover them,
or the reason that none does yet. Further ones that no module reaches:

* `Manager.cpp:634`: the mutex of the store is held while a Container is constructed and
  waits for database locks, which the deadlock detector cannot see.
* `XmlManager.cpp:489`: another thread may open a container between the check that it
  is closed and the removal of its file, which Berkeley DB's own lock on
  the file then has to stop.
* `DatabaseNodeValue.cpp:94`: a container is used by id without a reference.
* `DictionaryCache.cpp:187`: hash chains are read without a lock; a matter of memory order.
* `SyntaxDatabase.cpp:60`: a deadlock becomes an exception code that is not that of a deadlock.
* Errors that are dropped or overwritten: `Container.cpp:994` (whole-document
  storage), `Container.cpp:758`, `DocumentDatabase.cpp:531`, `DocumentDatabase.cpp:673`
  (verify). In Documents an operation fails by a unique constraint or by an
  abort; errors of single writes are left out.
* `nodeStore/NsDocumentDatabase.cpp:168`: an update by name that throws leaves the id it looked up
  in the caller's object.
* `DocumentDatabase.cpp:413`: `DB_RMW` is passed "to reduce deadlocks" and does not
  reach the reads of metadata, so two operations that update one document deadlock where
  one could wait. Documents has the locks; a deadlock ends in an abort.

## Dictionary

### Model

A *row* of `primary` (Recno, id to name) or `secondary` (name to id) carries the
level at which it was written: `Base` when committed, `Own(t)`, or `Op(t)` for
the internal child of the operation running in `t`. Commit lifts rows and locks
a level, abort drops them. `stored` holds the pairs written into documents, with
the level of the document, so that an id and the document using it can be
compared.

| action | code |
|---|---|
| `Begin`, `AutoBegin`, `OpBegin`, `CreateChild` | `Manager::createTransaction`, `Transaction::autoTransact`, `createChildInternal`, `createChild` |
| `OpCommit`, `OpFail` | `TransactionGuard::commit`, its destructor |
| `Commit`, `Abort` | the end of a transaction and `StringCacheNotify` |
| `LookupCached`, `LookupFound`, `LookupMissed` | `lookupIDFromName` with define: `stringCacheLookup`, then `secondary_->get` |
| `DefineAppend`, `DefinePut` | the halves of `defineName` |
| `QueryLookup`, `PlainLookup` | `lookupIDFromName` without define, in a transaction and without |
| `ReadName` | `lookupFromID`, `lookupName` |
| `Crash` | an environment that dies and is recovered |

What the code needs of Berkeley DB is assumed and marked external: rows of other
transactions block a read; a read that is not `DB_READ_COMMITTED` keeps its lock to the
end of the transaction, also on a name that is not there; appends to a Recno database give
the number after the last one and write-lock up to the root page, so uncommitted appends
are those of transactions nested in each other; a child's rows and locks go to its parent.
Children nest to any depth and a transaction may have several: `Family(t)` is `t` with all
it is nested in, the closure of `parent` (`Nesting`). A lock wait is an action that is not
enabled, a deadlock is an `OpFail` or `Abort`. Two constants say how applications behave:
`UserChildren` (they call `createChild`) and `RetryAfterFailure` (they continue a
transaction in which an operation failed instead of aborting it). The documentation allows
both.

### Checks

* `dictionary_flat` (2 names, 2 ids, 2 processes with a transaction each, no
  child transactions, abort after failure): `StoredResolve`,
  `StringCacheCommitted`, and refinement of `NameService`: what is committed only
  grows, is injective, and committed documents hold committed ids only.
* `dictionary_full` (3 transactions of one process, children and going on after
  failures allowed; children may be nested in each other and be siblings):
  `NamesUnique` (two transactions that miss one name do not
  both define it: the read lock kept by the miss is what prevents it), `Mirror`
  (both databases say the same, between steps and after recovery),
  `UncommittedLast` (rollback gives back only numbers no committed row has) and
  `IdCacheAgrees`. Its VIEW leaves `stored` out, which no action reads and none
  of these properties mentions.
* `dictionary_retry` lifts a restriction of `dictionary_flat` and finds a
  disagreement with a comment (see Findings).

Bounds. Two names and two ids are the least with which an id can be given to
another name after a rollback; two transactions are the least that can miss the same name,
three the least for a parent, its child and a bystander, two
siblings, or a child of a child. Two
processes are the least with separate caches.

### Proofs

For every set of names, transactions and processes and every bound on ids:

* `DictionaryProofs!TypeCorrect`: `Spec => []TypeOK`. One step per action.
* `DictionaryProofs!CommittedAnswers`:
  `ASSUME UserChildren = FALSE PROVE Spec => []StringCacheCommitted`.
  `StringCacheCommitted` alone is not inductive: a transaction that reads
  `secondary` caches what it sees, and it sees its own rows. It never does so,
  because the row it wrote is also in its own string cache, which is asked
  first. That is `CacheInv`. To keep it, rows must belong to live levels
  (`LevelInv`): no row is left at the level of an operation that is over, or of a
  transaction whose cache is gone. `LevelStep` and `CacheStep` show
  `LevelInv /\ CacheInv` inductive; the lemmas before them say what lifting and
  dropping do to membership, and that committed rows stay. No assumption is made
  on `RetryAfterFailure`: the cache that outlives a failed operation endangers
  `StoredResolve`, not this. The hypothesis on children is needed: with
  `UserChildren = TRUE` TLC finds the property violated (see Findings).
  The theorem rests on the named ASSUMEs of `Dictionary` alone (null values are
  not members, `ProcOf` is a function), which TLC evaluates in each run.

* `DictionaryProofs!UndoneAreLast`: `Spec => []UncommittedLast`, whatever
  applications do. The invariant is `UndoInv`. A child's rows can be undone under
  those of its parent, and the rows of a running operation under both, so what
  has to be last is nested: `Nested` orders record numbers along `Inside`, from
  `Base` outwards in, at any depth. It is kept by an append because the append waits for
  whoever the writer is not nested in (`OneFamily`: of two transactions with rows that may
  be undone one is nested in the other) and nobody writes at an outer level while an inner
  one has rows (`FamilyInv`: a parent with a child is idle, and nesting has no cycle;
  `RowsInv`: a row at a level means somebody is there); it is kept when a level commits
  because no other level lies between it and the one it becomes part of. `Unbroken`, that
  no number is left out, then survives a rollback: what goes is at the end.
* `DictionaryProofs!NumbersAnswered`:
  `ASSUME \A p, q \in Proc : p = q PROVE Spec => []IdCacheAgrees`, by
  `NumbersInv`: the cache agrees with rows that are not committed too, as an
  append overwrites what an undone append left under its number. With a second
  process, whose cache is not told, TLC finds the property violated (see Findings).

* `DictionaryServiceProofs`: `NamesStayUnique` (`Spec => []NamesUnique`) and
  `DatabasesMirror` (`[]Mirror`), whatever applications do, by `DefineInv` with
  `Appended` and `FamilyInv`; and under `UserChildren = FALSE` and
  `RetryAfterFailure = FALSE`, `DocumentsResolve` (`[]StoredResolve`) and
  `DictionaryIsNameService` (`Spec => ImplementsService`). The inductive invariant
  of these two is `FlatInv`: `LevelInv` and `CacheInv` with
  * `StoreInv`. That every id in a document has its row is kept only if ids
    come from somewhere that has it: the row being defined (`Appended`),
    `secondary` (`Paired`) or the cache of the transaction (`CachesBacked`). The
    last holds while nothing has failed in the transaction: a failed operation takes
    its rows back and leaves the cache. That is why `RetryAfterFailure = FALSE` is
    needed (`FailedOpen` says such a transaction begins nothing more), and
    `dictionary_retry` violates the property without it. `Backs` compares levels:
    the row of an id is committed, or at its level, or at the level its level is
    lifted to, so that lifting and dropping move both or the id only.
  * `DefineInv`. `NamesUnique` is kept by an append because the name has been
    missing since the lookup (`Missing`: the transaction holds the read lock,
    which blocks the put of anybody else) and because an append that is not
    committed blocks every other one, so the definitions of others in progress
    (the rows `Mirror` allows in `primary` alone) are not of that name either.

  `DefineAppended` and `DefinePutDone` are the lemmas where the two locks are
  used. For the refinement, `CommittedStay` gives that what is committed only
  grows, and `CommittedConsistent` that in every state it is one to one and
  contains what committed documents use: a row of `primary` not in `secondary`
  is at the level of a definition in progress, so it is not committed.

TLC found `FlatInv` invariant on the instance of `dictionary_flat`, `UndoInv` and
`NumbersInv` on that of `dictionary_full`, before they were proved.

## Transactions

### Model

One thread and one family of objects: handles "may be used by multiple threads,
but only serially". The heap is a record (live objects, `txn_`, `child_`,
`owned_`, counts, hooks of DB_TXNs); each C++ method is an operator from heap to
heap named after it, so that a method is its calls composed: `RunDbNotification`,
`ReleaseTransaction`, `Finish` (commit or abort with the internal child,
`childOp`), `CreateChildInternal`, `GuardEnd`, `GuardCommit`. Actions are what an application
does: create, wrap a `DbTxn`, copy and delete handles, create children, end a
transaction by handle or by `DbTxn`, begin and end an operation, open an index
database in it. Addresses are reused after delete and free. `DbErrors` lets
Berkeley DB fail to commit a transaction, that in which an index database is opened
included, or to open; `OrphanChildren` lets an application end a
parent first. `misuse` records a touch of a deleted object or of an ended
`DB_TXN`, or a second notification, as it happens.

### Checks

* `transactions` (failures of commit and open included): `CountsExact` (the count
  is handles + guards + parent + the object's own reference), `NoMisuse`,
  `NoDangling`, `NothingLeft` (when an operation is over no internal child
  remains, and when the handles are gone nothing does, except an object that
  waits for the end of the application's `DbTxn`), `AbortsHeard` (notifications
  hear of an abort exactly when there was one), `OperationLeavesTransaction` (an
  operation does not end the transaction it was called with, except when
  Berkeley DB fails to commit its internal child or to open an index database).

Three objects and three `DB_TXN`s are an operation with a nested internal child, the
deepest the library makes, or a parent, its child and an operation. Two handles
are the least that tell the last release from another. More objects only
add independent families. `Addresses` permutes objects and `DB_TXN`s, which no definition
tells apart.

### Proofs

`TransactionsProofs` proves all seven properties of the run for any number of objects,
`DB_TXN`s and handles, whether or not Berkeley DB fails, under `~OrphanChildren`, which
is needed (see Findings): `TypeCorrect`, `CountsAreExact`, `NoMisuseHolds`,
`NothingDangles`, `NothingIsLeft`, `AbortsAreHeard` and, about steps, `CallerContinues`.
The inductive invariant is `IInv`. Its main part, `Sound(h, refs)`, is about a heap and the
number of handles and guards on each object:
* `Linked`: an object and the `DB_TXN` it has not ended point to each other, and
  nobody has been notified yet. That is what keeps every touch of a `DB_TXN` legal.
* `Nested`: an internal child is the only child its parent has in Berkeley DB too.
  Without that, ending the parent would end a `DB_TXN` that an object still points to.
* `Counted`: `CountsExact`, with 0 for what is deleted. `Waiting`: an object that
  wraps a `DbTxn` and has only its own reference is waiting for a notification.
* `Heard`: `AbortsHeard`.

`Good` adds that only the operation in progress has an internal child, and that nothing
but that child is in the way of its end (`Ends`). A method of the code is a chain of
calls, so the lemmas follow the calls: for each operator on heaps one says what the heap
is afterwards (`RunDbNotificationIs`, `ChildOpIs`, `UnwrapIs`, `AcquireIs`, `NewIs`), one
that it is sound (`EndSound`, `ChildOpSound`, `DropSound`, `ReleaseSound`, `NewSound`,
`ChildSound`), and those of the callers rest on them (`FinishSound`, `GuardSound`,
`OpenCommitFailsGood` for a nested transaction that cannot be committed,
`TwiceSound` for a guard that ends what was ended before, `OpenSound` for an index
database opened one level further down). Each action is then a lemma of a few steps.

## ContainerStore

### Model

Two kinds of mutex, as in the code: `storeMutex` from the start of a lookup or
close to its end, `mutex[i]` for the moment a count changes. A lookup is
`FindLock` and then `FindOpen`, `FindNew` or `FindFails` (`FindIdLock`, `FindId` for
a lookup by id); a release is `Release`, and if the count fell to zero
`CloseLock`, then `Close` and `Delete`, or `CloseReferenced` when a lookup came in
between. A handle may be copied by any thread while somebody has one (`Copy`). Alias
calls hold the store's mutex for all they do and are one action.
The short section of `Acquire` and `Release` under the container's mutex is one
step: it can only wait for a mutex that has been left locked. `reopen`, one of
`Reopens`, says whether applications look up a container while its last handle is
being released; `Assured` are those of its values with which calls are to return
and containers to be deleted once; `RemoveNames` says whether they pass
`removeAlias` the name of a file.

### Checks

* `containers` (`FairSpec`, applications that reopen and applications that do
  not): `CountExact`, `HandlesLive`, `NamesLive` and `OneContainer` for both;
  for those that do not, `SafeToDelete` and, as liveness, `CallsReturn` and
  `EventuallyDeleted`.
* `containers_locked` (applications that reopen are `Assured` too): a finding.

Two threads, two files, one alias, three containers in a behaviour: one
close and one reopening of a file fit, with another file open at the same time.
A third thread would add waiting for the same two mutexes.

Fairness. `WF(Continue(t))`: a thread inside the library is scheduled and goes
on if it can; nothing is assumed of what the application calls
next. `SF(CloseLock(t))`: the store's mutex is taken and released by others
while a thread waits to close, so closing is enabled again and again, not all the time;
that such a thread gets the mutex in the end is what an operating system's mutex
gives, and the code has nothing else to rely on. Opening a container is assumed
to return (see the hazard at `Manager.cpp:634`).

### Proofs

The six invariants of `containers`, for every finite set of threads and any number of files,
aliases, containers and handles.

* `StoreInv` is inductive and implies `TypeOK`, `CountExact`, `HandlesLive` and
  `NamesLive`. Beyond them it says that a container about to be deleted has left the
  store, and ids never come back (`Registered`); that only containers in the
  store are counted (`Counted`); and that what a thread works on has been opened
  (`ArgsOK`). `HandlesLive` follows: a handle is counted (`HeldIsCounted`, from
  the cardinality of the set of handles on a container), and what is counted is
  in the store. One lemma for each action; `AcquireCounts` and `ReleaseCounts` carry the
  cardinalities.
* `FilesOpenOnce` (assuming `RemoveNames = FALSE`): the name of its file leads to
  every open container (`Located`), which a `removeAlias` of that name would
  break, as the finding shows.
* `DeletingIsSafe` (assuming `TRUE \notin Assured`): with `~reopen`, `SafeInv` adds the
  discipline of the store's mutex (`LookupsLocked`), that threads in the course
  of closing have different containers with a count of zero (`ClosesApart`), and that
  the container a lookup will find is held (`FindsHeld`). It follows that
  `CloseReferenced`, the branch that forgets a mutex, is then never taken.

## IndexDbs

### Model

Every member of `Txns` is a thread that runs transactions and operations one
after another. `Get` is the unprotected read of `indexes_`, `Open` the
constructor of SyntaxDatabase, `Store` the `reset` of the handle, `Register`
the section under the container's lock. `Commit` and `Abort` end the `DB_TXN`;
`PostClose` and `PostClear` are the two parts of `postNotify`, which runs after it,
without and with the lock. `OpAbort` rolls back the internal child and tells
nobody. `OpenFails` is the failure of `Open`, which aborts the transaction itself.
`OtherCreates` is another process. To create or open with `DB_CREATE`
write-locks the directory of the file until the transaction ends
(`src/db-4.8.26/db/db.c:178-202`); so at most one transaction has created
databases.

### Checks

* `index_dbs` (2 types; `usage` is one transaction after another without failing
  operations, or two transactions at once with them): `NotifySingle`, the assertion of
  `postNotify`, for all; `NoStaleHandle` and `NoFreedUse` for the usages in
  `Orderly`, which are the former.
* `index_dbs_rollback` (one transaction after another, with failing operations):
  a finding.

Two transactions are the least that can compete for a handle or for the notification, two
types the least with which a second type joins a notification made for the first. Four
handles allow one to be lost and opened again for each type.

### Proofs

`DbsInv` is inductive for every usage: with `TypeOK`, that a handle in `indexes` or about to
be stored has been opened on the database of its type (`HandlesOK`), and that what
the operation in progress has created is under its transaction's write lock (`ByOpOK`), without
which a rollback would take away another's database. `NotifySingle` is inductive by
itself. The other two assume `AloneAssumed` of `Orderly`: one thread, whose operations do
not fail before its transaction ends. Then `AloneInv` is inductive: a handle being opened takes no
other's place (`Getting`), what an abort makes stale is recorded with a
notification that has yet to run (`Recorded`), and a handle on a database created by a
transaction in progress is recorded or about to be (`Created`). The findings are
what the invariant loses without the assumption: with two threads `Getting` fails
between `Get` and `Store`, with a failed operation `Recorded` does.

## Joins

### Model

A query plan is a tree of iterators. Those that join two inputs are modelled:
`intersect`, `union`, `except` (*merges*, by identity) and the ten structural
joins of `StructuralJoinQP::createJoin`, by the place of nodes in their documents.
`NodeInfo` has the nodes, numbered in document order, with what the program
stores of each and compares: the ids (an attribute has the node id and the level
of its element), the type, the last descendant. `Compare` and `IsDescendantOf`
are `NodeInfo::compare` and `isDescendantOf`, branch for branch.

`NodeIterator` is the contract between an iterator and the one above it, as all of
them rely on it and none of them states it: answers in document order, each
once, to `next()` and `seek()` in any order. Iterators do not all skip to a
target: a step ignores one within a document, a union of such an input and
another may forget answers before the highest target it was given.
`Landings` is what remains: an input moves forwards and misses nothing at or after that
target. `Joins` takes its inputs by that contract alone (`Moves`), so that a
join over joins is covered, and `ImplementsIterator` shows that it keeps the
contract in turn.

| action | code |
|---|---|
| `Ask` with `IntersectCall`, ... `ParentCall` | `next()` and `seek()` of each iterator, the first one included |
| `Join` with `IntersectJoin`, ... `ParentJoin` | one turn of the loop of `doJoin()` |
| `PassTarget`, `PassAncestor` | where a lineal join sends its inputs |
| `Unwound`, `Push`, `TakeParent`, `Finish` | `ancestorStack_` and `results_` of the child and parent joins |

What a join promises differs with its kind. `Complete` kinds answer with every node
`Answer` says, `Ordered` ones in document order with nodes of it, the others
with nodes of it.

### Checks

* `joins` (three forests of six nodes: elements in elements, attributes, two
  documents; every pair of inputs that the kind is given): `ImplementsIterator`
  with the merges, the lineal joins and the parents of attributes `Complete`,
  `EveryTurnMoves` (no call loops for ever: a turn that does not end it moves
  an input forwards), `InputsUsable` (most joins delete an input that has ended;
  none is compared or moved afterwards), and the invariants that a comment in
  `query/ParentOfChildJoinQP.cpp:132-143` states and does not argue: `StackPath`,
  `BatchesFollow`, `FoundOnce`.
* `joins_child`: the child join among the `Complete`: a finding.

Six nodes are enough for an element with two children, one of which has a child,
for elements with several attributes, and for two documents; what needs more
(two parents found before the one that encloses them) is a variation under Findings.
`NodeIterator` states fairness of `Return` for those who use it with TLC; that
the joins return is `EveryTurnMoves`, since both inputs only move forwards
through finitely many nodes. The plans are those of `Joinable`, where an ancestor is no
attribute, nor a child where the join is one of elements: the optimizer, which
is not modelled, is assumed to build no others. They leave out `MayTakeGrandparent`
(see Findings).

### Proofs

For every number of nodes, every well-formed forest and every set of plans:

* `JoinsProofs`: `TypeCorrect`, `InputsStayUsable` and `TurnsMove`. The invariant
  `Inv` is types, usable inputs and that no input is before what it has answered. `MovesFacts` and
  `CompareFacts` say what a move and a comparison give; then there is one lemma per
  call and per turn. A turn moves forwards because the input that is moved is the one
  that the comparison found behind, and a target at the ids of the other lies
  beyond it (`KeyTarget`, `Targets`); where ids are equal, the types differ, and the
  code asks for the next node instead of a target.
* `JoinsProofs!StacksArePaths`, `ParentsFoundOnce` and `BatchesInOrder`: the comments of
  `ParentOfChildJoinQP.cpp:132-143`, argued. The invariant `BufferInv` says that the stack is
  a path, each node above the next, that it and the results came from the left
  input, which is past them, and that no result is found twice or still on the stack
  (`Distinct`, `Apart`); within a call all of them come after what was answered
  before. Since the left input is also past what was answered, a parent taken from it
  later cannot be one delivered earlier. A node is popped when the
  descendant has passed its last descendant, and what remains of a path then lies above
  that descendant (`UnwoundFacts`). The stack and the batches need no
  hypothesis on the plan; that the node found is a parent (`Sure`) needs `Joinable` and
  `~MayTakeGrandparent`, since the code looks at levels only.
* `AnswersProofs!JoinsImplement`: every join implements `NodeIterator`, each as far as
  `Complete` and `Ordered` promise of it. The hypotheses are `Sure`, and `PromiseFits`:
  that the kinds in `Complete` are merges, lineal joins or the parents of
  attributes, and that no parent join is in `Ordered`, which Findings shows to
  be as much as the code keeps. There is one invariant per family:
  - merges (`IntersectInv`, `UnionInv`, `ExceptInv`): no answer that still
    counts has been passed by the inputs it must come from, and no input has been
    given a target beyond one (`Reaches`). Such a target comes from the caller,
    when the answer no longer counts, or from the other input, which is then past
    the answer as well. `MergesImplement` has them alone, and assumes nothing of the plan.
  - lineal joins and parents of attributes (`PairInv`): the same of the two nodes that
    make an answer (`Match`), whichever of them it is. An
    input that a turn moves is behind the other one and has no pair with what that one is
    at or comes to; where `PassAncestor` skips more of the left input than one node,
    `PassSkips` shows that the target is not beyond a pair.
  - attributes and children (`OrderInv`): the join stands where its right input does.
    That a child is one comes from `BufferInv`.

`WellFormed` is what these proofs know of a forest: above a node are the nodes that come
before it and whose last descendant does not, the nearest of them is its parent, levels
count them, documents follow one another. `Forest` computes all of this from types and
parents, and TLC checks for the forests of the runs that it makes them well-formed; that
it does for every forest is an induction over data, which is out of reach, so that the
facts are the assumption of the theorems.

## Documents

### Model

The rows of a node-storage container that an operation on documents touches: the index
specification, per document its metadata (the name stands for it) and its
content (one value, which strategies index), and per index key its entries. Locks
are those Berkeley DB takes for the flags the code passes: a write lock until the
transaction ends; none kept by a `DB_READ_COMMITTED` read (the specification,
all lookups in indexes, the cursor of `reindex`); a read lock kept by a plain
read (the metadata of a document). `db` is the rows as written, `disk` as last
committed.

| action | code |
|---|---|
| `Put`, `Add` | `prepareAddDocument`; parsing, with checkUniqueConstraint for each key as it is made |
| `Get`, `GetRead` | `getDocument` by name: the id from the index, then the metadata |
| `Update`, `Rename`, `UpdateByName`, `Replace`, `ReplaceName` | `updateDocument` with an XmlDocument that was read, or one that the application made; `updateContentAndIndex` |
| `Delete`, `DeleteByName`, `Fetch`, `InitDelete`, `RemoveContentAndIndex` | `deleteDocument`, both forms |
| `WriteMetaData`, `UpdateIndex` | `addMetaData`, `updateMetaData`, `removeMetaData`; `KeyStash::updateIndex`, then the subtraction in `doAutoIndex` |
| `AddIndex`, `DeleteIndex`, `SetIndexSpecification`, `RemoveIndexes`, `Reindex`, `PutIndexSpecification` | `XmlContainer::addIndex`, `deleteIndex`, `setIndexSpecificationInternal`, `removeIndexes`, `reindex`; the last two also for auto-indexing |
| `Commit`, `Abort` | the end of the transaction; an abort at any time stands for the deadlock detector and for errors of Berkeley DB |

Each thread runs one transaction after another, each of a `getDocument` perhaps, and one
operation. `usage` says what a container's applications do: which operations each thread
calls, auto-indexing, whether XmlDocument objects are kept from one transaction to the
next (`keep`), and whether the container has transactions (`transacted`). Where it has, an
operation runs in an internal child of the application's transaction, or in a transaction
of its own, and the guard aborts that when the operation fails (`Transaction.cpp:372-375`,
`398-409`): nothing a failed operation wrote is ever committed, and `Abort`, which with
one operation per transaction ends the whole of it, leaves the same rows. Where it has
none, which is modelled for one thread, nothing is undone, and `Commit` is no more than
the return of an operation, done or failed. An XmlDocument with a change that was not
written is not kept (`Unsaved`): in the code it keeps its modified flags, and the next
update made with it writes that change too.

An entry that is both added and deleted with the same node data cancels out in the stash;
one whose node data differ, or added and deleted for different nodes of a document, is
written (`KeyStash.cpp:48-77`, `159-168`, `DbWrapper.cpp:600`), which `UpdateIndex` leaves
open for each key of the content. Index entries are told apart by document only:
`IndexExact` says that a key is there for a document, not that its node data are right.

The keys of one document are checked, and those stashed
are written, in one step: in between, another thread can do nothing to a row
that it could not do before or after. Uniqueness is checked against the first entry
under a key, as `getIndexEntry` reads it. Document ids come from a sequence that
is outside the transaction; `MaxDocs` bounds it.

The properties are about `disk`, which is what anybody may read:

* `IndexExact`: under each key are exactly the documents that the specification,
  their names and their contents call for. "Index keys for disabled index
  strategies are removed and index keys for enabled index strategies are added"
  (`src/dbxml/docs/api_reference/CXX/XmlContainer_setIndexSpecification.html`).
* `UniqueHeld`: one document per name and per value under a unique index.
* `Whole`: a document has content and metadata or neither; and there is no metadata under id
  0, but where documents are updated by name, which writes it there
  (`nodeStore/NsDocumentDatabase.cpp:267`).
* `SpecKept`: the specification changes by the strategy that a thread adds or
  deletes, or those that it auto-indexes, and by nothing else.
* `Refines`: seen by name, each transaction is one operation of `DocumentStore`, or none.

### Checks

* `documents` (2 names, 2 contents, an index and a unique index, ids up to 3).
  `Alone` is one thread: with and without auto-indexing, all operations; keeping XmlDocument
  objects, when nothing is deleted; and, in a container without transactions, the
  operations that change nothing before they fail. `Together` are the pairs of threads
  that do not disturb each other.
* `documents_unique` (two threads that put): a finding.

Two contents are needed for an update to change keys, two names for a rename; three
ids let a document be put after another was deleted while a third is in the container.
`Together` is what remains after TLC has looked at every pair of operations, one
in each thread:

| pair | what TLC finds violated, without auto-indexing |
|---|---|
| put, put; put, update; two updates of three contents; two renames of three names | `UniqueHeld` |
| put, rename | `UniqueHeld`, `Refines` |
| put or update, addIndex or deleteIndex; delete, addIndex | `IndexExact`: the keys are those of the specification that the operation read when it began (`UpdateContext.cpp:25`) |
| update or rename, delete | `IndexExact`, `Whole`: the id was looked up before the other thread deleted the document, and part of it is written again (`Container.cpp:1108-1121`) |
| two changes of the specification | `SpecKept`: the second writes what it read before the first was committed (`XmlContainer.cpp:206`) |
| put, delete; two deletes; delete, deleteIndex; update, rename; rename, addIndex or deleteIndex | nothing |

With auto-indexing, which is the default of a new container, also: put or
update beside delete, put beside update, and two updates violate `IndexExact`
(`reindex` passes a document whose metadata is not written yet, or writes keys of
one that is being deleted), and put or update beside a change of the specification
violates `SpecKept`. One thread alone violates `IndexExact`, `Whole` and
`Refines` when it keeps XmlDocument objects and deletes (their id is trusted), and
`IndexExact` and `Whole` when it updates documents of a container without transactions: an
update that fails has deleted the old content before (`nodeStore/NsDocumentDatabase.cpp:219`).

### Proofs

`DocumentsProofs!TypeCorrect`: `Spec => []TypeOK`, for all sets of threads, names,
contents and strategies, any bound on ids and every usage. `TypeOK` includes `Isolated`,
that what is not committed is under a write lock, without which an abort would take away
what another transaction read or wrote. It is proved in two halves, `StoreOK` of the rows
and locks, and `ThreadsOK` of the threads: `WriteKeeps` (values that fit, written under a
lock) and `UnchangedKeeps` are used for the former, `ThreadKeeps` and `ReadKeeps` for the
latter, by one lemma per group of actions.

`SpecificationKept`, under `OneChanger` (in each usage at most one thread changes the
specification, by addIndex, deleteIndex or auto-indexing; any number of others
put, update and delete): `Spec => SpecKept`. Without the assumption it is false
(two changes of the specification, above). The invariant is `SpecInv`: at each label that leads
to a commit the row is either as on disk or what the thread asked for, and
what the thread still has to write is computed from the specification
that is on disk (`Ready`), which a second thread that changes it could make stale.

Under `OneActs` (in each usage one thread has operations, it keeps no XmlDocument
objects from one transaction to the next, and the container has transactions):
`IndexesExact`, `UniquenessHeld`, `DocumentsWhole`, and
the refinement `ContainerIsStore`, `Spec => Refines`. Each part of the
assumption is needed, as the table and the paragraph after it show. None of the
properties is inductive: they speak of `disk`, which a commit replaces by what
the thread wrote at several labels. The invariant is `Alone`:

* `Solo`: the others are idle and have no locks.
* `Good(disk)`: `Exact` (the keys), `Sole` (one entry under a unique key), `Paired`
  (content with metadata, and neither beyond the sequence) and `NoZero`.
* `Stage`: what holds at each label. Before the first write `db` agrees with `disk`.
  At "metadata" and "keys" they differ in the rows of one document, and the stash is
  `Planned`: it makes of the keys that the document has on disk those that it is going
  to have, whichever of the keys that are both added and deleted are cancelled or
updated. At
  "reindex" the indexes are `Partly` there: those that remain, and those that are
  added up to the document reached. At "done" the rows are `Good`, and `OneChange`
  says that one document at most is different.

`StartAlone`, `ReadAlone`, `PlanAlone` and the lemmas after them show it for each
group of actions. From `Good` on both sides of a commit and `OneChange`, `ChangeIsOne`
finds the operation of `DocumentStore`; no other step changes `disk` (`CommitsAlone`).

With any number of threads, under `Calm`: `SharedIndexesExact` and
`SharedDocumentsWhole`. Each clause of `Calm` excludes a row of the table or of the
paragraph after it: the specification is not changed, by an operation or by auto-indexing;
a thread whose documents may be deleted once it has found them (`MayVanish`: by another
thread, or by itself where XmlDocument objects are kept) only puts and deletes; and in a
container without transactions nobody updates. Any number of threads may then all put,
update and rename, or all put and delete, or one put, update, rename and delete beside others
that put: of the usages of `Together` all that leave the specification alone, and more.
`Alone` says that the others are idle; here they write while a thread is at work, and the
invariant is `CalmInv`:

* `InOrder` of `disk`, which is `Good` without the unique keys.
* `Shared`: a metadata row that one transaction has read is not written by another. It is what
  keeps a rename from being overtaken by another rename or a delete.
* `Settled`, of each thread: `Suits` (the job is one for its label), `Place`
  (the ids it holds are `Known`, documents that cannot vanish under it or that it only
  deletes, or `Fresh`, an id that no one else has), `Own` (the rows it has locked are those of
  its one document, and under a key it adds or removes no other) and
  `Written` (what it has written is what the job says, and its stash makes of the
  document's keys on disk those it is going to have).

A step of a thread disturbs the others only if it ends a transaction. `Moves` says what
any other step leaves to them (`OthersSettled`). For a commit, `EndsOthers` shows that the
documents it adds, deletes or renames are not those others are adding or renaming (`OthersApart`),
that what a thread has found is still `Known` (`EndsKnown`), and that a rename beside an update
of the same document changes the keys the other leaves alone (`Touches`).

The check of a unique key takes no lock that stays, so `SharedUniquenessHeld` and
the refinement `SharedContainerIsStore` also need `OneAdds`: at most one thread
gives documents names, and at most one gives them contents. The first rows of the table are what
happens otherwise. `Vacant` says that the unique keys that a thread has found free stay
free until it commits: the others can only remove documents from under them.

## Findings

Each is a run with `expect: violation`; `PROJECT.json` quotes the comment or
document the code disagrees with.

| run | what happens |
|---|---|
| `dictionary_retry` | an operation defines a name and fails; its id stays in the caller's string cache, and the next operation stores it although the row was rolled back |
| `containers_locked` | `closeContainer` keeps the container's mutex when it finds it referenced again |
| `index_dbs_rollback` | a failed operation rolls back the database it created and nobody closes the handle |
| `joins_child` | a child join ends with its list of parents and forgets those on its stack whose later children are still to come |
| `documents_unique` | two transactions put documents of one name, each finds the name free, both commit |

The passing runs are bounded by what the code gets right. Changing one constant
of a configuration, or one property, shows where each bound comes from:

| configuration | change | what TLC then finds |
|---|---|---|
| `dictionary_flat` | `INVARIANT IdCacheAgrees` | the id cache keeps a name whose append was aborted, and another process commits the same id for another name (`DictionaryDatabase.cpp:269-274`) |
| `dictionary_flat` | `ProcOf <- OneProc`, `UserChildren = TRUE`, `StringCacheCommitted` | a child transaction reads a name its parent has not committed into the cache all transactions share (`DictionaryDatabase.cpp:469`) |
| `transactions` | `DbErrors = FALSE`, `OrphanChildren = TRUE`, `NoMisuse` | after its parent ended, a child's Transaction uses a freed `DB_TXN` (`Transaction.cpp:94`) |
| `containers` | `Assured = {TRUE, FALSE}`, `SafeToDelete` | two releases each see the count fall to zero, with a lookup between them, and the container is closed and deleted twice (`Container.cpp:189-197`) |
| `containers` | `RemoveNames = TRUE`, `OneContainer` | `removeAlias` with the name of the file makes the store forget an open container (`Manager.cpp:586`) |
| `index_dbs` | `Orderly <- AloneOrShared`, `NoStaleHandle` | the second transaction that creates a database is recorded with the notification of the first, and its own abort notifies nobody (`Container.cpp:2078-2086`) |
| `index_dbs` | `Orderly <- AloneOrShared`, `NoFreedUse` | two threads find no handle, both open one, and storing the second deletes the first (`Container.cpp:2076`) |
| `joins` | `attribute` among the `Complete` | a seek moves the join to the next parent and loses the attributes left of the one it is at (`query/AttributeJoinQP.cpp:97`) |
| `joins` | plans with `MayTakeGrandparent`, `FoundOnce` | an attribute has the id and the level of its element, and the parent join takes the parent of that for its own (`query/ParentJoinQP.cpp:150`) |
| `joins` | `N = 9`, `WideForests`, `WidePlans`, `ResultsSorted` | a batch of parents is delivered in the order they were found, which is not document order: `results_` keeps its order only against its last entry (`query/ParentOfChildJoinQP.cpp:156`) |
| `documents` | usages outside `Alone` and `Together` | the table under Documents |

Two exceptions are part of the properties of `transactions` themselves. A commit
that fails is an abort, and the notifications are told of a commit
(`Transaction.cpp:281`). When an index database cannot be opened, the
constructor of `SyntaxDatabase` aborts the transaction it was given, which is
the internal child, and the guard of the operation then aborts the one of the
caller (`SyntaxDatabase.cpp:67`).

## Checked, proved, left out

*Proved*, for every value of the constants. Dictionary: `TypeCorrect`, `NamesStayUnique`,
`DatabasesMirror` and `UndoneAreLast`; with a single process `NumbersAnswered`; without
child transactions `CommittedAnswers`, and if failed transactions are aborted
`DocumentsResolve` and the refinement `DictionaryIsNameService`. Transactions, under
`~OrphanChildren`: all the properties of its run. Joins: `TypeCorrect`,
`InputsStayUsable`, `TurnsMove`, `StacksArePaths`, `BatchesInOrder`, under `Sure`
`ParentsFoundOnce`, under `Sure` and `PromiseFits` the refinement `JoinsImplement`, and
for the merges without these `MergesImplement`. Documents: `TypeCorrect`, under
`OneChanger` `SpecificationKept`, under `OneActs` `IndexesExact`, `UniquenessHeld`,
`DocumentsWhole` and the refinement `ContainerIsStore`, under `Calm` `SharedIndexesExact`
and `SharedDocumentsWhole`, and with `OneAdds` `SharedUniquenessHeld` and the refinement
`SharedContainerIsStore`. ContainerStore: `TypeCorrect`, `CountsAreExact`,
`HandlesStayLive`, `NamesStayLive`, and under the assumptions named there `FilesOpenOnce`
and `DeletingIsSafe`. IndexDbs: `TypeCorrect`, `NotifyIsSingle`, and under `AloneAssumed`
`HandlesNotStale` and `HandlesNotFreed`. *Model-checked only*: `EventuallyDeleted` and
`CallsReturn` of ContainerStore, the liveness properties, since the proof system has no
rules for fairness and `ENABLED`; and of Documents the usages of `Together` that change
the specification beside another thread (`delete` with `deleteIndex`, `rename` with
`addIndex` or `deleteIndex`, `update` with auto-indexing beside `rename`), for which only
`TypeCorrect` and `SpecificationKept` are proved.

Not modelled in the parts above: preloaded names, dump, load and upgrade of a
closed container, the transient dictionary (Dictionary); Concurrent Data Store
mode, where an abort commits (Transactions); removing and renaming files,
`releaseRegisteredContainers` when the last XmlManager goes (ContainerStore);
dirty reads (`DB_READ_UNCOMMITTED`); whole-document storage, default indexes,
structural statistics, documents from an XmlEventReader, and the steps,
predicates and index cursors below the joins (Documents, Joins). The lock-free hash chains of
DictionaryCache are taken as atomic: what can go wrong there is a matter of
memory order, which the hazards record.

Not modelled at all: the optimizer (functions over syntax trees); node
formats, parsers and writers (conversions); statistics (they affect cost
estimates only); bindings and tools (wrappers); the vendored libraries, which
appear as what the code uses of them.

## Plan

1. **Dictionary**: a constant for dirty reads; dump and load.
2. **Documents**: errors of single writes, with the error handling of each step
   (`DocumentDatabase.cpp:531`, `Container.cpp:758`); several operations in
   one transaction; default indexes. The properties proved for the
   pairs of `Together` in which one thread changes the specification.
3. **Joins**: the index cursors and steps below them, which promise what
   `NodeIterator` says.
4. **Results**: what an eager and a lazy result share, and the container ids in them.
5. **Compositions**: IndexDbs with ContainerStore (a container closed while a
   notification waits), ContainerStore with file removal, and results that hold container ids.
6. **Pure algorithms**: `NsNid` (ids between two ids, order kept),
   `allocateEntry` of DictionaryCache with its capacity.

The first modules modelled are those where a mistake is paid for by every document
(Dictionary) or with memory (Transactions, ContainerStore, IndexDbs), and where
tests, which run one thread and rarely fail an operation, see least.
