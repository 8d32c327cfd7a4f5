----------------------------- MODULE Dictionary -----------------------------
(***************************************************************************)
(* The name dictionary of a container: two Berkeley DB databases, primary  *)
(* (id -> name, a Recno database whose ids are record numbers) and         *)
(* secondary (name -> id), under transactions, with the three caches kept  *)
(* in front of them:                                                       *)
(*                                                                         *)
(*   txnCache     one per Transaction object, filled by the names that     *)
(*                transaction defines, deleted when that transaction ends  *)
(*   stringCache  one per process, filled by reads of secondary            *)
(*   idCache      one per process, filled by appends to and reads of       *)
(*                primary; nothing is ever removed, the newest entry wins  *)
(*                                                                         *)
(* An operation of the API called with a transaction runs in an internal   *)
(* child of it (Transaction::autoTransact), an operation called without    *)
(* one in a transaction of its own.  A row carries the level it was        *)
(* written at, and reaches Base when its top-level transaction commits.    *)
(***************************************************************************)
EXTENDS Naturals

CONSTANTS
  Name,               \* the element and attribute names used in documents
  Txn,                \* Transaction objects an application has open at once
  NoTxn,              \* not a transaction: the writer of committed rows
  Proc,               \* processes sharing the environment
  ProcOf,             \* the process each transaction runs in
  MaxId,              \* bound on the record numbers of primary
  NoId,               \* the answer of a cache that has no entry
  NoName,             \* the same, for the cache from ids to names
  UserChildren,       \* whether applications call XmlTransaction::createChild
  RetryAfterFailure   \* whether they go on in a transaction in which an
                      \* operation has failed, instead of aborting it

ASSUME TxnAssumption == NoTxn \notin Txn
ASSUME ProcAssumption == ProcOf \in [Txn -> Proc]
ASSUME IdAssumption == MaxId \in Nat /\ NoId \notin 1..MaxId /\ NoName \notin Name
ASSUME UsageAssumption == UserChildren \in BOOLEAN /\ RetryAfterFailure \in BOOLEAN

Id == 1..MaxId

(***************************************************************************)
(* The level a row, a read lock or a stored id belongs to: committed, the  *)
(* transaction itself, or the internal child of its running operation.     *)
(***************************************************************************)
Base == [txn |-> NoTxn, op |-> FALSE]
Own(t) == [txn |-> t, op |-> FALSE]
Op(t) == [txn |-> t, op |-> TRUE]
Level == [txn : Txn \cup {NoTxn}, op : BOOLEAN]
Row == [id : Id, name : Name, by : Level]

VARIABLES
  primary,      \* rows of the database id -> name
  secondary,    \* rows of the database name -> id
  readLock,     \* read locks left by define-lookups that found nothing
  stored,       \* the (name, id) pairs written into documents
  phase,        \* where each transaction is
  auto,         \* transactions made by autoTransact for one operation
  parent,       \* the parent of a user's child transaction
  failed,       \* an operation of this transaction has failed
  arg,          \* the name and id of the definition in progress
  txnCache, stringCache, idCache

rows == <<primary, secondary, readLock, stored>>
txns == <<phase, auto, parent, failed, arg>>
caches == <<txnCache, stringCache, idCache>>
vars == <<primary, secondary, readLock, stored, phase, auto, parent, failed,
          arg, txnCache, stringCache, idCache>>

Phase == {"none", "open", "op", "missed", "appended"}
Running == {"op", "missed", "appended"}
NoArg == [name |-> NoName, id |-> NoId]
NoStrings == [n \in Name |-> NoId]
NoNames == [i \in Id |-> NoName]

TypeOK ==
  /\ primary \subseteq Row
  /\ secondary \subseteq Row
  /\ readLock \subseteq [name : Name, by : Level]
  /\ stored \subseteq Row
  /\ phase \in [Txn -> Phase]
  /\ auto \in [Txn -> BOOLEAN]
  /\ parent \in [Txn -> Txn \cup {NoTxn}]
  /\ failed \in [Txn -> BOOLEAN]
  /\ arg \in [Txn -> [name : Name \cup {NoName}, id : Id \cup {NoId}]]
  /\ \A t \in Txn : /\ phase[t] \in {"missed", "appended"} => arg[t].name \in Name
                    /\ phase[t] = "appended" => arg[t].id \in Id
  /\ txnCache \in [Txn -> [Name -> Id \cup {NoId}]]
  /\ stringCache \in [Proc -> [Name -> Id \cup {NoId}]]
  /\ idCache \in [Proc -> [Id -> Name \cup {NoName}]]

Init ==
  /\ primary = {} /\ secondary = {} /\ readLock = {} /\ stored = {}
  /\ phase = [t \in Txn |-> "none"]
  /\ auto = [t \in Txn |-> FALSE]
  /\ parent = [t \in Txn |-> NoTxn]
  /\ failed = [t \in Txn |-> FALSE]
  /\ arg = [t \in Txn |-> NoArg]
  /\ txnCache = [t \in Txn |-> NoStrings]
  /\ stringCache = [p \in Proc |-> NoStrings]
  /\ idCache = [p \in Proc |-> NoNames]

-----------------------------------------------------------------------------
(* Levels, visibility and locks *)

\* The innermost transaction, Transaction::getDB_TXN: where t writes now.
Writing(t) == IF phase[t] \in Running /\ ~auto[t] THEN Op(t) ELSE Own(t)

\* t and what it is nested in at any depth, if up[v] is the parent of v: those in
\* every set that has t and, with each transaction, its parent.
Nesting(up, t) ==
  {u \in Txn : \A S \in SUBSET Txn :
     t \in S /\ (\A v \in S : up[v] \in S \cup {NoTxn}) => u \in S}

Family(t) == Nesting(parent, t)

Visible(t, r) == r.by = Base \/ r.by.txn \in Family(t)

HasChild(t) == \E u \in Txn : parent[u] = t

\* What was written at one level becomes part of another one.
Lift(S, from, to) == {[r EXCEPT !.by = IF @ = from THEN to ELSE @] : r \in S}

\* What was written at a level is undone, or a lock of it is released.
Drop(S, level) == {r \in S : r.by # level}

\* An id is taken by the operation that asked for it into the documents.
Store(t, n, i) == stored' = stored \cup {[id |-> i, name |-> n, by |-> Writing(t)]}

-----------------------------------------------------------------------------
(* Transactions: Manager::createTransaction, XmlTransaction::createChild,   *)
(* Transaction::autoTransact, TransactionGuard, commit and abort            *)

\* An application that does not retry does nothing but abort after a failure.
MayGoOn(t) == failed[t] => RetryAfterFailure

Begin(t) ==
  /\ phase[t] = "none"
  /\ phase' = [phase EXCEPT ![t] = "open"]
  /\ UNCHANGED <<rows, auto, parent, failed, arg, caches>>

\* An operation called without a transaction gets one of its own.
AutoBegin(t) ==
  /\ phase[t] = "none"
  /\ phase' = [phase EXCEPT ![t] = "op"]
  /\ auto' = [auto EXCEPT ![t] = TRUE]
  /\ UNCHANGED <<rows, parent, failed, arg, caches>>

\* A transaction may have several children at once, and they children of their own.
CreateChild(t, u) ==
  /\ UserChildren
  /\ phase[t] = "open" /\ MayGoOn(t)
  /\ phase[u] = "none" /\ u # t /\ ProcOf[u] = ProcOf[t]
  /\ phase' = [phase EXCEPT ![u] = "open"]
  /\ parent' = [parent EXCEPT ![u] = t]
  /\ UNCHANGED <<rows, auto, failed, arg, caches>>

\* An operation called with transaction t: createChildInternal.
OpBegin(t) ==
  /\ phase[t] = "open" /\ ~HasChild(t) /\ MayGoOn(t)
  /\ phase' = [phase EXCEPT ![t] = "op"]
  /\ UNCHANGED <<rows, auto, parent, failed, arg, caches>>

\* TransactionGuard::commit of the internal child: its rows and locks become
\* those of t.  The string cache is that of t and stays.
OpCommit(t) ==
  /\ phase[t] = "op" /\ ~auto[t]
  /\ primary' = Lift(primary, Op(t), Own(t))
  /\ secondary' = Lift(secondary, Op(t), Own(t))
  /\ readLock' = Lift(readLock, Op(t), Own(t))
  /\ stored' = Lift(stored, Op(t), Own(t))
  /\ phase' = [phase EXCEPT ![t] = "open"]
  /\ UNCHANGED <<auto, parent, failed, arg, caches>>

\* The operation fails (a constraint, a lock conflict, a parse error) and the
\* guard's destructor aborts the internal child.  The string cache is that of
\* t, not of the child, and keeps what the operation put there.
OpFail(t) ==
  /\ phase[t] \in Running /\ ~auto[t]
  /\ primary' = Drop(primary, Op(t))
  /\ secondary' = Drop(secondary, Op(t))
  /\ readLock' = Drop(readLock, Op(t))
  /\ stored' = Drop(stored, Op(t))
  /\ phase' = [phase EXCEPT ![t] = "open"]
  /\ failed' = [failed EXCEPT ![t] = TRUE]
  /\ arg' = [arg EXCEPT ![t] = NoArg]
  /\ UNCHANGED <<auto, parent, caches>>

\* Mutant: the string cache outlives its transaction.
EndKeepingCache(t) ==
  /\ phase' = [phase EXCEPT ![t] = "none"]
  /\ auto' = [auto EXCEPT ![t] = FALSE]
  /\ parent' = [parent EXCEPT ![t] = NoTxn]
  /\ failed' = [failed EXCEPT ![t] = FALSE]
  /\ arg' = [arg EXCEPT ![t] = NoArg]
  /\ UNCHANGED caches

\* The end of a transaction: every Notify runs, StringCacheNotify deletes the
\* string cache, and the Transaction object is gone.
End(t) ==
  /\ phase' = [phase EXCEPT ![t] = "none"]
  /\ auto' = [auto EXCEPT ![t] = FALSE]
  /\ parent' = [parent EXCEPT ![t] = NoTxn]
  /\ failed' = [failed EXCEPT ![t] = FALSE]
  /\ arg' = [arg EXCEPT ![t] = NoArg]
  /\ txnCache' = [txnCache EXCEPT ![t] = NoStrings]
  /\ UNCHANGED <<stringCache, idCache>>

\* The state in which t may be ended: by its application between operations,
\* by the guard at the end of the one operation of an automatic transaction.
MayCommit(t) ==
  \/ phase[t] = "open" /\ ~HasChild(t) /\ MayGoOn(t)
  \/ phase[t] = "op" /\ auto[t]

MayAbort(t) ==
  \/ phase[t] = "open" /\ ~HasChild(t)
  \/ phase[t] \in Running /\ auto[t]

\* Mutant: a child is begun in Berkeley DB without its parent.
CommitAlone(t) ==
  /\ MayCommit(t)
  /\ primary' = Lift(primary, Own(t), Base)
  /\ secondary' = Lift(secondary, Own(t), Base)
  /\ stored' = Lift(stored, Own(t), Base)
  /\ readLock' = Drop(readLock, Own(t))
  /\ End(t)

\* A child's rows and locks become its parent's, a top-level transaction's
\* rows are committed and its locks released.
Commit(t) ==
  LET to == IF parent[t] = NoTxn THEN Base ELSE Own(parent[t]) IN
  /\ MayCommit(t)
  /\ primary' = Lift(primary, Own(t), to)
  /\ secondary' = Lift(secondary, Own(t), to)
  /\ stored' = Lift(stored, Own(t), to)
  /\ readLock' = IF parent[t] = NoTxn THEN Drop(readLock, Own(t))
                                      ELSE Lift(readLock, Own(t), to)
  /\ End(t)

Abort(t) ==
  /\ MayAbort(t)
  /\ primary' = Drop(primary, Own(t))
  /\ secondary' = Drop(secondary, Own(t))
  /\ stored' = Drop(stored, Own(t))
  /\ readLock' = Drop(readLock, Own(t))
  /\ End(t)

-----------------------------------------------------------------------------
(* DictionaryDatabase: name -> id *)

\* stringCacheLookup: the transaction's cache first, then the process's.
Cached(t, n) ==
  IF txnCache[t][n] # NoId THEN txnCache[t][n] ELSE stringCache[ProcOf[t]][n]

\* Mutant: key and value swapped.
CacheStringSwapped(p, n, i) ==
  stringCache' = [stringCache EXCEPT ![p][n] = n]

CacheString(p, n, i) == stringCache' = [stringCache EXCEPT ![p][n] = i]

\* lookupIDFromName inside an operation, answered by a cache.
LookupCached(t, n) ==
  /\ phase[t] = "op" /\ Cached(t, n) # NoId
  /\ Store(t, n, Cached(t, n))
  /\ UNCHANGED <<primary, secondary, readLock, txns, caches>>

\* lookupIDFromName inside an operation, answered by secondary.
LookupFound(t, n) ==
  /\ phase[t] = "op" /\ Cached(t, n) = NoId
  /\ \E r \in secondary :
       /\ r.name = n /\ Visible(t, r)
       /\ CacheString(ProcOf[t], n, r.id)
       /\ Store(t, n, r.id)
  /\ UNCHANGED <<primary, secondary, readLock, txns, txnCache, idCache>>

\* Mutant: DB_READ_COMMITTED whether or not the name is to be defined.
LookupMissedUnlocked(t, n) ==
  /\ phase[t] = "op" /\ Cached(t, n) = NoId
  /\ \A r \in secondary : r.name # n
  /\ phase' = [phase EXCEPT ![t] = "missed"]
  /\ arg' = [arg EXCEPT ![t] = [name |-> n, id |-> NoId]]
  /\ UNCHANGED <<rows, auto, parent, failed, caches>>

\* lookupIDFromName with define: secondary has no such name, in any level (a
\* row another transaction has not committed blocks the read).  The read is
\* not DB_READ_COMMITTED, so its lock is held until the transaction ends.
LookupMissed(t, n) ==
  /\ phase[t] = "op" /\ Cached(t, n) = NoId
  /\ \A r \in secondary : r.name # n
  /\ readLock' = readLock \cup {[name |-> n, by |-> Writing(t)]}
  /\ phase' = [phase EXCEPT ![t] = "missed"]
  /\ arg' = [arg EXCEPT ![t] = [name |-> n, id |-> NoId]]
  /\ UNCHANGED <<primary, secondary, stored, auto, parent, failed, caches>>

\* Mutant: an entry goes to the end of its hash chain, where the oldest wins.
CacheNameLast(p, i, n) ==
  idCache' = [idCache EXCEPT ![p][i] = IF @ = NoName THEN n ELSE @]

\* DictionaryCache::insert: at the head of the hash chain, the newest wins.
CacheName(p, i, n) == idCache' = [idCache EXCEPT ![p][i] = n]

\* Recno append: the record number after the last one.  The append write-locks
\* the pages up to the root, so it waits for any other uncommitted append.
NextId(i) == /\ \A r \in primary : r.id # i
             /\ \A j \in 1..(i - 1) : \E r \in primary : r.id = j

CanAppend(t) == \A r \in primary : Visible(t, r)

\* defineName, first half: appendPrimary, then cache_.insert.
DefineAppend(t) ==
  /\ phase[t] = "missed" /\ CanAppend(t)
  /\ \E i \in Id :
       /\ NextId(i)
       /\ primary' = primary \cup
            {[id |-> i, name |-> arg[t].name, by |-> Writing(t)]}
       /\ CacheName(ProcOf[t], i, arg[t].name)
       /\ arg' = [arg EXCEPT ![t].id = i]
  /\ phase' = [phase EXCEPT ![t] = "appended"]
  /\ UNCHANGED <<secondary, readLock, stored, auto, parent, failed, txnCache,
                 stringCache>>

\* The put waits for the read locks of other transactions on that name.
CanPut(t) == \A l \in readLock : l.name = arg[t].name => Visible(t, l)

\* Mutant: secondary is written outside the transaction.
DefinePutCommitted(t) ==
  /\ phase[t] = "appended" /\ CanPut(t)
  /\ secondary' = secondary \cup
       {[id |-> arg[t].id, name |-> arg[t].name, by |-> Base]}
  /\ txnCache' = [txnCache EXCEPT ![t][arg[t].name] = arg[t].id]
  /\ Store(t, arg[t].name, arg[t].id)
  /\ phase' = [phase EXCEPT ![t] = "op"]
  /\ arg' = [arg EXCEPT ![t] = NoArg]
  /\ UNCHANGED <<primary, readLock, auto, parent, failed, stringCache, idCache>>

\* Mutant: a new name goes to the cache shared by all transactions.
DefinePutShared(t) ==
  /\ phase[t] = "appended" /\ CanPut(t)
  /\ secondary' = secondary \cup
       {[id |-> arg[t].id, name |-> arg[t].name, by |-> Writing(t)]}
  /\ CacheString(ProcOf[t], arg[t].name, arg[t].id)
  /\ Store(t, arg[t].name, arg[t].id)
  /\ phase' = [phase EXCEPT ![t] = "op"]
  /\ arg' = [arg EXCEPT ![t] = NoArg]
  /\ UNCHANGED <<primary, readLock, auto, parent, failed, txnCache, idCache>>

\* defineName, second half: secondary_->put, then the transaction's cache.
DefinePut(t) ==
  /\ phase[t] = "appended" /\ CanPut(t)
  /\ secondary' = secondary \cup
       {[id |-> arg[t].id, name |-> arg[t].name, by |-> Writing(t)]}
  /\ txnCache' = [txnCache EXCEPT ![t][arg[t].name] = arg[t].id]
  /\ Store(t, arg[t].name, arg[t].id)
  /\ phase' = [phase EXCEPT ![t] = "op"]
  /\ arg' = [arg EXCEPT ![t] = NoArg]
  /\ UNCHANGED <<primary, readLock, auto, parent, failed, stringCache, idCache>>

\* lookupIDFromName without define, by a query run in t.
QueryLookup(t, n) ==
  /\ phase[t] = "open" /\ ~HasChild(t) /\ MayGoOn(t) /\ Cached(t, n) = NoId
  /\ \E r \in secondary :
       r.name = n /\ Visible(t, r) /\ CacheString(ProcOf[t], n, r.id)
  /\ UNCHANGED <<rows, txns, txnCache, idCache>>

\* The same by a query run without a transaction.
PlainLookup(p, n) ==
  /\ stringCache[p][n] = NoId
  /\ \E r \in secondary :
       r.name = n /\ r.by = Base /\ CacheString(p, n, r.id)
  /\ UNCHANGED <<rows, txns, txnCache, idCache>>

\* lookupFromID: id -> name, reading the committed rows that are not cached.
\* (An uncommitted row is in the cache of the only process that can see it.)
ReadName(p, i) ==
  /\ idCache[p][i] = NoName
  /\ \E r \in primary :
       /\ r.id = i /\ r.by = Base
       /\ CacheName(p, i, r.name)
  /\ UNCHANGED <<rows, txns, txnCache, stringCache>>

\* The environment fails and is recovered: what was not committed is undone,
\* every process starts again with empty caches.
Crash ==
  /\ primary' = {r \in primary : r.by = Base}
  /\ secondary' = {r \in secondary : r.by = Base}
  /\ stored' = {r \in stored : r.by = Base}
  /\ readLock' = {}
  /\ phase' = [t \in Txn |-> "none"]
  /\ auto' = [t \in Txn |-> FALSE]
  /\ parent' = [t \in Txn |-> NoTxn]
  /\ failed' = [t \in Txn |-> FALSE]
  /\ arg' = [t \in Txn |-> NoArg]
  /\ txnCache' = [t \in Txn |-> NoStrings]
  /\ stringCache' = [p \in Proc |-> NoStrings]
  /\ idCache' = [p \in Proc |-> NoNames]

-----------------------------------------------------------------------------
Next ==
  \/ \E t \in Txn :
       \/ Begin(t) \/ AutoBegin(t) \/ OpBegin(t)
       \/ OpCommit(t) \/ OpFail(t) \/ Commit(t) \/ Abort(t)
       \/ DefineAppend(t) \/ DefinePut(t)
  \/ \E t, u \in Txn : CreateChild(t, u)
  \/ \E t \in Txn, n \in Name :
       LookupCached(t, n) \/ LookupFound(t, n) \/ LookupMissed(t, n)
       \/ QueryLookup(t, n)
  \/ \E p \in Proc, n \in Name : PlainLookup(p, n)
  \/ \E p \in Proc, i \in Id : ReadName(p, i)
  \/ Crash

Spec == Init /\ [][Next]_vars
-----------------------------------------------------------------------------
(* Properties *)

\* The row that gives s its meaning: same id and name, committed if s is, and
\* otherwise in sight of the transaction that stored s.
Resolves(s, r) ==
  /\ r.id = s.id /\ r.name = s.name
  /\ r.by = Base \/ (s.by # Base /\ r.by.txn \in Family(s.by.txn))

\* Every id written into a document means the name it was written for: its row
\* is committed, or is undone no later than the document is.
StoredResolve == \A s \in stored : \E r \in primary : Resolves(s, r)

\* What lookupIDFromName answers from the cache shared by all transactions of a
\* process was committed: it cannot be undone under those who use it.
StringCacheCommitted ==
  \A p \in Proc, n \in Name : stringCache[p][n] # NoId =>
    \E r \in secondary : r.by = Base /\ r.name = n /\ r.id = stringCache[p][n]

\* What lookupFromID answers from its cache for a committed id is the name that
\* was committed with it, whatever was appended and undone under that number.
IdCacheAgrees ==
  \A p \in Proc, r \in primary :
    r.by = Base => idCache[p][r.id] \in {NoName, r.name}

\* Two transactions that miss the same name do not both define it, and no
\* record number is given twice, although secondary allows duplicates.
NamesUnique ==
  \A r, s \in primary : (r.name = s.name) <=> (r.id = s.id)

\* The two databases say the same, except for the row whose definition is
\* between its two halves.
Mirror ==
  /\ secondary \subseteq primary
  /\ \A r \in primary \ secondary : \E t \in Txn :
       /\ phase[t] = "appended"
       /\ arg[t].id = r.id /\ arg[t].name = r.name /\ r.by = Writing(t)

\* Rows that may still be undone have the last record numbers, so undoing them
\* leaves no gap and gives back numbers no committed row has.
UncommittedLast ==
  /\ \A r, s \in primary : r.by = Base /\ s.by # Base => r.id < s.id
  /\ \A r \in primary : \A j \in 1..(r.id - 1) : \E s \in primary : s.id = j

\* The committed part of the dictionary is a NameService.
Committed(S) == {[name |-> r.name, id |-> r.id] : r \in {q \in S : q.by = Base}}

Service == INSTANCE NameService WITH
  registry <- Committed(secondary), documents <- Committed(stored)

\* Seen through what is committed, every step of the dictionary is a commit of
\* the NameService or nothing: no abort, crash or recovery takes an id back, and
\* no document commits with an id that has not been committed for its name.
ImplementsService == Service!Spec

-----------------------------------------------------------------------------
(* The inductive invariant behind StringCacheCommitted, StoredResolve and    *)
(* ImplementsService where applications make no child transactions and abort *)
(* a transaction in which an operation has failed.  Appended and DefineInv,  *)
(* and with them NamesUnique and Mirror, hold without these conditions.      *)

\* There are no children, and a row is committed or at a level some transaction
\* writes at: at that of its internal child only while an operation runs.
LevelInv ==
  /\ \A t \in Txn : parent[t] = NoTxn
  /\ \A r \in primary \cup secondary \cup stored :
       r.by = Base \/ \E t \in Txn :
         r.by = Own(t) \/ (r.by = Op(t) /\ phase[t] \in Running /\ ~auto[t])

\* What is in secondary and not committed is in the cache of its transaction, so
\* that transaction never reads it and never puts it into the shared cache.
CacheInv ==
  /\ \A t \in Txn, r \in secondary :
       r.by \in {Own(t), Op(t)} => txnCache[t][r.name] # NoId
  /\ StringCacheCommitted

\* The row an id in a document stands for can be undone only together with it.
Backs(r, s) ==
  /\ r.id = s.id /\ r.name = s.name
  /\ r.by = Base \/ r.by = s.by \/ \E t \in Txn : s.by = Op(t) /\ r.by = Own(t)

\* The rows of secondary are rows of primary; so is the one that is on its way
\* there; after a failure a transaction does nothing; and what is in the cache
\* of a transaction in which nothing failed, or in a document, has its row.
Paired == secondary \subseteq primary

Appended == \A t \in Txn : phase[t] = "appended" =>
  [id |-> arg[t].id, name |-> arg[t].name, by |-> Writing(t)] \in primary

FailedOpen == \A t \in Txn : failed[t] => phase[t] = "open"

CachesBacked == \A t \in Txn, n \in Name : txnCache[t][n] # NoId /\ ~failed[t] =>
  \E r \in primary : /\ r.id = txnCache[t][n] /\ r.name = n
                     /\ r.by \in {Base, Own(t), Op(t)}

DocumentsBacked == \A s \in stored : \E r \in primary : Backs(r, s)

StoreInv == Paired /\ Appended /\ FailedOpen /\ CachesBacked /\ DocumentsBacked

\* A transaction that has missed a name keeps it missing: it has the read lock,
\* and nobody else can put the name before that lock is released.
Missing == \A t \in Txn : phase[t] \in {"missed", "appended"} =>
  /\ [name |-> arg[t].name, by |-> Writing(t)] \in readLock
  /\ \A r \in secondary : r.name # arg[t].name

DefineInv == Missing /\ Mirror /\ NamesUnique

FlatInv == LevelInv /\ CacheInv /\ StoreInv /\ DefineInv

-----------------------------------------------------------------------------
(* The inductive invariants behind UncommittedLast and IdCacheAgrees, in     *)
(* which applications may make children and go on after a failure            *)

\* A child has an open parent, and no transaction is nested in itself.
FamilyInv ==
  /\ \A u \in Txn : phase[u] = "none" => parent[u] = NoTxn
  /\ \A u \in Txn : parent[u] # NoTxn => phase[parent[u]] = "open"
  /\ \A u, v \in Txn : u \in Family(v) /\ v \in Family(u) => u = v

\* Rows that are not committed are at levels of transactions that have begun.
RowsInv == \A r \in primary : r.by = Base \/ \E t \in Txn :
  \/ r.by = Own(t) /\ phase[t] # "none"
  \/ r.by = Op(t) /\ phase[t] \in Running /\ ~auto[t]

\* Whoever appends waits for the uncommitted appends of all others, so of any two
\* transactions with rows that may be undone one is nested in the other.
OneFamily == \A r, s \in primary : r.by # Base /\ s.by # Base =>
  r.by.txn \in Family(s.by.txn) \/ s.by.txn \in Family(r.by.txn)

\* Level b is inside level a: its rows may be undone while those of a stay.
Inside(a, b) ==
  \/ a = Base /\ b # Base
  \/ \E t \in Txn : a = Own(t) /\ b = Op(t)
  \/ \E t \in Txn : \E u \in Family(t) \ {t} : a = Own(u) /\ b \in {Own(t), Op(t)}

Nested == \A r, s \in primary : Inside(r.by, s.by) => r.id < s.id

Unbroken == \A r \in primary : \A j \in 1..(r.id - 1) : \E s \in primary : s.id = j

UndoInv == FamilyInv /\ RowsInv /\ OneFamily /\ Nested /\ Unbroken

\* No number has two names, and what the caches say of a number that a row has,
\* committed or not, is the name in that row.
NumbersInv ==
  /\ \A r, s \in primary : r.id = s.id => r.name = s.name
  /\ \A p \in Proc, r \in primary : idCache[p][r.id] \in {NoName, r.name}
=============================================================================
