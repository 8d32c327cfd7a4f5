----------------------------- MODULE Documents -----------------------------
(***************************************************************************)
(* The document operations of a node-storage container, its index keys and *)
(* its index specification, under transactions.                            *)
(*                                                                         *)
(* The rows of the container's databases are the index specification, the  *)
(* metadata of each document (its name), its content (one value, indexed   *)
(* by the strategies of the specification), and for each index key the     *)
(* entries under it.  A row is locked as Berkeley DB locks the page it is  *)
(* on: a write lock is kept until the transaction ends, a read lock too    *)
(* unless the read says DB_READ_COMMITTED.                                 *)
(*                                                                         *)
(* Each member of Txns is a thread that runs one transaction after another *)
(* with one operation in each.  The operation may be preceded by a         *)
(* getDocument in the same transaction, whose XmlDocument it works on.     *)
(* In a container without transactions there is nothing to abort: what an  *)
(* operation has written stays, whether or not the operation succeeds.     *)
(***************************************************************************)
EXTENDS Naturals, FiniteSets, FiniteSetsExt

CONSTANTS
  Txns, Names, Values,
  Strategies, \* index strategies on the content
  Unique,     \* those that demand unique values
  AutoIndexed, \* those that auto-indexing enables
  NameIndex,  \* unique-node-metadata-equality-string on dbxml:name
  MaxDocs,    \* bound on the document ids generated
  None, NoTxn,
  Usages      \* how the container may be used: the operations of each thread,
              \* whether it is auto-indexed, whether XmlDocument objects are used
              \* in later transactions, and whether it has transactions

Kinds == {"put", "delete", "deleteByName", "update", "updateByName", "rename",
          "addIndex", "deleteIndex"}

ASSUME NamesAssumption ==
  /\ None \notin Names \cup Values \cup Strategies /\ None \notin Kinds
  /\ NoTxn \notin Txns
  /\ NameIndex \notin Strategies
  /\ Unique \subseteq Strategies /\ AutoIndexed \subseteq Strategies
ASSUME BoundAssumption == MaxDocs \in Nat \ {0}
ASSUME UsageAssumption ==
  /\ Usages \subseteq [ops : [Txns -> SUBSET Kinds], auto : BOOLEAN,
                       keep : BOOLEAN, transacted : BOOLEAN]
  /\ \A u \in Usages : \A s, t \in Txns :
       ~u.transacted /\ u.ops[s] # {} /\ u.ops[t] # {} => s = t

Ids == 1..MaxDocs
Keys == ({NameIndex} \X Names) \cup (Strategies \X Values)

SpecRow == <<"index">>
MetaRow(d) == <<"metadata", d>>
ContentRow(d) == <<"content", d>>
KeyRow(k) == <<"key", k[1], k[2]>>
MetaRows == {MetaRow(d) : d \in 0..MaxDocs}
ContentRows == {ContentRow(d) : d \in Ids}
KeyRows == {KeyRow(k) : k \in Keys}
Rows == {SpecRow} \cup MetaRows \cup ContentRows \cup KeyRows

VARIABLES
  usage,    \* how this container is used
  db,       \* the rows as they are
  disk,     \* the rows as last committed
  writer,   \* who has the write lock of each row
  readers,  \* who keeps a read lock of each metadata row
  sequence, \* the last document id generated
  pc, job,  \* where each thread is, and the operation it performs
  handle    \* its XmlDocument

vars == <<usage, db, disk, writer, readers, sequence, pc, job, handle>>

NoJob == [kind |-> None, id |-> 0, name |-> None, value |-> None, index |-> None,
          is |-> {}, new |-> {}, adds |-> {}, add |-> {}, del |-> {}, at |-> 0]
NoHandle == [id |-> 0, name |-> None]

Labels == {"idle", "found", "read", "add", "replace", "rename", "fetch", "init",
           "remove", "metadata", "keys", "set", "clear", "reindex", "write", "done",
           "failed"}
\* Where there is a document that the operation works on.
Working == {"found", "add", "replace", "rename", "fetch", "init", "remove",
            "metadata", "keys"}

Job == [kind : Kinds \cup {None}, id : 0..MaxDocs, name : Names \cup {None},
        value : Values \cup {None}, index : Strategies \cup {None},
        is : SUBSET Strategies, new : SUBSET Strategies, adds : SUBSET Strategies,
        add : SUBSET Keys, del : SUBSET Keys, at : 0..MaxDocs]

RowsOK(rows) ==
  /\ rows[SpecRow] \in SUBSET Strategies
  /\ \A d \in 0..MaxDocs : rows[MetaRow(d)] \in Names \cup {None}
  /\ \A d \in Ids : rows[ContentRow(d)] \in Values \cup {None}
  /\ \A k \in Keys : rows[KeyRow(k)] \in SUBSET Ids

\* What has not been committed is under a write lock.
Isolated == \A r \in Rows : writer[r] = NoTxn => db[r] = disk[r]

TypeOK ==
  /\ usage \in Usages
  /\ DOMAIN db = Rows /\ RowsOK(db) /\ DOMAIN disk = Rows /\ RowsOK(disk)
  /\ writer \in [Rows -> Txns \cup {NoTxn}] /\ Isolated
  /\ readers \in [MetaRows -> SUBSET Txns]
  /\ sequence \in 0..MaxDocs
  /\ pc \in [Txns -> Labels] /\ job \in [Txns -> Job]
  /\ handle \in [Txns -> {NoHandle} \cup [id : Ids, name : Names]]
  /\ \A t \in Txns : pc[t] \in Working => job[t].id \in Ids /\ job[t].name \in Names

\* What an index has under key k, of documents with these names and contents.
Indexes(is, name, value, k) ==
  {d \in Ids : IF k[1] = NameIndex THEN name[d] = k[2] ELSE k[1] \in is /\ value[d] = k[2]}

\* A container in good order.
Init ==
  /\ usage \in Usages
  /\ sequence \in 0..MaxDocs
  /\ \E is \in SUBSET Strategies,
        name \in [Ids -> Names \cup {None}], value \in [Ids -> Values \cup {None}] :
       /\ \A d \in Ids : (name[d] = None <=> value[d] = None) /\ (d > sequence => name[d] = None)
       /\ \A k \in Keys : k[1] \in Unique \cup {NameIndex} =>
                            Cardinality(Indexes(is, name, value, k)) <= 1
       /\ db = [r \in Rows |->
                  IF r = SpecRow THEN is
                  ELSE IF r[1] = "key" THEN Indexes(is, name, value, <<r[2], r[3]>>)
                  ELSE IF r = MetaRow(0) THEN None
                  ELSE IF r[1] = "metadata" THEN name[r[2]] ELSE value[r[2]]]
  /\ disk = db
  /\ writer = [r \in Rows |-> NoTxn] /\ readers = [r \in MetaRows |-> {}]
  /\ pc = [t \in Txns |-> "idle"] /\ job = [t \in Txns |-> NoJob]
  /\ handle = [t \in Txns |-> NoHandle]

-----------------------------------------------------------------------------
(* Berkeley DB *)

Free(t, r) == writer[r] \in {t, NoTxn}

\* A read with DB_READ_COMMITTED waits for a writer and keeps no lock.
CanRead(t, rows) == \A r \in rows : Free(t, r)

\* A read in the transaction, whose lock is kept.
Read(t, r) == CanRead(t, {r}) /\ readers' = [readers EXCEPT ![r] = @ \cup {t}]

\* A write lock on each of the rows, which only t may have read locks on.
Lock(t, rows) ==
  /\ \A r \in rows : Free(t, r) /\ (r \in MetaRows => readers[r] \subseteq {t})
  /\ writer' = [r \in Rows |-> IF r \in rows THEN t ELSE writer[r]]

\* Rows are locked and get the values of function new.
Write(t, new) ==
  /\ Lock(t, DOMAIN new)
  /\ db' = [r \in Rows |-> IF r \in DOMAIN new THEN new[r] ELSE db[r]]

Row(r, v) == [x \in {r} |-> v]

\* The XmlDocument has a change that has not been written: the name until the
\* metadata has been, the content until it has been indexed.  It is not kept, for
\* the next update made with it would write that too.
Unsaved(t) ==
  /\ job[t].kind \in {"update", "rename"}
  /\ \/ pc[t] \in {"replace", "rename"}
     \/ pc[t] = "metadata" /\ job[t].kind = "rename"
     \/ pc[t] = "failed" /\ job[t].add = {}

Release(t) ==
  /\ writer' = [r \in Rows |-> IF writer[r] = t THEN NoTxn ELSE writer[r]]
  /\ readers' = [r \in MetaRows |-> readers[r] \ {t}]
  /\ job' = [job EXCEPT ![t] = NoJob]
  /\ handle' = [handle EXCEPT ![t] = IF usage.keep /\ ~Unsaved(t) THEN @ ELSE NoHandle]

\* In a container without transactions this is just the end of the operation.
Commit(t) ==
  /\ pc[t] = "done" \/ (~usage.transacted /\ pc[t] \in {"read", "failed"})
  /\ disk' = [r \in Rows |-> IF writer[r] = t THEN db[r] ELSE disk[r]]
  /\ pc' = [pc EXCEPT ![t] = "idle"]
  /\ Release(t)
  /\ UNCHANGED <<db, sequence>>

\* What the guard of a failed operation does to the internal child or the
\* transaction the operation has run in; at other times the application's choice,
\* or that of the deadlock detector.
Abort(t) ==
  /\ usage.transacted /\ pc[t] # "idle"
  /\ db' = [r \in Rows |-> IF writer[r] = t THEN disk[r] ELSE db[r]]
  /\ pc' = [pc EXCEPT ![t] = "idle"]
  /\ Release(t)
  /\ UNCHANGED <<disk, sequence>>

Fail(t) == pc' = [pc EXCEPT ![t] = "failed"]
Goto(t, label) == pc' = [pc EXCEPT ![t] = label]
DbUnchanged == UNCHANGED <<db, disk, writer, readers>>

-----------------------------------------------------------------------------
(* Looking documents up *)

NameKey(n) == <<NameIndex, n>>
Entries(k) == db[KeyRow(k)]

\* The entry that a get finds.
First(k) == {d \in Entries(k) : \A e \in Entries(k) : d <= e}

\* Container::getDocumentID: the first entry under the name, read with
\* DB_READ_COMMITTED.
Lookup(t, n, found, label) ==
  /\ pc[t] = "idle" /\ CanRead(t, {KeyRow(NameKey(n))})
  /\ \/ /\ Entries(NameKey(n)) = {}
        /\ Fail(t) /\ UNCHANGED job
     \/ /\ \E d \in First(NameKey(n)) :
             job' = [job EXCEPT ![t] = [found EXCEPT !.id = d, !.name = n]]
        /\ Goto(t, label)

\* getDocument(name): then the metadata is read, under a read lock that is
\* kept, and the name set to the one that was asked for.
Get(t, n) ==
  /\ usage.ops[t] \cap {"delete", "update", "rename"} # {}
  /\ Lookup(t, n, NoJob, "found")
  /\ DbUnchanged /\ UNCHANGED <<sequence, handle>>

GetRead(t) ==
  LET r == MetaRow(job[t].id) IN
  /\ pc[t] = "found" /\ Read(t, r)
  /\ handle' = [handle EXCEPT ![t] = [id |-> job[t].id, name |-> job[t].name]]
  /\ job' = [job EXCEPT ![t] = NoJob]
  /\ Goto(t, "read")
  /\ UNCHANGED <<db, disk, writer, sequence>>

-----------------------------------------------------------------------------
(* putDocument *)

ContentKeys(is, v) == {<<s, v>> : s \in IF v = None THEN {} ELSE is}

\* UpdateContext::init reads the specification with DB_READ_COMMITTED.
\* An id is generated outside the transaction.
Put(t, n, v) ==
  /\ "put" \in usage.ops[t] /\ pc[t] = "idle"
  /\ CanRead(t, {SpecRow}) /\ sequence < MaxDocs
  /\ sequence' = sequence + 1
  /\ job' = [job EXCEPT ![t] =
               [NoJob EXCEPT !.kind = "put", !.name = n, !.value = v,
                             !.id = sequence + 1, !.is = db[SpecRow]]]
  /\ Goto(t, "add")
  /\ DbUnchanged /\ UNCHANGED handle

\* Indexer::checkUniqueConstraint, which keeps no lock.
UniqueKeys(keys) == {k \in keys : k[1] \in Unique \cup {NameIndex}}
\* Mutant: one entry of another document is not yet too many.
ViolatesTwice(d, keys) == \E k \in UniqueKeys(keys) : Cardinality(Entries(k) \ {d}) > 1

Violates(d, keys) == \E k \in UniqueKeys(keys) : First(k) \ {d} # {}

\* The specification is read once more, for auto-indexing to add to.
AutoSpec == IF usage.auto THEN db[SpecRow] \cup AutoIndexed ELSE {}
AutoReads == IF usage.auto THEN {SpecRow} ELSE {}

\* The content is parsed: its keys are put in the stash, and its nodes are
\* written as they come.
Add(t) ==
  LET j == job[t]
      keys == {NameKey(j.name)} \cup ContentKeys(j.is, j.value) IN
  /\ pc[t] = "add"
  /\ CanRead(t, {KeyRow(k) : k \in UniqueKeys(keys)} \cup AutoReads)
  /\ IF Violates(j.id, keys) THEN Fail(t) /\ UNCHANGED <<db, writer, job>>
     ELSE /\ Write(t, Row(ContentRow(j.id), j.value))
          /\ job' = [job EXCEPT ![t].add = keys, ![t].new = AutoSpec]
          /\ Goto(t, "metadata")
  /\ UNCHANGED <<disk, readers, sequence, handle>>

\* Mutant: the metadata is written without the transaction.
WriteMetaDataOutside(t) ==
  LET r == MetaRow(job[t].id) IN
  /\ pc[t] = "metadata"
  /\ CanRead(t, {r})
  /\ db' = [db EXCEPT ![r] = IF job[t].kind \in {"put", "rename"} THEN job[t].name
                            ELSE IF job[t].kind = "update" THEN @ ELSE None]
  /\ Goto(t, "keys")
  /\ UNCHANGED <<disk, writer, readers, sequence, job, handle>>

\* addMetaData and updateMetaData write what has been modified, under the id
\* that the XmlDocument has; removeMetaData removes everything.
WriteMetaData(t) ==
  LET j == job[t] IN
  /\ pc[t] = "metadata"
  /\ CASE j.kind \in {"put", "rename"} -> Write(t, Row(MetaRow(j.id), j.name))
       [] j.kind = "updateByName" -> Write(t, Row(MetaRow(0), j.name))
       [] j.kind = "update" -> UNCHANGED <<db, writer>>
       [] OTHER -> Write(t, Row(MetaRow(j.id), None))
  /\ Goto(t, "keys")
  /\ UNCHANGED <<disk, readers, sequence, job, handle>>

\* Mutant: keys that are both added and deleted are not cancelled.
StashedInOrder(d, add, del) ==
  [r \in {KeyRow(k) : k \in add \cup del} |->
     IF r \in {KeyRow(k) : k \in del} THEN db[r] \ {d} ELSE db[r] \cup {d}]

\* KeyStash::addEntry has cancelled the keys that are both added and deleted.
\* To delete an entry that is not there is no error, nor to add one that is.
Stashed(d, add, del) ==
  [r \in {KeyRow(k) : k \in (add \cup del) \ (add \cap del)} |->
     IF r \in {KeyRow(k) : k \in add} THEN db[r] \cup {d} ELSE db[r] \ {d}]

\* KeyStash::updateIndex.  An added and a deleted entry that are not of the same
\* node data do not cancel out but make an update, which deletes what there is and
\* puts the new one.  Entries under a name have no node data.  doAutoIndex then
\* subtracts the specification that the operation began with from what
\* auto-indexing wants.
UpdateIndex(t) ==
  LET j == job[t] IN
  /\ pc[t] = "keys"
  /\ \E updated \in SUBSET {k \in j.add \cap j.del : k[1] # NameIndex} :
       Write(t, Stashed(j.id, j.add, j.del \ updated))
  /\ Goto(t, IF j.new \subseteq j.is THEN "done" ELSE "reindex")
  /\ job' = [job EXCEPT ![t].adds = j.new \ j.is]
  /\ UNCHANGED <<disk, readers, sequence, handle>>

-----------------------------------------------------------------------------
(* updateDocument *)

HasHandle(t) == pc[t] \in {"idle", "read"} /\ handle[t].id # 0

\* The operation on an XmlDocument that was read from the container: an id
\* that is not 0 is trusted.
OnHandle(t, kind, n, v, label) ==
  /\ kind \in usage.ops[t] /\ HasHandle(t) /\ CanRead(t, {SpecRow})
  /\ job' = [job EXCEPT ![t] = [NoJob EXCEPT !.kind = kind, !.id = handle[t].id,
                                  !.name = n, !.value = v, !.is = db[SpecRow]]]
  /\ Goto(t, label)
  /\ DbUnchanged /\ UNCHANGED sequence

Update(t, v) ==
  OnHandle(t, "update", handle[t].name, v, "replace") /\ UNCHANGED handle

Rename(t, n) ==
  /\ OnHandle(t, "rename", n, None, "rename")
  /\ handle' = [handle EXCEPT ![t].name = n]

\* One that the application constructed, whose id is 0, is looked up.
UpdateByName(t, n, v) ==
  /\ "updateByName" \in usage.ops[t] /\ CanRead(t, {SpecRow})
  /\ Lookup(t, n, [NoJob EXCEPT !.kind = "updateByName", !.value = v, !.is = db[SpecRow]],
            "replace")
  /\ DbUnchanged /\ UNCHANGED <<sequence, handle>>

\* Mutant: the error of the new content is lost once the old nodes are deleted.
ReplaceSilently(t) ==
  LET j == job[t]
      content == IF Violates(j.id, ContentKeys(j.is, j.value)) THEN None ELSE j.value IN
  /\ pc[t] = "replace"
  /\ Write(t, [r \in {ContentRow(j.id)} |-> content])
  /\ job' = [job EXCEPT ![t].add = ContentKeys(j.is, content),
                       ![t].del = ContentKeys(j.is, db[ContentRow(j.id)])]
  /\ Goto(t, "metadata")
  /\ UNCHANGED <<disk, readers, sequence, handle>>

\* The old document is read, its nodes are deleted before the new content is
\* indexed, and an error then deletes the new ones.
Replace(t) ==
  LET j == job[t]
      metadata == IF j.kind = "updateByName" THEN {NameKey(j.name)} ELSE {}
      add == metadata \cup ContentKeys(j.is, j.value)
      del == metadata \cup ContentKeys(j.is, db[ContentRow(j.id)]) IN
  /\ pc[t] = "replace"
  /\ CanRead(t, {KeyRow(k) : k \in UniqueKeys(add)} \cup AutoReads)
  /\ Read(t, MetaRow(j.id))
  /\ IF Violates(j.id, add)
     THEN Write(t, Row(ContentRow(j.id), None)) /\ Fail(t) /\ UNCHANGED job
     ELSE /\ Write(t, Row(ContentRow(j.id), j.value))
          /\ job' = [job EXCEPT ![t].add = add, ![t].del = del, ![t].new = AutoSpec]
          /\ Goto(t, "metadata")
  /\ UNCHANGED <<disk, sequence, handle>>

\* Mutant: a name is not checked when it is changed.
ReplaceNameUnchecked(t) ==
  LET j == job[t] IN
  /\ pc[t] = "rename"
  /\ Read(t, MetaRow(j.id))
  /\ job' = [job EXCEPT ![t].add = {NameKey(j.name)}, ![t].del = {NameKey(db[MetaRow(j.id)])}]
  /\ Goto(t, "metadata")
  /\ UNCHANGED <<db, disk, writer, sequence, handle>>

ReplaceName(t) ==
  LET j == job[t]
      old == db[MetaRow(j.id)]
      add == {NameKey(j.name)} IN
  /\ pc[t] = "rename"
  /\ CanRead(t, {KeyRow(k) : k \in add})
  /\ Read(t, MetaRow(j.id))
  /\ IF Violates(j.id, add) THEN Fail(t) /\ UNCHANGED job
     ELSE /\ job' = [job EXCEPT ![t].add = add,
                       ![t].del = IF old = None THEN {} ELSE {NameKey(old)}]
          /\ Goto(t, "metadata")
  /\ UNCHANGED <<db, disk, writer, sequence, handle>>

-----------------------------------------------------------------------------
(* deleteDocument *)

Delete(t) ==
  OnHandle(t, "delete", handle[t].name, None, "remove") /\ UNCHANGED handle

\* By name, the document is first looked up and read: with DB_RMW, but
\* getAllMetaData passes that on to none of its reads.
DeleteByName(t, n) ==
  /\ "deleteByName" \in usage.ops[t]
  /\ Lookup(t, n, [NoJob EXCEPT !.kind = "deleteByName"], "fetch")
  /\ DbUnchanged /\ UNCHANGED <<sequence, handle>>

Fetch(t) ==
  /\ pc[t] = "fetch" /\ Read(t, MetaRow(job[t].id))
  /\ Goto(t, "init")
  /\ UNCHANGED <<db, disk, writer, sequence, job, handle>>

InitDelete(t) ==
  /\ pc[t] = "init" /\ CanRead(t, {SpecRow})
  /\ job' = [job EXCEPT ![t].is = db[SpecRow]]
  /\ Goto(t, "remove")
  /\ DbUnchanged /\ UNCHANGED <<sequence, handle>>

\* The keys are those of the name that the XmlDocument has and of the content
\* that is in the container, which may be none.
RemoveContentAndIndex(t) ==
  LET j == job[t]
      r == ContentRow(j.id) IN
  /\ pc[t] = "remove"
  /\ Write(t, Row(r, None))
  /\ job' = [job EXCEPT ![t].del = {NameKey(j.name)} \cup ContentKeys(j.is, db[r])]
  /\ Goto(t, "metadata")
  /\ UNCHANGED <<disk, readers, sequence, handle>>

-----------------------------------------------------------------------------
(* setIndexSpecification *)

\* XmlContainer::addIndex and deleteIndex read the specification with
\* DB_READ_COMMITTED, change it,
Change(t, kind, index, new) ==
  /\ kind \in usage.ops[t] /\ pc[t] = "idle" /\ CanRead(t, {SpecRow})
  /\ job' = [job EXCEPT ![t] = [NoJob EXCEPT !.kind = kind, !.index = index, !.new = new]]
  /\ Goto(t, "set")
  /\ DbUnchanged /\ UNCHANGED <<sequence, handle>>

AddIndex(t, s) == s \notin db[SpecRow] /\ Change(t, "addIndex", s, db[SpecRow] \cup {s})
DeleteIndex(t, s) == s \in db[SpecRow] /\ Change(t, "deleteIndex", s, db[SpecRow] \ {s})

\* and set it: the specification is read again, with DB_RMW, to find out what
\* is to be deleted and what is to be added.
SetIndexSpecification(t) ==
  LET old == db[SpecRow]
      new == job[t].new IN
  /\ pc[t] = "set"
  /\ Write(t, Row(SpecRow, old))
  /\ job' = [job EXCEPT ![t].is = old, ![t].adds = new \ old]
  /\ Goto(t, IF old \ new # {} THEN "clear"
             ELSE IF new \ old # {} THEN "reindex" ELSE "write")
  /\ UNCHANGED <<disk, readers, sequence, handle>>

RemoveIndexes(t) ==
  LET j == job[t] IN
  /\ pc[t] = "clear"
  /\ Write(t, [r \in {KeyRow(k) : k \in (j.is \ j.new) \X Values} |-> {}])
  /\ Goto(t, IF j.adds = {} THEN "write" ELSE "reindex")
  /\ UNCHANGED <<disk, readers, sequence, job, handle>>

\* Container::reindex: a cursor with DB_READ_COMMITTED over the metadata, and
\* the keys of each document it finds.
Reindex(t) ==
  LET j == job[t]
      d == j.at + 1
      keys == IF db[MetaRow(d)] = None THEN {}
              ELSE ContentKeys(j.adds, db[ContentRow(d)]) IN
  /\ pc[t] = "reindex" /\ d <= MaxDocs
  /\ CanRead(t, {MetaRow(d), ContentRow(d)} \cup {KeyRow(k) : k \in UniqueKeys(keys)})
  /\ IF Violates(d, keys) THEN Fail(t) /\ UNCHANGED <<db, writer, job>>
     ELSE /\ Write(t, Stashed(d, keys, {}))
          /\ job' = [job EXCEPT ![t].at = d]
          /\ UNCHANGED pc
  /\ UNCHANGED <<disk, readers, sequence, handle>>

\* Mutant: auto-indexing writes its specification after the subtraction.
PutIndexSpecificationLate(t) ==
  /\ pc[t] = "write" \/ (pc[t] = "reindex" /\ job[t].at = MaxDocs)
  /\ Write(t, Row(SpecRow, IF usage.auto /\ job[t].adds # {} THEN job[t].adds ELSE job[t].new))
  /\ Goto(t, "done")
  /\ UNCHANGED <<disk, readers, sequence, job, handle>>

\* The new specification, or that of auto-indexing, is written last.
PutIndexSpecification(t) ==
  /\ pc[t] = "write" \/ (pc[t] = "reindex" /\ job[t].at = MaxDocs)
  /\ Write(t, Row(SpecRow, job[t].new))
  /\ Goto(t, "done")
  /\ UNCHANGED <<disk, readers, sequence, job, handle>>

-----------------------------------------------------------------------------
Next ==
  /\ UNCHANGED usage
  /\ \E t \in Txns :
       \/ \E n \in Names :
            \/ Get(t, n) \/ Rename(t, n) \/ DeleteByName(t, n)
            \/ \E v \in Values : Put(t, n, v) \/ UpdateByName(t, n, v)
       \/ \E v \in Values : Update(t, v)
       \/ \E s \in Strategies : AddIndex(t, s) \/ DeleteIndex(t, s)
       \/ GetRead(t) \/ Delete(t) \/ Add(t) \/ WriteMetaData(t) \/ UpdateIndex(t)
       \/ Replace(t) \/ ReplaceName(t)
       \/ Fetch(t) \/ InitDelete(t) \/ RemoveContentAndIndex(t)
       \/ SetIndexSpecification(t) \/ RemoveIndexes(t) \/ Reindex(t)
       \/ PutIndexSpecification(t)
       \/ Commit(t) \/ Abort(t)

Spec == Init /\ [][Next]_vars

-----------------------------------------------------------------------------
(* Properties: of what is on disk, and so of what everyone may read *)

InContainer(d) == disk[MetaRow(d)] # None

\* The documents that an index should have under a key.
Indexed(k) ==
  Indexes(disk[SpecRow], [d \in Ids |-> disk[MetaRow(d)]],
          [d \in Ids |-> IF InContainer(d) THEN disk[ContentRow(d)] ELSE None], k)

\* "Index keys for disabled index strategies are removed and index keys for
\* enabled index strategies are added": the indexes have the entries that the
\* documents and the specification call for, and no others.
IndexExact == \A k \in Keys : disk[KeyRow(k)] = Indexed(k)

\* "The indexed value is unique in the container", names among them.
UniqueHeld == \A k \in UniqueKeys(Keys) : Cardinality(disk[KeyRow(k)]) <= 1

\* A document has its content and its metadata or, once deleted, neither; and
\* metadata is of a document that can be, unless one is updated by its name.
Whole ==
  /\ \A d \in Ids : InContainer(d) <=> disk[ContentRow(d)] # None
  /\ (\A t \in Txns : "updateByName" \notin usage.ops[t]) => ~InContainer(0)

\* The specification becomes what thread t asked for when it was `is'.
Asked(t, is) ==
  CASE job[t].kind = "addIndex" -> is \cup {job[t].index}
    [] job[t].kind = "deleteIndex" -> is \ {job[t].index}
    [] usage.auto /\ job[t].kind \in {"put", "update", "updateByName"} -> is \cup AutoIndexed
    [] OTHER -> is

\* The specification changes by what one thread asks for, and by no more: the
\* strategy it adds, the one it deletes, or those of auto-indexing.
SpecKept ==
  [][disk'[SpecRow] = disk[SpecRow] \/ \E t \in Txns :
       pc[t] = "done" /\ disk'[SpecRow] = Asked(t, disk[SpecRow])]_vars

\* What a lookup by name finds.
Find(n) == LET es == disk[KeyRow(NameKey(n))] IN
           IF es = {} THEN None ELSE disk[ContentRow(Min(es))]

Store == INSTANCE DocumentStore WITH docs <- [n \in Names |-> Find(n)]

\* Every transaction is one operation of the store, or none.
Refines == Store!Spec
=============================================================================
