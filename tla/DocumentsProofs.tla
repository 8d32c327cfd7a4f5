-------------------------- MODULE DocumentsProofs --------------------------
(***************************************************************************)
(* What holds of the documents of a container for every set of names,      *)
(* contents and index strategies, any number of threads and however the    *)
(* container is used.                                                      *)
(***************************************************************************)
EXTENDS Documents, FiniteSetTheorems, TLAPS

(* Rows of different kinds are different, and so are those of one kind. *)

LEMMA RowsDistinct ==
  /\ \A d : SpecRow # MetaRow(d) /\ SpecRow # ContentRow(d)
  /\ \A k : SpecRow # KeyRow(k)
  /\ \A d, e : MetaRow(d) # ContentRow(e)
  /\ \A d, k : MetaRow(d) # KeyRow(k) /\ ContentRow(d) # KeyRow(k)
  /\ \A d, e : (MetaRow(d) = MetaRow(e) => d = e) /\ (ContentRow(d) = ContentRow(e) => d = e)
  BY DEF SpecRow, MetaRow, ContentRow, KeyRow

LEMMA KeyRowsDistinct ==
  ASSUME NEW k \in Keys, NEW l \in Keys, KeyRow(k) = KeyRow(l)
  PROVE  k = l
  BY DEF Keys, KeyRow

\* What row r may hold.
Fits(r, v) ==
  /\ r = SpecRow => v \in SUBSET Strategies
  /\ \A d \in 0..MaxDocs : r = MetaRow(d) => v \in Names \cup {None}
  /\ \A d \in Ids : r = ContentRow(d) => v \in Values \cup {None}
  /\ \A k \in Keys : r = KeyRow(k) => v \in SUBSET Ids

LEMMA RowsFit ==
  ASSUME NEW f
  PROVE  RowsOK(f) <=> \A r \in Rows : Fits(r, f[r])
  BY RowsDistinct DEF RowsOK, Fits, Rows, MetaRows, ContentRows, KeyRows

LEMMA FitsRow ==
  /\ \A v : Fits(SpecRow, v) <=> v \in SUBSET Strategies
  /\ \A v : \A d \in 0..MaxDocs : Fits(MetaRow(d), v) <=> v \in Names \cup {None}
  /\ \A v : \A d \in Ids : Fits(ContentRow(d), v) <=> v \in Values \cup {None}
  /\ \A v : \A k \in Keys : Fits(KeyRow(k), v) <=> v \in SUBSET Ids
  BY RowsDistinct DEF Fits

LEMMA RowsAre ==
  /\ SpecRow \in Rows
  /\ \A d \in 0..MaxDocs : MetaRow(d) \in Rows /\ MetaRow(d) \in MetaRows
  /\ \A d \in Ids : ContentRow(d) \in Rows
  /\ \A k \in Keys : KeyRow(k) \in Rows
  BY DEF Rows, MetaRows, ContentRows, KeyRows

LEMMA IdsAre == Ids \subseteq 0..MaxDocs /\ 0 \in 0..MaxDocs /\ 0 \notin Ids
  BY BoundAssumption DEF Ids

-----------------------------------------------------------------------------
StoreOK ==
  /\ DOMAIN db = Rows /\ RowsOK(db) /\ DOMAIN disk = Rows /\ RowsOK(disk)
  /\ writer \in [Rows -> Txns \cup {NoTxn}] /\ Isolated

ThreadsOK ==
  /\ usage \in Usages
  /\ readers \in [MetaRows -> SUBSET Txns]
  /\ sequence \in 0..MaxDocs
  /\ pc \in [Txns -> Labels] /\ job \in [Txns -> Job]
  /\ handle \in [Txns -> {NoHandle} \cup [id : Ids, name : Names]]
  /\ \A t \in Txns : pc[t] \in Working => job[t].id \in Ids /\ job[t].name \in Names

LEMMA TypeParts == TypeOK <=> StoreOK /\ ThreadsOK
  BY DEF TypeOK, StoreOK, ThreadsOK

\* Values that fit, written under a lock, leave everything in order.
LEMMA WriteKeeps ==
  ASSUME StoreOK, NEW t \in Txns, NEW new, Write(t, new), disk' = disk,
         DOMAIN new \subseteq Rows, \A r \in DOMAIN new : Fits(r, new[r])
  PROVE  StoreOK'
<1>1. DOMAIN db' = Rows
  BY DEF Write
<1>2. RowsOK(db')
  BY RowsFit DEF Write, StoreOK
<1>3. writer' \in [Rows -> Txns \cup {NoTxn}]
  BY DEF Write, Lock, StoreOK
<1>4. Isolated'
  BY NamesAssumption DEF Write, Lock, Isolated, StoreOK
<1> QED BY <1>1, <1>2, <1>3, <1>4 DEF StoreOK

LEMMA RowKeeps ==
  ASSUME StoreOK, NEW t \in Txns, NEW r \in Rows, NEW v, Fits(r, v),
         Write(t, Row(r, v)), disk' = disk
  PROVE  StoreOK'
  BY WriteKeeps DEF Row

LEMMA UnchangedKeeps ==
  ASSUME StoreOK, UNCHANGED <<db, disk, writer>>
  PROVE  StoreOK'
  BY DEF StoreOK, RowsOK, Isolated

-----------------------------------------------------------------------------
LEMMA StashedFits ==
  ASSUME StoreOK, NEW d \in Ids, NEW add \in SUBSET Keys, NEW del \in SUBSET Keys
  PROVE  /\ DOMAIN Stashed(d, add, del) \subseteq Rows
         /\ \A r \in DOMAIN Stashed(d, add, del) : Fits(r, Stashed(d, add, del)[r])
<1>1. DOMAIN Stashed(d, add, del) = {KeyRow(k) : k \in (add \cup del) \ (add \cap del)}
  BY DEF Stashed
<1>2. ASSUME NEW k \in (add \cup del) \ (add \cap del)
      PROVE  KeyRow(k) \in Rows /\ Fits(KeyRow(k), Stashed(d, add, del)[KeyRow(k)])
  <2>1. KeyRow(k) \in Rows /\ db[KeyRow(k)] \in SUBSET Ids
    BY RowsAre DEF StoreOK, RowsOK
  <2>2. Stashed(d, add, del)[KeyRow(k)] \in SUBSET Ids
    BY <2>1 DEF Stashed
  <2> QED BY <2>1, <2>2, FitsRow
<1> QED BY <1>1, <1>2

LEMMA KeysAre ==
  /\ \A n \in Names : NameKey(n) \in Keys
  /\ \A is \in SUBSET Strategies, v \in Values \cup {None} : ContentKeys(is, v) \in SUBSET Keys
  BY DEF NameKey, ContentKeys, Keys

LEMMA FirstIsId ==
  ASSUME StoreOK, NEW n \in Names, NEW d \in First(NameKey(n))
  PROVE  d \in Ids
  BY KeysAre DEF StoreOK, RowsOK, First, Entries

-----------------------------------------------------------------------------
LEMMA InitTyped == Init => TypeOK
<1> SUFFICES ASSUME Init PROVE TypeOK
  OBVIOUS
<1> USE DEF Init
<1>1. NoJob \in Job
  BY IdsAre DEF NoJob, Job
<1>2. ThreadsOK
  BY <1>1, IdsAre DEF ThreadsOK, Labels, Working
<1>3. DOMAIN db = Rows /\ disk = db /\ writer \in [Rows -> Txns \cup {NoTxn}] /\ Isolated
  BY DEF Isolated
<1>4. RowsOK(db)
  <2>1. PICK is \in SUBSET Strategies,
             name \in [Ids -> Names \cup {None}], value \in [Ids -> Values \cup {None}] :
          db = [r \in Rows |->
                  IF r = SpecRow THEN is
                  ELSE IF r[1] = "key"
                    THEN Indexes(is, name, value, <<r[2], r[3]>>)
                  ELSE IF r = MetaRow(0) THEN None
                  ELSE IF r[1] = "metadata" THEN name[r[2]] ELSE value[r[2]]]
    OBVIOUS
  <2>2. db[SpecRow] \in SUBSET Strategies
    BY <2>1, RowsAre
  <2>3. ASSUME NEW d \in 0..MaxDocs PROVE db[MetaRow(d)] \in Names \cup {None}
    <3>1. CASE d = 0
      BY <2>1, <3>1, RowsAre, RowsDistinct DEF MetaRow
    <3>2. CASE d # 0
      <4>1. d \in Ids /\ MetaRow(d) # MetaRow(0)
        BY <3>2, RowsDistinct, BoundAssumption DEF Ids
      <4> QED BY <2>1, <4>1, RowsAre, RowsDistinct DEF MetaRow
    <3> QED BY <3>1, <3>2
  <2>4. ASSUME NEW d \in Ids PROVE db[ContentRow(d)] \in Values \cup {None}
    BY <2>1, RowsAre, RowsDistinct DEF ContentRow
  <2>5. ASSUME NEW k \in Keys PROVE db[KeyRow(k)] \in SUBSET Ids
    BY <2>1, RowsAre, RowsDistinct DEF KeyRow, Indexes
  <2> QED BY <2>2, <2>3, <2>4, <2>5 DEF RowsOK
<1> QED BY <1>2, <1>3, <1>4, TypeParts DEF StoreOK

-----------------------------------------------------------------------------
(* The steps *)

\* A transaction ends: what it wrote becomes committed, or what it was.
LEMMA EndTyped ==
  ASSUME StoreOK, ThreadsOK, NEW t \in Txns, UNCHANGED usage, Commit(t) \/ Abort(t)
  PROVE  StoreOK' /\ ThreadsOK'
<1>1. NoJob \in Job
  BY IdsAre DEF NoJob, Job
<1>2. ThreadsOK'
  <2>1. /\ job' = [job EXCEPT ![t] = NoJob] /\ pc' = [pc EXCEPT ![t] = "idle"]
        /\ readers' = [r \in MetaRows |-> readers[r] \ {t}]
        /\ handle' = [handle EXCEPT ![t] = IF usage.keep /\ ~Unsaved(t) THEN @ ELSE NoHandle]
        /\ UNCHANGED sequence
    BY DEF Commit, Abort, Release
  <2>2. /\ job' \in [Txns -> Job] /\ pc' \in [Txns -> Labels]
        /\ \A u \in Txns : pc'[u] \in Working => job'[u].id \in Ids /\ job'[u].name \in Names
    BY <1>1, <2>1 DEF ThreadsOK, Labels, Working
  <2>3. readers' \in [MetaRows -> SUBSET Txns]
    BY <2>1 DEF ThreadsOK
  <2>4. handle' \in [Txns -> {NoHandle} \cup [id : Ids, name : Names]]
    BY <1>1, <2>1 DEF ThreadsOK
  <2> QED BY <2>1, <2>2, <2>3, <2>4 DEF ThreadsOK
<1>3. writer' \in [Rows -> Txns \cup {NoTxn}]
  BY DEF StoreOK, Commit, Abort, Release
<1>4. /\ DOMAIN db' = Rows /\ \A r \in Rows : db'[r] \in {db[r], disk[r]}
      /\ DOMAIN disk' = Rows /\ \A r \in Rows : disk'[r] \in {db[r], disk[r]}
  BY DEF StoreOK, Commit, Abort
<1>5. RowsOK(db') /\ RowsOK(disk')
  BY <1>4, RowsFit DEF StoreOK
<1>6. Isolated'
  BY DEF StoreOK, Isolated, Commit, Abort, Release
<1> QED BY <1>2, <1>3, <1>4, <1>5, <1>6 DEF StoreOK

\* The thread goes on with job j at label l.
LEMMA ThreadKeeps ==
  ASSUME ThreadsOK, NEW t \in Txns, NEW l \in Labels, NEW j \in Job,
         l \in Working => j.id \in Ids /\ j.name \in Names,
         UNCHANGED <<usage, readers, sequence, handle>>,
         pc' = [pc EXCEPT ![t] = l], job' = [job EXCEPT ![t] = j]
  PROVE  ThreadsOK'
  BY DEF ThreadsOK

\* The same when it has read the metadata of document d.
LEMMA ReadKeeps ==
  ASSUME ThreadsOK, NEW t \in Txns, NEW d \in 0..MaxDocs, Read(t, MetaRow(d)),
         NEW l \in Labels, NEW j \in Job,
         l \in Working => j.id \in Ids /\ j.name \in Names,
         UNCHANGED <<usage, sequence, handle>>,
         pc' = [pc EXCEPT ![t] = l], job' = [job EXCEPT ![t] = j]
  PROVE  ThreadsOK'
<1>1. readers' \in [MetaRows -> SUBSET Txns]
  BY DEF ThreadsOK, Read
<1> QED BY <1>1 DEF ThreadsOK

LEMMA JobIs ==
  ASSUME ThreadsOK, NEW t \in Txns
  PROVE  /\ job[t] \in Job /\ job = [job EXCEPT ![t] = job[t]]
         /\ NoJob \in Job
         /\ \A f : [job EXCEPT ![t] = f][t] = f
  BY IdsAre DEF ThreadsOK, Job, NoJob

LEMMA HandleIs ==
  ASSUME ThreadsOK, NEW t \in Txns, handle[t].id # 0
  PROVE  handle[t] \in [id : Ids, name : Names]
  BY DEF ThreadsOK, NoHandle

LEMMA LookupTyped ==
  ASSUME StoreOK, ThreadsOK, NEW t \in Txns, NEW n \in Names, NEW found \in Job,
         NEW label \in Labels, Lookup(t, n, found, label),
         UNCHANGED <<usage, readers, sequence, handle>>
  PROVE  ThreadsOK'
<1>1. CASE Fail(t) /\ UNCHANGED job
  <2>1. "failed" \in Labels /\ "failed" \notin Working
    BY DEF Labels, Working
  <2> QED BY <1>1, <2>1, ThreadKeeps, JobIs DEF Fail
<1>2. ASSUME NEW d \in First(NameKey(n)), Goto(t, label),
             job' = [job EXCEPT ![t] = [found EXCEPT !.id = d, !.name = n]]
      PROVE  ThreadsOK'
  <2> DEFINE j == [found EXCEPT !.id = d, !.name = n]
  <2>1. d \in Ids /\ d \in 0..MaxDocs
    BY FirstIsId, IdsAre
  <2>2. j \in Job /\ j.id = d /\ j.name = n
    BY <2>1 DEF Job
  <2> QED BY <1>2, <2>1, <2>2, ThreadKeeps DEF Goto
<1> QED BY <1>1, <1>2 DEF Lookup

LEMMA HandleTyped ==
  ASSUME StoreOK, ThreadsOK, NEW t \in Txns, NEW kind \in Kinds,
         NEW n \in Names, NEW v \in Values \cup {None}, NEW label \in Labels,
         OnHandle(t, kind, n, v, label), UNCHANGED <<usage, handle>>
  PROVE  ThreadsOK'
<1> DEFINE j == [NoJob EXCEPT !.kind = kind, !.id = handle[t].id, !.name = n,
                              !.value = v, !.is = db[SpecRow]]
<1>1. handle[t].id \in Ids /\ handle[t].id \in 0..MaxDocs
  BY HandleIs, IdsAre DEF OnHandle, HasHandle
<1>2. db[SpecRow] \in SUBSET Strategies
  BY DEF StoreOK, RowsOK
<1>3. j \in Job /\ j.id = handle[t].id /\ j.name = n
  BY <1>1, <1>2, JobIs DEF Job
<1> QED BY <1>1, <1>3, ThreadKeeps DEF OnHandle, Goto, DbUnchanged

LEMMA StartTyped ==
  ASSUME StoreOK, ThreadsOK, NEW t \in Txns, UNCHANGED usage,
         \/ \E n \in Names : Get(t, n) \/ Rename(t, n) \/ DeleteByName(t, n)
         \/ \E n \in Names, v \in Values : Put(t, n, v) \/ UpdateByName(t, n, v)
         \/ \E v \in Values : Update(t, v)
         \/ \E s \in Strategies : AddIndex(t, s) \/ DeleteIndex(t, s)
         \/ Delete(t)
  PROVE  StoreOK' /\ ThreadsOK'
<1>s. db[SpecRow] \in SUBSET Strategies
  BY DEF StoreOK, RowsOK
<1>l. {"found", "read", "add", "replace", "rename", "fetch", "remove", "set"} \subseteq Labels
  BY DEF Labels
<1>n. ASSUME HasHandle(t)
      PROVE  handle[t].id \in Ids /\ handle[t].id \in 0..MaxDocs /\ handle[t].name \in Names
  BY <1>n, HandleIs, IdsAre DEF HasHandle
<1>1. ASSUME NEW n \in Names, Get(t, n) PROVE StoreOK' /\ ThreadsOK'
  <2>1. StoreOK'
    BY <1>1, UnchangedKeeps DEF Get, DbUnchanged
  <2>2. ThreadsOK'
    BY <1>1, <1>l, JobIs, LookupTyped DEF Get, DbUnchanged
  <2> QED BY <2>1, <2>2
<1>2. ASSUME NEW n \in Names, Rename(t, n) PROVE StoreOK' /\ ThreadsOK'
  <2>1. StoreOK'
    BY <1>2, UnchangedKeeps DEF Rename, OnHandle, DbUnchanged
  <2> DEFINE j == [NoJob EXCEPT !.kind = "rename", !.id = handle[t].id, !.name = n,
                                !.value = None, !.is = db[SpecRow]]
  <2>2. handle[t].id \in Ids /\ handle[t].id \in 0..MaxDocs
    BY <1>2, <1>n DEF Rename, OnHandle
  <2>3. j \in Job /\ j.id = handle[t].id /\ j.name = n
    BY <2>2, <1>s, JobIs DEF Job, Kinds
  <2>4. /\ job' = [job EXCEPT ![t] = j] /\ pc' = [pc EXCEPT ![t] = "rename"]
        /\ handle' = [handle EXCEPT ![t].name = n] /\ UNCHANGED <<readers, sequence>>
    BY <1>2 DEF Rename, OnHandle, Goto, DbUnchanged
  <2>5. handle' \in [Txns -> {NoHandle} \cup [id : Ids, name : Names]]
    <3>1. handle[t] \in [id : Ids, name : Names]
      BY <1>2, HandleIs DEF Rename, OnHandle, HasHandle
    <3>2. [handle[t] EXCEPT !.name = n] \in [id : Ids, name : Names]
      BY <3>1
    <3>3. handle \in [Txns -> {NoHandle} \cup [id : Ids, name : Names]]
      BY DEF ThreadsOK
    <3> QED BY <2>4, <3>2, <3>3
  <2>6. /\ job' \in [Txns -> Job] /\ pc' \in [Txns -> Labels]
        /\ \A u \in Txns : pc'[u] \in Working => job'[u].id \in Ids /\ job'[u].name \in Names
    <3>1. job' \in [Txns -> Job] /\ pc' \in [Txns -> Labels]
      BY <2>3, <2>4, <1>l DEF ThreadsOK
    <3>2. ASSUME NEW u \in Txns, pc'[u] \in Working
          PROVE  job'[u].id \in Ids /\ job'[u].name \in Names
      BY <2>2, <2>3, <2>4, <3>2 DEF ThreadsOK
    <3> QED BY <3>1, <3>2
  <2> QED BY <2>1, <2>4, <2>5, <2>6 DEF ThreadsOK
<1>3. ASSUME NEW n \in Names, DeleteByName(t, n) PROVE StoreOK' /\ ThreadsOK'
  <2>1. StoreOK'
    BY <1>3, UnchangedKeeps DEF DeleteByName, DbUnchanged
  <2> DEFINE found == [NoJob EXCEPT !.kind = "deleteByName"]
  <2>2. found \in Job
    BY JobIs DEF Job, Kinds
  <2>3. Lookup(t, n, found, "fetch") /\ UNCHANGED <<readers, sequence, handle>>
    BY <1>3 DEF DeleteByName, DbUnchanged
  <2> HIDE DEF found
  <2> QED BY <2>1, <2>2, <2>3, <1>l, LookupTyped
<1>4. ASSUME NEW n \in Names, NEW v \in Values, Put(t, n, v) PROVE StoreOK' /\ ThreadsOK'
  <2>1. StoreOK'
    BY <1>4, UnchangedKeeps DEF Put, DbUnchanged
  <2> DEFINE j == [NoJob EXCEPT !.kind = "put", !.name = n, !.value = v,
                                !.id = sequence + 1, !.is = db[SpecRow]]
  <2>2. sequence + 1 \in Ids /\ sequence + 1 \in 0..MaxDocs
    <3>1. sequence < MaxDocs
      BY <1>4 DEF Put
    <3>2. sequence \in 0..MaxDocs
      BY DEF ThreadsOK
    <3> QED BY <3>1, <3>2, BoundAssumption DEF Ids
  <2>3. j \in Job /\ j.id = sequence + 1 /\ j.name = n
    BY <2>2, <1>s, JobIs DEF Job, Kinds
  <2>4. /\ job' = [job EXCEPT ![t] = j] /\ pc' = [pc EXCEPT ![t] = "add"]
        /\ sequence' = sequence + 1 /\ UNCHANGED <<readers, handle>>
    BY <1>4 DEF Put, Goto, DbUnchanged
  <2>5. /\ job' \in [Txns -> Job] /\ pc' \in [Txns -> Labels]
        /\ \A u \in Txns : pc'[u] \in Working => job'[u].id \in Ids /\ job'[u].name \in Names
    BY <2>2, <2>3, <2>4, <1>l DEF ThreadsOK
  <2> QED BY <2>1, <2>2, <2>4, <2>5 DEF ThreadsOK
<1>5. ASSUME NEW n \in Names, NEW v \in Values, UpdateByName(t, n, v)
      PROVE  StoreOK' /\ ThreadsOK'
  <2>1. StoreOK'
    BY <1>5, UnchangedKeeps DEF UpdateByName, DbUnchanged
  <2> DEFINE found == [NoJob EXCEPT !.kind = "updateByName", !.value = v, !.is = db[SpecRow]]
  <2>2. found \in Job
    BY JobIs, <1>s DEF Job, Kinds
  <2>3. Lookup(t, n, found, "replace") /\ UNCHANGED <<readers, sequence, handle>>
    BY <1>5 DEF UpdateByName, DbUnchanged
  <2> HIDE DEF found
  <2> QED BY <2>1, <2>2, <2>3, <1>l, LookupTyped
<1>6. ASSUME NEW v \in Values, Update(t, v) PROVE StoreOK' /\ ThreadsOK'
  <2>1. StoreOK'
    BY <1>6, UnchangedKeeps DEF Update, OnHandle, DbUnchanged
  <2>2. "update" \in Kinds /\ v \in Values \cup {None}
    BY DEF Kinds
  <2>3. OnHandle(t, "update", handle[t].name, v, "replace") /\ UNCHANGED handle
    BY <1>6 DEF Update
  <2>4. handle[t].name \in Names
    BY <2>3, <1>n DEF OnHandle
  <2> QED BY <2>1, <2>2, <2>3, <2>4, <1>l, HandleTyped
<1>7. ASSUME NEW s \in Strategies, AddIndex(t, s) \/ DeleteIndex(t, s)
      PROVE  StoreOK' /\ ThreadsOK'
  <2>1. PICK kind \in Kinds, new \in SUBSET Strategies : Change(t, kind, s, new)
    BY <1>7, <1>s DEF AddIndex, DeleteIndex, Kinds
  <2>2. StoreOK'
    BY <2>1, UnchangedKeeps DEF Change, DbUnchanged
  <2> DEFINE j == [NoJob EXCEPT !.kind = kind, !.index = s, !.new = new]
  <2>3. j \in Job /\ "set" \notin Working
    BY JobIs DEF Job, Working
  <2> QED BY <2>1, <2>2, <2>3, <1>l, ThreadKeeps DEF Change, Goto, DbUnchanged
<1>8. ASSUME Delete(t) PROVE StoreOK' /\ ThreadsOK'
  <2>1. StoreOK'
    BY <1>8, UnchangedKeeps DEF Delete, OnHandle, DbUnchanged
  <2>2. "delete" \in Kinds
    BY DEF Kinds
  <2>3. OnHandle(t, "delete", handle[t].name, None, "remove") /\ UNCHANGED handle
    BY <1>8 DEF Delete
  <2>4. handle[t].name \in Names
    BY <2>3, <1>n DEF OnHandle
  <2> QED BY <2>1, <2>2, <2>3, <2>4, <1>l, HandleTyped
<1> QED BY <1>1, <1>2, <1>3, <1>4, <1>5, <1>6, <1>7, <1>8

LEMMA AutoSpecTyped == StoreOK => AutoSpec \in SUBSET Strategies
  BY NamesAssumption DEF StoreOK, RowsOK, AutoSpec

LEMMA WorkTyped ==
  ASSUME StoreOK, ThreadsOK, NEW t \in Txns, UNCHANGED usage,
         \/ Add(t) \/ WriteMetaData(t) \/ UpdateIndex(t) \/ RemoveContentAndIndex(t)
         \/ Fetch(t) \/ InitDelete(t) \/ GetRead(t)
  PROVE  StoreOK' /\ ThreadsOK'
<1> DEFINE J == job[t]
<1>j. /\ J \in Job /\ J.id \in 0..MaxDocs /\ J.name \in Names \cup {None}
      /\ J.value \in Values \cup {None} /\ J.is \in SUBSET Strategies
      /\ J.new \in SUBSET Strategies /\ J.add \in SUBSET Keys /\ J.del \in SUBSET Keys
  BY DEF ThreadsOK, Job
<1>w. pc[t] \in Working => J.id \in Ids /\ J.name \in Names
  BY DEF ThreadsOK
<1>s. db[SpecRow] \in SUBSET Strategies
  BY DEF StoreOK, RowsOK
<1>l. /\ {"read", "init", "remove", "metadata", "keys", "reindex", "done", "failed"} \subseteq Labels
      /\ {"found", "add", "fetch", "init", "remove", "metadata", "keys"} \subseteq Working
      /\ "failed" \notin Working /\ "read" \notin Working
      /\ "reindex" \notin Working /\ "done" \notin Working
  BY DEF Labels, Working
<1> HIDE DEF J
<1>1. ASSUME WriteMetaData(t) PROVE StoreOK' /\ ThreadsOK'
  <2>1. /\ pc[t] = "metadata" /\ pc' = [pc EXCEPT ![t] = "keys"]
        /\ UNCHANGED <<disk, readers, sequence, job, handle>>
    BY <1>1 DEF WriteMetaData, Goto
  <2>2. ThreadsOK'
    <3>1. J.id \in Ids /\ J.name \in Names /\ job' = [job EXCEPT ![t] = J]
      BY <2>1, <1>w, <1>l, JobIs DEF J
    <3> QED BY <2>1, <3>1, <1>j, <1>l, ThreadKeeps
  <2>3. \/ J.kind \in {"put", "rename"} /\ Write(t, Row(MetaRow(J.id), J.name))
        \/ Write(t, Row(MetaRow(0), J.name))
        \/ UNCHANGED <<db, writer>>
        \/ Write(t, Row(MetaRow(J.id), None))
    BY <1>1 DEF WriteMetaData, J
  <2>4. StoreOK'
    BY <2>1, <2>3, <1>j, IdsAre, RowKeeps, UnchangedKeeps, RowsAre, FitsRow
  <2> QED BY <2>2, <2>4
<1>2. ASSUME UpdateIndex(t) PROVE StoreOK' /\ ThreadsOK'
  <2>1. PICK updated : pc[t] = "keys" /\ Write(t, Stashed(J.id, J.add, J.del \ updated)) /\ disk' = disk
    BY <1>2 DEF UpdateIndex, J
  <2>2. StoreOK'
    BY <2>1, <1>j, <1>w, <1>l, StashedFits, WriteKeeps
  <2>3. PICK l \in {"done", "reindex"} : pc' = [pc EXCEPT ![t] = l]
    BY <1>2 DEF UpdateIndex, Goto
  <2> DEFINE j == [job[t] EXCEPT !.adds = J.new \ J.is]
  <2>4. job' = [job EXCEPT ![t] = j] /\ UNCHANGED <<readers, sequence, handle>>
    BY <1>2 DEF UpdateIndex, J
  <2>5. j \in Job
    BY <1>j DEF Job, J
  <2> HIDE DEF j
  <2> QED BY <2>2, <2>3, <2>4, <2>5, <1>l, ThreadKeeps
<1>3. ASSUME Fetch(t) PROVE StoreOK' /\ ThreadsOK'
  <2>1. /\ pc[t] = "fetch" /\ Read(t, MetaRow(J.id)) /\ pc' = [pc EXCEPT ![t] = "init"]
        /\ UNCHANGED <<db, disk, writer, sequence, job, handle>>
    BY <1>3 DEF Fetch, Goto, J
  <2>2. J.id \in Ids /\ J.name \in Names /\ job' = [job EXCEPT ![t] = J]
    BY <2>1, <1>w, <1>l, JobIs DEF J
  <2>3. ThreadsOK'
    BY <2>1, <2>2, <1>j, <1>l, ReadKeeps
  <2> QED BY <2>1, <2>3, UnchangedKeeps
<1>4. ASSUME InitDelete(t) PROVE StoreOK' /\ ThreadsOK'
  <2> DEFINE j == [job[t] EXCEPT !.is = db[SpecRow]]
  <2>1. /\ pc[t] = "init" /\ pc' = [pc EXCEPT ![t] = "remove"] /\ job' = [job EXCEPT ![t] = j]
        /\ UNCHANGED <<db, disk, writer, readers, sequence, handle>>
    BY <1>4 DEF InitDelete, Goto, DbUnchanged
  <2>2. j \in Job /\ j.id = J.id /\ j.name = J.name
    BY <1>j, <1>s DEF Job, J
  <2> HIDE DEF j
  <2> QED BY <2>1, <2>2, <1>w, <1>l, ThreadKeeps, UnchangedKeeps
<1>5. ASSUME RemoveContentAndIndex(t) PROVE StoreOK' /\ ThreadsOK'
  <2> DEFINE del == {NameKey(J.name)} \cup ContentKeys(J.is, db[ContentRow(J.id)])
             j == [job[t] EXCEPT !.del = del]
  <2>1. /\ pc[t] = "remove" /\ pc' = [pc EXCEPT ![t] = "metadata"] /\ job' = [job EXCEPT ![t] = j]
        /\ Write(t, Row(ContentRow(J.id), None))
        /\ UNCHANGED <<disk, readers, sequence, handle>>
    BY <1>5 DEF RemoveContentAndIndex, Goto, J
  <2>2. J.id \in Ids /\ J.name \in Names
    BY <2>1, <1>w, <1>l
  <2>3. StoreOK'
    BY <2>1, <2>2, RowKeeps, RowsAre, FitsRow
  <2>4. del \in SUBSET Keys
    BY <2>2, <1>j, KeysAre DEF StoreOK, RowsOK
  <2> HIDE DEF del
  <2>5. j \in Job /\ j.id = J.id /\ j.name = J.name
    BY <1>j, <2>4 DEF Job, J
  <2> HIDE DEF j
  <2> QED BY <2>1, <2>2, <2>3, <2>5, <1>l, ThreadKeeps
<1>6. ASSUME GetRead(t) PROVE StoreOK' /\ ThreadsOK'
  <2>1. /\ pc[t] = "found" /\ pc' = [pc EXCEPT ![t] = "read"] /\ job' = [job EXCEPT ![t] = NoJob]
        /\ readers' = [readers EXCEPT ![MetaRow(J.id)] = @ \cup {t}]
        /\ handle' = [handle EXCEPT ![t] = [id |-> J.id, name |-> J.name]]
        /\ UNCHANGED <<db, disk, writer, sequence>>
    BY <1>6 DEF GetRead, Read, Goto, J
  <2>2. readers' \in [MetaRows -> SUBSET Txns]
    BY <2>1 DEF ThreadsOK
  <2>3. handle' \in [Txns -> {NoHandle} \cup [id : Ids, name : Names]]
    BY <2>1, <1>w, <1>l DEF ThreadsOK
  <2>4. /\ job' \in [Txns -> Job] /\ pc' \in [Txns -> Labels]
        /\ \A u \in Txns : pc'[u] \in Working => job'[u].id \in Ids /\ job'[u].name \in Names
    BY <2>1, <1>l, JobIs DEF ThreadsOK
  <2> QED BY <2>1, <2>2, <2>3, <2>4, UnchangedKeeps DEF ThreadsOK
<1>7. ASSUME Add(t) PROVE StoreOK' /\ ThreadsOK'
  <2> DEFINE keys == {NameKey(J.name)} \cup ContentKeys(J.is, J.value)
             j == [job[t] EXCEPT !.add = keys, !.new = AutoSpec]
  <2>1. pc[t] = "add" /\ UNCHANGED <<disk, readers, sequence, handle>>
    BY <1>7 DEF Add
  <2>2. \/ pc' = [pc EXCEPT ![t] = "failed"] /\ UNCHANGED <<db, writer, job>>
        \/ /\ Write(t, Row(ContentRow(J.id), J.value))
           /\ job' = [job EXCEPT ![t] = j] /\ pc' = [pc EXCEPT ![t] = "metadata"]
    BY <1>7 DEF Add, Goto, Fail, J
  <2>3. J.id \in Ids /\ J.name \in Names
    BY <2>1, <1>w, <1>l
  <2>4. keys \in SUBSET Keys
    BY <2>3, <1>j, KeysAre
  <2> HIDE DEF keys
  <2>5. j \in Job /\ j.id = J.id /\ j.name = J.name
    BY <1>j, <2>4, AutoSpecTyped DEF Job, J
  <2> HIDE DEF j
  <2>6. StoreOK'
    BY <2>1, <2>2, <2>3, <1>j, RowKeeps, UnchangedKeeps, RowsAre, FitsRow
  <2>7. ThreadsOK'
    BY <2>1, <2>2, <2>3, <2>5, <1>j, <1>l, JobIs, ThreadKeeps
  <2> QED BY <2>6, <2>7
<1> QED BY <1>1, <1>2, <1>3, <1>4, <1>5, <1>6, <1>7

LEMMA ReplaceTyped ==
  ASSUME StoreOK, ThreadsOK, NEW t \in Txns, UNCHANGED usage, Replace(t) \/ ReplaceName(t)
  PROVE  StoreOK' /\ ThreadsOK'
<1> DEFINE J == job[t]
<1>j. /\ J \in Job /\ J.value \in Values \cup {None} /\ J.is \in SUBSET Strategies
  BY DEF ThreadsOK, Job
<1>w. J.id \in Ids /\ J.id \in 0..MaxDocs /\ J.name \in Names
  BY IdsAre DEF ThreadsOK, Replace, ReplaceName, Working
<1>d. db[MetaRow(J.id)] \in Names \cup {None} /\ db[ContentRow(J.id)] \in Values \cup {None}
  BY <1>w DEF StoreOK, RowsOK
<1>l. {"metadata", "failed"} \subseteq Labels /\ "failed" \notin Working
  BY DEF Labels, Working
<1> HIDE DEF J
<1>1. ASSUME Replace(t) PROVE StoreOK' /\ ThreadsOK'
  <2> DEFINE metadata == IF J.kind = "updateByName" THEN {NameKey(J.name)} ELSE {}
             add == metadata \cup ContentKeys(J.is, J.value)
             del == metadata \cup ContentKeys(J.is, db[ContentRow(J.id)])
             j == [job[t] EXCEPT !.add = add, !.del = del, !.new = AutoSpec]
  <2>1. Read(t, MetaRow(J.id)) /\ UNCHANGED <<disk, sequence, handle>>
    BY <1>1 DEF Replace, J
  <2>2. \/ /\ Write(t, Row(ContentRow(J.id), None)) /\ pc' = [pc EXCEPT ![t] = "failed"]
           /\ UNCHANGED job
        \/ /\ Write(t, Row(ContentRow(J.id), J.value)) /\ pc' = [pc EXCEPT ![t] = "metadata"]
           /\ job' = [job EXCEPT ![t] = j]
    BY <1>1 DEF Replace, Goto, Fail, J
  <2>3. ASSUME NEW v \in Values \cup {None}, Write(t, Row(ContentRow(J.id), v))
        PROVE  StoreOK'
    BY <2>1, <2>3, <1>w, RowsAre, FitsRow, RowKeeps
  <2>4. add \in SUBSET Keys /\ del \in SUBSET Keys
    BY <1>w, <1>d, <1>j, KeysAre
  <2> HIDE DEF add, del
  <2>5. j \in Job /\ j.id = J.id /\ j.name = J.name
    BY <1>j, <2>4, AutoSpecTyped DEF Job, J
  <2> HIDE DEF j
  <2>6. StoreOK'
    BY <2>2, <2>3, <1>j
  <2>7. ThreadsOK'
    BY <2>1, <2>2, <2>5, <1>w, <1>j, <1>l, JobIs, ReadKeeps
  <2> QED BY <2>6, <2>7
<1>2. ASSUME ReplaceName(t) PROVE StoreOK' /\ ThreadsOK'
  <2> DEFINE old == db[MetaRow(J.id)]
             add == {NameKey(J.name)}
             del == IF old = None THEN {} ELSE {NameKey(old)}
             j == [job[t] EXCEPT !.add = add, !.del = del]
  <2>1. Read(t, MetaRow(J.id)) /\ UNCHANGED <<db, disk, writer, sequence, handle>>
    BY <1>2 DEF ReplaceName, J
  <2>2. \/ pc' = [pc EXCEPT ![t] = "failed"] /\ UNCHANGED job
        \/ pc' = [pc EXCEPT ![t] = "metadata"] /\ job' = [job EXCEPT ![t] = j]
    BY <1>2 DEF ReplaceName, Goto, Fail, J
  <2>3. add \in SUBSET Keys /\ del \in SUBSET Keys
    BY <1>w, <1>d, KeysAre
  <2> HIDE DEF add, del
  <2>4. j \in Job /\ j.id = J.id /\ j.name = J.name
    BY <1>j, <2>3 DEF Job, J
  <2> HIDE DEF j
  <2>5. StoreOK'
    BY <2>1, UnchangedKeeps
  <2>6. ThreadsOK'
    BY <2>1, <2>2, <2>4, <1>w, <1>j, <1>l, JobIs, ReadKeeps
  <2> QED BY <2>5, <2>6
<1> QED BY <1>1, <1>2

LEMMA SpecificationTyped ==
  ASSUME StoreOK, ThreadsOK, NEW t \in Txns, UNCHANGED usage,
         \/ SetIndexSpecification(t) \/ RemoveIndexes(t) \/ Reindex(t) \/ PutIndexSpecification(t)
  PROVE  StoreOK' /\ ThreadsOK'
<1> DEFINE J == job[t]
<1>j. /\ J \in Job /\ J.at \in 0..MaxDocs /\ J.is \in SUBSET Strategies
      /\ J.new \in SUBSET Strategies /\ J.adds \in SUBSET Strategies
  BY DEF ThreadsOK, Job
<1>s. db[SpecRow] \in SUBSET Strategies
  BY DEF StoreOK, RowsOK
<1>l. /\ {"clear", "reindex", "write", "done", "failed"} \subseteq Labels
      /\ {"clear", "reindex", "write", "done", "failed"} \cap Working = {}
  BY DEF Labels, Working
<1> HIDE DEF J
<1>1. ASSUME SetIndexSpecification(t) PROVE StoreOK' /\ ThreadsOK'
  <2> DEFINE j == [job[t] EXCEPT !.is = db[SpecRow], !.adds = J.new \ db[SpecRow]]
  <2>1. /\ Write(t, Row(SpecRow, db[SpecRow])) /\ job' = [job EXCEPT ![t] = j]
        /\ UNCHANGED <<disk, readers, sequence, handle>>
    BY <1>1 DEF SetIndexSpecification, J
  <2>2. PICK l \in {"clear", "reindex", "write"} : pc' = [pc EXCEPT ![t] = l]
    BY <1>1 DEF SetIndexSpecification, Goto
  <2>3. j \in Job
    BY <1>j, <1>s DEF Job, J
  <2> HIDE DEF j
  <2>4. StoreOK'
    BY <2>1, <1>s, RowKeeps, RowsAre, FitsRow
  <2>5. ThreadsOK'
    BY <2>1, <2>2, <2>3, <1>l, ThreadKeeps
  <2> QED BY <2>4, <2>5
<1>2. ASSUME RemoveIndexes(t) PROVE StoreOK' /\ ThreadsOK'
  <2> DEFINE new == [r \in {KeyRow(k) : k \in (J.is \ J.new) \X Values} |-> {}]
  <2>1. Write(t, new) /\ UNCHANGED <<disk, readers, sequence, job, handle>>
    BY <1>2 DEF RemoveIndexes, J
  <2>2. PICK l \in {"write", "reindex"} : pc' = [pc EXCEPT ![t] = l]
    BY <1>2 DEF RemoveIndexes, Goto
  <2>3. (J.is \ J.new) \X Values \subseteq Keys
    BY <1>j DEF Keys
  <2>4. DOMAIN new \subseteq Rows /\ \A r \in DOMAIN new : Fits(r, new[r])
    BY <2>3, RowsAre, FitsRow
  <2> HIDE DEF new
  <2>5. StoreOK'
    BY <2>1, <2>4, WriteKeeps
  <2>6. ThreadsOK'
    <3>1. l \in Labels /\ l \notin Working
      BY <1>l
    <3>2. job' = [job EXCEPT ![t] = J]
      BY <2>1, JobIs DEF J
    <3> QED BY <2>1, <2>2, <3>1, <3>2, <1>j, ThreadKeeps
  <2> QED BY <2>5, <2>6
<1>3. ASSUME Reindex(t) PROVE StoreOK' /\ ThreadsOK'
  <2> DEFINE d == J.at + 1
             keys == IF db[MetaRow(d)] = None THEN {}
                     ELSE ContentKeys(J.adds, db[ContentRow(d)])
             j == [job[t] EXCEPT !.at = d]
  <2>1. d <= MaxDocs /\ UNCHANGED <<disk, readers, sequence, handle>>
    BY <1>3 DEF Reindex, J
  <2>2. \/ pc' = [pc EXCEPT ![t] = "failed"] /\ UNCHANGED <<db, writer, job>>
        \/ Write(t, Stashed(d, keys, {})) /\ job' = [job EXCEPT ![t] = j] /\ UNCHANGED pc
    BY <1>3 DEF Reindex, Fail, J
  <2>3. d \in Ids /\ d \in 0..MaxDocs
    BY <2>1, <1>j, BoundAssumption DEF Ids
  <2> HIDE DEF d
  <2>4. keys \in SUBSET Keys
    BY <2>3, <1>j, KeysAre DEF StoreOK, RowsOK
  <2> HIDE DEF keys
  <2>5. j \in Job
    BY <2>3, <1>j DEF Job, J
  <2>6. pc[t] \in Labels /\ pc[t] \notin Working /\ pc = [pc EXCEPT ![t] = pc[t]]
    BY <1>3, <1>l DEF Reindex, ThreadsOK
  <2> HIDE DEF j
  <2>7. StoreOK'
    BY <2>1, <2>2, <2>3, <2>4, StashedFits, WriteKeeps, UnchangedKeeps
  <2>8. ThreadsOK'
    BY <2>1, <2>2, <2>5, <2>6, <1>l, JobIs, ThreadKeeps
  <2> QED BY <2>7, <2>8
<1>4. ASSUME PutIndexSpecification(t) PROVE StoreOK' /\ ThreadsOK'
  <2>1. /\ Write(t, Row(SpecRow, J.new)) /\ pc' = [pc EXCEPT ![t] = "done"]
        /\ UNCHANGED <<disk, readers, sequence, job, handle>>
    BY <1>4 DEF PutIndexSpecification, Goto, J
  <2>2. StoreOK'
    BY <2>1, <1>j, RowKeeps, RowsAre, FitsRow
  <2>3. job' = [job EXCEPT ![t] = J]
    BY <2>1, JobIs DEF J
  <2>4. ThreadsOK'
    BY <2>1, <2>3, <1>j, <1>l, ThreadKeeps
  <2> QED BY <2>2, <2>4
<1> QED BY <1>1, <1>2, <1>3, <1>4

\* Every variable keeps its type, and whatever has not been committed is under
\* a write lock of the transaction that wrote it: nobody reads it, and an abort
\* of another transaction cannot take it away.
THEOREM TypeCorrect == Spec => []TypeOK
<1>1. TypeOK /\ [Next]_vars => TypeOK'
  <2> SUFFICES ASSUME StoreOK, ThreadsOK, [Next]_vars PROVE StoreOK' /\ ThreadsOK'
    BY TypeParts DEF TypeOK, StoreOK, ThreadsOK, RowsOK, Isolated
  <2>1. CASE Next
    BY <2>1, StartTyped, WorkTyped, ReplaceTyped, SpecificationTyped, EndTyped DEF Next
  <2>2. CASE UNCHANGED vars
    BY <2>2 DEF vars, StoreOK, ThreadsOK, RowsOK, Isolated
  <2> QED BY <2>1, <2>2
<1> QED BY <1>1, InitTyped, PTL DEF Spec

-----------------------------------------------------------------------------
(* The index specification *)

IndexKinds == {"addIndex", "deleteIndex"}
AutoKinds == {"put", "update", "updateByName"}

\* At most one thread of each usage may change the specification.
MayChange(u, t) ==
  u.ops[t] \cap IndexKinds # {} \/ (u.auto /\ u.ops[t] \cap AutoKinds # {})
OneChanger ==
  \A u \in Usages : \A s, t \in Txns : MayChange(u, s) /\ MayChange(u, t) => s = t

\* Job j is one that changes the specification,
Aims(auto, j) == j.kind \in IndexKinds \/ (auto /\ j.kind \in AutoKinds)

\* to what it asks for when it was `is'.
AskedBy(auto, j, is) ==
  CASE j.kind = "addIndex" -> is \cup {j.index}
    [] j.kind = "deleteIndex" -> is \ {j.index}
    [] auto /\ j.kind \in AutoKinds -> is \cup AutoIndexed
    [] OTHER -> is

\* Job j at label l has what it is going to write, if the specification that
\* is committed is spec.
Ready(auto, j, l, spec) ==
  /\ l = "add" => j.kind = "put"
  /\ l = "replace" => j.kind \in {"update", "updateByName"}
  /\ l \in {"rename", "fetch", "init", "remove"} =>
       j.kind \in {"rename", "delete", "deleteByName"} /\ j.new = {}
  /\ l \in {"set", "clear", "write"} => j.kind \in IndexKinds
  /\ l = "reindex" => Aims(auto, j)
  /\ l \in {"metadata", "keys"} => Aims(auto, j) \/ j.new = {}
  /\ l \in {"set", "clear", "write", "reindex", "metadata", "keys"} /\ Aims(auto, j) =>
       j.new = AskedBy(auto, j, spec)

Holding == {"clear", "reindex", "write", "done", "failed"}

SpecOK(t) ==
  /\ job[t].kind = None \/ job[t].kind \in usage.ops[t]
  /\ Ready(usage.auto, job[t], pc[t], disk[SpecRow])
  /\ writer[SpecRow] = t =>
       /\ pc[t] \in Holding /\ Aims(usage.auto, job[t])
       /\ db[SpecRow] = IF pc[t] = "done" THEN AskedBy(usage.auto, job[t], disk[SpecRow])
                        ELSE disk[SpecRow]

\* What threads are about to make of the specification that is committed.
SpecInv == \A t \in Txns : SpecOK(t)

\* A thread that may read the specification reads what is committed, unless it
\* has written it.
LEMMA SpecRead ==
  ASSUME StoreOK, SpecInv, NEW t \in Txns, Free(t, SpecRow), pc[t] # "done"
  PROVE  db[SpecRow] = disk[SpecRow]
  BY RowsAre DEF StoreOK, Isolated, SpecInv, SpecOK, Free

\* To write other rows leaves it alone.
LEMMA WriteAside ==
  ASSUME NEW t \in Txns, NEW new, Write(t, new), SpecRow \notin DOMAIN new
  PROVE  db'[SpecRow] = db[SpecRow] /\ writer'[SpecRow] = writer[SpecRow]
  BY RowsAre DEF Write, Lock

LEMMA RowAside ==
  ASSUME NEW t \in Txns, NEW r, NEW v, Write(t, Row(r, v)), r # SpecRow
  PROVE  db'[SpecRow] = db[SpecRow] /\ writer'[SpecRow] = writer[SpecRow]
  BY WriteAside DEF Row

LEMMA StashAside ==
  ASSUME NEW t \in Txns, NEW d, NEW add, NEW del, Write(t, Stashed(d, add, del))
  PROVE  db'[SpecRow] = db[SpecRow] /\ writer'[SpecRow] = writer[SpecRow]
  BY WriteAside, RowsDistinct DEF Stashed

\* The thread goes on with job j at label l, and does not write the specification.
LEMMA AsideKeeps ==
  ASSUME StoreOK, ThreadsOK, SpecInv, NEW t \in Txns, UNCHANGED <<usage, disk>>,
         NEW j, NEW l, pc' = [pc EXCEPT ![t] = l], job' = [job EXCEPT ![t] = j],
         j.kind = None \/ j.kind \in usage.ops[t],
         Ready(usage.auto, j, l, disk[SpecRow]),
         db'[SpecRow] = db[SpecRow], writer'[SpecRow] = writer[SpecRow],
         \/ pc[t] \notin Holding
         \/ /\ l \in Holding /\ pc[t] # "done" /\ l # "done"
            /\ j.kind = job[t].kind /\ j.index = job[t].index
  PROVE  SpecInv'
<1> SUFFICES ASSUME NEW s \in Txns PROVE SpecOK(s)'
  BY DEF SpecInv
<1>1. CASE s # t
  BY <1>1 DEF SpecInv, SpecOK, ThreadsOK
<1>2. CASE s = t
  <2>1. job'[t] = j /\ pc'[t] = l
    BY DEF ThreadsOK
  <2>2. writer[SpecRow] = t => /\ l \in Holding /\ Aims(usage.auto, j) /\ l # "done"
                               /\ db'[SpecRow] = disk[SpecRow]
    BY DEF SpecInv, SpecOK, Aims
  <2> QED BY <1>2, <2>1, <2>2 DEF SpecOK
<1> QED BY <1>1, <1>2

\* The same when it writes the specification.
LEMMA SpecWriteKeeps ==
  ASSUME StoreOK, ThreadsOK, SpecInv, NEW t \in Txns, UNCHANGED <<usage, disk>>,
         NEW j, NEW l \in Holding, pc' = [pc EXCEPT ![t] = l], job' = [job EXCEPT ![t] = j],
         j.kind \in usage.ops[t], Aims(usage.auto, j),
         Ready(usage.auto, j, l, disk[SpecRow]),
         NEW v, Write(t, Row(SpecRow, v)),
         v = IF l = "done" THEN AskedBy(usage.auto, j, disk[SpecRow]) ELSE disk[SpecRow]
  PROVE  SpecInv'
<1>1. Free(t, SpecRow) /\ writer'[SpecRow] = t /\ db'[SpecRow] = v
  BY RowsAre DEF Write, Lock, Row
<1> SUFFICES ASSUME NEW s \in Txns PROVE SpecOK(s)'
  BY DEF SpecInv
<1>2. CASE s # t
  BY <1>1, <1>2 DEF SpecInv, SpecOK, ThreadsOK
<1>3. CASE s = t
  <2>1. job'[t] = j /\ pc'[t] = l
    BY DEF ThreadsOK
  <2> QED BY <1>1, <1>3, <2>1 DEF SpecOK
<1> QED BY <1>2, <1>3

LEMMA LookupPrepares ==
  ASSUME StoreOK, ThreadsOK, SpecInv, NEW t \in Txns, NEW n, NEW found, NEW label,
         Lookup(t, n, found, label), UNCHANGED usage, DbUnchanged,
         found \in Job, found.kind = None \/ found.kind \in usage.ops[t],
         \A d : Ready(usage.auto, [found EXCEPT !.id = d, !.name = n], label, disk[SpecRow])
  PROVE  SpecInv'
<1>0. pc[t] = "idle" /\ pc[t] \notin Holding /\ UNCHANGED <<db, disk, writer>>
  BY DEF Lookup, Holding, DbUnchanged
<1>1. CASE Fail(t) /\ UNCHANGED job
  <2>1. job[t].kind = None \/ job[t].kind \in usage.ops[t]
    BY DEF SpecInv, SpecOK
  <2>2. Ready(usage.auto, job[t], "failed", disk[SpecRow])
    BY DEF Ready
  <2> QED BY <1>0, <1>1, <2>1, <2>2, JobIs, AsideKeeps DEF Fail
<1>2. ASSUME NEW d, Goto(t, label),
             job' = [job EXCEPT ![t] = [found EXCEPT !.id = d, !.name = n]]
      PROVE  SpecInv'
  <2> DEFINE j == [found EXCEPT !.id = d, !.name = n]
  <2>1. j.kind = found.kind
    BY DEF Job
  <2> HIDE DEF j
  <2>2. Ready(usage.auto, j, label, disk[SpecRow])
    BY DEF j
  <2>3. pc' = [pc EXCEPT ![t] = label] /\ job' = [job EXCEPT ![t] = j]
    BY <1>2 DEF Goto, j
  <2> QED BY <1>0, <2>1, <2>2, <2>3, AsideKeeps
<1> QED BY <1>1, <1>2 DEF Lookup

LEMMA HandlePrepares ==
  ASSUME StoreOK, ThreadsOK, SpecInv, NEW t \in Txns, NEW kind, NEW n, NEW v, NEW label,
         OnHandle(t, kind, n, v, label), UNCHANGED usage,
         \/ kind = "update" /\ label = "replace"
         \/ kind = "rename" /\ label = "rename"
         \/ kind = "delete" /\ label = "remove"
  PROVE  SpecInv'
<1> DEFINE j == [NoJob EXCEPT !.kind = kind, !.id = handle[t].id, !.name = n,
                              !.value = v, !.is = db[SpecRow]]
<1>1. /\ pc[t] \notin Holding /\ UNCHANGED <<db, disk, writer>> /\ kind \in usage.ops[t]
      /\ pc' = [pc EXCEPT ![t] = label] /\ job' = [job EXCEPT ![t] = j]
  BY DEF OnHandle, HasHandle, Holding, DbUnchanged, Goto
<1>2. j.kind = kind /\ j.new = {}
  BY DEF NoJob
<1> HIDE DEF j
<1>3. Ready(usage.auto, j, label, disk[SpecRow])
  BY <1>2 DEF Ready
<1> QED BY <1>1, <1>2, <1>3, AsideKeeps

LEMMA StartPrepares ==
  ASSUME StoreOK, ThreadsOK, SpecInv, NEW t \in Txns, UNCHANGED usage,
         \/ \E n \in Names : Get(t, n) \/ Rename(t, n) \/ DeleteByName(t, n)
         \/ \E n \in Names, v \in Values : Put(t, n, v) \/ UpdateByName(t, n, v)
         \/ \E v \in Values : Update(t, v)
         \/ \E s \in Strategies : AddIndex(t, s) \/ DeleteIndex(t, s)
         \/ Delete(t)
  PROVE  SpecInv'
<1>s. db[SpecRow] \in SUBSET Strategies
  BY DEF StoreOK, RowsOK
<1>1. ASSUME NEW n \in Names, Get(t, n) PROVE SpecInv'
  <2>1. /\ NoJob \in Job /\ NoJob.kind = None
        /\ \A d : Ready(usage.auto, [NoJob EXCEPT !.id = d, !.name = n], "found", disk[SpecRow])
    BY JobIs DEF NoJob, Ready
  <2> QED BY <1>1, <2>1, LookupPrepares DEF Get
<1>2. ASSUME NEW n \in Names, DeleteByName(t, n) PROVE SpecInv'
  <2> DEFINE found == [NoJob EXCEPT !.kind = "deleteByName"]
  <2>1. /\ found \in Job /\ found.kind = "deleteByName"
        /\ \A d : Ready(usage.auto, [found EXCEPT !.id = d, !.name = n], "fetch", disk[SpecRow])
    BY JobIs DEF NoJob, Ready, Job, Kinds
  <2>2. Lookup(t, n, found, "fetch") /\ DbUnchanged /\ "deleteByName" \in usage.ops[t]
    BY <1>2 DEF DeleteByName
  <2> HIDE DEF found
  <2> QED BY <2>1, <2>2, LookupPrepares
<1>3. ASSUME NEW n \in Names, NEW v \in Values, UpdateByName(t, n, v) PROVE SpecInv'
  <2> DEFINE found == [NoJob EXCEPT !.kind = "updateByName", !.value = v, !.is = db[SpecRow]]
  <2>1. /\ found \in Job /\ found.kind = "updateByName"
        /\ \A d : Ready(usage.auto, [found EXCEPT !.id = d, !.name = n], "replace", disk[SpecRow])
    BY <1>s, JobIs DEF NoJob, Ready, Job, Kinds
  <2>2. Lookup(t, n, found, "replace") /\ DbUnchanged /\ "updateByName" \in usage.ops[t]
    BY <1>3 DEF UpdateByName
  <2> HIDE DEF found
  <2> QED BY <2>1, <2>2, LookupPrepares
<1>4. ASSUME NEW n \in Names, NEW v \in Values, Put(t, n, v) PROVE SpecInv'
  <2> DEFINE j == [NoJob EXCEPT !.kind = "put", !.name = n, !.value = v,
                                !.id = sequence + 1, !.is = db[SpecRow]]
  <2>1. /\ pc[t] \notin Holding /\ UNCHANGED <<db, disk, writer>> /\ "put" \in usage.ops[t]
        /\ pc' = [pc EXCEPT ![t] = "add"] /\ job' = [job EXCEPT ![t] = j]
    BY <1>4 DEF Put, Holding, DbUnchanged, Goto
  <2>2. j.kind = "put"
    BY DEF NoJob
  <2> HIDE DEF j
  <2>3. Ready(usage.auto, j, "add", disk[SpecRow])
    BY <2>2 DEF Ready
  <2> QED BY <2>1, <2>2, <2>3, AsideKeeps
<1>5. ASSUME NEW s \in Strategies, AddIndex(t, s) \/ DeleteIndex(t, s) PROVE SpecInv'
  <2>1. PICK kind, new :
          /\ Change(t, kind, s, new)
          /\ \/ kind = "addIndex" /\ new = db[SpecRow] \cup {s}
             \/ kind = "deleteIndex" /\ new = db[SpecRow] \ {s}
    BY <1>5 DEF AddIndex, DeleteIndex
  <2> DEFINE j == [NoJob EXCEPT !.kind = kind, !.index = s, !.new = new]
  <2>2. /\ pc[t] = "idle" /\ pc[t] \notin Holding /\ UNCHANGED <<db, disk, writer>>
        /\ kind \in usage.ops[t] /\ Free(t, SpecRow)
        /\ pc' = [pc EXCEPT ![t] = "set"] /\ job' = [job EXCEPT ![t] = j]
    BY <2>1 DEF Change, CanRead, Holding, DbUnchanged, Goto
  <2>3. j.kind = kind /\ j.index = s /\ j.new = new
    BY DEF NoJob
  <2> HIDE DEF j
  <2>4. db[SpecRow] = disk[SpecRow]
    BY <2>2, SpecRead
  <2>5. j.new = AskedBy(usage.auto, j, disk[SpecRow])
    BY <2>1, <2>3, <2>4 DEF AskedBy, AutoKinds
  <2>6. Ready(usage.auto, j, "set", disk[SpecRow])
    BY <2>1, <2>3, <2>5 DEF Ready, IndexKinds
  <2> QED BY <2>2, <2>3, <2>6, AsideKeeps
<1>6. ASSUME NEW n \in Names, Rename(t, n) PROVE SpecInv'
  BY <1>6, HandlePrepares DEF Rename
<1>7. ASSUME NEW v \in Values, Update(t, v) PROVE SpecInv'
  BY <1>7, HandlePrepares DEF Update
<1>8. ASSUME Delete(t) PROVE SpecInv'
  BY <1>8, HandlePrepares DEF Delete
<1> QED BY <1>1, <1>2, <1>3, <1>4, <1>5, <1>6, <1>7, <1>8

LEMMA AimsIsKind ==
  ASSUME NEW auto, NEW j, NEW ops, Aims(auto, j), j.kind = None \/ j.kind \in ops
  PROVE  j.kind \in ops
  BY NamesAssumption DEF Aims, IndexKinds, AutoKinds, Kinds

\* What auto-indexing wants is the specification that is committed and more.
LEMMA AutoPrepares ==
  ASSUME StoreOK, SpecInv, NEW t \in Txns, CanRead(t, AutoReads), pc[t] # "done",
         NEW j, j.kind \in AutoKinds, j.new = AutoSpec
  PROVE  Ready(usage.auto, j, "metadata", disk[SpecRow])
<1>1. CASE usage.auto
  <2>1. Free(t, SpecRow)
    BY <1>1 DEF CanRead, AutoReads
  <2>2. db[SpecRow] = disk[SpecRow]
    BY <2>1, SpecRead
  <2>3. j.new = AskedBy(usage.auto, j, disk[SpecRow])
    BY <1>1, <2>2 DEF AutoSpec, AskedBy, AutoKinds
  <2> QED BY <1>1, <2>3 DEF Ready, Aims, AutoKinds
<1>2. CASE ~usage.auto
  BY <1>2 DEF AutoSpec, Ready, Aims, AutoKinds, IndexKinds
<1> QED BY <1>1, <1>2

LEMMA WorkPrepares ==
  ASSUME StoreOK, ThreadsOK, SpecInv, NEW t \in Txns, UNCHANGED usage,
         \/ Add(t) \/ WriteMetaData(t) \/ UpdateIndex(t) \/ RemoveContentAndIndex(t)
         \/ Fetch(t) \/ InitDelete(t) \/ GetRead(t) \/ Replace(t) \/ ReplaceName(t)
  PROVE  SpecInv'
<1> DEFINE J == job[t]
<1>j. /\ J \in Job /\ job = [job EXCEPT ![t] = J]
      /\ J.kind = None \/ J.kind \in usage.ops[t]
      /\ Ready(usage.auto, J, pc[t], disk[SpecRow])
  BY JobIs DEF SpecInv, SpecOK
<1>h. Holding \cap {"add", "metadata", "keys", "remove", "fetch", "init", "found",
                    "replace", "rename"} = {}
  BY DEF Holding
<1>d. \A j : Ready(usage.auto, j, "done", disk[SpecRow]) /\ Ready(usage.auto, j, "read", disk[SpecRow])
             /\ Ready(usage.auto, j, "failed", disk[SpecRow])
  BY DEF Ready
<1> HIDE DEF J
<1>1. ASSUME Add(t) PROVE SpecInv'
  <2> DEFINE j == [J EXCEPT !.add = {NameKey(J.name)} \cup ContentKeys(J.is, J.value),
                            !.new = AutoSpec]
  <2>1. /\ pc[t] = "add" /\ CanRead(t, AutoReads) /\ disk' = disk
        /\ \/ pc' = [pc EXCEPT ![t] = "failed"] /\ UNCHANGED <<db, writer, job>>
           \/ /\ Write(t, Row(ContentRow(J.id), J.value))
              /\ job' = [job EXCEPT ![t] = j] /\ pc' = [pc EXCEPT ![t] = "metadata"]
    BY <1>1 DEF Add, Fail, Goto, CanRead, J
  <2>2. j.kind = "put" /\ j.kind = J.kind /\ j.new = AutoSpec
    BY <2>1, <1>j DEF Job, Ready
  <2> HIDE DEF j
  <2>3. Ready(usage.auto, j, "metadata", disk[SpecRow])
    BY <2>1, <2>2, AutoPrepares DEF AutoKinds
  <2> QED BY <2>1, <2>2, <2>3, <1>j, <1>h, <1>d, RowAside, RowsDistinct, AsideKeeps
<1>2. ASSUME WriteMetaData(t) PROVE SpecInv'
  <2>1. /\ pc[t] = "metadata" /\ disk' = disk /\ job' = job /\ pc' = [pc EXCEPT ![t] = "keys"]
        /\ \/ UNCHANGED <<db, writer>>
           \/ \E d, v : Write(t, Row(MetaRow(d), v))
    BY <1>2 DEF WriteMetaData, Goto
  <2>2. Ready(usage.auto, J, "keys", disk[SpecRow])
    BY <2>1, <1>j DEF Ready
  <2> QED BY <2>1, <2>2, <1>j, <1>h, RowAside, RowsDistinct, AsideKeeps
<1>3. ASSUME UpdateIndex(t) PROVE SpecInv'
  <2> DEFINE j == [J EXCEPT !.adds = J.new \ J.is]
             l == IF J.new \subseteq J.is THEN "done" ELSE "reindex"
  <2>1. /\ pc[t] = "keys" /\ disk' = disk
        /\ \E updated : Write(t, Stashed(J.id, J.add, J.del \ updated))
        /\ job' = [job EXCEPT ![t] = j] /\ pc' = [pc EXCEPT ![t] = l]
    BY <1>3 DEF UpdateIndex, Goto, J
  <2>2. j.kind = J.kind /\ j.new = J.new /\ j.index = J.index
    BY <1>j DEF Job
  <2> HIDE DEF j
  <2>3. Ready(usage.auto, j, l, disk[SpecRow])
    <3>1. CASE l = "done"
      BY <3>1, <1>d
    <3>2. CASE l = "reindex" /\ J.new # {}
      BY <2>1, <2>2, <3>2, <1>j DEF Ready, Aims, AskedBy
    <3> QED BY <3>1, <3>2
  <2> HIDE DEF l
  <2> QED BY <2>1, <2>2, <2>3, <1>j, <1>h, StashAside, AsideKeeps
<1>4. ASSUME RemoveContentAndIndex(t) PROVE SpecInv'
  <2> DEFINE j == [J EXCEPT !.del = {NameKey(J.name)} \cup ContentKeys(J.is, db[ContentRow(J.id)])]
  <2>1. /\ pc[t] = "remove" /\ disk' = disk /\ Write(t, Row(ContentRow(J.id), None))
        /\ job' = [job EXCEPT ![t] = j] /\ pc' = [pc EXCEPT ![t] = "metadata"]
    BY <1>4 DEF RemoveContentAndIndex, Goto, J
  <2>2. j.kind = J.kind /\ j.new = J.new /\ J.kind \in {"rename", "delete", "deleteByName"} /\ J.new = {}
    BY <2>1, <1>j DEF Job, Ready
  <2> HIDE DEF j
  <2>3. Ready(usage.auto, j, "metadata", disk[SpecRow])
    BY <2>2 DEF Ready, Aims, IndexKinds, AutoKinds
  <2> QED BY <2>1, <2>2, <2>3, <1>j, <1>h, RowAside, RowsDistinct, AsideKeeps
<1>5. ASSUME Fetch(t) PROVE SpecInv'
  <2>1. /\ pc[t] = "fetch" /\ UNCHANGED <<db, disk, writer, job>>
        /\ pc' = [pc EXCEPT ![t] = "init"]
    BY <1>5 DEF Fetch, Goto
  <2>2. Ready(usage.auto, J, "init", disk[SpecRow])
    BY <2>1, <1>j DEF Ready
  <2> QED BY <2>1, <2>2, <1>j, <1>h, AsideKeeps
<1>6. ASSUME InitDelete(t) PROVE SpecInv'
  <2> DEFINE j == [J EXCEPT !.is = db[SpecRow]]
  <2>1. /\ pc[t] = "init" /\ UNCHANGED <<db, disk, writer>>
        /\ job' = [job EXCEPT ![t] = j] /\ pc' = [pc EXCEPT ![t] = "remove"]
    BY <1>6 DEF InitDelete, Goto, DbUnchanged, J
  <2>2. j.kind = J.kind /\ j.new = J.new
    BY <1>j DEF Job
  <2> HIDE DEF j
  <2>3. Ready(usage.auto, j, "remove", disk[SpecRow])
    BY <2>1, <2>2, <1>j DEF Ready
  <2> QED BY <2>1, <2>2, <2>3, <1>j, <1>h, AsideKeeps
<1>7. ASSUME GetRead(t) PROVE SpecInv'
  <2>1. /\ pc[t] = "found" /\ UNCHANGED <<db, disk, writer>>
        /\ job' = [job EXCEPT ![t] = NoJob] /\ pc' = [pc EXCEPT ![t] = "read"]
    BY <1>7 DEF GetRead, Goto
  <2> QED BY <2>1, <1>d, <1>h, AsideKeeps DEF NoJob
<1>8. ASSUME Replace(t) PROVE SpecInv'
  <2> DEFINE metadata == IF J.kind = "updateByName" THEN {NameKey(J.name)} ELSE {}
             add == metadata \cup ContentKeys(J.is, J.value)
             del == metadata \cup ContentKeys(J.is, db[ContentRow(J.id)])
             j == [J EXCEPT !.add = add, !.del = del, !.new = AutoSpec]
  <2>1. /\ pc[t] = "replace" /\ CanRead(t, AutoReads) /\ disk' = disk
        /\ \/ /\ Write(t, Row(ContentRow(J.id), None))
              /\ pc' = [pc EXCEPT ![t] = "failed"] /\ job' = job
           \/ /\ Write(t, Row(ContentRow(J.id), J.value))
              /\ job' = [job EXCEPT ![t] = j] /\ pc' = [pc EXCEPT ![t] = "metadata"]
    BY <1>8 DEF Replace, Fail, Goto, CanRead, J
  <2> HIDE DEF add, del
  <2>2. j.kind = J.kind /\ j.new = AutoSpec /\ J.kind \in {"update", "updateByName"}
    BY <2>1, <1>j DEF Job, Ready
  <2>3. \/ pc' = [pc EXCEPT ![t] = "failed"] /\ job' = job
        \/ pc' = [pc EXCEPT ![t] = "metadata"] /\ job' = [job EXCEPT ![t] = j]
    BY <2>1
  <2> HIDE DEF j
  <2>4. Ready(usage.auto, j, "metadata", disk[SpecRow])
    BY <2>1, <2>2, AutoPrepares DEF AutoKinds
  <2>5. db'[SpecRow] = db[SpecRow] /\ writer'[SpecRow] = writer[SpecRow]
    BY <2>1, RowAside, RowsDistinct
  <2> QED BY <2>1, <2>2, <2>3, <2>4, <2>5, <1>j, <1>h, <1>d, AsideKeeps
<1>9. ASSUME ReplaceName(t) PROVE SpecInv'
  <2> DEFINE old == db[MetaRow(J.id)]
             add == {NameKey(J.name)}
             del == IF old = None THEN {} ELSE {NameKey(old)}
             j == [J EXCEPT !.add = add, !.del = del]
  <2>1. /\ pc[t] = "rename" /\ UNCHANGED <<db, disk, writer>>
        /\ \/ pc' = [pc EXCEPT ![t] = "failed"] /\ job' = job
           \/ pc' = [pc EXCEPT ![t] = "metadata"] /\ job' = [job EXCEPT ![t] = j]
    BY <1>9 DEF ReplaceName, Fail, Goto, J
  <2> HIDE DEF add, del
  <2>2. j.kind = J.kind /\ j.new = J.new /\ J.kind \in {"rename", "delete", "deleteByName"} /\ J.new = {}
    BY <2>1, <1>j DEF Job, Ready
  <2> HIDE DEF j
  <2>4. Ready(usage.auto, j, "metadata", disk[SpecRow])
    BY <2>2 DEF Ready, Aims, IndexKinds, AutoKinds
  <2> QED BY <2>1, <2>2, <2>4, <1>j, <1>h, <1>d, AsideKeeps
<1> QED BY <1>1, <1>2, <1>3, <1>4, <1>5, <1>6, <1>7, <1>8, <1>9

LEMMA SpecificationPrepares ==
  ASSUME StoreOK, ThreadsOK, SpecInv, NEW t \in Txns, UNCHANGED usage,
         \/ SetIndexSpecification(t) \/ RemoveIndexes(t) \/ Reindex(t) \/ PutIndexSpecification(t)
  PROVE  SpecInv'
<1> DEFINE J == job[t]
<1>j. /\ J \in Job /\ job = [job EXCEPT ![t] = J] /\ pc = [pc EXCEPT ![t] = pc[t]]
      /\ J.kind = None \/ J.kind \in usage.ops[t]
      /\ Ready(usage.auto, J, pc[t], disk[SpecRow])
  BY JobIs DEF SpecInv, SpecOK, ThreadsOK
<1>a. pc[t] \in {"set", "clear", "write", "reindex"} =>
        /\ Aims(usage.auto, J) /\ J.kind \in usage.ops[t]
        /\ J.new = AskedBy(usage.auto, J, disk[SpecRow])
  BY <1>j, AimsIsKind DEF Ready, Aims
<1> HIDE DEF J
<1>1. ASSUME SetIndexSpecification(t) PROVE SpecInv'
  <2> DEFINE j == [J EXCEPT !.is = db[SpecRow], !.adds = J.new \ db[SpecRow]]
  <2>1. /\ pc[t] = "set" /\ disk' = disk /\ Write(t, Row(SpecRow, db[SpecRow]))
        /\ job' = [job EXCEPT ![t] = j]
    BY <1>1 DEF SetIndexSpecification, J
  <2>2. PICK l \in {"clear", "reindex", "write"} : pc' = [pc EXCEPT ![t] = l]
    BY <1>1 DEF SetIndexSpecification, Goto
  <2>3. j.kind = J.kind /\ j.new = J.new /\ j.index = J.index
    BY <1>j DEF Job
  <2> HIDE DEF j
  <2>4. Ready(usage.auto, j, l, disk[SpecRow]) /\ Aims(usage.auto, j) /\ j.kind \in usage.ops[t]
    BY <2>1, <2>2, <2>3, <1>j, <1>a DEF Ready, Aims, AskedBy
  <2>5. db[SpecRow] = disk[SpecRow]
    BY <2>1, SpecRead DEF Write, Lock, Row
  <2>6. l \in Holding /\ l # "done"
    BY <2>2 DEF Holding
  <2> QED BY <2>1, <2>2, <2>4, <2>5, <2>6, SpecWriteKeeps
<1>2. ASSUME RemoveIndexes(t) PROVE SpecInv'
  <2> DEFINE new == [r \in {KeyRow(k) : k \in (J.is \ J.new) \X Values} |-> {}]
  <2>1. pc[t] = "clear" /\ disk' = disk /\ job' = job /\ Write(t, new)
    BY <1>2 DEF RemoveIndexes, J
  <2>2. PICK l \in {"write", "reindex"} : pc' = [pc EXCEPT ![t] = l]
    BY <1>2 DEF RemoveIndexes, Goto
  <2>3. SpecRow \notin DOMAIN new
    BY RowsDistinct
  <2> HIDE DEF new
  <2>4. Ready(usage.auto, J, l, disk[SpecRow])
    BY <2>1, <2>2, <1>j, <1>a DEF Ready
  <2>5. l \in Holding /\ l # "done"
    BY <2>2 DEF Holding
  <2> QED BY <2>1, <2>2, <2>3, <2>4, <2>5, <1>j, WriteAside, AsideKeeps DEF J
<1>3. ASSUME Reindex(t) PROVE SpecInv'
  <2> DEFINE j == [J EXCEPT !.at = J.at + 1]
  <2>1. PICK d, keys :
          /\ pc[t] = "reindex" /\ disk' = disk
          /\ \/ pc' = [pc EXCEPT ![t] = "failed"] /\ UNCHANGED <<db, writer, job>>
             \/ Write(t, Stashed(d, keys, {})) /\ job' = [job EXCEPT ![t] = j] /\ pc' = pc
    BY <1>3 DEF Reindex, Fail, J
  <2>2. j.kind = J.kind /\ j.new = J.new /\ j.index = J.index
    BY <1>j DEF Job
  <2> HIDE DEF j
  <2>3. Ready(usage.auto, j, "reindex", disk[SpecRow]) /\ Ready(usage.auto, J, "failed", disk[SpecRow])
    BY <2>1, <2>2, <1>j, <1>a DEF Ready, Aims, AskedBy
  <2>4. "reindex" \in Holding /\ "failed" \in Holding
    BY DEF Holding
  <2> QED BY <2>1, <2>2, <2>3, <2>4, <1>j, StashAside, AsideKeeps DEF J
<1>4. ASSUME PutIndexSpecification(t) PROVE SpecInv'
  <2>1. /\ pc[t] \in {"write", "reindex"} /\ Write(t, Row(SpecRow, J.new))
        /\ pc' = [pc EXCEPT ![t] = "done"] /\ job' = job /\ disk' = disk
    BY <1>4 DEF PutIndexSpecification, Goto, J
  <2>2. Ready(usage.auto, J, "done", disk[SpecRow]) /\ "done" \in Holding
    BY DEF Ready, Holding
  <2> QED BY <2>1, <2>2, <1>j, <1>a, SpecWriteKeeps
<1> QED BY <1>1, <1>2, <1>3, <1>4

\* What a transaction that changes the specification commits is what no other
\* thread is about to change.
LEMMA EndPrepares ==
  ASSUME OneChanger, StoreOK, ThreadsOK, SpecInv, NEW t \in Txns, UNCHANGED usage,
         Commit(t) \/ Abort(t)
  PROVE  SpecInv'
<1>1. /\ job' = [job EXCEPT ![t] = NoJob] /\ pc' = [pc EXCEPT ![t] = "idle"]
      /\ writer'[SpecRow] = IF writer[SpecRow] = t THEN NoTxn ELSE writer[SpecRow]
  BY RowsAre DEF Commit, Abort, Release
<1>2. writer[SpecRow] # t => db'[SpecRow] = db[SpecRow] /\ disk'[SpecRow] = disk[SpecRow]
  BY RowsAre DEF Commit, Abort
<1>3. writer[SpecRow] = t =>
        disk'[SpecRow] = disk[SpecRow] \/ Aims(usage.auto, job[t])
  BY DEF SpecInv, SpecOK
<1> SUFFICES ASSUME NEW s \in Txns PROVE SpecOK(s)'
  BY DEF SpecInv
<1>4. CASE s = t
  <2>1. job'[t] = NoJob /\ pc'[t] = "idle" /\ writer'[SpecRow] # t /\ NoJob.kind = None
    BY <1>1, NamesAssumption DEF ThreadsOK, NoJob
  <2>2. Ready(usage.auto, NoJob, "idle", disk'[SpecRow])
    BY DEF Ready
  <2> QED BY <1>4, <2>1, <2>2 DEF SpecOK
<1>5. CASE s # t
  <2>1. SpecOK(s) /\ job'[s] = job[s] /\ pc'[s] = pc[s]
    BY <1>1, <1>5 DEF SpecInv, ThreadsOK
  <2>2. writer'[SpecRow] = s => writer[SpecRow] = s
    BY <1>1, NamesAssumption
  <2>3. ASSUME Aims(usage.auto, job[s]) PROVE disk'[SpecRow] = disk[SpecRow]
    <3>1. ASSUME NEW u \in Txns, Aims(usage.auto, job[u]) PROVE MayChange(usage, u)
      <4>1. job[u].kind \in usage.ops[u]
        BY <3>1, AimsIsKind DEF SpecInv, SpecOK
      <4> QED BY <3>1, <4>1 DEF Aims, MayChange
    <3>2. ~Aims(usage.auto, job[t])
      BY <2>3, <3>1, <1>5 DEF OneChanger, ThreadsOK
    <3> QED BY <3>2, <1>2, <1>3
  <2>4. Ready(usage.auto, job[s], pc[s], disk'[SpecRow])
    <3>1. CASE Aims(usage.auto, job[s])
      BY <3>1, <2>1, <2>3 DEF SpecOK
    <3>2. CASE ~Aims(usage.auto, job[s])
      BY <3>2, <2>1 DEF SpecOK, Ready
    <3> QED BY <3>1, <3>2
  <2>5. writer[SpecRow] = s => db'[SpecRow] = db[SpecRow] /\ disk'[SpecRow] = disk[SpecRow]
    BY <1>2, <1>5
  <2> QED BY <2>1, <2>2, <2>4, <2>5 DEF SpecOK
<1> QED BY <1>4, <1>5

LEMMA CommitsAlone ==
  ASSUME Next, ~\E t \in Txns : Commit(t)
  PROVE  disk' = disk
<1>1. ASSUME NEW t \in Txns,
             \/ \E n \in Names : Get(t, n) \/ Rename(t, n) \/ DeleteByName(t, n)
             \/ \E n \in Names, v \in Values : Put(t, n, v) \/ UpdateByName(t, n, v)
             \/ \E v \in Values : Update(t, v)
             \/ \E s \in Strategies : AddIndex(t, s) \/ DeleteIndex(t, s)
             \/ Delete(t)
      PROVE  disk' = disk
  BY <1>1 DEF Get, Rename, DeleteByName, Put, UpdateByName, Update, AddIndex, DeleteIndex,
              Delete, Change, OnHandle, DbUnchanged
<1>2. ASSUME NEW t \in Txns, Add(t) \/ WriteMetaData(t) \/ UpdateIndex(t) \/ GetRead(t)
      PROVE  disk' = disk
  BY <1>2 DEF Add, WriteMetaData, UpdateIndex, GetRead
<1>3. ASSUME NEW t \in Txns,
             \/ Replace(t) \/ ReplaceName(t)
             \/ Fetch(t) \/ InitDelete(t) \/ RemoveContentAndIndex(t)
      PROVE  disk' = disk
  BY <1>3 DEF Replace, ReplaceName, Fetch, InitDelete, RemoveContentAndIndex, DbUnchanged
<1>4. ASSUME NEW t \in Txns,
             \/ SetIndexSpecification(t) \/ RemoveIndexes(t) \/ Reindex(t)
             \/ PutIndexSpecification(t) \/ Abort(t)
      PROVE  disk' = disk
  BY <1>4 DEF SetIndexSpecification, RemoveIndexes, Reindex, PutIndexSpecification, Abort
<1> QED BY <1>1, <1>2, <1>3, <1>4 DEF Next

\* If at most one thread of each usage changes the index specification, by
\* addIndex, deleteIndex or auto-indexing, then a transaction that is committed
\* changes it by what that thread asks for and by no more, however many threads
\* add, change and delete documents at the same time.
THEOREM SpecificationKept ==
  ASSUME OneChanger
  PROVE  Spec => SpecKept
<1> DEFINE Kept == disk'[SpecRow] = disk[SpecRow] \/ \E t \in Txns :
                     pc[t] = "done" /\ disk'[SpecRow] = Asked(t, disk[SpecRow])
<1>1. Init => SpecInv
  <2> SUFFICES ASSUME Init, NEW t \in Txns PROVE SpecOK(t)
    BY DEF SpecInv
  <2>1. job[t] = NoJob /\ pc[t] = "idle" /\ writer[SpecRow] # t /\ NoJob.kind = None
    BY RowsAre, NamesAssumption DEF Init, NoJob
  <2>2. Ready(usage.auto, job[t], "idle", disk[SpecRow])
    BY DEF Ready
  <2> QED BY <2>1, <2>2 DEF SpecOK
<1>2. TypeOK /\ SpecInv /\ [Next]_vars => SpecInv'
  <2> SUFFICES ASSUME StoreOK, ThreadsOK, SpecInv, [Next]_vars PROVE SpecInv'
    BY TypeParts
  <2>1. CASE Next
    BY <2>1, StartPrepares, WorkPrepares, SpecificationPrepares, EndPrepares DEF Next
  <2>2. CASE UNCHANGED vars
    BY <2>2 DEF vars, SpecInv, SpecOK
  <2> QED BY <2>1, <2>2
<1>3. TypeOK /\ SpecInv /\ [Next]_vars => [Kept]_vars
  <2> SUFFICES ASSUME SpecInv, NEW t \in Txns, Commit(t) PROVE Kept
    BY CommitsAlone
  <2>1. disk'[SpecRow] = IF writer[SpecRow] = t THEN db[SpecRow] ELSE disk[SpecRow]
    BY RowsAre DEF Commit
  <2>2. Asked(t, disk[SpecRow]) = AskedBy(usage.auto, job[t], disk[SpecRow])
    BY DEF Asked, AskedBy, AutoKinds
  <2> QED BY <2>1, <2>2 DEF SpecInv, SpecOK
<1> QED BY <1>1, <1>2, <1>3, TypeCorrect, PTL DEF Spec, SpecKept

-----------------------------------------------------------------------------
(* A container that one thread uses *)

\* One thread acts in each usage, which keeps no XmlDocument objects, and the
\* container has transactions.
OneActs ==
  \A u \in Usages :
    /\ ~u.keep /\ u.transacted
    /\ \E t \in Txns : \A s \in Txns \ {t} : u.ops[s] = {}

Solo(t) ==
  /\ ~usage.keep /\ usage.transacted
  /\ \A s \in Txns \ {t} :
       usage.ops[s] = {} /\ pc[s] = "idle" /\ \A r \in Rows : writer[r] # s

\* A document of name n and content v has key k if the specification is `is'.
HasKeyOf(is, n, v, k) ==
  IF k[1] = NameIndex THEN n = k[2] ELSE k[1] \in is /\ v = k[2]
HasKey(rows, is, d, k) == HasKeyOf(is, rows[MetaRow(d)], rows[ContentRow(d)], k)

\* The parts of good order.
Exact(rows, is) ==
  \A k \in Keys, d \in Ids : d \in rows[KeyRow(k)] <=> HasKey(rows, is, d, k)
Sole(rows) ==
  \A k \in UniqueKeys(Keys), d, e \in Ids :
    d \in rows[KeyRow(k)] /\ e \in rows[KeyRow(k)] => d = e
Paired(rows) ==
  \A d \in Ids : /\ rows[MetaRow(d)] = None <=> rows[ContentRow(d)] = None
                 /\ d > sequence => rows[MetaRow(d)] = None
NoZero(rows) ==
  (\A t \in Txns : "updateByName" \notin usage.ops[t]) => rows[MetaRow(0)] = None
Rest(rows) == Sole(rows) /\ Paired(rows) /\ NoZero(rows)
Good(rows) == Exact(rows, rows[SpecRow]) /\ Rest(rows)

\* Nothing but these rows has been changed.
Agree(rows) == \A r \in Rows \ rows : db[r] = disk[r]

\* The name that the document of job j is going to have.
NewName(j) ==
  IF j.kind \in {"put", "rename"} THEN j.name
  ELSE IF j.kind \in {"update", "updateByName"} THEN disk[MetaRow(j.id)]
  ELSE None

\* The stash of job j makes of the keys that its document has those that it is
\* going to have, and no other document has one of those that are unique.
Planned(j) ==
  LET v == db[ContentRow(j.id)]
      n == NewName(j)
      old == disk[MetaRow(j.id)] IN
  /\ \A k \in Keys :
       /\ k \in j.add => HasKeyOf(j.is, n, v, k)
       /\ k \in j.del \ j.add => ~HasKeyOf(j.is, n, v, k)
       /\ (k \in j.add <=> k \in j.del) =>
            (HasKey(disk, j.is, j.id, k) <=> HasKeyOf(j.is, n, v, k))
  /\ \A k \in UniqueKeys(j.add), e \in Ids : e \in disk[KeyRow(k)] => e = j.id
  /\ n = None <=> v = None
  /\ n # None => j.id <= sequence
  /\ j.new = {} \/ j.is \subseteq j.new
  /\ n = old \/ old = None \/ n = None \/ v = disk[ContentRow(j.id)]

\* At most one document has been changed: it is new, or gone, or has either
\* another name or another content.
OneChange ==
  \E d \in Ids :
    /\ \A e \in Ids \ {d} : /\ db[MetaRow(e)] = disk[MetaRow(e)]
                            /\ db[ContentRow(e)] = disk[ContentRow(e)]
    /\ \/ db[MetaRow(d)] = disk[MetaRow(d)] \/ disk[MetaRow(d)] = None
       \/ db[MetaRow(d)] = None \/ db[ContentRow(d)] = disk[ContentRow(d)]

\* The indexes that remain are exact, and those that are added up to document j.at.
Partly(j) ==
  \A k \in Keys, d \in Ids : d \in db[KeyRow(k)] <=>
    \/ HasKey(db, j.is \cap j.new, d, k)
    \/ d <= j.at /\ HasKey(db, j.adds, d, k)

Begun == {"found", "fetch", "init", "remove", "replace", "rename", "add", "set"}

\* What holds at each label of the thread.
Stage(t) ==
  LET j == job[t] IN
  /\ pc[t] \in Begun \cup {"idle", "read", "clear"} => Agree({})
  /\ pc[t] = "idle" => handle[t] = NoHandle /\ \A r \in Rows : writer[r] = NoTxn
  /\ pc[t] = "read" => handle[t].id # 0 /\ disk[MetaRow(handle[t].id)] = handle[t].name
  /\ pc[t] \in Begun => j.add = {} /\ j.del = {}
  /\ pc[t] \in Begun \ {"set"} => j.new = {}
  /\ pc[t] \in Begun \cup {"metadata", "keys", "clear"} => j.at = 0
  /\ pc[t] \in {"found", "fetch", "init", "remove", "replace"} => disk[MetaRow(j.id)] = j.name
  /\ pc[t] \in {"fetch", "init", "remove"} => j.kind \in {"delete", "deleteByName"}
  /\ pc[t] = "replace" => j.kind \in {"update", "updateByName"} /\ j.value \in Values
  /\ pc[t] = "rename" => j.kind = "rename" /\ disk[MetaRow(j.id)] # None
  /\ pc[t] = "add" => /\ j.kind = "put" /\ j.value \in Values
                      /\ disk[MetaRow(j.id)] = None /\ j.id <= sequence
  /\ j.kind = "updateByName" => "updateByName" \in usage.ops[t]
  /\ pc[t] \in {"add", "replace", "rename", "remove", "metadata", "keys", "clear"} =>
       j.is = disk[SpecRow]
  /\ pc[t] = "metadata" => Agree({ContentRow(j.id)}) /\ Planned(j)
  /\ pc[t] = "keys" => /\ Agree({ContentRow(j.id), MetaRow(j.id), MetaRow(0)})
                       /\ db[MetaRow(j.id)] = NewName(j) /\ NoZero(db) /\ Planned(j)
  /\ pc[t] \in {"clear", "reindex", "write"} => j.adds = j.new \ j.is
  /\ pc[t] \in {"reindex", "write"} => db[SpecRow] = j.is /\ Rest(db) /\ Partly(j)
  /\ pc[t] \in {"reindex", "write", "done"} => OneChange
  /\ pc[t] = "write" => j.adds = {}
  /\ pc[t] = "done" => Good(db)

Alone(t) == Solo(t) /\ Good(disk) /\ Stage(t)

LEMMA KeysMatch ==
  ASSUME NEW is \in SUBSET Strategies, NEW k \in Keys
  PROVE  /\ \A n \in Names : k = NameKey(n) <=> k[1] = NameIndex /\ k[2] = n
         /\ \A v \in Values \cup {None} :
              k \in ContentKeys(is, v) <=> k[1] # NameIndex /\ k[1] \in is /\ k[2] = v
<1>1. CASE k \in {NameIndex} \X Names
  BY <1>1, NamesAssumption DEF NameKey, ContentKeys
<1>2. CASE k \in Strategies \X Values
  <2>1. k = <<k[1], k[2]>> /\ k[1] \in Strategies /\ k[2] \in Values /\ k[1] # NameIndex
    BY <1>2, NamesAssumption
  <2>2. \A n \in Names : k = NameKey(n) <=> k[1] = NameIndex /\ k[2] = n
    BY <2>1 DEF NameKey
  <2>3. ASSUME NEW v \in Values \cup {None}
        PROVE  k \in ContentKeys(is, v) <=> k[1] # NameIndex /\ k[1] \in is /\ k[2] = v
    BY <2>1, NamesAssumption DEF ContentKeys
  <2> QED BY <2>2, <2>3
<1> QED BY <1>1, <1>2 DEF Keys

LEMMA WriteRow ==
  ASSUME NEW t \in Txns, NEW r \in Rows, NEW v, Write(t, Row(r, v))
  PROVE  db'[r] = v /\ \A q \in Rows \ {r} : db'[q] = db[q]
  BY DEF Write, Row

LEMMA WriteStash ==
  ASSUME NEW t \in Txns, NEW d, NEW add \in SUBSET Keys, NEW del \in SUBSET Keys,
         Write(t, Stashed(d, add, del))
  PROVE  /\ \A k \in Keys :
              db'[KeyRow(k)] = IF k \in add \ del THEN db[KeyRow(k)] \cup {d}
                               ELSE IF k \in del \ add THEN db[KeyRow(k)] \ {d}
                               ELSE db[KeyRow(k)]
         /\ \A r \in Rows \ KeyRows : db'[r] = db[r]
<1> DEFINE new == Stashed(d, add, del)
           keys == (add \cup del) \ (add \cap del)
<1>1. DOMAIN new = {KeyRow(k) : k \in keys}
  BY DEF Stashed
<1>2. \A k \in Keys : KeyRow(k) \in DOMAIN new <=> k \in keys
  BY <1>1, KeyRowsDistinct
<1>3. \A k \in keys : new[KeyRow(k)] = IF k \in add THEN db[KeyRow(k)] \cup {d}
                                       ELSE db[KeyRow(k)] \ {d}
  <2> TAKE k \in keys
  <2>1. KeyRow(k) \in {KeyRow(l) : l \in add} <=> k \in add
    BY KeyRowsDistinct
  <2>2. KeyRow(k) \in DOMAIN new
    BY <1>1
  <2> QED BY <2>1, <2>2, <1>1 DEF Stashed
<1>4. \A r \in Rows : db'[r] = IF r \in DOMAIN new THEN new[r] ELSE db[r]
  BY DEF Write
<1> HIDE DEF new
<1>5. ASSUME NEW r \in Rows \ KeyRows PROVE db'[r] = db[r]
  BY <1>1, <1>4 DEF KeyRows
<1>6. ASSUME NEW k \in Keys
      PROVE  db'[KeyRow(k)] = IF k \in add \ del THEN db[KeyRow(k)] \cup {d}
                              ELSE IF k \in del \ add THEN db[KeyRow(k)] \ {d}
                              ELSE db[KeyRow(k)]
  <2>1. CASE k \in keys
    BY <2>1, <1>2, <1>3, <1>4, RowsAre
  <2>2. CASE k \notin keys
    BY <2>2, <1>2, <1>4, RowsAre
  <2> QED BY <2>1, <2>2
<1> QED BY <1>5, <1>6

\* An update of an entry that is there changes nothing.
LEMMA UpdateStash ==
  ASSUME NEW t \in Txns, NEW d, NEW add \in SUBSET Keys, NEW del \in SUBSET Keys,
         NEW updated \in SUBSET (add \cap del), Write(t, Stashed(d, add, del \ updated)),
         \A k \in updated : d \in db[KeyRow(k)]
  PROVE  /\ \A k \in Keys :
              db'[KeyRow(k)] = IF k \in add \ del THEN db[KeyRow(k)] \cup {d}
                               ELSE IF k \in del \ add THEN db[KeyRow(k)] \ {d}
                               ELSE db[KeyRow(k)]
         /\ \A r \in Rows \ KeyRows : db'[r] = db[r]
<1>1. PICK less : less = del \ updated
  OBVIOUS
<1>2. /\ less \in SUBSET Keys /\ Write(t, Stashed(d, add, less))
  BY <1>1
<1>3. /\ \A k \in Keys :
           db'[KeyRow(k)] = IF k \in add \ less THEN db[KeyRow(k)] \cup {d}
                            ELSE IF k \in less \ add THEN db[KeyRow(k)] \ {d}
                            ELSE db[KeyRow(k)]
      /\ \A r \in Rows \ KeyRows : db'[r] = db[r]
  BY <1>2, WriteStash
<1>4. ASSUME NEW k \in Keys
      PROVE  db'[KeyRow(k)] = IF k \in add \ del THEN db[KeyRow(k)] \cup {d}
                              ELSE IF k \in del \ add THEN db[KeyRow(k)] \ {d}
                              ELSE db[KeyRow(k)]
  <2>1. CASE k \in updated
    <3>1. /\ k \in add \ less /\ k \in add /\ k \in del /\ db[KeyRow(k)] \cup {d} = db[KeyRow(k)]
      BY <1>1, <2>1
    <3> QED BY <1>3, <3>1
  <2>2. CASE k \notin updated
    <3>1. k \in less <=> k \in del
      BY <1>1, <2>2
    <3> QED BY <1>3, <3>1
  <2> QED BY <2>1, <2>2
<1> QED BY <1>3, <1>4

LEMMA DocumentRows ==
  /\ SpecRow \in Rows \ KeyRows
  /\ \A d \in 0..MaxDocs : MetaRow(d) \in Rows \ KeyRows
  /\ \A d \in Ids : ContentRow(d) \in Rows \ KeyRows
  BY RowsAre, RowsDistinct DEF KeyRows

\* When the first entry under a unique key is of no other document, none is.
LEMMA FirstIsAll ==
  ASSUME StoreOK, Sole(db), NEW keys \in SUBSET Keys, NEW d \in Ids, ~Violates(d, keys),
         NEW k \in UniqueKeys(keys), NEW e \in Ids, e \in db[KeyRow(k)]
  PROVE  e = d
<1>1. k \in Keys /\ k \in UniqueKeys(Keys) /\ Entries(k) = db[KeyRow(k)] /\ Entries(k) \subseteq Ids
  BY DEF UniqueKeys, Entries, StoreOK, RowsOK
<1>2. \A f \in Entries(k) : f = e
  BY <1>1 DEF Sole
<1>3. e \in First(k)
  BY <1>1, <1>2, BoundAssumption DEF First, Ids
<1> QED BY <1>3 DEF Violates

LEMMA GoodStays ==
  ASSUME Good(disk), UNCHANGED <<usage, disk>>, sequence \in Nat, sequence' \in Nat,
         sequence' >= sequence
  PROVE  Good(disk)'
<1>1. Paired(disk)'
  BY BoundAssumption DEF Good, Rest, Paired, Ids
<1> QED BY <1>1 DEF Good, Rest, Exact, Sole, NoZero

\* The thread goes on, with locks of its own and nothing committed.
LEMMA GoesOn ==
  ASSUME ThreadsOK, NEW t \in Txns, Alone(t), NEW l, UNCHANGED <<usage, disk>>,
         pc' = [pc EXCEPT ![t] = l], writer' = writer \/ \E new : Write(t, new),
         ThreadsOK', sequence' >= sequence, Stage(t)'
  PROVE  Alone(t)'
<1>1. Solo(t)'
  BY DEF Alone, Solo, ThreadsOK, Write, Lock
<1>2. Good(disk)'
  BY GoodStays DEF Alone, ThreadsOK
<1> QED BY <1>1, <1>2 DEF Alone

LEMMA LookupFinds ==
  ASSUME StoreOK, Agree({}), Good(disk), NEW n \in Names, NEW d \in First(NameKey(n))
  PROVE  d \in Ids /\ disk[MetaRow(d)] = n
<1>1. NameKey(n) \in Keys /\ NameKey(n)[1] = NameIndex /\ NameKey(n)[2] = n
  BY KeysAre DEF NameKey
<1>2. d \in Ids
  BY FirstIsId
<1>3. d \in disk[KeyRow(NameKey(n))]
  BY <1>1, RowsAre DEF First, Entries, Agree
<1> QED BY <1>1, <1>2, <1>3 DEF Good, Exact, HasKey, HasKeyOf

LEMMA LookupAlone ==
  ASSUME StoreOK, ThreadsOK, NEW t \in Txns, Alone(t), UNCHANGED usage, ThreadsOK',
         NEW n \in Names, NEW found \in Job, NEW label,
         Lookup(t, n, found, label), DbUnchanged, UNCHANGED <<sequence, handle>>,
         found.add = {}, found.del = {}, found.new = {}, found.at = 0,
         \/ label = "found" /\ found.kind # "updateByName"
         \/ label = "fetch" /\ found.kind = "deleteByName"
         \/ /\ label = "replace" /\ found.kind = "updateByName" /\ found.value \in Values
            /\ found.is = disk[SpecRow] /\ "updateByName" \in usage.ops[t]
  PROVE  Alone(t)'
<1>0. /\ pc[t] = "idle" /\ Agree({}) /\ UNCHANGED <<db, disk, writer>> /\ Good(disk)
      /\ job[t].kind = "updateByName" => "updateByName" \in usage.ops[t]
  BY DEF Alone, Stage, Lookup, DbUnchanged
<1>s. sequence \in Nat /\ sequence' >= sequence
  BY DEF ThreadsOK
<1>1. CASE Fail(t) /\ UNCHANGED job
  <2>1. pc' = [pc EXCEPT ![t] = "failed"] /\ pc'[t] = "failed" /\ job'[t] = job[t]
    BY <1>1 DEF Fail, ThreadsOK
  <2>2. Stage(t)'
    BY <2>1, <1>0 DEF Stage, Begun
  <2> QED BY <2>1, <2>2, <1>0, <1>s, GoesOn
<1>2. ASSUME NEW d \in First(NameKey(n)), Goto(t, label),
             job' = [job EXCEPT ![t] = [found EXCEPT !.id = d, !.name = n]]
      PROVE  Alone(t)'
  <2> DEFINE j == [found EXCEPT !.id = d, !.name = n]
  <2>1. /\ j.id = d /\ j.name = n /\ j.kind = found.kind /\ j.add = {} /\ j.del = {}
        /\ j.new = {} /\ j.at = 0 /\ j.is = found.is /\ j.value = found.value
    BY DEF Job
  <2>2. /\ pc' = [pc EXCEPT ![t] = label] /\ pc'[t] = label
        /\ job'[t] = j
    BY <1>2 DEF Goto, ThreadsOK
  <2> HIDE DEF j
  <2>3. disk[MetaRow(d)] = n
    BY <1>0, LookupFinds
  <2>4. Stage(t)'
    BY <2>1, <2>2, <2>3, <1>0 DEF Stage, Begun, Agree
  <2> QED BY <2>2, <2>4, <1>0, <1>s, GoesOn
<1> QED BY <1>1, <1>2 DEF Lookup

LEMMA HandleAlone ==
  ASSUME StoreOK, ThreadsOK, NEW t \in Txns, Alone(t), UNCHANGED usage, ThreadsOK',
         NEW kind, NEW n, NEW v, NEW label, OnHandle(t, kind, n, v, label),
         \/ /\ kind = "update" /\ label = "replace" /\ v \in Values /\ n = handle[t].name
         \/ kind = "rename" /\ label = "rename"
         \/ kind = "delete" /\ label = "remove" /\ n = handle[t].name
  PROVE  Alone(t)'
<1> DEFINE j == [NoJob EXCEPT !.kind = kind, !.id = handle[t].id, !.name = n,
                              !.value = v, !.is = db[SpecRow]]
<1>1. /\ pc[t] \in {"idle", "read"} /\ UNCHANGED <<db, disk, writer, sequence>>
      /\ pc' = [pc EXCEPT ![t] = label] /\ pc'[t] = label /\ job'[t] = j
      /\ handle[t].id # 0
  BY DEF OnHandle, HasHandle, DbUnchanged, Goto, ThreadsOK
<1>2. pc[t] # "idle"
  BY <1>1 DEF Alone, Stage, NoHandle
<1>3. /\ Agree({}) /\ disk[MetaRow(handle[t].id)] = handle[t].name
      /\ handle[t].name # None
  BY <1>1, <1>2, HandleIs, NamesAssumption DEF Alone, Stage
<1>4. db[SpecRow] = disk[SpecRow]
  BY <1>3, RowsAre DEF Agree
<1>5. /\ j.kind = kind /\ j.id = handle[t].id /\ j.name = n /\ j.value = v
      /\ j.is = db[SpecRow] /\ j.new = {} /\ j.add = {} /\ j.del = {} /\ j.at = 0
  BY DEF NoJob
<1> HIDE DEF j
<1>6. Stage(t)'
  BY <1>1, <1>3, <1>4, <1>5 DEF Stage, Begun, Agree
<1>7. sequence' >= sequence
  BY <1>1 DEF ThreadsOK
<1> QED BY <1>1, <1>6, <1>7, GoesOn DEF OnHandle, DbUnchanged

LEMMA StartAlone ==
  ASSUME StoreOK, ThreadsOK, NEW t \in Txns, Alone(t), UNCHANGED usage, ThreadsOK',
         \/ \E n \in Names : Get(t, n) \/ Rename(t, n) \/ DeleteByName(t, n)
         \/ \E n \in Names, v \in Values : Put(t, n, v) \/ UpdateByName(t, n, v)
         \/ \E v \in Values : Update(t, v)
         \/ \E s \in Strategies : AddIndex(t, s) \/ DeleteIndex(t, s)
         \/ Delete(t)
  PROVE  Alone(t)'
<1>s. db[SpecRow] \in SUBSET Strategies
  BY DEF StoreOK, RowsOK
<1>i. pc[t] = "idle" => Agree({}) /\ db[SpecRow] = disk[SpecRow]
  BY RowsAre DEF Alone, Stage, Agree
<1>q. UNCHANGED sequence => sequence' >= sequence
  BY DEF ThreadsOK
<1>1. ASSUME NEW n \in Names, Get(t, n) PROVE Alone(t)'
  <2>1. /\ NoJob \in Job /\ NoJob.kind # "updateByName" /\ NoJob.add = {} /\ NoJob.del = {}
        /\ NoJob.new = {} /\ NoJob.at = 0
    BY JobIs, NamesAssumption DEF NoJob, Kinds
  <2> QED BY <1>1, <2>1, LookupAlone DEF Get
<1>2. ASSUME NEW n \in Names, DeleteByName(t, n) PROVE Alone(t)'
  <2> DEFINE found == [NoJob EXCEPT !.kind = "deleteByName"]
  <2>1. /\ found \in Job /\ found.kind = "deleteByName" /\ found.add = {} /\ found.del = {}
        /\ found.new = {} /\ found.at = 0
    BY JobIs DEF NoJob, Job, Kinds
  <2>2. /\ Lookup(t, n, found, "fetch") /\ DbUnchanged /\ UNCHANGED <<sequence, handle>>
    BY <1>2 DEF DeleteByName
  <2> HIDE DEF found
  <2> QED BY <2>1, <2>2, LookupAlone
<1>3. ASSUME NEW n \in Names, NEW v \in Values, UpdateByName(t, n, v) PROVE Alone(t)'
  <2> DEFINE found == [NoJob EXCEPT !.kind = "updateByName", !.value = v, !.is = db[SpecRow]]
  <2>1. /\ found \in Job /\ found.kind = "updateByName" /\ found.add = {} /\ found.del = {}
        /\ found.new = {} /\ found.at = 0 /\ found.value = v /\ found.is = db[SpecRow]
    BY <1>s, JobIs DEF NoJob, Job, Kinds
  <2>2. /\ Lookup(t, n, found, "replace") /\ DbUnchanged /\ UNCHANGED <<sequence, handle>>
        /\ "updateByName" \in usage.ops[t]
    BY <1>3 DEF UpdateByName
  <2>3. pc[t] = "idle"
    BY <2>2 DEF Lookup
  <2> HIDE DEF found
  <2> QED BY <2>1, <2>2, <2>3, <1>i, LookupAlone
<1>4. ASSUME NEW n \in Names, NEW v \in Values, Put(t, n, v) PROVE Alone(t)'
  <2> DEFINE j == [NoJob EXCEPT !.kind = "put", !.name = n, !.value = v,
                                !.id = sequence + 1, !.is = db[SpecRow]]
  <2>1. /\ pc[t] = "idle" /\ UNCHANGED <<db, disk, writer>> /\ sequence < MaxDocs
        /\ pc' = [pc EXCEPT ![t] = "add"] /\ pc'[t] = "add" /\ job'[t] = j
        /\ sequence' = sequence + 1
    BY <1>4 DEF Put, DbUnchanged, Goto, ThreadsOK
  <2>2. /\ j.kind = "put" /\ j.name = n /\ j.value = v /\ j.id = sequence + 1
        /\ j.is = db[SpecRow] /\ j.new = {} /\ j.add = {} /\ j.del = {} /\ j.at = 0
    BY DEF NoJob
  <2> HIDE DEF j
  <2>3. sequence \in Nat /\ sequence + 1 \in Ids /\ sequence' >= sequence
    BY <2>1, BoundAssumption DEF ThreadsOK, Ids
  <2>4. disk[MetaRow(sequence + 1)] = None
    BY <2>3 DEF Alone, Good, Rest, Paired
  <2>5. Stage(t)'
    BY <2>1, <2>2, <2>3, <2>4, <1>i DEF Stage, Begun, Agree
  <2> QED BY <2>1, <2>3, <2>5, GoesOn
<1>5. ASSUME NEW s \in Strategies, AddIndex(t, s) \/ DeleteIndex(t, s) PROVE Alone(t)'
  <2>1. PICK kind, new : kind \in {"addIndex", "deleteIndex"} /\ Change(t, kind, s, new)
    BY <1>5 DEF AddIndex, DeleteIndex
  <2> DEFINE j == [NoJob EXCEPT !.kind = kind, !.index = s, !.new = new]
  <2>2. /\ pc[t] = "idle" /\ UNCHANGED <<db, disk, writer, sequence>>
        /\ pc' = [pc EXCEPT ![t] = "set"] /\ pc'[t] = "set" /\ job'[t] = j
    BY <2>1 DEF Change, DbUnchanged, Goto, ThreadsOK
  <2>3. j.kind # "updateByName" /\ j.add = {} /\ j.del = {} /\ j.at = 0
    BY <2>1 DEF NoJob
  <2> HIDE DEF j
  <2>4. Stage(t)'
    BY <2>2, <2>3, <1>i DEF Stage, Begun, Agree
  <2> QED BY <2>2, <2>4, <1>q, GoesOn
<1>6. ASSUME NEW n \in Names, Rename(t, n) PROVE Alone(t)'
  BY <1>6, HandleAlone DEF Rename
<1>7. ASSUME NEW v \in Values, Update(t, v) PROVE Alone(t)'
  BY <1>7, HandleAlone DEF Update
<1>8. ASSUME Delete(t) PROVE Alone(t)'
  BY <1>8, HandleAlone DEF Delete
<1> QED BY <1>1, <1>2, <1>3, <1>4, <1>5, <1>6, <1>7, <1>8

LEMMA ReadAlone ==
  ASSUME StoreOK, ThreadsOK, NEW t \in Txns, Alone(t), UNCHANGED usage, ThreadsOK',
         GetRead(t) \/ Fetch(t) \/ InitDelete(t)
  PROVE  Alone(t)'
<1> DEFINE J == job[t]
<1>j. J \in Job /\ sequence \in Nat /\ (pc[t] \in Working => J.id \in Ids)
  BY DEF ThreadsOK
<1>q. UNCHANGED sequence => sequence' >= sequence
  BY DEF ThreadsOK
<1>a. Stage(t)
  BY DEF Alone
<1> HIDE DEF J
<1>1. ASSUME GetRead(t) PROVE Alone(t)'
  <2>1. /\ pc[t] = "found" /\ pc' = [pc EXCEPT ![t] = "read"] /\ pc'[t] = "read"
        /\ handle'[t] = [id |-> J.id, name |-> J.name] /\ job'[t] = NoJob
        /\ UNCHANGED <<db, disk, writer, sequence>>
    BY <1>1 DEF GetRead, Goto, ThreadsOK, J
  <2>2. J.id # 0
    BY <2>1, <1>j, IdsAre DEF Working
  <2>3. disk[MetaRow(J.id)] = J.name /\ Agree({})
    BY <2>1, <1>a DEF Stage, Begun, J
  <2>4. NoJob.kind # "updateByName"
    BY NamesAssumption DEF NoJob, Kinds
  <2>5. handle'[t].id = J.id /\ handle'[t].name = J.name
    BY <2>1
  <2>6. Stage(t)'
    BY <2>1, <2>2, <2>3, <2>4, <2>5 DEF Stage, Begun, Agree
  <2> QED BY <2>1, <2>6, <1>q, GoesOn
<1>2. ASSUME Fetch(t) PROVE Alone(t)'
  <2>1. /\ pc[t] = "fetch" /\ pc' = [pc EXCEPT ![t] = "init"] /\ pc'[t] = "init"
        /\ job'[t] = job[t] /\ UNCHANGED <<db, disk, writer, sequence>>
    BY <1>2 DEF Fetch, Goto, ThreadsOK
  <2>2. Stage(t)'
    BY <2>1, <1>a DEF Stage, Begun, Agree
  <2> QED BY <2>1, <2>2, <1>q, GoesOn
<1>3. ASSUME InitDelete(t) PROVE Alone(t)'
  <2> DEFINE j == [J EXCEPT !.is = db[SpecRow]]
  <2>1. /\ pc[t] = "init" /\ pc' = [pc EXCEPT ![t] = "remove"] /\ pc'[t] = "remove"
        /\ job'[t] = j /\ UNCHANGED <<db, disk, writer, sequence>>
    BY <1>3 DEF InitDelete, Goto, DbUnchanged, ThreadsOK, J
  <2>2. /\ j.kind = J.kind /\ j.id = J.id /\ j.name = J.name /\ j.is = db[SpecRow]
        /\ j.new = J.new /\ j.add = J.add /\ j.del = J.del /\ j.at = J.at
    BY <1>j DEF Job
  <2> HIDE DEF j
  <2>3. Agree({}) /\ db[SpecRow] = disk[SpecRow]
    BY <2>1, <1>a, RowsAre DEF Stage, Begun, Agree
  <2>4. Stage(t)'
    BY <2>1, <2>2, <2>3, <1>a DEF Stage, Begun, Agree, J
  <2> QED BY <2>1, <2>4, <1>q, GoesOn
<1> QED BY <1>1, <1>2, <1>3

\* The operation has found what it is going to do with its document.
LEMMA PlanAlone ==
  ASSUME StoreOK, ThreadsOK, NEW t \in Txns, Alone(t), UNCHANGED usage, ThreadsOK',
         Add(t) \/ Replace(t) \/ ReplaceName(t) \/ RemoveContentAndIndex(t)
  PROVE  Alone(t)'
<1> DEFINE J == job[t]
           d == J.id
           old == disk[MetaRow(d)]
<1>j. /\ J \in Job /\ J.is \in SUBSET Strategies /\ d \in Ids /\ J.name \in Names
      /\ J.value \in Values \cup {None}
  BY DEF ThreadsOK, Job, Add, Replace, ReplaceName, RemoveContentAndIndex, Working
<1>a. /\ Agree({}) /\ J.is = disk[SpecRow] /\ J.add = {} /\ J.del = {} /\ J.new = {} /\ J.at = 0
      /\ J.kind = "updateByName" => "updateByName" \in usage.ops[t]
  BY DEF Alone, Stage, Begun, Add, Replace, ReplaceName, RemoveContentAndIndex
<1>p. /\ pc[t] \in {"remove", "replace"} => old = J.name
      /\ pc[t] = "remove" => J.kind \in {"delete", "deleteByName"}
      /\ pc[t] = "replace" => J.kind \in {"update", "updateByName"} /\ J.value \in Values
      /\ pc[t] = "rename" => J.kind = "rename" /\ old # None
      /\ pc[t] = "add" => J.kind = "put" /\ J.value \in Values /\ old = None /\ d <= sequence
  BY DEF Alone, Stage
<1>g. /\ Exact(disk, J.is) /\ Sole(disk) /\ Paired(disk)
      /\ old = None <=> disk[ContentRow(d)] = None
      /\ old # None => d <= sequence
  BY <1>a, <1>j, BoundAssumption DEF Alone, Good, Rest, Paired, ThreadsOK, Ids
<1>r. /\ db[SpecRow] = disk[SpecRow] /\ db[MetaRow(d)] = old
      /\ db[ContentRow(d)] = disk[ContentRow(d)] /\ \A k \in Keys : db[KeyRow(k)] = disk[KeyRow(k)]
      /\ SpecRow \in Rows /\ MetaRow(d) \in Rows /\ ContentRow(d) \in Rows
      /\ old \in Names \cup {None} /\ db[ContentRow(d)] \in Values \cup {None}
  BY <1>a, <1>j, RowsAre, IdsAre DEF Agree, StoreOK, RowsOK
<1>q. UNCHANGED sequence => sequence' >= sequence
  BY DEF ThreadsOK
<1>v. ASSUME NEW keys \in SUBSET Keys, ~Violates(d, keys)
      PROVE  \A k \in UniqueKeys(keys), e \in Ids : e \in disk[KeyRow(k)] => e = d
  <2>1. Sole(db)
    BY <1>g, <1>r DEF Sole, UniqueKeys
  <2>2. \A k \in UniqueKeys(keys) : k \in Keys
    BY DEF UniqueKeys
  <2> QED BY <1>v, <2>1, <2>2, <1>j, <1>r, FirstIsAll
<1>k. \A k \in Keys : HasKey(disk, J.is, d, k) <=> HasKeyOf(J.is, old, db[ContentRow(d)], k)
  BY <1>r DEF HasKey
<1> HIDE DEF J, d, old
\* It goes on with a plan,
<1>m. ASSUME NEW j, NEW v \in Values \cup {None}, NEW n,
             pc' = [pc EXCEPT ![t] = "metadata"], job' = [job EXCEPT ![t] = j],
             db'[ContentRow(d)] = v, \A r \in Rows \ {ContentRow(d)} : db'[r] = db[r],
             writer' = writer \/ \E new : Write(t, new), UNCHANGED <<disk, sequence>>,
             j.id = d, j.is = J.is, j.at = 0, j.kind = J.kind, n = NewName(j),
             \A k \in Keys :
               /\ k \in j.add => HasKeyOf(J.is, n, v, k)
               /\ k \in j.del \ j.add => ~HasKeyOf(J.is, n, v, k)
               /\ (k \in j.add <=> k \in j.del) =>
                    (HasKey(disk, J.is, d, k) <=> HasKeyOf(J.is, n, v, k)),
             \A k \in UniqueKeys(j.add), e \in Ids : e \in disk[KeyRow(k)] => e = d,
             n = None <=> v = None, n # None => d <= sequence,
             j.new = {} \/ J.is \subseteq j.new,
             n = old \/ old = None \/ n = None \/ v = disk[ContentRow(d)]
      PROVE  Alone(t)'
  <2>1. job'[t] = j /\ pc'[t] = "metadata"
    BY <1>m DEF ThreadsOK
  <2>2. NewName(j)' = n
    BY <1>m DEF NewName
  <2>3. Planned(j)'
    <3>1. disk'[MetaRow(j.id)] = old /\ disk'[ContentRow(j.id)] = disk[ContentRow(d)]
      BY <1>m DEF old
    <3> QED BY <1>m, <2>2, <3>1 DEF Planned
  <2>4. Agree({ContentRow(j.id)})'
    BY <1>m, <1>a DEF Agree
  <2>5. Stage(t)'
    BY <1>m, <2>1, <2>3, <2>4, <1>a DEF Stage, Begun
  <2> QED BY <1>m, <2>5, <1>q, GoesOn
\* or fails.
<1>f. ASSUME pc' = [pc EXCEPT ![t] = "failed"], job' = job,
             writer' = writer \/ \E new : Write(t, new), UNCHANGED <<disk, sequence>>
      PROVE  Alone(t)'
  <2>1. job'[t] = J /\ pc'[t] = "failed"
    BY <1>f DEF ThreadsOK, J
  <2>2. Stage(t)'
    BY <2>1, <1>a DEF Stage, Begun
  <2> QED BY <1>f, <2>2, <1>q, GoesOn
<1>1. ASSUME Add(t) PROVE Alone(t)'
  <2> DEFINE keys == {NameKey(J.name)} \cup ContentKeys(J.is, J.value)
             j == [J EXCEPT !.add = keys, !.new = AutoSpec]
  <2>1. /\ pc[t] = "add" /\ UNCHANGED <<disk, sequence>>
        /\ \/ pc' = [pc EXCEPT ![t] = "failed"] /\ UNCHANGED <<db, writer, job>>
           \/ /\ ~Violates(d, keys) /\ Write(t, Row(ContentRow(d), J.value))
              /\ job' = [job EXCEPT ![t] = j] /\ pc' = [pc EXCEPT ![t] = "metadata"]
    BY <1>1 DEF Add, Fail, Goto, J, d
  <2>2. CASE pc' = [pc EXCEPT ![t] = "failed"] /\ UNCHANGED <<db, writer, job>>
    BY <2>1, <2>2, <1>f
  <2>3. CASE /\ ~Violates(d, keys) /\ Write(t, Row(ContentRow(d), J.value))
             /\ job' = [job EXCEPT ![t] = j] /\ pc' = [pc EXCEPT ![t] = "metadata"]
    <3>1. keys \in SUBSET Keys
      BY <1>j, KeysAre
    <3>2. /\ j.id = d /\ j.is = J.is /\ j.at = 0 /\ j.kind = J.kind /\ j.name = J.name
          /\ j.add = keys /\ j.del = {} /\ j.new = AutoSpec
      BY <1>j, <1>a DEF Job, d
    <3>3. \A k \in Keys : k \in keys <=> HasKeyOf(J.is, J.name, J.value, k)
      BY <1>j, KeysMatch DEF HasKeyOf
    <3>4. \A k \in Keys : ~HasKey(disk, J.is, d, k)
      BY <2>1, <1>p, <1>g, <1>k, <1>r, NamesAssumption DEF HasKeyOf, Keys
    <3>5. NewName(j) = J.name
      BY <2>1, <3>2, <1>p DEF NewName
    <3>6. AutoSpec = {} \/ J.is \subseteq AutoSpec
      BY <1>a, <1>r DEF AutoSpec
    <3>7. db'[ContentRow(d)] = J.value /\ \A r \in Rows \ {ContentRow(d)} : db'[r] = db[r]
      BY <2>3, <1>r, WriteRow
    <3>8. J.name # None /\ J.value # None
      BY <1>j, <1>p, <2>1, NamesAssumption
    <3>9. \A k \in UniqueKeys(keys), e \in Ids : e \in disk[KeyRow(k)] => e = d
      BY <2>3, <3>1, <1>v
    <3> HIDE DEF keys, j
    <3> QED BY <2>1, <2>3, <3>2, <3>3, <3>4, <3>5, <3>6, <3>7, <3>8, <3>9, <1>p, <1>j, <1>m
  <2> QED BY <2>1, <2>2, <2>3
<1>2. ASSUME Replace(t) PROVE Alone(t)'
  <2> DEFINE metadata == IF J.kind = "updateByName" THEN {NameKey(J.name)} ELSE {}
             add == metadata \cup ContentKeys(J.is, J.value)
             del == metadata \cup ContentKeys(J.is, db[ContentRow(d)])
             j == [J EXCEPT !.add = add, !.del = del, !.new = AutoSpec]
  <2>1. /\ pc[t] = "replace" /\ UNCHANGED <<disk, sequence>>
        /\ \/ /\ Write(t, Row(ContentRow(d), None)) /\ pc' = [pc EXCEPT ![t] = "failed"]
              /\ job' = job
           \/ /\ ~Violates(d, add) /\ Write(t, Row(ContentRow(d), J.value))
              /\ job' = [job EXCEPT ![t] = j] /\ pc' = [pc EXCEPT ![t] = "metadata"]
    BY <1>2 DEF Replace, Fail, Goto, J, d
  <2>2. CASE /\ Write(t, Row(ContentRow(d), None)) /\ pc' = [pc EXCEPT ![t] = "failed"]
             /\ job' = job
    BY <2>1, <2>2, <1>f DEF Write
  <2>3. CASE /\ ~Violates(d, add) /\ Write(t, Row(ContentRow(d), J.value))
             /\ job' = [job EXCEPT ![t] = j] /\ pc' = [pc EXCEPT ![t] = "metadata"]
    <3>1. add \in SUBSET Keys
      BY <1>j, KeysAre
    <3>2. /\ j.id = d /\ j.is = J.is /\ j.at = 0 /\ j.kind = J.kind
          /\ j.add = add /\ j.del = del /\ j.new = AutoSpec
      BY <1>j, <1>a DEF Job, d
    <3>3. \A k \in Keys : /\ k[1] = NameIndex => (k \in add <=> k \in del)
                          /\ k[1] # NameIndex =>
                               /\ k \in add <=> HasKeyOf(J.is, old, J.value, k)
                               /\ k \in del <=> HasKeyOf(J.is, old, db[ContentRow(d)], k)
      BY <1>j, <1>r, KeysMatch DEF HasKeyOf
    <3>4. NewName(j) = old
      BY <2>1, <3>2, <1>p DEF NewName, old
    <3>5. \A k \in Keys :
            /\ k \in add => HasKeyOf(J.is, old, J.value, k)
            /\ k \in del \ add => ~HasKeyOf(J.is, old, J.value, k)
            /\ (k \in add <=> k \in del) =>
                 (HasKey(disk, J.is, d, k) <=> HasKeyOf(J.is, old, J.value, k))
      <4> TAKE k \in Keys
      <4>1. k[1] = NameIndex => (HasKey(disk, J.is, d, k) <=> HasKeyOf(J.is, old, J.value, k))
        BY <1>k DEF HasKeyOf
      <4>2. k[1] = NameIndex /\ k \in add => HasKeyOf(J.is, old, J.value, k)
        <5>1. k[1] = NameIndex /\ k \in add => k[2] = J.name
          BY <1>j, KeysMatch
        <5> QED BY <2>1, <1>p, <5>1 DEF HasKeyOf
      <4> QED BY <3>3, <4>1, <4>2, <1>k
    <3>6. AutoSpec = {} \/ J.is \subseteq AutoSpec
      BY <1>a, <1>r DEF AutoSpec
    <3>7. db'[ContentRow(d)] = J.value /\ \A r \in Rows \ {ContentRow(d)} : db'[r] = db[r]
      BY <2>3, <1>r, WriteRow
    <3>8. old # None /\ J.value # None
      BY <1>j, <1>p, <2>1, NamesAssumption
    <3>9. \A k \in UniqueKeys(add), e \in Ids : e \in disk[KeyRow(k)] => e = d
      BY <2>3, <3>1, <1>v
    <3>10. \E new : Write(t, new)
      BY <2>3
    <3> HIDE DEF add, del, j
    <3> QED BY <2>1, <2>3, <3>2, <3>4, <3>5, <3>6, <3>7, <3>8, <3>9, <3>10, <1>g, <1>j, <1>m
  <2> QED BY <2>1, <2>2, <2>3
<1>3. ASSUME ReplaceName(t) PROVE Alone(t)'
  <2> DEFINE add == {NameKey(J.name)}
             del == IF db[MetaRow(d)] = None THEN {} ELSE {NameKey(db[MetaRow(d)])}
             j == [J EXCEPT !.add = add, !.del = del]
             v == db[ContentRow(d)]
  <2>1. /\ pc[t] = "rename" /\ UNCHANGED <<db, writer, disk, sequence>>
        /\ \/ pc' = [pc EXCEPT ![t] = "failed"] /\ job' = job
           \/ /\ ~Violates(d, add)
              /\ job' = [job EXCEPT ![t] = j] /\ pc' = [pc EXCEPT ![t] = "metadata"]
    BY <1>3 DEF ReplaceName, Fail, Goto, J, d
  <2>2. CASE pc' = [pc EXCEPT ![t] = "failed"] /\ job' = job
    BY <2>1, <2>2, <1>f
  <2>3. CASE /\ ~Violates(d, add)
             /\ job' = [job EXCEPT ![t] = j] /\ pc' = [pc EXCEPT ![t] = "metadata"]
    <3>1. add \in SUBSET Keys
      BY <1>j, KeysAre
    <3>2. /\ j.id = d /\ j.is = J.is /\ j.at = 0 /\ j.kind = J.kind /\ j.name = J.name
          /\ j.add = add /\ j.del = del /\ j.new = {}
      BY <1>j, <1>a DEF Job, d
    <3>3. old \in Names /\ old # None /\ del = {NameKey(old)}
      BY <2>1, <1>p, <1>r
    <3>4. \A k \in Keys : /\ k \in add <=> k[1] = NameIndex /\ k[2] = J.name
                          /\ k \in del <=> k[1] = NameIndex /\ k[2] = old
      BY <3>3, <1>j, KeysMatch
    <3>5. \A k \in Keys :
            /\ k \in add => HasKeyOf(J.is, J.name, v, k)
            /\ k \in del \ add => ~HasKeyOf(J.is, J.name, v, k)
            /\ (k \in add <=> k \in del) =>
                 (HasKey(disk, J.is, d, k) <=> HasKeyOf(J.is, J.name, v, k))
      BY <3>4, <1>k DEF HasKeyOf
    <3>6. NewName(j) = J.name
      BY <2>1, <3>2, <1>p DEF NewName
    <3>7. J.name # None /\ v # None
      BY <3>3, <1>j, <1>g, <1>r, NamesAssumption
    <3>8. \A k \in UniqueKeys(add), e \in Ids : e \in disk[KeyRow(k)] => e = d
      BY <2>3, <3>1, <1>v
    <3>9. db'[ContentRow(d)] = v /\ \A r \in Rows \ {ContentRow(d)} : db'[r] = db[r]
      BY <2>1
    <3> HIDE DEF add, del, j
    <3> QED BY <2>1, <2>3, <3>2, <3>3, <3>5, <3>6, <3>7, <3>8, <3>9, <1>g, <1>r, <1>m
  <2> QED BY <2>1, <2>2, <2>3
<1>4. ASSUME RemoveContentAndIndex(t) PROVE Alone(t)'
  <2> DEFINE del == {NameKey(J.name)} \cup ContentKeys(J.is, db[ContentRow(d)])
             j == [J EXCEPT !.del = del]
  <2>1. /\ pc[t] = "remove" /\ UNCHANGED <<disk, sequence>> /\ Write(t, Row(ContentRow(d), None))
        /\ job' = [job EXCEPT ![t] = j] /\ pc' = [pc EXCEPT ![t] = "metadata"]
    BY <1>4 DEF RemoveContentAndIndex, Goto, J, d
  <2>2. /\ j.id = d /\ j.is = J.is /\ j.at = 0 /\ j.kind = J.kind /\ j.add = {}
        /\ j.del = del /\ j.new = {}
    BY <1>j, <1>a DEF Job, d
  <2>3. \A k \in Keys : k \in del <=> HasKey(disk, J.is, d, k)
    BY <2>1, <1>j, <1>p, <1>k, <1>r, KeysMatch DEF HasKeyOf
  <2>4. \A k \in Keys : ~HasKeyOf(J.is, None, None, k)
    BY NamesAssumption DEF HasKeyOf, Keys
  <2>5. NewName(j) = None
    BY <2>1, <2>2, <1>p DEF NewName
  <2>6. db'[ContentRow(d)] = None /\ \A r \in Rows \ {ContentRow(d)} : db'[r] = db[r]
    BY <2>1, <1>r, WriteRow
  <2>7. UniqueKeys(j.add) = {} /\ \E new : Write(t, new)
    BY <2>1, <2>2 DEF UniqueKeys
  <2> HIDE DEF del, j
  <2> QED BY <2>1, <2>2, <2>3, <2>4, <2>5, <2>6, <2>7, <1>m
<1> QED BY <1>1, <1>2, <1>3, <1>4

LEMMA WriteMetaDataAlone ==
  ASSUME StoreOK, ThreadsOK, NEW t \in Txns, Alone(t), UNCHANGED usage, ThreadsOK',
         WriteMetaData(t)
  PROVE  Alone(t)'
<1>1. PICK j : j = job[t]
  OBVIOUS
<1>2. /\ pc[t] = "metadata" /\ pc' = [pc EXCEPT ![t] = "keys"] /\ pc'[t] = "keys"
      /\ job'[t] = j /\ UNCHANGED <<disk, sequence>>
  BY <1>1 DEF WriteMetaData, Goto, ThreadsOK
<1>3. j.id \in Ids /\ j.id # 0 /\ j.id \in 0..MaxDocs
  BY <1>1, <1>2, IdsAre DEF ThreadsOK, Working
<1>4. /\ Agree({ContentRow(j.id)}) /\ Planned(j) /\ j.is = disk[SpecRow] /\ j.at = 0
      /\ j.kind = "updateByName" => "updateByName" \in usage.ops[t]
  BY <1>1, <1>2 DEF Alone, Stage, Begun
<1>5. /\ MetaRow(j.id) \in Rows /\ MetaRow(0) \in Rows /\ ContentRow(j.id) \in Rows
      /\ MetaRow(j.id) # MetaRow(0) /\ ContentRow(j.id) \notin {MetaRow(j.id), MetaRow(0)}
  BY <1>3, RowsAre, IdsAre, RowsDistinct
<1>6. db[MetaRow(j.id)] = disk[MetaRow(j.id)] /\ db[MetaRow(0)] = disk[MetaRow(0)]
  BY <1>4, <1>5 DEF Agree
<1>7. /\ db'[MetaRow(j.id)] = NewName(j)
      /\ j.kind # "updateByName" => db'[MetaRow(0)] = db[MetaRow(0)]
      /\ \A r \in Rows \ {MetaRow(j.id), MetaRow(0)} : db'[r] = db[r]
      /\ writer' = writer \/ \E new : Write(t, new)
  <2>1. CASE j.kind \in {"put", "rename"}
    <3>1. Write(t, Row(MetaRow(j.id), j.name))
      BY <1>1, <2>1 DEF WriteMetaData
    <3> QED BY <2>1, <3>1, <1>5, WriteRow DEF NewName
  <2>2. CASE j.kind = "updateByName"
    <3>1. Write(t, Row(MetaRow(0), j.name))
      BY <1>1, <2>2 DEF WriteMetaData
    <3> QED BY <2>2, <3>1, <1>5, <1>6, WriteRow DEF NewName
  <2>3. CASE j.kind = "update"
    BY <1>1, <1>6, <2>3 DEF WriteMetaData, NewName
  <2>4. CASE j.kind \notin {"put", "rename", "updateByName", "update"}
    <3>1. Write(t, Row(MetaRow(j.id), None))
      BY <1>1, <2>4 DEF WriteMetaData
    <3> QED BY <2>4, <3>1, <1>5, WriteRow DEF NewName
  <2> QED BY <2>1, <2>2, <2>3, <2>4
<1>8. NoZero(db)'
  BY <1>4, <1>6, <1>7 DEF NoZero, Alone, Good, Rest
<1>9. NewName(j)' = NewName(j) /\ db'[ContentRow(j.id)] = db[ContentRow(j.id)]
  BY <1>2, <1>5, <1>7 DEF NewName
<1>10. Planned(j)'
  BY <1>2, <1>4, <1>9 DEF Planned
<1>11. Agree({ContentRow(j.id), MetaRow(j.id), MetaRow(0)})'
  BY <1>2, <1>4, <1>7 DEF Agree
<1>12. Stage(t)'
  BY <1>2, <1>4, <1>7, <1>8, <1>9, <1>10, <1>11 DEF Stage, Begun
<1>13. sequence' >= sequence
  BY <1>2 DEF ThreadsOK
<1> QED BY <1>2, <1>7, <1>12, <1>13, GoesOn

LEMMA UpdateIndexAlone ==
  ASSUME StoreOK, ThreadsOK, NEW t \in Txns, Alone(t), UNCHANGED usage, ThreadsOK',
         UpdateIndex(t)
  PROVE  Alone(t)'
<1>1. PICK j : j = job[t]
  OBVIOUS
<1> DEFINE l == IF j.new \subseteq j.is THEN "done" ELSE "reindex"
           J == [j EXCEPT !.adds = j.new \ j.is]
           d == j.id
           n == NewName(j)
           v == db[ContentRow(d)]
<1>2. /\ pc[t] = "keys" /\ pc' = [pc EXCEPT ![t] = l] /\ pc'[t] = l /\ job'[t] = J
      /\ UNCHANGED <<disk, sequence>>
      /\ \E updated \in SUBSET (j.add \cap j.del) : Write(t, Stashed(d, j.add, j.del \ updated))
  BY <1>1 DEF UpdateIndex, Goto, ThreadsOK
<1>3. /\ j \in Job /\ d \in Ids /\ d # 0 /\ d \in 0..MaxDocs
      /\ j.add \in SUBSET Keys /\ j.del \in SUBSET Keys
      /\ j.is \in SUBSET Strategies /\ j.new \in SUBSET Strategies
  BY <1>1, <1>2, IdsAre DEF ThreadsOK, Working, Job
<1>4. /\ J.is = j.is /\ J.new = j.new /\ J.at = j.at /\ J.kind = j.kind
      /\ J.adds = j.new \ j.is
  BY <1>3 DEF Job
<1> HIDE DEF J
<1>5. /\ Agree({ContentRow(d), MetaRow(d), MetaRow(0)}) /\ Planned(j)
      /\ db[MetaRow(d)] = n /\ NoZero(db) /\ j.is = disk[SpecRow] /\ j.at = 0
      /\ j.kind = "updateByName" => "updateByName" \in usage.ops[t]
      /\ Good(disk)
  BY <1>1, <1>2 DEF Alone, Stage, Begun
<1>w. /\ \A k \in Keys :
           db'[KeyRow(k)] = IF k \in j.add \ j.del THEN db[KeyRow(k)] \cup {d}
                            ELSE IF k \in j.del \ j.add THEN db[KeyRow(k)] \ {d}
                            ELSE db[KeyRow(k)]
      /\ \A r \in Rows \ KeyRows : db'[r] = db[r]
  <2>1. PICK updated \in SUBSET (j.add \cap j.del) : Write(t, Stashed(d, j.add, j.del \ updated))
    BY <1>2
  <2>2. ASSUME NEW k \in updated PROVE d \in db[KeyRow(k)]
    <3>1. k \in Keys /\ k \in j.add /\ k \in j.del
      BY <1>3
    <3>2. HasKey(disk, j.is, d, k)
      BY <1>5, <3>1 DEF Planned
    <3>3. db[KeyRow(k)] = disk[KeyRow(k)]
      BY <1>5, <3>1, RowsAre, RowsDistinct DEF Agree
    <3> QED BY <1>3, <1>5, <3>1, <3>2, <3>3 DEF Good, Exact
  <2> HIDE DEF d
  <2> QED BY <1>3, <2>1, <2>2, UpdateStash
<1>6. /\ db'[SpecRow] = j.is /\ db'[MetaRow(d)] = n /\ db'[ContentRow(d)] = v
      /\ db'[MetaRow(0)] = db[MetaRow(0)]
      /\ \A e \in Ids \ {d} : /\ db'[MetaRow(e)] = disk[MetaRow(e)]
                              /\ db'[ContentRow(e)] = disk[ContentRow(e)]
      /\ \A k \in Keys : db[KeyRow(k)] = disk[KeyRow(k)]
  <2>1. \A r \in Rows \ KeyRows : db'[r] = db[r]
    BY <1>w
  <2>2. ASSUME NEW e \in Ids \ {d}
        PROVE  db'[MetaRow(e)] = disk[MetaRow(e)] /\ db'[ContentRow(e)] = disk[ContentRow(e)]
    BY <2>1, <1>3, <1>5, DocumentRows, IdsAre, RowsDistinct DEF Agree
  <2>3. ASSUME NEW k \in Keys PROVE db[KeyRow(k)] = disk[KeyRow(k)]
    BY <1>5, RowsAre, RowsDistinct DEF Agree
  <2>4. db[SpecRow] = disk[SpecRow]
    BY <1>5, RowsAre, RowsDistinct DEF Agree
  <2> QED BY <2>1, <2>2, <2>3, <2>4, <1>3, <1>5, DocumentRows, IdsAre
<1>7. \A k \in Keys :
        db'[KeyRow(k)] = IF k \in j.add \ j.del THEN disk[KeyRow(k)] \cup {d}
                         ELSE IF k \in j.del \ j.add THEN disk[KeyRow(k)] \ {d}
                         ELSE disk[KeyRow(k)]
  BY <1>w, <1>6
<1>8. \A k \in Keys :
        /\ k \in j.add \ j.del => HasKeyOf(j.is, n, v, k)
        /\ k \in j.del \ j.add => ~HasKeyOf(j.is, n, v, k)
        /\ (k \in j.add <=> k \in j.del) => (HasKey(disk, j.is, d, k) <=> HasKeyOf(j.is, n, v, k))
  BY <1>5 DEF Planned
<1>9. Exact(db, j.is)'
  <2> SUFFICES ASSUME NEW k \in Keys, NEW e \in Ids
               PROVE  e \in db'[KeyRow(k)] <=> HasKey(db', j.is, e, k)
    BY DEF Exact
  <2>1. e \in disk[KeyRow(k)] <=> HasKey(disk, j.is, e, k)
    BY <1>5 DEF Good, Exact
  <2>2. CASE e = d
    <3>1. HasKey(db', j.is, e, k) <=> HasKeyOf(j.is, n, v, k)
      BY <2>2, <1>6 DEF HasKey
    <3> QED BY <2>1, <2>2, <3>1, <1>7, <1>8
  <2>3. CASE e # d
    <3>1. HasKey(db', j.is, e, k) <=> HasKey(disk, j.is, e, k)
      BY <2>3, <1>6 DEF HasKey
    <3> QED BY <2>1, <2>3, <3>1, <1>7
  <2> QED BY <2>2, <2>3
<1>10. Sole(db)'
  <2> SUFFICES ASSUME NEW k \in UniqueKeys(Keys), NEW e \in Ids, NEW f \in Ids,
                      e \in db'[KeyRow(k)], f \in db'[KeyRow(k)]
               PROVE  e = f
    BY DEF Sole
  <2>1. k \in Keys /\ (k \in j.add => k \in UniqueKeys(j.add))
    BY DEF UniqueKeys
  <2>2. CASE k \in j.add \ j.del
    <3>1. \A g \in Ids : g \in disk[KeyRow(k)] => g = d
      BY <2>1, <2>2, <1>5 DEF Planned
    <3>2. db'[KeyRow(k)] = disk[KeyRow(k)] \cup {d}
      BY <2>1, <2>2, <1>7
    <3>3. e = d /\ f = d
      BY <3>1, <3>2
    <3> QED BY <3>3
  <2>3. CASE k \notin j.add \ j.del
    BY <2>1, <2>3, <1>5, <1>7 DEF Good, Rest, Sole
  <2> QED BY <2>2, <2>3
<1>11. Paired(db)'
  <2> SUFFICES ASSUME NEW e \in Ids
               PROVE  /\ db'[MetaRow(e)] = None <=> db'[ContentRow(e)] = None
                      /\ e > sequence => db'[MetaRow(e)] = None
    BY <1>2 DEF Paired
  <2>1. CASE e = d
    <3>1. (n = None <=> v = None) /\ (n # None => d <= sequence)
      BY <1>5 DEF Planned
    <3>2. d \in Nat /\ sequence \in Nat
      BY <1>3 DEF ThreadsOK
    <3> QED BY <2>1, <3>1, <3>2, <1>6
  <2>2. CASE e # d
    BY <2>2, <1>5, <1>6 DEF Good, Rest, Paired
  <2> QED BY <2>1, <2>2
<1>12. NoZero(db)'
  BY <1>5, <1>6 DEF NoZero
<1>13. Rest(db)'
  BY <1>10, <1>11, <1>12 DEF Rest
<1>14. l = "reindex" => j.is \cap j.new = j.is
  BY <1>5 DEF Planned
<1>15. sequence' >= sequence
  BY <1>2 DEF ThreadsOK
<1>o. OneChange'
  <2>1. \/ n = disk[MetaRow(d)] \/ disk[MetaRow(d)] = None
        \/ n = None \/ v = disk[ContentRow(d)]
    BY <1>5 DEF Planned
  <2> HIDE DEF d, n, v
  <2> QED BY <1>2, <1>3, <1>6, <2>1 DEF OneChange
<1>16. CASE l = "done"
  <2>1. Good(db)'
    BY <1>6, <1>9, <1>13 DEF Good
  <2>2. Stage(t)'
    BY <1>2, <1>4, <1>5, <1>16, <1>o, <2>1 DEF Stage, Begun
  <2> QED BY <1>2, <1>15, <2>2, GoesOn
<1>17. CASE l = "reindex"
  <2>1. PICK k : k = J
    OBVIOUS
  <2>2. Partly(k)'
    <3> SUFFICES ASSUME NEW x \in Keys, NEW e \in Ids
                 PROVE  e \in db'[KeyRow(x)] <=> \/ HasKey(db', k.is \cap k.new, e, x)
                                                 \/ e <= k.at /\ HasKey(db', k.adds, e, x)
      BY DEF Partly
    <3>1. ~(e <= k.at)
      BY <2>1, <1>4, <1>5, BoundAssumption DEF Ids
    <3>2. k.is \cap k.new = j.is
      BY <2>1, <1>4, <1>14, <1>17
    <3> QED BY <3>1, <3>2, <1>9 DEF Exact
  <2>3. Stage(t)'
    BY <1>2, <1>4, <1>5, <1>6, <1>13, <1>17, <1>o, <2>1, <2>2 DEF Stage, Begun
  <2> QED BY <1>2, <1>15, <2>3, GoesOn
<1> QED BY <1>16, <1>17

LEMMA SetAlone ==
  ASSUME StoreOK, ThreadsOK, NEW t \in Txns, Alone(t), UNCHANGED usage, ThreadsOK',
         SetIndexSpecification(t)
  PROVE  Alone(t)'
<1>1. PICK j : j = job[t]
  OBVIOUS
<1>2. PICK i : i = [j EXCEPT !.is = db[SpecRow], !.adds = j.new \ db[SpecRow]]
  OBVIOUS
<1>3. PICK l : l = IF db[SpecRow] \ j.new # {} THEN "clear"
                   ELSE IF j.new \ db[SpecRow] # {} THEN "reindex" ELSE "write"
  OBVIOUS
<1>4. /\ pc[t] = "set" /\ pc' = [pc EXCEPT ![t] = l] /\ pc'[t] = l /\ job'[t] = i
      /\ Write(t, Row(SpecRow, db[SpecRow])) /\ UNCHANGED <<disk, sequence>>
  BY <1>1, <1>2, <1>3 DEF SetIndexSpecification, Goto, ThreadsOK
<1>5. /\ Agree({}) /\ j.at = 0 /\ Good(disk)
      /\ j.kind = "updateByName" => "updateByName" \in usage.ops[t]
  BY <1>1, <1>4 DEF Alone, Stage, Begun
<1>6. /\ i.is = db[SpecRow] /\ i.adds = j.new \ db[SpecRow] /\ i.at = 0
      /\ i.new = j.new /\ i.kind = j.kind
  BY <1>1, <1>2, <1>5 DEF ThreadsOK, Job
<1>7. \A r \in Rows : db'[r] = disk[r] /\ db[r] = disk[r]
  BY <1>4, <1>5, WriteRow, RowsAre DEF Agree
<1>8. Agree({})'
  BY <1>4, <1>7 DEF Agree
<1>9. Exact(db, i.is)' /\ Rest(db)' /\ db'[SpecRow] = i.is /\ db[SpecRow] = disk[SpecRow]
  <2>1. db'[SpecRow] = i.is /\ db[SpecRow] = disk[SpecRow]
    BY <1>6, <1>7, RowsAre
  <2>2. Exact(db, i.is)'
    BY <1>5, <1>6, <1>7, <2>1, RowsAre, IdsAre DEF Good, Exact, HasKey
  <2>3. Sole(db)'
    BY <1>5, <1>7, RowsAre DEF Good, Rest, Sole, UniqueKeys
  <2>4. Paired(db)' /\ NoZero(db)'
    BY <1>4, <1>5, <1>7, RowsAre, IdsAre DEF Good, Rest, Paired, NoZero
  <2> QED BY <2>1, <2>2, <2>3, <2>4 DEF Rest
<1>10. sequence' >= sequence
  BY <1>4 DEF ThreadsOK
<1>o. OneChange'
  <2>1. 1 \in Ids
    BY BoundAssumption DEF Ids
  <2>2. \A e \in Ids : /\ db'[MetaRow(e)] = disk'[MetaRow(e)]
                       /\ db'[ContentRow(e)] = disk'[ContentRow(e)]
    BY <1>4, <1>7, RowsAre, IdsAre
  <2> QED BY <2>1, <2>2 DEF OneChange
<1>11. CASE l = "clear"
  <2>1. Stage(t)'
    BY <1>4, <1>5, <1>6, <1>8, <1>9, <1>11 DEF Stage, Begun
  <2> QED BY <1>4, <1>10, <2>1, GoesOn
<1>12. CASE l \in {"reindex", "write"}
  <2>1. i.is \cap i.new = i.is /\ (l = "write" => i.adds = {})
    BY <1>3, <1>6, <1>12
  <2>2. Partly(i)'
    <3>1. \A d \in Ids : ~(d <= i.at)
      BY <1>6, BoundAssumption DEF Ids
    <3> QED BY <1>9, <2>1, <3>1 DEF Partly, Exact
  <2>3. Stage(t)'
    BY <1>4, <1>5, <1>6, <1>9, <1>12, <1>o, <2>1, <2>2 DEF Stage, Begun
  <2> QED BY <1>4, <1>10, <2>3, GoesOn
<1> QED BY <1>3, <1>11, <1>12

LEMMA RemoveAlone ==
  ASSUME StoreOK, ThreadsOK, NEW t \in Txns, Alone(t), UNCHANGED usage, ThreadsOK',
         RemoveIndexes(t)
  PROVE  Alone(t)'
<1>1. PICK j : j = job[t]
  OBVIOUS
<1>2. PICK l : l = IF j.adds = {} THEN "write" ELSE "reindex"
  OBVIOUS
<1> DEFINE gone == (j.is \ j.new) \X Values
           new == [r \in {KeyRow(k) : k \in gone} |-> {}]
<1>3. /\ pc[t] = "clear" /\ pc' = [pc EXCEPT ![t] = l] /\ pc'[t] = l /\ job'[t] = j
      /\ Write(t, new) /\ UNCHANGED <<disk, sequence>>
  BY <1>1, <1>2 DEF RemoveIndexes, Goto, ThreadsOK
<1>4. /\ Agree({}) /\ j.at = 0 /\ Good(disk) /\ j.is = disk[SpecRow] /\ j.adds = j.new \ j.is
      /\ j.kind = "updateByName" => "updateByName" \in usage.ops[t]
  BY <1>1, <1>3 DEF Alone, Stage, Begun
<1>5. j.is \in SUBSET Strategies /\ j.new \in SUBSET Strategies
  BY <1>1 DEF ThreadsOK, Job
<1>6. gone \subseteq Keys /\ \A k \in Keys : k \in gone <=> k[1] \in j.is \ j.new
  <2>1. gone \subseteq Keys
    BY <1>5 DEF Keys
  <2>2. ASSUME NEW k \in Keys PROVE k \in gone <=> k[1] \in j.is \ j.new
    <3>1. CASE k \in {NameIndex} \X Names
      BY <3>1, <1>5, NamesAssumption
    <3>2. CASE k \in Strategies \X Values
      BY <3>2
    <3> QED BY <3>1, <3>2 DEF Keys
  <2> QED BY <2>1, <2>2
<1>7. \A r \in Rows : db'[r] = IF r \in DOMAIN new THEN {} ELSE disk[r]
  BY <1>3, <1>4 DEF Write, Agree
<1>8. \A k \in Keys : db'[KeyRow(k)] = IF k[1] \in j.is \ j.new THEN {} ELSE disk[KeyRow(k)]
  BY <1>6, <1>7, KeyRowsDistinct, RowsAre
<1>9. /\ db'[SpecRow] = disk[SpecRow] /\ db'[MetaRow(0)] = disk[MetaRow(0)]
      /\ \A d \in Ids : /\ db'[MetaRow(d)] = disk[MetaRow(d)]
                        /\ db'[ContentRow(d)] = disk[ContentRow(d)]
  BY <1>6, <1>7, RowsAre, IdsAre, RowsDistinct
<1> HIDE DEF gone, new
<1>10. Rest(db)'
  <2>1. Sole(db)'
    BY <1>4, <1>8 DEF Good, Rest, Sole, UniqueKeys
  <2>2. Paired(db)' /\ NoZero(db)'
    BY <1>3, <1>4, <1>9 DEF Good, Rest, Paired, NoZero
  <2> QED BY <2>1, <2>2 DEF Rest
<1>11. Partly(j)'
  <2> SUFFICES ASSUME NEW k \in Keys, NEW d \in Ids
               PROVE  d \in db'[KeyRow(k)] <=> \/ HasKey(db', j.is \cap j.new, d, k)
                                               \/ d <= j.at /\ HasKey(db', j.adds, d, k)
    BY DEF Partly
  <2>1. ~(d <= j.at)
    BY <1>4, BoundAssumption DEF Ids
  <2>2. d \in disk[KeyRow(k)] <=> HasKey(disk, j.is, d, k)
    BY <1>4 DEF Good, Exact
  <2>3. HasKey(db', j.is \cap j.new, d, k) <=> HasKey(disk, j.is \cap j.new, d, k)
    BY <1>9 DEF HasKey
  <2>4. k[1] = NameIndex => k[1] \notin j.is
    BY <1>5, NamesAssumption
  <2> QED BY <2>1, <2>2, <2>3, <2>4, <1>8 DEF HasKey, HasKeyOf
<1>o. OneChange'
  <2>1. 1 \in Ids
    BY BoundAssumption DEF Ids
  <2> QED BY <1>3, <1>9, <2>1 DEF OneChange
<1>12. l \in {"write", "reindex"} /\ (l = "write" => j.adds = {})
  BY <1>2
<1>13. Stage(t)'
  BY <1>3, <1>4, <1>9, <1>10, <1>11, <1>12, <1>o DEF Stage, Begun
<1>14. sequence' >= sequence
  BY <1>3 DEF ThreadsOK
<1> QED BY <1>3, <1>13, <1>14, GoesOn

LEMMA ReindexAlone ==
  ASSUME StoreOK, ThreadsOK, NEW t \in Txns, Alone(t), UNCHANGED usage, ThreadsOK',
         Reindex(t)
  PROVE  Alone(t)'
<1>1. PICK j : j = job[t]
  OBVIOUS
<1>2. PICK d : d = j.at + 1
  OBVIOUS
<1>3. PICK i : i = [j EXCEPT !.at = d]
  OBVIOUS
<1> DEFINE keys == IF db[MetaRow(d)] = None THEN {} ELSE ContentKeys(j.adds, db[ContentRow(d)])
<1>4. /\ pc[t] = "reindex" /\ d <= MaxDocs /\ UNCHANGED <<disk, sequence>>
      /\ \/ pc' = [pc EXCEPT ![t] = "failed"] /\ UNCHANGED <<db, writer, job>>
         \/ /\ ~Violates(d, keys) /\ Write(t, Stashed(d, keys, {}))
            /\ job' = [job EXCEPT ![t] = i] /\ UNCHANGED pc
  BY <1>1, <1>2, <1>3 DEF Reindex, Fail
<1>5. /\ j \in Job /\ j.at \in 0..MaxDocs /\ d \in Ids
      /\ j.is \in SUBSET Strategies /\ j.new \in SUBSET Strategies /\ j.adds \in SUBSET Strategies
  BY <1>1, <1>2, <1>4, BoundAssumption DEF ThreadsOK, Job, Ids
<1>6. /\ i.is = j.is /\ i.new = j.new /\ i.adds = j.adds /\ i.at = d /\ i.kind = j.kind
  BY <1>3, <1>5 DEF Job
<1>7. /\ db[SpecRow] = j.is /\ Rest(db) /\ Partly(j) /\ OneChange /\ j.adds = j.new \ j.is
      /\ j.kind = "updateByName" => "updateByName" \in usage.ops[t]
  BY <1>1, <1>4 DEF Alone, Stage, Begun
<1>8. sequence' >= sequence
  BY <1>4 DEF ThreadsOK
<1>9. CASE pc' = [pc EXCEPT ![t] = "failed"] /\ UNCHANGED <<db, writer, job>>
  <2>1. pc'[t] = "failed" /\ job'[t] = j
    BY <1>1, <1>9 DEF ThreadsOK
  <2>2. Stage(t)'
    BY <1>7, <2>1 DEF Stage, Begun
  <2> QED BY <1>4, <1>8, <1>9, <2>2, GoesOn
<1>10. CASE /\ ~Violates(d, keys) /\ Write(t, Stashed(d, keys, {}))
            /\ job' = [job EXCEPT ![t] = i] /\ UNCHANGED pc
  <2>1. /\ job'[t] = i /\ pc'[t] = "reindex" /\ pc' = [pc EXCEPT ![t] = "reindex"]
    BY <1>4, <1>10 DEF ThreadsOK
  <2>2. /\ db[ContentRow(d)] \in Values \cup {None}
        /\ db[MetaRow(d)] = None <=> db[ContentRow(d)] = None
    BY <1>5, <1>7 DEF StoreOK, RowsOK, Rest, Paired
  <2>3. keys \in SUBSET Keys
    BY <1>5, <2>2, KeysAre
  <2>4. \A k \in Keys : k \in keys <=> k[1] # NameIndex /\ HasKey(db, j.adds, d, k)
    <3>1. ContentKeys(j.adds, None) = {}
      BY DEF ContentKeys
    <3> QED BY <1>5, <2>2, <3>1, KeysMatch DEF HasKey, HasKeyOf
  <2> HIDE DEF keys
  <2>5. /\ \A k \in Keys : db'[KeyRow(k)] = IF k \in keys THEN db[KeyRow(k)] \cup {d}
                                            ELSE db[KeyRow(k)]
        /\ \A r \in Rows \ KeyRows : db'[r] = db[r]
    <3>1. /\ \A k \in Keys :
               db'[KeyRow(k)] = IF k \in keys \ {} THEN db[KeyRow(k)] \cup {d}
                                ELSE IF k \in {} \ keys THEN db[KeyRow(k)] \ {d}
                                ELSE db[KeyRow(k)]
          /\ \A r \in Rows \ KeyRows : db'[r] = db[r]
      <4>1. Write(t, Stashed(d, keys, {})) /\ {} \in SUBSET Keys
        BY <1>10
      <4> QED BY <4>1, <2>3, WriteStash
    <3> QED BY <3>1
  <2>6. /\ db'[SpecRow] = db[SpecRow] /\ db'[MetaRow(0)] = db[MetaRow(0)]
        /\ \A e \in Ids : /\ db'[MetaRow(e)] = db[MetaRow(e)]
                          /\ db'[ContentRow(e)] = db[ContentRow(e)]
    BY <2>5, DocumentRows, IdsAre
  <2>7. Sole(db)'
    <3> SUFFICES ASSUME NEW k \in UniqueKeys(Keys), NEW e \in Ids, NEW f \in Ids,
                        e \in db'[KeyRow(k)], f \in db'[KeyRow(k)]
                 PROVE  e = f
      BY DEF Sole
    <3>1. k \in Keys /\ (k \in keys => k \in UniqueKeys(keys)) /\ Sole(db)
      BY <1>7 DEF UniqueKeys, Rest
    <3>2. CASE k \in keys
      <4>1. \A g \in Ids : g \in db[KeyRow(k)] => g = d
        BY <1>5, <1>10, <2>3, <3>1, <3>2, FirstIsAll
      <4>2. db'[KeyRow(k)] = db[KeyRow(k)] \cup {d}
        BY <2>5, <3>1, <3>2
      <4>3. e = d /\ f = d
        BY <4>1, <4>2
      <4> QED BY <4>3
    <3>3. CASE k \notin keys
      BY <2>5, <3>1, <3>3 DEF Sole
    <3> QED BY <3>2, <3>3
  <2>8. Paired(db)' /\ NoZero(db)'
    BY <1>4, <1>7, <2>6 DEF Rest, Paired, NoZero
  <2>9. Partly(i)'
    <3> SUFFICES ASSUME NEW k \in Keys, NEW e \in Ids
                 PROVE  e \in db'[KeyRow(k)] <=> \/ HasKey(db', i.is \cap i.new, e, k)
                                                 \/ e <= i.at /\ HasKey(db', i.adds, e, k)
      BY DEF Partly
    <3>1. \A is : HasKey(db', is, e, k) <=> HasKey(db, is, e, k)
      BY <2>6 DEF HasKey
    <3>2. e \in db[KeyRow(k)] <=> \/ HasKey(db, j.is \cap j.new, e, k)
                                  \/ e <= j.at /\ HasKey(db, j.adds, e, k)
      BY <1>7 DEF Partly
    <3>3. e <= d <=> e <= j.at \/ e = d
      BY <1>2, <1>5, BoundAssumption DEF Ids
    <3>4. e \in db'[KeyRow(k)] <=> e \in db[KeyRow(k)] \/ (e = d /\ k \in keys)
      BY <2>5
    <3>5. k[1] = NameIndex => (HasKey(db, j.adds, e, k) <=> HasKey(db, j.is \cap j.new, e, k))
      BY DEF HasKey, HasKeyOf
    <3>6. e = d => (k \in keys <=> k[1] # NameIndex /\ HasKey(db, j.adds, e, k))
      BY <2>4
    <3>7. HasKey(db', i.is \cap i.new, e, k) <=> HasKey(db, j.is \cap j.new, e, k)
      BY <3>1, <1>6
    <3>8. HasKey(db', i.adds, e, k) <=> HasKey(db, j.adds, e, k)
      BY <3>1, <1>6
    <3> QED BY <1>6, <3>2, <3>3, <3>4, <3>5, <3>6, <3>7, <3>8
  <2>o. OneChange'
    BY <1>4, <1>7, <2>6 DEF OneChange
  <2>10. Stage(t)'
    BY <2>o, <1>6, <1>7, <2>1, <2>6, <2>7, <2>8, <2>9 DEF Stage, Begun, Rest
  <2>11. \E new : Write(t, new)
    BY <1>10
  <2> QED BY <1>4, <1>8, <2>1, <2>10, <2>11, GoesOn
<1> QED BY <1>4, <1>9, <1>10

LEMMA PutSpecificationAlone ==
  ASSUME StoreOK, ThreadsOK, NEW t \in Txns, Alone(t), UNCHANGED usage, ThreadsOK',
         PutIndexSpecification(t)
  PROVE  Alone(t)'
<1>1. PICK j : j = job[t]
  OBVIOUS
<1>2. /\ pc[t] = "write" \/ (pc[t] = "reindex" /\ j.at = MaxDocs)
      /\ Write(t, Row(SpecRow, j.new)) /\ UNCHANGED <<disk, sequence>>
      /\ pc' = [pc EXCEPT ![t] = "done"] /\ pc'[t] = "done" /\ job'[t] = j
  BY <1>1 DEF PutIndexSpecification, Goto, ThreadsOK
<1>3. /\ db[SpecRow] = j.is /\ Rest(db) /\ Partly(j) /\ OneChange /\ j.adds = j.new \ j.is
      /\ pc[t] = "write" => j.adds = {}
      /\ j.kind = "updateByName" => "updateByName" \in usage.ops[t]
  BY <1>1, <1>2 DEF Alone, Stage
<1>4. db'[SpecRow] = j.new /\ \A r \in Rows \ {SpecRow} : db'[r] = db[r]
  BY <1>2, WriteRow, RowsAre
<1>5. /\ db'[MetaRow(0)] = db[MetaRow(0)]
      /\ \A d \in Ids : /\ db'[MetaRow(d)] = db[MetaRow(d)]
                        /\ db'[ContentRow(d)] = db[ContentRow(d)]
      /\ \A k \in Keys : db'[KeyRow(k)] = db[KeyRow(k)]
  BY <1>4, RowsAre, IdsAre, RowsDistinct
<1>6. Rest(db)'
  <2>1. Sole(db)'
    BY <1>3, <1>5 DEF Rest, Sole, UniqueKeys
  <2>2. Paired(db)' /\ NoZero(db)'
    BY <1>2, <1>3, <1>5 DEF Rest, Paired, NoZero
  <2> QED BY <2>1, <2>2 DEF Rest
<1>7. Exact(db, j.new)'
  <2> SUFFICES ASSUME NEW k \in Keys, NEW d \in Ids
               PROVE  d \in db'[KeyRow(k)] <=> HasKey(db', j.new, d, k)
    BY DEF Exact
  <2>1. HasKey(db', j.new, d, k) <=> HasKey(db, j.new, d, k)
    BY <1>5 DEF HasKey
  <2>2. d \in db[KeyRow(k)] <=> \/ HasKey(db, j.is \cap j.new, d, k)
                                \/ d <= j.at /\ HasKey(db, j.adds, d, k)
    BY <1>3 DEF Partly
  <2>3. d <= j.at \/ j.adds = {}
    BY <1>2, <1>3, BoundAssumption DEF Ids
  <2> QED BY <1>3, <1>5, <2>1, <2>2, <2>3 DEF HasKey, HasKeyOf
<1>8. Good(db)'
  BY <1>4, <1>6, <1>7 DEF Good
<1>o. OneChange'
  BY <1>2, <1>3, <1>5 DEF OneChange
<1>9. Stage(t)'
  BY <1>o, <1>2, <1>3, <1>8 DEF Stage, Begun
<1>10. sequence' >= sequence
  BY <1>2 DEF ThreadsOK
<1> QED BY <1>2, <1>9, <1>10, GoesOn

LEMMA GoodSame ==
  ASSUME NEW f, NEW g, \A r \in Rows : g[r] = f[r], Good(f)
  PROVE  Good(g)
<1>1. /\ g[SpecRow] = f[SpecRow] /\ g[MetaRow(0)] = f[MetaRow(0)]
      /\ \A d \in Ids : g[MetaRow(d)] = f[MetaRow(d)] /\ g[ContentRow(d)] = f[ContentRow(d)]
      /\ \A k \in Keys : g[KeyRow(k)] = f[KeyRow(k)]
  BY RowsAre, IdsAre
<1>2. Exact(g, g[SpecRow])
  BY <1>1 DEF Good, Exact, HasKey
<1>3. Sole(g)
  BY <1>1 DEF Good, Rest, Sole, UniqueKeys
<1>4. Paired(g) /\ NoZero(g)
  BY <1>1 DEF Good, Rest, Paired, NoZero
<1> QED BY <1>2, <1>3, <1>4 DEF Good, Rest

\* Nothing of a failed operation is committed: the container has transactions.
LEMMA EndAlone ==
  ASSUME StoreOK, ThreadsOK, NEW t \in Txns, Alone(t), UNCHANGED usage, ThreadsOK',
         Commit(t) \/ Abort(t)
  PROVE  Alone(t)'
<1>1. /\ pc' = [pc EXCEPT ![t] = "idle"] /\ pc'[t] = "idle" /\ job'[t] = NoJob
      /\ handle'[t] = NoHandle /\ sequence' = sequence
      /\ writer' = [r \in Rows |-> IF writer[r] = t THEN NoTxn ELSE writer[r]]
  BY DEF Commit, Abort, Release, ThreadsOK, Alone, Solo
<1>2. \A r \in Rows : writer[r] \in {t, NoTxn}
  BY DEF Alone, Solo, StoreOK
<1>3. /\ Good(disk)'
      /\ \A r \in Rows : db'[r] = disk'[r]
  <2>1. CASE Commit(t)
    <3>1. Good(db)
      BY <2>1 DEF Commit, Alone, Solo, Stage
    <3>2. \A r \in Rows : disk'[r] = db[r] /\ db'[r] = db[r]
      BY <2>1, <1>2 DEF Commit, StoreOK, Isolated
    <3>3. Good(disk')
      BY <3>1, <3>2, GoodSame
    <3> QED BY <1>1, <3>2, <3>3 DEF Good, Rest, Paired, NoZero, Sole, Exact
  <2>2. CASE Abort(t)
    <3>1. disk' = disk
      BY <2>2 DEF Abort
    <3>2. \A r \in Rows : db'[r] = disk[r]
      BY <2>2, <1>2 DEF Abort, StoreOK, Isolated
    <3>3. sequence \in Nat /\ sequence' >= sequence
      BY <1>1 DEF ThreadsOK
    <3>4. Good(disk)'
      BY <1>1, <3>1, <3>3, GoodStays DEF Alone
    <3> QED BY <3>1, <3>2, <3>4
  <2> QED BY <2>1, <2>2
<1>4. Solo(t)'
  BY <1>1, NamesAssumption DEF Alone, Solo, ThreadsOK
<1>5. Stage(t)'
  <2>1. NoJob.kind # "updateByName"
    BY NamesAssumption DEF NoJob, Kinds
  <2>2. Agree({})'
    BY <1>3 DEF Agree
  <2>3. \A r \in Rows : writer'[r] = NoTxn
    BY <1>1, <1>2
  <2> QED BY <1>1, <2>1, <2>2, <2>3 DEF Stage, Begun
<1> QED BY <1>3, <1>4, <1>5 DEF Alone

\* The other threads do nothing.
LEMMA OthersIdle ==
  ASSUME ThreadsOK, NEW t \in Txns, Alone(t), UNCHANGED usage, ThreadsOK', StoreOK,
         NEW s \in Txns,
         \/ \E n \in Names : Get(s, n) \/ Rename(s, n) \/ DeleteByName(s, n)
         \/ \E n \in Names, v \in Values : Put(s, n, v) \/ UpdateByName(s, n, v)
         \/ \E v \in Values : Update(s, v)
         \/ \E i \in Strategies : AddIndex(s, i) \/ DeleteIndex(s, i)
         \/ GetRead(s) \/ Delete(s) \/ Add(s) \/ WriteMetaData(s) \/ UpdateIndex(s)
         \/ Replace(s) \/ ReplaceName(s)
         \/ Fetch(s) \/ InitDelete(s) \/ RemoveContentAndIndex(s)
         \/ SetIndexSpecification(s) \/ RemoveIndexes(s) \/ Reindex(s)
         \/ PutIndexSpecification(s)
         \/ Commit(s) \/ Abort(s)
  PROVE  s = t
<1> SUFFICES ASSUME s # t PROVE FALSE
  OBVIOUS
<1>1. usage.ops[s] = {} /\ pc[s] = "idle"
  BY DEF Alone, Solo
<1>2. CASE \/ \E n \in Names : Get(s, n) \/ Rename(s, n) \/ DeleteByName(s, n)
           \/ \E n \in Names, v \in Values : Put(s, n, v) \/ UpdateByName(s, n, v)
           \/ \E v \in Values : Update(s, v)
           \/ \E i \in Strategies : AddIndex(s, i) \/ DeleteIndex(s, i)
           \/ Delete(s)
  BY <1>1, <1>2 DEF Get, Rename, DeleteByName, Put, UpdateByName, Update, AddIndex, DeleteIndex,
                    Change, Delete, OnHandle
<1>3. CASE \/ GetRead(s) \/ Add(s) \/ WriteMetaData(s) \/ UpdateIndex(s)
           \/ Replace(s) \/ ReplaceName(s)
           \/ Fetch(s) \/ InitDelete(s) \/ RemoveContentAndIndex(s)
  BY <1>1, <1>3 DEF GetRead, Add, WriteMetaData, UpdateIndex, Replace, ReplaceName, Fetch,
                    InitDelete, RemoveContentAndIndex
<1>4. CASE \/ SetIndexSpecification(s) \/ RemoveIndexes(s) \/ Reindex(s)
           \/ PutIndexSpecification(s) \/ Commit(s) \/ Abort(s)
  BY <1>1, <1>4 DEF SetIndexSpecification, RemoveIndexes, Reindex, PutIndexSpecification,
                    Commit, Abort
<1> QED BY <1>2, <1>3, <1>4

-----------------------------------------------------------------------------
LEMMA AtMostOne ==
  ASSUME NEW S \in SUBSET Ids
  PROVE  Cardinality(S) <= 1 <=> \A d, e \in S : d = e
<1>1. IsFiniteSet(S)
  <2>1. IsFiniteSet(Ids)
    BY BoundAssumption, FS_Interval DEF Ids
  <2> QED BY <2>1, FS_Subset
<1>2. ASSUME \A d, e \in S : d = e PROVE Cardinality(S) <= 1
  <2>1. CASE S = {}
    BY <2>1, FS_EmptySet
  <2>2. ASSUME NEW d \in S PROVE Cardinality(S) <= 1
    <3>1. S = {d}
      BY <1>2, <2>2
    <3> QED BY <3>1, FS_Singleton
  <2> QED BY <2>1, <2>2
<1>3. ASSUME Cardinality(S) <= 1, NEW d \in S, NEW e \in S PROVE d = e
  <2>1. Cardinality(S) \in Nat
    BY <1>1, FS_CardinalityType
  <2>2. Cardinality(S) = 0 \/ Cardinality(S) = 1
    BY <1>3, <2>1
  <2>3. Cardinality(S) # 0
    BY <1>1, <1>3, FS_EmptySet
  <2>4. \E x : S = {x}
    BY <1>1, <2>2, <2>3, FS_Singleton
  <2> QED BY <1>3, <2>4
<1> QED BY <1>2, <1>3

LEMMA InitGood ==
  ASSUME Init
  PROVE  Good(disk)
<1> USE DEF Init
<1>3. PICK is \in SUBSET Strategies,
           name \in [Ids -> Names \cup {None}], value \in [Ids -> Values \cup {None}] :
        /\ \A d \in Ids : (name[d] = None <=> value[d] = None) /\ (d > sequence => name[d] = None)
        /\ \A k \in Keys : k[1] \in Unique \cup {NameIndex} =>
                             Cardinality(Indexes(is, name, value, k)) <= 1
        /\ db = [r \in Rows |->
                   IF r = SpecRow THEN is
                   ELSE IF r[1] = "key" THEN Indexes(is, name, value, <<r[2], r[3]>>)
                   ELSE IF r = MetaRow(0) THEN None
                   ELSE IF r[1] = "metadata" THEN name[r[2]] ELSE value[r[2]]]
  OBVIOUS
<1>4. db[SpecRow] = is /\ disk = db
  BY <1>3, RowsAre
<1>5. db[MetaRow(0)] = None
  BY <1>3, RowsAre, IdsAre, RowsDistinct DEF MetaRow
<1>6. ASSUME NEW d \in Ids PROVE db[MetaRow(d)] = name[d] /\ db[ContentRow(d)] = value[d]
  <2>1. MetaRow(d) \in Rows /\ ContentRow(d) \in Rows /\ MetaRow(d) # MetaRow(0)
    BY RowsAre, IdsAre, RowsDistinct
  <2>2. MetaRow(d) # SpecRow /\ ContentRow(d) # SpecRow /\ ContentRow(d) # MetaRow(0)
    BY RowsDistinct
  <2>3. /\ MetaRow(d)[1] = "metadata" /\ MetaRow(d)[2] = d
        /\ ContentRow(d)[1] = "content" /\ ContentRow(d)[2] = d
    BY DEF MetaRow, ContentRow
  <2> QED BY <1>3, <2>1, <2>2, <2>3
<1>7. ASSUME NEW k \in Keys PROVE db[KeyRow(k)] = Indexes(is, name, value, k)
  <2>1. KeyRow(k) \in Rows /\ KeyRow(k) # SpecRow
    BY RowsAre, RowsDistinct
  <2>2. KeyRow(k)[1] = "key" /\ <<KeyRow(k)[2], KeyRow(k)[3]>> = k
    BY DEF KeyRow, Keys
  <2> QED BY <1>3, <2>1, <2>2
<1>n. /\ \A d \in Ids : (name[d] = None <=> value[d] = None) /\ (d > sequence => name[d] = None)
      /\ \A k \in Keys : k[1] \in Unique \cup {NameIndex} =>
                           Cardinality(Indexes(is, name, value, k)) <= 1
  BY <1>3
<1> HIDE DEF Init
<1>8. Exact(disk, disk[SpecRow])
  <2> SUFFICES ASSUME NEW k \in Keys, NEW d \in Ids
               PROVE  d \in disk[KeyRow(k)] <=> HasKey(disk, disk[SpecRow], d, k)
    BY DEF Exact
  <2>1. disk[KeyRow(k)] = Indexes(is, name, value, k)
    BY <1>4, <1>7
  <2>2. d \in Indexes(is, name, value, k) <=>
          IF k[1] = NameIndex THEN name[d] = k[2] ELSE k[1] \in is /\ value[d] = k[2]
    BY DEF Indexes
  <2>3. HasKey(disk, disk[SpecRow], d, k) <=>
          IF k[1] = NameIndex THEN name[d] = k[2] ELSE k[1] \in is /\ value[d] = k[2]
    BY <1>4, <1>6 DEF HasKey, HasKeyOf
  <2> QED BY <2>1, <2>2, <2>3
<1>9. Sole(disk)
  <2> SUFFICES ASSUME NEW k \in UniqueKeys(Keys), NEW d \in Ids, NEW e \in Ids,
                      d \in disk[KeyRow(k)], e \in disk[KeyRow(k)]
               PROVE  d = e
    BY DEF Sole
  <2>1. k \in Keys /\ Cardinality(disk[KeyRow(k)]) <= 1
    BY <1>n, <1>4, <1>7 DEF UniqueKeys
  <2>2. Indexes(is, name, value, k) \in SUBSET Ids
    BY DEF Indexes
  <2>3. disk[KeyRow(k)] \in SUBSET Ids
    BY <1>4, <1>7, <2>1, <2>2
  <2> QED BY <2>1, <2>3, AtMostOne
<1>10. Paired(disk) /\ NoZero(disk)
  <2>1. disk = db
    BY <1>4
  <2>2. ASSUME NEW d \in Ids
        PROVE  /\ disk[MetaRow(d)] = None <=> disk[ContentRow(d)] = None
               /\ d > sequence => disk[MetaRow(d)] = None
    <3>1. disk[MetaRow(d)] = name[d] /\ disk[ContentRow(d)] = value[d]
      BY <2>1, <1>6
    <3> QED BY <3>1, <1>n
  <2> QED BY <2>1, <2>2, <1>5 DEF NoZero, Paired
<1> QED BY <1>8, <1>9, <1>10 DEF Good, Rest

LEMMA InitAlone ==
  ASSUME OneActs, Init
  PROVE  \E t \in Txns : Alone(t)
<1>1. PICK t \in Txns : ~usage.keep /\ usage.transacted /\ \A s \in Txns \ {t} : usage.ops[s] = {}
  BY DEF OneActs, Init
<1>2. Solo(t)
  BY <1>1, NamesAssumption DEF Solo, Init
<1>3. Stage(t)
  <2>1. /\ pc[t] = "idle" /\ job[t] = NoJob /\ handle[t] = NoHandle /\ disk = db
        /\ \A r \in Rows : writer[r] = NoTxn
    BY DEF Init
  <2>2. NoJob.kind # "updateByName"
    BY NamesAssumption DEF NoJob, Kinds
  <2> QED BY <2>1, <2>2 DEF Stage, Begun, Agree
<1> QED BY <1>2, <1>3, InitGood DEF Alone

LEMMA OrderIsRight ==
  ASSUME StoreOK, Exact(disk, disk[SpecRow]), Paired(disk), NoZero(disk)
  PROVE  IndexExact /\ Whole
<1>1. Whole
  BY DEF Paired, NoZero, Whole, InContainer
<1>2. IndexExact
  <2> SUFFICES ASSUME NEW k \in Keys PROVE disk[KeyRow(k)] = Indexed(k)
    BY DEF IndexExact
  <2>1. disk[KeyRow(k)] \in SUBSET Ids
    BY DEF StoreOK, RowsOK
  <2>2. \A d \in Ids : (IF InContainer(d) THEN disk[ContentRow(d)] ELSE None) = disk[ContentRow(d)]
    BY DEF Paired, InContainer
  <2>3. \A d \in Ids : d \in Indexed(k) <=> HasKey(disk, disk[SpecRow], d, k)
    BY <2>2 DEF Indexed, Indexes, HasKey, HasKeyOf
  <2>4. Indexed(k) \in SUBSET Ids
    BY DEF Indexed, Indexes
  <2> QED BY <2>1, <2>3, <2>4 DEF Exact
<1> QED BY <1>1, <1>2

LEMMA SoleIsUnique ==
  ASSUME StoreOK, Sole(disk)
  PROVE  UniqueHeld
<1> SUFFICES ASSUME NEW k \in UniqueKeys(Keys) PROVE Cardinality(disk[KeyRow(k)]) <= 1
  BY DEF UniqueHeld
<1>1. disk[KeyRow(k)] \in SUBSET Ids
  BY DEF StoreOK, RowsOK, UniqueKeys
<1>2. \A d, e \in disk[KeyRow(k)] : d = e
  BY <1>1 DEF Sole
<1> QED BY <1>1, <1>2, AtMostOne

AloneInv == \E t \in Txns : Alone(t)

LEMMA StepAlone ==
  ASSUME TypeOK, AloneInv, Next, TypeOK'
  PROVE  AloneInv'
<1>1. PICK t \in Txns : Alone(t)
  BY DEF AloneInv
<1>2. StoreOK /\ ThreadsOK /\ ThreadsOK' /\ UNCHANGED usage
  BY TypeParts DEF Next, TypeOK, ThreadsOK
<1>3. ASSUME NEW s \in Txns,
             \/ \E n \in Names : Get(s, n) \/ Rename(s, n) \/ DeleteByName(s, n)
             \/ \E n \in Names, v \in Values : Put(s, n, v) \/ UpdateByName(s, n, v)
             \/ \E v \in Values : Update(s, v)
             \/ \E i \in Strategies : AddIndex(s, i) \/ DeleteIndex(s, i)
             \/ Delete(s)
      PROVE  Alone(t)'
  <2>1. s = t
    BY <1>1, <1>2, <1>3, OthersIdle
  <2> QED BY <1>1, <1>2, <1>3, <2>1, StartAlone
<1>4. ASSUME NEW s \in Txns,
             \/ GetRead(s) \/ Fetch(s) \/ InitDelete(s)
             \/ Add(s) \/ Replace(s) \/ ReplaceName(s) \/ RemoveContentAndIndex(s)
             \/ WriteMetaData(s) \/ UpdateIndex(s)
             \/ SetIndexSpecification(s) \/ RemoveIndexes(s) \/ Reindex(s)
             \/ PutIndexSpecification(s) \/ Commit(s) \/ Abort(s)
      PROVE  Alone(t)'
  <2>1. s = t
    BY <1>1, <1>2, <1>4, OthersIdle
  <2> QED BY <1>1, <1>2, <1>4, <2>1, ReadAlone, PlanAlone, WriteMetaDataAlone, UpdateIndexAlone,
             SetAlone, RemoveAlone, ReindexAlone, PutSpecificationAlone, EndAlone
<1>5. Alone(t)'
  BY <1>3, <1>4 DEF Next
<1> QED BY <1>5 DEF AloneInv

LEMMA AloneAlways ==
  ASSUME OneActs
  PROVE  Spec => []AloneInv
<1>1. Init => AloneInv
  BY InitAlone DEF AloneInv
<1>2. TypeOK /\ AloneInv /\ [Next]_vars /\ TypeOK' => AloneInv'
  <2> SUFFICES ASSUME TypeOK, AloneInv, [Next]_vars, TypeOK' PROVE AloneInv'
    OBVIOUS
  <2>1. CASE UNCHANGED vars
    <3>1. PICK t \in Txns : Alone(t)
      BY DEF AloneInv
    <3>2. UNCHANGED <<usage, db, disk, writer, sequence, pc, job, handle>>
      BY <2>1 DEF vars
    <3>3. Solo(t)' /\ Good(disk)'
      BY <3>1, <3>2 DEF Alone, Solo, Good, Exact, Rest, Sole, Paired, NoZero
    <3>4. Good(db)' <=> Good(db)
      BY <3>2 DEF Good, Exact, Rest, Sole, Paired, NoZero
    <3>5. Rest(db)' <=> Rest(db)
      BY <3>2 DEF Rest, Sole, Paired, NoZero
    <3>6. Planned(job[t])' <=> Planned(job[t])
      BY <3>2 DEF Planned, NewName
    <3>7. Partly(job[t])' <=> Partly(job[t])
      BY <3>2 DEF Partly
    <3>o. OneChange' <=> OneChange
      BY <3>2 DEF OneChange
    <3>8. Stage(t)'
      BY <3>1, <3>2, <3>4, <3>5, <3>6, <3>7, <3>o DEF Alone, Stage, Agree, NoZero, NewName
    <3> QED BY <3>3, <3>8 DEF Alone, AloneInv
  <2> QED BY <2>1, StepAlone
<1> QED BY <1>1, <1>2, TypeCorrect, PTL DEF Spec

LEMMA AloneIsRight ==
  ASSUME OneActs
  PROVE  Spec => [](IndexExact /\ UniqueHeld /\ Whole)
<1>1. TypeOK /\ AloneInv => IndexExact /\ UniqueHeld /\ Whole
  BY OrderIsRight, SoleIsUnique, TypeParts DEF AloneInv, Alone, Good, Rest
<1>2. Spec => []AloneInv
  BY AloneAlways
<1> QED BY <1>1, <1>2, TypeCorrect, PTL

\* If one thread uses a container with transactions and keeps no XmlDocument
\* objects from one transaction to the next,
\* then under each key of the enabled indexes are exactly the documents that have
\* it, and none under any other, whatever was put, updated, renamed, deleted,
\* indexed and reindexed, with auto-indexing and without.
THEOREM IndexesExact ==
  ASSUME OneActs
  PROVE  Spec => []IndexExact
<1>1. Spec => [](IndexExact /\ UniqueHeld /\ Whole)
  BY AloneIsRight
<1> QED BY <1>1, PTL

\* Under the same conditions no two documents have the same name, nor the same
\* value where a unique index is enabled.
THEOREM UniquenessHeld ==
  ASSUME OneActs
  PROVE  Spec => []UniqueHeld
<1>1. Spec => [](IndexExact /\ UniqueHeld /\ Whole)
  BY AloneIsRight
<1> QED BY <1>1, PTL

\* Under the same conditions a document has content and metadata or neither.
THEOREM DocumentsWhole ==
  ASSUME OneActs
  PROVE  Spec => []Whole
<1>1. Spec => [](IndexExact /\ UniqueHeld /\ Whole)
  BY AloneIsRight
<1> QED BY <1>1, PTL

-----------------------------------------------------------------------------
(* The container that one thread uses, as a store of documents *)

\* What a lookup by name finds in these rows.
FindIn(rows, n) ==
  LET es == rows[KeyRow(NameKey(n))] IN
  IF es = {} THEN None ELSE rows[ContentRow(Min(es))]

Docs == [n \in Names |-> Find(n)]

LEMMA FindsDocument ==
  ASSUME NEW f, RowsOK(f), Exact(f, f[SpecRow]), Sole(f), NEW n \in Names
  PROVE  /\ \A d \in Ids : f[MetaRow(d)] = n => FindIn(f, n) = f[ContentRow(d)]
         /\ (\A d \in Ids : f[MetaRow(d)] # n) => FindIn(f, n) = None
         /\ \A d, e \in Ids : f[MetaRow(d)] = n /\ f[MetaRow(e)] = n => d = e
         /\ FindIn(f, n) \in Values \cup {None}
<1> DEFINE k == NameKey(n)
           es == f[KeyRow(k)]
<1>1. k \in UniqueKeys(Keys) /\ k \in Keys /\ k[1] = NameIndex /\ k[2] = n
  BY DEF NameKey, Keys, UniqueKeys
<1>2. es \in SUBSET Ids /\ \A d \in Ids : d \in es <=> f[MetaRow(d)] = n
  BY <1>1 DEF RowsOK, Exact, HasKey, HasKeyOf
<1>3. \A d, e \in es : d = e
  BY <1>1, <1>2 DEF Sole
<1>4. ASSUME NEW d \in es PROVE FindIn(f, n) = f[ContentRow(d)]
  <2>1. es = {d} /\ d \in Nat
    BY <1>2, <1>3 DEF Ids
  <2>2. Min(es) = d
    BY <2>1 DEF Min
  <2> QED BY <2>1, <2>2 DEF FindIn
<1>5. es = {} => FindIn(f, n) = None
  BY DEF FindIn
<1>6. \A d \in Ids : f[ContentRow(d)] \in Values \cup {None}
  BY DEF RowsOK
<1>7. FindIn(f, n) \in Values \cup {None}
  BY <1>2, <1>4, <1>5, <1>6
<1> QED BY <1>2, <1>3, <1>4, <1>5, <1>7

\* From map A one operation, or none, leads to map B.
AtMostOneOperation(A, B) ==
  \/ B = A
  \/ \E n \in Names :
       \/ A[n] # None /\ B = [A EXCEPT ![n] = None]
       \/ \E v \in Values : B = [A EXCEPT ![n] = v]
       \/ \E m \in Names : /\ A[n] # None /\ A[m] = None
                           /\ B = [A EXCEPT ![n] = None, ![m] = A[n]]

\* In a container in good order the change of one document is one operation.
LEMMA ChangeIsOne ==
  ASSUME NEW f, RowsOK(f), Exact(f, f[SpecRow]), Sole(f), Paired(f),
         NEW g, RowsOK(g), Exact(g, g[SpecRow]), Sole(g), Paired(g),
         NEW A, A = [n \in Names |-> A[n]], \A n \in Names : A[n] = FindIn(f, n),
         NEW B, B = [n \in Names |-> B[n]], \A n \in Names : B[n] = FindIn(g, n),
         NEW d \in Ids,
         \A e \in Ids \ {d} : /\ g[MetaRow(e)] = f[MetaRow(e)]
                              /\ g[ContentRow(e)] = f[ContentRow(e)],
         \/ g[MetaRow(d)] = f[MetaRow(d)] \/ f[MetaRow(d)] = None
         \/ g[MetaRow(d)] = None \/ g[ContentRow(d)] = f[ContentRow(d)]
  PROVE  AtMostOneOperation(A, B)
<1> DEFINE o == f[MetaRow(d)]
           m == g[MetaRow(d)]
<1>1. o \in Names \cup {None} /\ m \in Names \cup {None} /\ None \notin Names /\ None \notin Values
  BY IdsAre, NamesAssumption DEF RowsOK
<1>2. ASSUME NEW n \in Names, n # o, n # m PROVE B[n] = A[n]
  <2>1. CASE \E e \in Ids : f[MetaRow(e)] = n
    <3>1. PICK e \in Ids : f[MetaRow(e)] = n
      BY <2>1
    <3>2. e # d /\ g[MetaRow(e)] = n /\ g[ContentRow(e)] = f[ContentRow(e)]
      BY <1>2, <3>1
    <3>3. FindIn(f, n) = f[ContentRow(e)]
      BY <3>1, FindsDocument
    <3>4. FindIn(g, n) = g[ContentRow(e)]
      BY <3>2, FindsDocument
    <3> QED BY <3>2, <3>3, <3>4
  <2>2. CASE \A e \in Ids : f[MetaRow(e)] # n
    <3>1. \A e \in Ids : g[MetaRow(e)] # n
      BY <1>2, <2>2
    <3>2. FindIn(f, n) = None
      BY <2>2, FindsDocument
    <3>3. FindIn(g, n) = None
      BY <3>1, FindsDocument
    <3> QED BY <3>2, <3>3
  <2> QED BY <2>1, <2>2
<1>3. ASSUME o # None
      PROVE  o \in Names /\ A[o] = f[ContentRow(d)] /\ f[ContentRow(d)] \in Values
  <2>1. o \in Names
    BY <1>1, <1>3
  <2>2. FindIn(f, o) = f[ContentRow(d)]
    BY <2>1, FindsDocument
  <2>3. f[ContentRow(d)] \in Values
    BY <1>3 DEF RowsOK, Paired
  <2> QED BY <2>1, <2>2, <2>3
<1>4. ASSUME m # None
      PROVE  m \in Names /\ B[m] = g[ContentRow(d)] /\ g[ContentRow(d)] \in Values
  <2>1. m \in Names
    BY <1>1, <1>4
  <2>2. FindIn(g, m) = g[ContentRow(d)]
    BY <2>1, FindsDocument
  <2>3. g[ContentRow(d)] \in Values
    BY <1>4 DEF RowsOK, Paired
  <2> QED BY <2>1, <2>2, <2>3
<1>5. ASSUME o # m, o # None PROVE B[o] = None
  <2>1. o \in Names
    BY <1>3, <1>5
  <2>2. ASSUME NEW e \in Ids PROVE g[MetaRow(e)] # o
    <3>1. CASE e = d
      BY <1>5, <3>1
    <3>2. CASE e # d
      BY <2>1, <3>2, FindsDocument
    <3> QED BY <3>1, <3>2
  <2>3. FindIn(g, o) = None
    BY <2>1, <2>2, FindsDocument
  <2> QED BY <2>1, <2>3
<1>6. ASSUME o # m, m # None PROVE A[m] = None
  <2>1. m \in Names
    BY <1>4, <1>6
  <2>2. ASSUME NEW e \in Ids PROVE f[MetaRow(e)] # m
    <3>1. CASE e = d
      BY <1>6, <3>1
    <3>2. CASE e # d
      BY <2>1, <3>2, FindsDocument
    <3> QED BY <3>1, <3>2
  <2>3. FindIn(f, m) = None
    BY <2>1, <2>2, FindsDocument
  <2> QED BY <2>1, <2>3
<1> HIDE DEF o, m
<1>7. CASE o = None /\ m = None
  BY <1>1, <1>2, <1>7 DEF AtMostOneOperation
<1>8. CASE m # None /\ (o = None \/ o = m)
  <2>1. \A n \in Names : B[n] = IF n = m THEN g[ContentRow(d)] ELSE A[n]
    BY <1>1, <1>2, <1>4, <1>8
  <2>2. B = [A EXCEPT ![m] = g[ContentRow(d)]]
    BY <2>1
  <2> QED BY <1>4, <1>8, <2>2 DEF AtMostOneOperation
<1>9. CASE o # None /\ m = None
  <2>1. \A n \in Names : B[n] = IF n = o THEN None ELSE A[n]
    BY <1>1, <1>2, <1>5, <1>9
  <2>2. B = [A EXCEPT ![o] = None]
    BY <2>1
  <2> QED BY <1>1, <1>3, <1>9, <2>2 DEF AtMostOneOperation
<1>10. CASE o # None /\ m # None /\ o # m
  <2>1. g[ContentRow(d)] = f[ContentRow(d)]
    BY <1>10 DEF o, m
  <2>2. \A n \in Names : B[n] = IF n = m THEN A[o] ELSE IF n = o THEN None ELSE A[n]
    BY <1>1, <1>2, <1>3, <1>4, <1>5, <1>10, <2>1
  <2>3. B = [A EXCEPT ![o] = None, ![m] = A[o]]
    BY <1>3, <1>4, <2>2
  <2> QED BY <1>1, <1>3, <1>4, <1>6, <1>10, <2>3 DEF AtMostOneOperation
<1> QED BY <1>7, <1>8, <1>9, <1>10

\* A commit that changes one document is a step of the store.
LEMMA ChangeIsStep ==
  ASSUME StoreOK, StoreOK', Exact(disk, disk[SpecRow]), Sole(disk), Paired(disk),
         Exact(disk', disk'[SpecRow]), Sole(disk'), Paired(disk'), NEW d \in Ids,
         \A e \in Ids \ {d} : /\ disk'[MetaRow(e)] = disk[MetaRow(e)]
                              /\ disk'[ContentRow(e)] = disk[ContentRow(e)],
         \/ disk'[MetaRow(d)] = disk[MetaRow(d)] \/ disk[MetaRow(d)] = None
         \/ disk'[MetaRow(d)] = None \/ disk'[ContentRow(d)] = disk[ContentRow(d)]
  PROVE  [Store!Next]_Docs
<1> DEFINE A == [n \in Names |-> FindIn(disk, n)]
           B == [n \in Names |-> FindIn(disk', n)]
<1>1. RowsOK(disk) /\ RowsOK(disk')
  BY DEF StoreOK, RowsOK
<1>2. AtMostOneOperation(A, B)
  <2>1. /\ A = [n \in Names |-> A[n]] /\ \A n \in Names : A[n] = FindIn(disk, n)
        /\ B = [n \in Names |-> B[n]] /\ \A n \in Names : B[n] = FindIn(disk', n)
    OBVIOUS
  <2> HIDE DEF A, B
  <2> QED BY <1>1, <2>1, ChangeIsOne
<1>3. Docs = A /\ Docs' = B
  BY DEF Docs, Find, FindIn
<1>4. [n \in Names |-> Find(n)] = A /\ [n \in Names |-> Find(n)]' = B
  BY <1>3 DEF Docs
<1> HIDE DEF A, B
<1>5. CASE B = A
  BY <1>3, <1>5
<1>6. ASSUME NEW n \in Names, A[n] # None, B = [A EXCEPT ![n] = None] PROVE Store!Next
  BY <1>4, <1>6 DEF Store!Next, Store!Delete
<1>7. ASSUME NEW n \in Names, NEW v \in Values, B = [A EXCEPT ![n] = v] PROVE Store!Next
  BY <1>4, <1>7 DEF Store!Next, Store!Put, Store!Update
<1>8. ASSUME NEW n \in Names, NEW m \in Names, A[n] # None, A[m] = None,
              B = [A EXCEPT ![n] = None, ![m] = A[n]]
       PROVE  Store!Next
  BY <1>4, <1>8 DEF Store!Next, Store!Rename
<1> QED BY <1>2, <1>5, <1>6, <1>7, <1>8 DEF AtMostOneOperation

LEMMA CommitIsOne ==
  ASSUME StoreOK, StoreOK', NEW t \in Txns, Alone(t), Alone(t)', Commit(t)
  PROVE  [Store!Next]_Docs
<1>1. \A r \in Rows : disk'[r] = db[r]
  BY DEF Commit, Alone, Solo, StoreOK, Isolated
<1>2. PICK d \in Ids :
        /\ \A e \in Ids \ {d} : /\ db[MetaRow(e)] = disk[MetaRow(e)]
                                /\ db[ContentRow(e)] = disk[ContentRow(e)]
        /\ \/ db[MetaRow(d)] = disk[MetaRow(d)] \/ disk[MetaRow(d)] = None
           \/ db[MetaRow(d)] = None \/ db[ContentRow(d)] = disk[ContentRow(d)]
  BY DEF Commit, Alone, Solo, Stage, OneChange
<1>3. \A e \in Ids : disk'[MetaRow(e)] = db[MetaRow(e)] /\ disk'[ContentRow(e)] = db[ContentRow(e)]
  BY <1>1, RowsAre, IdsAre
<1>4. /\ Exact(disk, disk[SpecRow]) /\ Sole(disk) /\ Paired(disk)
      /\ Exact(disk', disk'[SpecRow]) /\ Sole(disk') /\ Paired(disk')
  <2>1. sequence' = sequence
    BY DEF Commit
  <2> QED BY <2>1 DEF Alone, Good, Rest, Exact, Sole, Paired
<1>5. \A e \in Ids \ {d} : /\ disk'[MetaRow(e)] = disk[MetaRow(e)]
                          /\ disk'[ContentRow(e)] = disk[ContentRow(e)]
  BY <1>2, <1>3
<1>6. \/ disk'[MetaRow(d)] = disk[MetaRow(d)] \/ disk[MetaRow(d)] = None
      \/ disk'[MetaRow(d)] = None \/ disk'[ContentRow(d)] = disk[ContentRow(d)]
  BY <1>2, <1>3
<1> QED BY <1>4, <1>5, <1>6, ChangeIsStep

LEMMA DocsTyped ==
  ASSUME StoreOK, Exact(disk, disk[SpecRow]), Sole(disk)
  PROVE  Docs \in [Names -> Values \cup {None}]
<1>1. RowsOK(disk)
  BY DEF StoreOK
<1>2. ASSUME NEW n \in Names PROVE FindIn(disk, n) \in Values \cup {None}
  BY <1>1, FindsDocument
<1> QED BY <1>2 DEF Docs, Find, FindIn

\* If one thread uses a container with transactions and keeps no XmlDocument
\* objects from one transaction to the next,
\* then to those who look documents up by name the container is a map from names
\* to contents: a commit puts, updates, renames or deletes one document, or
\* changes none, and nothing else changes any.
THEOREM ContainerIsStore ==
  ASSUME OneActs
  PROVE  Spec => Refines
<1>1. Init /\ TypeOK => Store!Init
  <2> SUFFICES ASSUME Init, TypeOK PROVE Store!Init
    OBVIOUS
  <2>1. Exact(disk, disk[SpecRow]) /\ Sole(disk)
    BY InitGood DEF Good, Rest
  <2> QED BY <2>1, TypeParts, DocsTyped DEF Store!Init, Docs
<1>2. TypeOK /\ TypeOK' /\ AloneInv /\ [Next]_vars => [Store!Next]_Docs
  <2> SUFFICES ASSUME TypeOK, TypeOK', AloneInv, [Next]_vars PROVE [Store!Next]_Docs
    OBVIOUS
  <2>1. CASE ~Next \/ ~\E t \in Txns : Commit(t)
    <3>1. disk' = disk
      BY <2>1, CommitsAlone DEF vars
    <3> QED BY <3>1 DEF Docs, Find
  <2>2. ASSUME Next, NEW s \in Txns, Commit(s) PROVE [Store!Next]_Docs
    <3>1. PICK t \in Txns : Alone(t)
      BY DEF AloneInv
    <3>2. StoreOK /\ StoreOK' /\ ThreadsOK /\ ThreadsOK' /\ UNCHANGED usage
      BY <2>2, TypeParts DEF Next, TypeOK, StoreOK, ThreadsOK, Isolated, RowsOK
    <3>3. s = t
      BY <2>2, <3>1, <3>2, OthersIdle
    <3>4. Alone(t)'
      BY <2>2, <3>1, <3>2, <3>3, EndAlone
    <3> QED BY <2>2, <3>1, <3>2, <3>3, <3>4, CommitIsOne
  <2> QED BY <2>1, <2>2
<1>3. Spec => []AloneInv
  BY AloneAlways
<1>4. Spec => [][Store!Next]_Docs
  BY <1>2, <1>3, TypeCorrect, PTL DEF Spec
<1> QED BY <1>1, <1>4, TypeCorrect, PTL DEF Spec, Refines, Store!Spec, Docs
-----------------------------------------------------------------------------
(* A container that many threads use *)

Updates == {"update", "updateByName"}
Deletes == {"delete", "deleteByName"}

\* The documents that thread t has found may be deleted before it changes them.
MayVanish(u, t) ==
  \E s \in Txns : (s # t \/ u.keep) /\ u.ops[s] \cap Deletes # {}

\* Nobody changes the specification, documents that may be deleted are not
\* updated or renamed, and where documents are updated the container has
\* transactions.
Calm(u) ==
  /\ ~u.auto
  /\ \A t \in Txns : u.ops[t] \cap {"addIndex", "deleteIndex"} = {}
  /\ \A t \in Txns : MayVanish(u, t) => u.ops[t] \subseteq {"put"} \cup Deletes
  /\ ~u.transacted => \A t \in Txns : u.ops[t] \cap Updates = {}

\* The document of a put, which nobody else knows of.
Adding(t) == job[t].kind = "put"
Fresh(t) ==
  /\ job[t].id \in Ids /\ job[t].id <= sequence
  /\ disk[MetaRow(job[t].id)] = None /\ disk[ContentRow(job[t].id)] = None
  /\ \A s \in Txns \ {t} : Adding(s) => job[s].id # job[t].id

\* A document that thread t found under name n: it is still there, if it cannot
\* be deleted, and under this name, if t deletes documents.
Known(t, d, n) ==
  /\ d <= sequence
  /\ MayVanish(usage, t) \/ disk[MetaRow(d)] # None
  /\ usage.ops[t] \cap Deletes = {} \/ job[t].kind = "rename" \/ disk[MetaRow(d)] \in {None, n}
  /\ \A s \in Txns : Adding(s) => job[s].id # d

Place(t) ==
  /\ handle[t].id # 0 => Known(t, handle[t].id, handle[t].name)
  /\ job[t].id # 0 /\ ~Adding(t) => Known(t, job[t].id, job[t].name)
  /\ Adding(t) => Fresh(t)

\* What a job changes, and into what.
Renames(j) == j.kind \notin Updates
Rewrites(j) == j.kind # "rename"
Touches(j, k) == IF k[1] = NameIndex THEN Renames(j) ELSE Rewrites(j)
Named(j) == IF j.kind \in Deletes THEN None ELSE j.name
Old(j, k) == HasKey(disk, disk[SpecRow], j.id, k)
New(j, k) == HasKeyOf(disk[SpecRow], Named(j), j.value, k)

\* The job of a thread is one that belongs at its label.
Suits(t) ==
  LET j == job[t]
      l == pc[t] IN
  /\ l \notin {"set", "clear", "reindex", "write"} /\ j.new = {}
  /\ j.kind \in usage.ops[t] \cup {None}
  /\ l \in {"idle", "read", "found"} => j.kind = None
  /\ l \in {"add", "replace", "rename", "fetch", "init", "remove", "metadata", "keys", "done"} =>
       j.kind \in usage.ops[t] /\ j.id \in Ids /\ j.name \in Names
  /\ l = "add" => j.kind = "put" /\ j.del = {}
  /\ l = "replace" => j.kind \in Updates
  /\ l = "rename" => j.kind = "rename"
  /\ l \in {"fetch", "init", "remove"} => j.kind \in Deletes /\ j.add = {}
  /\ j.kind \in {"put"} \cup Updates => j.value \in Values
  /\ j.kind \in Deletes => j.value = None
  /\ l \in {"add", "replace", "remove"} => j.is = disk[SpecRow]

\* The rows that a thread has locked, and that it has added or removed no other
\* document than its own.
Own(t) ==
  LET j == job[t] IN
  /\ writer[SpecRow] # t
  /\ \A d \in Ids : writer[MetaRow(d)] = t =>
       pc[t] \in {"keys", "done"} /\ Renames(j) /\ d = j.id
  /\ writer[MetaRow(0)] = t => pc[t] \in {"keys", "done"} /\ j.kind = "updateByName"
  /\ \A d \in Ids : writer[ContentRow(d)] = t =>
       /\ pc[t] \in {"metadata", "keys", "done"} \/ (pc[t] = "failed" /\ usage.transacted)
       /\ Rewrites(j) /\ d = j.id
  /\ \A k \in Keys : writer[KeyRow(k)] = t =>
       /\ pc[t] = "done" /\ Touches(j, k)
       /\ \A e \in Ids \ {j.id} : e \in db[KeyRow(k)] <=> e \in disk[KeyRow(k)]

\* The keys that an operation is going to add and delete.
Stashes(j) ==
  \A k \in Keys :
    IF Touches(j, k)
      THEN /\ k \in j.add <=> New(j, k)
           /\ Old(j, k) => k \in j.del
           /\ k \in j.add /\ k \in j.del => Old(j, k)
      ELSE (k \in j.add <=> k \in j.del) /\ (k \in j.add => k[1] = NameIndex)

\* What a thread has written of its document.
Written(t) ==
  LET j == job[t] IN
  /\ pc[t] \in {"metadata", "keys", "done"} /\ Rewrites(j) =>
       writer[ContentRow(j.id)] = t /\ db[ContentRow(j.id)] = j.value
  /\ pc[t] \in {"keys", "done"} /\ Renames(j) =>
       writer[MetaRow(j.id)] = t /\ db[MetaRow(j.id)] = Named(j)
  /\ pc[t] = "metadata" /\ j.kind = "rename" => t \in readers[MetaRow(j.id)]
  /\ pc[t] \in {"metadata", "keys"} => Stashes(j)
  /\ pc[t] = "done" =>
       \A k \in Keys : Touches(j, k) =>
         (New(j, k) <=> j.id \in IF writer[KeyRow(k)] = t THEN db[KeyRow(k)] ELSE disk[KeyRow(k)])

Settled(t) == Suits(t) /\ Place(t) /\ Own(t) /\ Written(t)

\* A metadata row that is read by one transaction is written by no other.
Shared == \A d \in 0..MaxDocs : \A s \in readers[MetaRow(d)] : writer[MetaRow(d)] \in {s, NoTxn}

InOrder == Exact(disk, disk[SpecRow]) /\ Paired(disk) /\ NoZero(disk)

CalmInv == Calm(usage) /\ InOrder /\ Shared /\ \A t \in Txns : Settled(t)

\* A step of thread t that ends no transaction: no more of the others changes
\* than that a row may be locked.
Moves(t) ==
  /\ UNCHANGED <<usage, disk>> /\ sequence <= sequence'
  /\ \A s \in Txns \ {t} : pc'[s] = pc[s] /\ job'[s] = job[s] /\ handle'[s] = handle[s]
  /\ Adding(t)' => (Adding(t) /\ job'[t].id = job[t].id) \/ sequence < job'[t].id
  /\ \A r \in Rows : \/ writer'[r] = writer[r] /\ db'[r] = db[r]
                     \/ writer'[r] = t /\ Free(t, r)
  /\ \A r \in MetaRows :
       /\ readers'[r] = readers[r] \/ (readers'[r] = readers[r] \cup {t} /\ Free(t, r) /\ writer'[r] = writer[r])
       /\ writer'[r] = writer[r] \/ readers[r] \subseteq {t}

\* A document that is known remains known.
LEMMA KnownStays ==
  ASSUME ThreadsOK, ThreadsOK', NEW t \in Txns, Moves(t), NEW u \in Txns,
         job[u].kind = "rename" => job'[u].kind = "rename",
         NEW d \in Nat, NEW n, Known(u, d, n)
  PROVE  Known(u, d, n)'
<1>1. d <= sequence /\ sequence \in Nat /\ sequence' \in Nat /\ sequence <= sequence'
  BY DEF Known, ThreadsOK, Moves
<1>2. d <= sequence'
  BY <1>1
<1>3. ASSUME NEW s \in Txns, Adding(s)' PROVE job'[s].id # d
  <2>1. CASE s # t
    BY <1>3, <2>1 DEF Moves, Adding, Known
  <2>2. CASE s = t
    BY <1>1, <1>3, <2>2 DEF Moves, Known
  <2> QED BY <2>1, <2>2
<1>4. disk' = disk /\ usage' = usage
  BY DEF Moves
<1> QED BY <1>2, <1>3, <1>4 DEF Known

\* What the others do leaves a thread settled.
LEMMA OthersSettled ==
  ASSUME StoreOK, StoreOK', ThreadsOK, ThreadsOK', NEW t \in Txns, Moves(t), Place(t)', NEW s \in Txns \ {t}, Settled(s)
  PROVE  Settled(s)'
<1>1. /\ pc'[s] = pc[s] /\ job'[s] = job[s] /\ handle'[s] = handle[s]
      /\ usage' = usage /\ disk' = disk /\ s # t /\ s \in Txns /\ s # NoTxn
  BY NamesAssumption DEF Moves
<1>2. \A r \in Rows : (writer'[r] = s <=> writer[r] = s) /\ (writer[r] = s => db'[r] = db[r])
  BY <1>1 DEF Moves, Free
<1>3. Suits(s)'
  BY <1>1 DEF Suits, Settled
<1>4. Place(s)'
  <2>1. handle[s].id \in Nat /\ job[s].id \in Nat
    BY BoundAssumption DEF ThreadsOK, NoHandle, Ids, Job
  <2>2. handle[s].id # 0 => Known(s, handle[s].id, handle[s].name)'
    BY <1>1, <2>1, KnownStays DEF Settled, Place
  <2>3. job[s].id # 0 /\ ~Adding(s) => Known(s, job[s].id, job[s].name)'
    BY <1>1, <2>1, KnownStays DEF Settled, Place
  <2>4. ASSUME Adding(s) PROVE Fresh(s)'
    <3>1. Fresh(s)
      BY <2>4 DEF Settled, Place
    <3>2. job[s].id <= sequence'
      BY <2>1, <3>1 DEF Fresh, Moves, ThreadsOK
    <3>3. ASSUME NEW u \in Txns \ {s}, Adding(u)' PROVE job'[u].id # job[s].id
      <4>1. CASE u # t
        BY <3>1, <3>3, <4>1 DEF Moves, Adding, Fresh
      <4>2. CASE u = t
        BY <2>1, <3>1, <3>3, <4>2 DEF Moves, Fresh, ThreadsOK
      <4> QED BY <4>1, <4>2
    <3> QED BY <1>1, <3>1, <3>2, <3>3 DEF Fresh
  <2> QED BY <1>1, <2>2, <2>3, <2>4 DEF Place, Adding
<1>5. Own(s)'
  BY <1>1, <1>2, RowsAre, IdsAre DEF Own, Settled, Touches, Renames, Rewrites
<1>6. Written(s)'
  <2>1. Stashes(job[s])' <=> Stashes(job[s])
    BY <1>1 DEF Stashes, Touches, Renames, Rewrites, Old, New, HasKey, HasKeyOf, Named
  <2>2. \A k : New(job[s], k)' <=> New(job[s], k)
    BY <1>1 DEF New, Named, HasKeyOf
  <2>3. \A k : Touches(job[s], k)' <=> Touches(job[s], k)
    BY <1>1 DEF Touches, Renames, Rewrites
  <2>4. \A d \in 0..MaxDocs : s \in readers[MetaRow(d)] => s \in readers'[MetaRow(d)]
    BY RowsAre DEF Moves
  <2>5. job[s].id \in 0..MaxDocs /\ (pc[s] \in {"metadata", "keys", "done"} => job[s].id \in Ids)
    BY DEF ThreadsOK, Job, Settled, Suits
  <2> QED BY <1>1, <1>2, <2>1, <2>2, <2>3, <2>4, <2>5, RowsAre, IdsAre
          DEF Written, Settled, Renames, Rewrites, Named
<1> QED BY <1>3, <1>4, <1>5, <1>6 DEF Settled

\* A step that ends no transaction keeps the invariant if it leaves its own
\* thread settled.
LEMMA GoesOnCalm ==
  ASSUME StoreOK, StoreOK', ThreadsOK, ThreadsOK', CalmInv, NEW t \in Txns, Moves(t),
         Settled(t)'
  PROVE  CalmInv'
<1>1. Calm(usage)' /\ disk' = disk /\ usage' = usage
  BY DEF CalmInv, Calm, Moves
<1>2. InOrder'
  <2>1. \A d \in Ids : d > sequence' => d > sequence
    BY BoundAssumption DEF Moves, ThreadsOK, Ids
  <2> QED BY <1>1, <2>1 DEF InOrder, CalmInv, Exact, Paired, NoZero
<1>3. Shared'
  <2> SUFFICES ASSUME NEW d \in 0..MaxDocs, NEW s \in readers'[MetaRow(d)]
               PROVE  writer'[MetaRow(d)] \in {s, NoTxn}
    BY DEF Shared
  <2>1. MetaRow(d) \in Rows /\ MetaRow(d) \in MetaRows
    BY RowsAre
  <2>2. CASE s \in readers[MetaRow(d)]
    BY <2>1, <2>2 DEF CalmInv, Shared, Moves, Free
  <2>3. CASE s \notin readers[MetaRow(d)]
    BY <2>1, <2>3 DEF Moves, Free
  <2> QED BY <2>2, <2>3
<1>4. ASSUME NEW s \in Txns PROVE Settled(s)'
  BY OthersSettled DEF CalmInv, Settled
<1> QED BY <1>1, <1>2, <1>3, <1>4 DEF CalmInv

\* Before it writes a thread has no locks, and a row that it may read is as
\* committed.
LEMMA HoldsNothing ==
  ASSUME StoreOK, NEW t \in Txns, Own(t), pc[t] \notin {"metadata", "keys", "done", "failed"}
  PROVE  \A r \in Rows : writer[r] # t /\ (Free(t, r) => writer[r] = NoTxn /\ db[r] = disk[r])
<1>1. ASSUME NEW r \in Rows PROVE writer[r] # t
  <2>1. CASE r = SpecRow
    BY <2>1 DEF Own
  <2>2. ASSUME NEW d \in 0..MaxDocs, r = MetaRow(d) PROVE writer[r] # t
    <3>1. d = 0 \/ d \in Ids
      BY BoundAssumption DEF Ids
    <3> QED BY <2>2, <3>1 DEF Own
  <2>3. ASSUME NEW d \in Ids, r = ContentRow(d) PROVE writer[r] # t
    BY <2>3 DEF Own
  <2>4. ASSUME NEW k \in Keys, r = KeyRow(k) PROVE writer[r] # t
    BY <2>4 DEF Own
  <2> QED BY <2>1, <2>2, <2>3, <2>4 DEF Rows, MetaRows, ContentRows, KeyRows
<1> QED BY <1>1 DEF Free, StoreOK, Isolated

\* A step that locks nothing leads to a label where nothing is held.
LEMMA QuietSettled ==
  ASSUME StoreOK, NEW t \in Txns, Own(t), UNCHANGED <<db, disk, writer>>,
         pc[t] \notin {"metadata", "keys", "done", "failed"},
         pc'[t] \notin {"metadata", "keys", "done"}
  PROVE  Own(t)' /\ Written(t)'
<1>1. \A r \in Rows : writer'[r] # t
  BY HoldsNothing
<1> QED BY <1>1, RowsAre, IdsAre DEF Own, Written

\* A document found by its name.
LEMMA FoundKnown ==
  ASSUME StoreOK, ThreadsOK, CalmInv, NEW t \in Txns, pc[t] = "idle", NEW n \in Names,
         CanRead(t, {KeyRow(NameKey(n))}), NEW d \in First(NameKey(n))
  PROVE  d \in Ids /\ Known(t, d, n)
<1>1. NameKey(n) \in Keys /\ NameKey(n)[1] = NameIndex /\ NameKey(n)[2] = n
  BY KeysAre DEF NameKey
<1>2. d \in Ids
  BY FirstIsId
<1>3. db[KeyRow(NameKey(n))] = disk[KeyRow(NameKey(n))]
  BY <1>1, HoldsNothing, RowsAre DEF CanRead, CalmInv, Settled
<1>4. d \in disk[KeyRow(NameKey(n))]
  BY <1>3 DEF First, Entries
<1>5. disk[MetaRow(d)] = n
  BY <1>1, <1>2, <1>4 DEF CalmInv, InOrder, Exact, HasKey, HasKeyOf
<1>6. n # None
  BY NamesAssumption
<1>7. d <= sequence
  BY <1>2, <1>5, <1>6, BoundAssumption DEF CalmInv, InOrder, Paired, ThreadsOK, Ids
<1>8. \A s \in Txns : Adding(s) => job[s].id # d
  BY <1>5, <1>6 DEF CalmInv, Settled, Place, Fresh
<1> QED BY <1>2, <1>5, <1>6, <1>7, <1>8 DEF Known

LEMMA LookupCalm ==
  ASSUME StoreOK, ThreadsOK, ThreadsOK', CalmInv, NEW t \in Txns, NEW n \in Names,
         NEW found, NEW label, Lookup(t, n, found, label), found \in Job,
         UNCHANGED <<usage, db, disk, writer, readers, sequence, handle>>,
         found.new = {}, found.kind # "put",
         \/ label = "found" /\ found.kind = None
         \/ label = "fetch" /\ found.kind \in usage.ops[t] \cap Deletes /\ found.add = {} /\ found.value = None
         \/ /\ label = "replace" /\ found.kind \in usage.ops[t] \cap Updates
            /\ found.is = db[SpecRow] /\ CanRead(t, {SpecRow}) /\ found.value \in Values
  PROVE  Moves(t) /\ Settled(t)'
<1>1. pc[t] = "idle" /\ Settled(t) /\ pc \in [Txns -> Labels] /\ job \in [Txns -> Job]
  BY DEF Lookup, CalmInv, ThreadsOK
<1>2. CASE Fail(t) /\ UNCHANGED job
  <2>1. pc'[t] = "failed" /\ \A s \in Txns \ {t} : pc'[s] = pc[s]
    BY <1>1, <1>2 DEF Fail
  <2>2. Moves(t)
    BY <1>2, <2>1 DEF Moves, Adding, ThreadsOK
  <2>3. Own(t)' /\ Written(t)'
    BY <1>1, <2>1, QuietSettled DEF Settled
  <2>4. Suits(t)'
    BY <1>1, <1>2, <2>1 DEF Settled, Suits
  <2>5. Place(t)'
    BY <1>1, <1>2 DEF Settled, Place, Known, Fresh, Adding
  <2> QED BY <2>2, <2>3, <2>4, <2>5 DEF Settled
<1>3. ASSUME NEW d \in First(NameKey(n)), Goto(t, label),
             job' = [job EXCEPT ![t] = [found EXCEPT !.id = d, !.name = n]]
      PROVE  Moves(t) /\ Settled(t)'
  <2> DEFINE j == [found EXCEPT !.id = d, !.name = n]
  <2>1. d \in Ids /\ Known(t, d, n)
    BY <1>1, FoundKnown DEF Lookup
  <2>2. /\ j.id = d /\ j.name = n /\ j.kind = found.kind /\ j.new = {} /\ j.add = found.add
        /\ j.value = found.value /\ j.is = found.is
    BY DEF Job
  <2>3. pc'[t] = label /\ job'[t] = j /\ \A s \in Txns \ {t} : pc'[s] = pc[s] /\ job'[s] = job[s]
    BY <1>1, <1>3 DEF Goto
  <2> HIDE DEF j
  <2>4. Moves(t)
    BY <2>2, <2>3 DEF Moves, Adding, ThreadsOK
  <2>5. Own(t)' /\ Written(t)'
    BY <1>1, <2>3, QuietSettled DEF Settled
  <2>6. Suits(t)'
    <3>1. label = "replace" => db[SpecRow] = disk[SpecRow]
      BY <1>1, HoldsNothing, RowsAre, NamesAssumption DEF CanRead, Settled, Updates, Deletes
    <3>2. None \notin Kinds /\ j.kind = found.kind /\ disk' = disk /\ usage' = usage
      BY NamesAssumption, <2>2
    <3>3. None # "put" /\ None \notin Updates /\ None \notin Deletes
      BY NamesAssumption DEF Kinds, Updates, Deletes
    <3> QED BY <2>1, <2>2, <2>3, <3>1, <3>2, <3>3 DEF Suits, Updates, Deletes
  <2>7. Place(t)'
    <3>0. job[t].kind # "rename"
      BY <1>1, NamesAssumption DEF Settled, Suits, Kinds
    <3>1. Known(t, d, n)'
      BY <2>1, <2>4, <3>0, KnownStays DEF Ids
    <3>2. handle[t].id # 0 => Known(t, handle[t].id, handle[t].name)'
      <4>1. handle[t].id \in Nat
        BY DEF ThreadsOK, NoHandle, Ids
      <4>2. handle[t].id # 0 => Known(t, handle[t].id, handle[t].name)
        BY <1>1 DEF Settled, Place
      <4> QED BY <2>4, <3>0, <4>1, <4>2, KnownStays
    <3>3. handle' = handle /\ ~Adding(t)'
      BY <2>2, <2>3 DEF Adding
    <3> QED BY <2>2, <2>3, <3>1, <3>2, <3>3 DEF Place
  <2> QED BY <2>4, <2>5, <2>6, <2>7 DEF Settled
<1> QED BY <1>2, <1>3 DEF Lookup

LEMMA HandleCalm ==
  ASSUME StoreOK, ThreadsOK, ThreadsOK', CalmInv, NEW t \in Txns, NEW kind, NEW n \in Names,
         NEW v, NEW label, OnHandle(t, kind, n, v, label), UNCHANGED usage,
         handle' = [handle EXCEPT ![t].name = n],
         \/ kind = "update" /\ label = "replace" /\ v \in Values /\ n = handle[t].name
         \/ kind = "rename" /\ label = "rename"
         \/ kind = "delete" /\ label = "remove" /\ v = None /\ n = handle[t].name
  PROVE  Moves(t) /\ Settled(t)'
<1> DEFINE j == [NoJob EXCEPT !.kind = kind, !.id = handle[t].id, !.name = n,
                              !.value = v, !.is = db[SpecRow]]
<1>1. /\ pc[t] \in {"idle", "read"} /\ Settled(t) /\ handle[t].id \in Ids /\ kind \in usage.ops[t]
      /\ Known(t, handle[t].id, handle[t].name) /\ Calm(usage) /\ CanRead(t, {SpecRow})
  BY HandleIs, IdsAre DEF OnHandle, HasHandle, CalmInv, Settled, Place
<1>2. /\ j.kind = kind /\ j.id = handle[t].id /\ j.name = n /\ j.value = v /\ j.is = db[SpecRow]
      /\ j.new = {} /\ j.add = {}
  BY DEF NoJob
<1>3. /\ pc'[t] = label /\ job'[t] = j /\ UNCHANGED <<db, disk, writer, readers, sequence>>
      /\ \A s \in Txns \ {t} : pc'[s] = pc[s] /\ job'[s] = job[s]
  BY DEF OnHandle, Goto, DbUnchanged, ThreadsOK
<1> HIDE DEF j
<1>4. \A s \in Txns : handle'[s].id = handle[s].id /\ (s # t => handle'[s] = handle[s])
  BY DEF ThreadsOK, NoHandle
<1>5. handle'[t].name = n
  <2>1. handle[t] \in [id : Ids, name : Names]
    BY HandleIs DEF OnHandle, HasHandle
  <2> QED BY <2>1 DEF ThreadsOK
<1>6. Moves(t)
  BY <1>2, <1>3, <1>4 DEF Moves, Adding, ThreadsOK
<1>7. Own(t)' /\ Written(t)'
  BY <1>1, <1>3, QuietSettled DEF Settled
<1>8. Suits(t)'
  <2>1. db[SpecRow] = disk[SpecRow]
    BY <1>1, HoldsNothing, RowsAre DEF CanRead, Settled
  <2>2. label # "done" /\ label # "metadata" /\ label # "keys" /\ handle[t].id \in Ids
    BY <1>1
  <2> QED BY <1>1, <1>2, <1>3, <2>1, <2>2 DEF Suits, Updates, Deletes
<1>9. Place(t)'
  <2>1. \A d \in Nat : \A m : Known(t, d, m) => Known(t, d, m)'
    <3>1. job[t].kind # "rename"
      BY <1>1, NamesAssumption DEF Settled, Suits, Kinds
    <3> QED BY <1>6, <3>1, KnownStays
  <2>2. \A d, m : Known(t, d, m)' /\ (m = n \/ kind = "rename") => Known(t, d, n)'
    BY <1>2, <1>3 DEF Known
  <2>3. Known(t, handle[t].id, n)'
    BY <1>1, <1>4, <2>1, <2>2 DEF Ids
  <2> QED BY <1>2, <1>3, <1>4, <1>5, <2>3 DEF Place, Adding
<1> QED BY <1>6, <1>7, <1>8, <1>9 DEF Settled

LEMMA PutCalm ==
  ASSUME StoreOK, ThreadsOK, ThreadsOK', CalmInv, NEW t \in Txns, NEW n \in Names,
         NEW v \in Values, Put(t, n, v), UNCHANGED usage
  PROVE  Moves(t) /\ Settled(t)'
<1> DEFINE d == sequence + 1
           j == [NoJob EXCEPT !.kind = "put", !.name = n, !.value = v,
                              !.id = d, !.is = db[SpecRow]]
<1>1. pc[t] = "idle" /\ Settled(t) /\ CanRead(t, {SpecRow}) /\ "put" \in usage.ops[t]
  BY DEF Put, CalmInv
<1>2. /\ d \in Ids /\ sequence < d /\ sequence' = d /\ sequence \in Nat
      /\ \A e \in Ids : e <= sequence => e # d
  BY BoundAssumption DEF Put, ThreadsOK, Ids
<1> HIDE DEF d
<1>3. /\ j.kind = "put" /\ j.id = d /\ j.name = n /\ j.value = v /\ j.is = db[SpecRow]
      /\ j.new = {} /\ j.del = {}
  BY DEF NoJob
<1>4. /\ pc'[t] = "add" /\ job'[t] = j /\ UNCHANGED <<db, disk, writer, readers, handle>>
      /\ \A s \in Txns \ {t} : pc'[s] = pc[s] /\ job'[s] = job[s]
  BY DEF Put, Goto, DbUnchanged, ThreadsOK, d
<1> HIDE DEF j
<1>5. Moves(t)
  BY <1>2, <1>3, <1>4 DEF Moves, Adding, ThreadsOK
<1>6. Own(t)' /\ Written(t)'
  BY <1>1, <1>4, QuietSettled DEF Settled
<1>7. Suits(t)'
  <2>1. db[SpecRow] = disk[SpecRow]
    BY <1>1, HoldsNothing, RowsAre DEF CanRead, Settled
  <2> QED BY <1>1, <1>2, <1>3, <1>4, <2>1 DEF Suits, Updates, Deletes
<1>8. Place(t)'
  <2>1. handle[t].id # 0 => Known(t, handle[t].id, handle[t].name)'
    <3>1. handle[t].id \in Nat /\ handle' = handle
      BY <1>4 DEF ThreadsOK, NoHandle, Ids
    <3>2. handle[t].id # 0 => Known(t, handle[t].id, handle[t].name)
      BY <1>1 DEF Settled, Place
    <3>3. job[t].kind # "rename"
      BY <1>1, NamesAssumption DEF Settled, Suits, Kinds
    <3> QED BY <1>5, <3>1, <3>2, <3>3, KnownStays
  <2>2. Adding(t)' /\ job'[t].id = d
    BY <1>3, <1>4 DEF Adding
  <2>3. disk[MetaRow(d)] = None /\ disk[ContentRow(d)] = None
    BY <1>2 DEF CalmInv, InOrder, Paired
  <2>4. ASSUME NEW s \in Txns \ {t}, Adding(s)' PROVE job'[s].id # d
    <3>1. job'[s] = job[s] /\ Fresh(s)
      BY <1>4, <2>4 DEF CalmInv, Settled, Place, Adding
    <3> QED BY <1>2, <3>1 DEF Fresh
  <2>5. d <= sequence'
    BY <1>2 DEF Ids
  <2>6. Fresh(t)'
    BY <1>2, <1>4, <2>2, <2>3, <2>4, <2>5 DEF Fresh
  <2> QED BY <1>4, <2>1, <2>2, <2>6 DEF Place
<1> QED BY <1>5, <1>6, <1>7, <1>8 DEF Settled

LEMMA StartCalm ==
  ASSUME StoreOK, ThreadsOK, ThreadsOK', CalmInv, NEW t \in Txns, UNCHANGED usage,
         \/ \E n \in Names : Get(t, n) \/ Rename(t, n) \/ DeleteByName(t, n)
         \/ \E n \in Names, v \in Values : Put(t, n, v) \/ UpdateByName(t, n, v)
         \/ \E v \in Values : Update(t, v)
         \/ \E s \in Strategies : AddIndex(t, s) \/ DeleteIndex(t, s)
         \/ Delete(t)
  PROVE  Moves(t) /\ Settled(t)'
<1> USE IdsAre
<1>n. NoJob \in Job /\ None # "put" /\ db[SpecRow] \in SUBSET Strategies
  BY NamesAssumption, JobIs DEF Kinds, StoreOK, RowsOK
<1>h. ASSUME HasHandle(t) PROVE handle[t].name \in Names /\ handle = [handle EXCEPT ![t].name = handle[t].name]
  <2>1. handle[t] \in [id : Ids, name : Names]
    BY <1>h, HandleIs DEF HasHandle
  <2>2. [handle[t] EXCEPT !.name = handle[t].name] = handle[t]
    BY <2>1
  <2> QED BY <2>1, <2>2 DEF ThreadsOK
<1>1. ASSUME NEW n \in Names, Get(t, n) PROVE Moves(t) /\ Settled(t)'
  <2>1. NoJob \in Job /\ NoJob.new = {} /\ NoJob.kind = None /\ NoJob.kind # "put"
    BY <1>n DEF NoJob
  <2>2. Lookup(t, n, NoJob, "found") /\ UNCHANGED <<db, disk, writer, readers, sequence, handle>>
    BY <1>1 DEF Get, DbUnchanged
  <2> QED BY <2>1, <2>2, LookupCalm
<1>2. ASSUME NEW n \in Names, DeleteByName(t, n) PROVE Moves(t) /\ Settled(t)'
  <2> DEFINE f == [NoJob EXCEPT !.kind = "deleteByName"]
  <2>1. f \in Job /\ f.new = {} /\ f.kind = "deleteByName" /\ f.add = {} /\ f.value = None
    BY <1>n DEF NoJob, Job, Kinds
  <2>2. f.kind \in usage.ops[t] \cap Deletes
    BY <1>2, <2>1 DEF DeleteByName, Deletes
  <2>3. Lookup(t, n, f, "fetch") /\ UNCHANGED <<db, disk, writer, readers, sequence, handle>>
    BY <1>2 DEF DeleteByName, DbUnchanged
  <2> HIDE DEF f
  <2> QED BY <2>1, <2>2, <2>3, LookupCalm
<1>3. ASSUME NEW n \in Names, NEW v \in Values, UpdateByName(t, n, v) PROVE Moves(t) /\ Settled(t)'
  <2> DEFINE f == [NoJob EXCEPT !.kind = "updateByName", !.value = v, !.is = db[SpecRow]]
  <2>1. f \in Job /\ f.new = {} /\ f.kind = "updateByName" /\ f.value = v /\ f.is = db[SpecRow]
    BY <1>n DEF NoJob, Job, Kinds
  <2>2. f.kind \in usage.ops[t] \cap Updates
    BY <1>3, <2>1 DEF UpdateByName, Updates
  <2>3. /\ Lookup(t, n, f, "replace") /\ UNCHANGED <<db, disk, writer, readers, sequence, handle>>
        /\ CanRead(t, {SpecRow})
    BY <1>3 DEF UpdateByName, DbUnchanged
  <2> HIDE DEF f
  <2> QED BY <2>1, <2>2, <2>3, LookupCalm
<1>4. ASSUME NEW n \in Names, NEW v \in Values, Put(t, n, v) PROVE Moves(t) /\ Settled(t)'
  BY <1>4, PutCalm
<1>5. ASSUME NEW n \in Names, Rename(t, n) PROVE Moves(t) /\ Settled(t)'
  BY <1>5, HandleCalm DEF Rename
<1>6. ASSUME NEW v \in Values, Update(t, v) PROVE Moves(t) /\ Settled(t)'
  <2>1. HasHandle(t)
    BY <1>6 DEF Update, OnHandle
  <2> QED BY <1>6, <1>h, <2>1, HandleCalm DEF Update
<1>7. ASSUME Delete(t) PROVE Moves(t) /\ Settled(t)'
  <2>1. HasHandle(t)
    BY <1>7 DEF Delete, OnHandle
  <2> QED BY <1>7, <1>h, <2>1, HandleCalm DEF Delete
<1>8. ASSUME NEW s \in Strategies, AddIndex(t, s) \/ DeleteIndex(t, s) PROVE FALSE
  BY <1>8 DEF AddIndex, DeleteIndex, Change, CalmInv, Calm
<1> QED BY <1>1, <1>2, <1>3, <1>4, <1>5, <1>6, <1>7, <1>8

LEMMA ReadCalm ==
  ASSUME StoreOK, ThreadsOK, ThreadsOK', CalmInv, NEW t \in Txns, UNCHANGED usage,
         GetRead(t) \/ Fetch(t) \/ InitDelete(t)
  PROVE  Moves(t) /\ Settled(t)'
<1>1. /\ Settled(t) /\ job[t].id \in Ids /\ job[t].name \in Names /\ handle[t].id \in Nat
      /\ pc[t] \in {"found", "fetch", "init"} /\ ~Adding(t)
  BY NamesAssumption DEF CalmInv, ThreadsOK, Working, GetRead, Fetch, InitDelete, Settled, Suits,
                         NoHandle, Ids, Adding, Kinds, Deletes
<1>2. Known(t, job[t].id, job[t].name) /\ (handle[t].id # 0 => Known(t, handle[t].id, handle[t].name))
  BY <1>1, IdsAre DEF Settled, Place
<1>3. UNCHANGED <<db, disk, writer, sequence>>
      /\ \A s \in Txns \ {t} : pc'[s] = pc[s] /\ job'[s] = job[s] /\ handle'[s] = handle[s]
  BY DEF GetRead, Fetch, InitDelete, DbUnchanged, Goto, ThreadsOK
<1>4. \A r \in MetaRows : \/ readers'[r] = readers[r]
                          \/ readers'[r] = readers[r] \cup {t} /\ Free(t, r)
  BY DEF GetRead, Fetch, InitDelete, DbUnchanged, Read, CanRead, ThreadsOK
<1>5. ~Adding(t)' /\ pc'[t] \in {"read", "init", "remove"}
  <2>1. NoJob.kind # "put"
    BY NamesAssumption DEF NoJob, Kinds
  <2> QED BY <1>1, <2>1 DEF GetRead, Fetch, InitDelete, Goto, Adding, ThreadsOK, Job
<1>6. Moves(t)
  BY <1>3, <1>4, <1>5 DEF Moves, ThreadsOK
<1>7. Own(t)' /\ Written(t)'
  <2>1. pc[t] \notin {"metadata", "keys", "done", "failed"} /\ pc'[t] \notin {"metadata", "keys", "done"}
    BY <1>1, <1>5
  <2>2. Own(t) /\ UNCHANGED <<db, disk, writer>>
    BY <1>1, <1>3 DEF Settled, GetRead, Fetch, InitDelete, DbUnchanged
  <2> QED BY <2>1, <2>2, QuietSettled
<1>8. \A d \in Nat : \A n : Known(t, d, n) => Known(t, d, n)'
  <2>1. job[t].kind # "rename"
    BY <1>1, NamesAssumption DEF Settled, Suits, Kinds, Deletes
  <2> QED BY <1>6, <2>1, KnownStays
<1>k. job[t].id \in Nat
  BY <1>1 DEF Ids
<1>9. Suits(t)' /\ Place(t)'
  <2>1. CASE GetRead(t)
    <3>1. /\ pc'[t] = "read" /\ job'[t] = NoJob
          /\ handle'[t] = [id |-> job[t].id, name |-> job[t].name]
      BY <2>1 DEF GetRead, Goto, ThreadsOK
    <3>2. NoJob.kind = None /\ NoJob.new = {} /\ NoJob.id = 0
      BY DEF NoJob
    <3>3. None # "put" /\ None \notin Updates /\ None \notin Deletes
      BY NamesAssumption DEF Kinds, Updates, Deletes
    <3>4. Suits(t)'
      BY <3>1, <3>2, <3>3 DEF Suits
    <3>5. Place(t)'
      BY <3>1, <3>2, <1>1, <1>2, <1>5, <1>8, <1>k DEF Place, Adding
    <3> QED BY <3>4, <3>5
  <2>2. CASE Fetch(t)
    <3>1. pc[t] = "fetch" /\ pc'[t] = "init" /\ UNCHANGED <<job, handle>>
      BY <2>2 DEF Fetch, Goto, ThreadsOK
    <3> QED BY <1>1, <1>2, <1>5, <1>8, <1>k, <3>1 DEF Settled, Suits, Place
  <2>3. CASE InitDelete(t)
    <3>1. /\ pc[t] = "init" /\ pc'[t] = "remove" /\ UNCHANGED handle
          /\ job'[t] = [job[t] EXCEPT !.is = db[SpecRow]] /\ CanRead(t, {SpecRow})
      BY <2>3 DEF InitDelete, Goto, ThreadsOK
    <3>2. db[SpecRow] = disk[SpecRow]
      BY <1>1, <3>1, HoldsNothing, RowsAre DEF CanRead, Settled
    <3>3. /\ job'[t].id = job[t].id /\ job'[t].name = job[t].name /\ job'[t].kind = job[t].kind
          /\ job'[t].new = job[t].new /\ job'[t].add = job[t].add /\ job'[t].value = job[t].value
          /\ job'[t].is = db[SpecRow]
      BY <3>1 DEF ThreadsOK, Job
    <3> QED BY <1>1, <1>2, <1>3, <1>5, <1>8, <1>k, <3>1, <3>2, <3>3 DEF Settled, Suits, Place, Deletes, Updates
  <2> QED BY <2>1, <2>2, <2>3
<1> QED BY <1>6, <1>7, <1>9 DEF Settled

\* The document that a thread works on stays the same.
LEMMA PlaceStays ==
  ASSUME ThreadsOK, ThreadsOK', NEW t \in Txns, Moves(t), Place(t), handle'[t] = handle[t],
         job'[t].id = job[t].id, job'[t].name = job[t].name, job'[t].kind = job[t].kind
  PROVE  Place(t)'
<1>1. \A d \in Nat : \A n : Known(t, d, n) => Known(t, d, n)'
  BY KnownStays
<1>2. handle[t].id \in Nat /\ job[t].id \in Nat
  BY BoundAssumption DEF ThreadsOK, NoHandle, Ids, Job
<1>3. ASSUME Adding(t) PROVE Fresh(t)'
  <2>1. job[t].id <= sequence'
    BY <1>2, <1>3 DEF Place, Fresh, Moves, ThreadsOK
  <2> QED BY <1>3, <2>1 DEF Place, Fresh, Moves, Adding
<1> QED BY <1>1, <1>2, <1>3 DEF Place, Adding

LEMMA KeysOf ==
  ASSUME NEW is \in SUBSET Strategies, NEW n \in Names \cup {None}, NEW v \in Values \cup {None},
         NEW k \in Keys
  PROVE  /\ k[1] = NameIndex =>
              (HasKeyOf(is, n, v, k) <=> n # None /\ k = NameKey(n)) /\ k \notin ContentKeys(is, v)
         /\ k[1] # NameIndex =>
              (HasKeyOf(is, n, v, k) <=> k \in ContentKeys(is, v)) /\ k # NameKey(n)
<1>1. k[1] = NameIndex => k[2] \in Names
  BY NamesAssumption DEF Keys
<1>2. k[1] # NameIndex => k # NameKey(n)
  BY DEF NameKey
<1> QED BY <1>1, <1>2, KeysMatch, NamesAssumption DEF HasKeyOf

\* The content of a document is the first that is written of it.
LEMMA WroteContent ==
  ASSUME StoreOK, NEW t \in Txns, Own(t), pc[t] \notin {"metadata", "keys", "done", "failed"},
         NEW d \in Ids, NEW v, Write(t, Row(ContentRow(d), v)),
         job'[t].id = d, Rewrites(job'[t]),
         pc'[t] = "metadata" \/ (pc'[t] = "failed" /\ usage'.transacted)
  PROVE  /\ Own(t)' /\ writer'[ContentRow(d)] = t /\ db'[ContentRow(d)] = v
         /\ db[ContentRow(d)] = disk[ContentRow(d)]
<1>1. /\ ContentRow(d) \in Rows /\ Free(t, ContentRow(d))
      /\ \A r \in Rows : /\ writer'[r] = IF r = ContentRow(d) THEN t ELSE writer[r]
                         /\ db'[r] = IF r = ContentRow(d) THEN v ELSE db[r]
  BY RowsAre DEF Write, Lock, Row
<1>2. \A r \in Rows : writer[r] # t /\ (Free(t, r) => db[r] = disk[r])
  BY HoldsNothing
<1>3. \A r \in Rows : writer'[r] = t <=> r = ContentRow(d)
  BY <1>1, <1>2
<1>4. /\ SpecRow # ContentRow(d) /\ MetaRow(0) # ContentRow(d)
      /\ \A e : MetaRow(e) # ContentRow(d) /\ (ContentRow(e) = ContentRow(d) => e = d)
      /\ \A k : KeyRow(k) # ContentRow(d)
  BY RowsDistinct
<1>5. Own(t)'
  BY <1>3, <1>4, RowsAre, IdsAre DEF Own, Rewrites
<1> QED BY <1>1, <1>2, <1>5

\* An operation finds out what keys its document had and is going to have.
LEMMA PlanCalm ==
  ASSUME StoreOK, StoreOK', ThreadsOK, ThreadsOK', CalmInv, NEW t \in Txns, UNCHANGED usage,
         Add(t) \/ Replace(t) \/ ReplaceName(t) \/ RemoveContentAndIndex(t)
  PROVE  Moves(t) /\ Settled(t)'
<1> DEFINE j == job[t]
           d == job[t].id
<1>1. /\ Settled(t) /\ Own(t) /\ pc[t] \in {"add", "replace", "rename", "remove"}
      /\ j \in Job /\ d \in Ids /\ j.name \in Names /\ j.kind \in usage.ops[t] /\ j.new = {}
      /\ j.value \in Values \cup {None} /\ ~usage.auto /\ AutoSpec = {}
  BY DEF CalmInv, Calm, ThreadsOK, Add, Replace, ReplaceName, RemoveContentAndIndex, Settled, Suits,
         AutoSpec, Job
<1>2. /\ UNCHANGED <<disk, sequence, handle>>
      /\ \A s \in Txns \ {t} : pc'[s] = pc[s] /\ job'[s] = job[s]
  BY DEF Add, Replace, ReplaceName, RemoveContentAndIndex, Fail, Goto, ThreadsOK
<1>3. \A r \in MetaRows : \/ readers'[r] = readers[r]
                          \/ readers'[r] = readers[r] \cup {t} /\ Free(t, r)
  BY DEF Add, Replace, ReplaceName, RemoveContentAndIndex, Read, CanRead, ThreadsOK
<1>4. ContentRow(d) \in Rows /\ ContentRow(d) \notin MetaRows
  BY <1>1, RowsAre, RowsDistinct DEF MetaRows
<1>5. (writer' = writer /\ db' = db) \/ \E v : Write(t, Row(ContentRow(d), v))
  BY DEF Add, Replace, ReplaceName, RemoveContentAndIndex
<1>6. \A r \in Rows : \/ writer'[r] = writer[r] /\ db'[r] = db[r]
                      \/ r = ContentRow(d) /\ writer'[r] = t /\ Free(t, r)
  BY <1>5 DEF Write, Lock, Row
<1>7. job'[t].id = d /\ job'[t].name = j.name /\ job'[t].kind = j.kind
      /\ job'[t].value = j.value /\ job'[t].is = j.is /\ job'[t].new = {}
  <2> DEFINE keys == {NameKey(j.name)} \cup ContentKeys(j.is, j.value)
             metadata == IF j.kind = "updateByName" THEN {NameKey(j.name)} ELSE {}
             del == metadata \cup ContentKeys(j.is, db[ContentRow(d)])
  <2>1. CASE Add(t)
    <3>1. job' = job \/ job' = [job EXCEPT ![t].add = keys, ![t].new = {}]
      BY <1>1, <2>1 DEF Add
    <3> QED BY <1>1, <3>1 DEF ThreadsOK, Job
  <2>2. CASE Replace(t)
    <3>1. \/ job' = job
          \/ job' = [job EXCEPT ![t].add = metadata \cup ContentKeys(j.is, j.value), ![t].del = del,
                                ![t].new = {}]
      BY <1>1, <2>2 DEF Replace
    <3> QED BY <1>1, <3>1 DEF ThreadsOK, Job
  <2>3. CASE ReplaceName(t)
    <3> DEFINE old == db[MetaRow(d)]
    <3>1. \/ job' = job
          \/ job' = [job EXCEPT ![t].add = {NameKey(j.name)},
                                ![t].del = IF old = None THEN {} ELSE {NameKey(old)}]
      BY <2>3 DEF ReplaceName
    <3> QED BY <1>1, <3>1 DEF ThreadsOK, Job
  <2>4. CASE RemoveContentAndIndex(t)
    <3>1. job' = [job EXCEPT ![t].del = {NameKey(j.name)} \cup ContentKeys(j.is, db[ContentRow(d)])]
      BY <2>4 DEF RemoveContentAndIndex
    <3> QED BY <1>1, <3>1 DEF ThreadsOK, Job
  <2> QED BY <2>1, <2>2, <2>3, <2>4
<1>8. Moves(t)
  <2>1. Adding(t)' => Adding(t)
    BY <1>7 DEF Adding
  <2>2. \A r \in MetaRows : writer'[r] = writer[r]
    BY <1>4, <1>6 DEF Rows
  <2> QED BY <1>1, <1>2, <1>3, <1>4, <1>6, <1>7, <2>1, <2>2 DEF Moves, ThreadsOK
<1>9. Place(t)'
  BY <1>1, <1>2, <1>7, <1>8, PlaceStays DEF Settled
<1>10. pc'[t] \in {"metadata", "failed"}
  BY <1>1 DEF Add, Replace, ReplaceName, RemoveContentAndIndex, Fail, Goto, ThreadsOK
<1>11. Suits(t)'
  BY <1>1, <1>2, <1>7, <1>10 DEF Settled, Suits
<1>12. \A is \in SUBSET Strategies, k \in Keys : ~HasKeyOf(is, None, None, k)
  BY NamesAssumption DEF HasKeyOf, Keys
<1>s. disk[SpecRow] \in SUBSET Strategies /\ disk[MetaRow(d)] \in Names \cup {None}
      /\ disk[ContentRow(d)] \in Values \cup {None}
  BY <1>1, IdsAre DEF StoreOK, RowsOK
<1>w. ASSUME pc'[t] = "metadata", Rewrites(j), writer'[ContentRow(d)] = t,
             db'[ContentRow(d)] = j.value, Stashes(job[t])'
      PROVE  Written(t)'
  BY <1>7, <1>w DEF Written, Rewrites
<1>13. CASE Add(t)
  <2> DEFINE keys == {NameKey(j.name)} \cup ContentKeys(j.is, j.value)
  <2>1. pc[t] = "add" /\ j.kind = "put" /\ j.is = disk[SpecRow] /\ j.del = {} /\ j.value \in Values
    BY <1>1, <1>13 DEF Add, Settled, Suits
  <2>2. CASE pc'[t] = "failed"
    <3>1. UNCHANGED <<db, writer>>
      BY <1>1, <1>13, <2>1, <2>2 DEF Add, Goto, ThreadsOK
    <3>2. Own(t)' /\ Written(t)'
      BY <1>1, <1>2, <2>1, <2>2, <3>1, QuietSettled
    <3> QED BY <1>8, <1>9, <1>11, <3>2 DEF Settled
  <2>3. CASE pc'[t] = "metadata"
    <3>1. Write(t, Row(ContentRow(d), j.value)) /\ job'[t].add = keys /\ job'[t].del = {}
      BY <1>1, <1>13, <2>1, <2>3 DEF Add, Fail, ThreadsOK, Job
    <3>2. Rewrites(j) /\ Rewrites(job'[t])
      BY <1>7, <2>1 DEF Rewrites
    <3>3. Own(t)' /\ writer'[ContentRow(d)] = t /\ db'[ContentRow(d)] = j.value
      BY <1>1, <1>7, <2>1, <2>3, <3>1, <3>2, WroteContent
    <3>4. Stashes(job[t])'
      <4> SUFFICES ASSUME NEW k \in Keys
                   PROVE  /\ k \in job'[t].add <=> New(job[t], k)'
                          /\ ~Old(job[t], k)' /\ k \notin job'[t].del
        BY <1>7, <2>1 DEF Stashes, Touches, Renames, Rewrites, Updates
      <4>1. New(job[t], k)' <=> HasKeyOf(disk[SpecRow], j.name, j.value, k)
        BY <1>2, <1>7, <2>1 DEF New, Named, Deletes
      <4>2. HasKeyOf(disk[SpecRow], j.name, j.value, k) <=> k \in keys
        BY <1>1, <1>s, <2>1, KeysOf, NamesAssumption
      <4>3. ~Old(job[t], k)'
        <5>1. disk[MetaRow(d)] = None /\ disk[ContentRow(d)] = None
          BY <1>1, <2>1 DEF Settled, Place, Adding, Fresh
        <5> QED BY <1>2, <1>7, <1>12, <1>s, <5>1 DEF Old, HasKey
      <4> QED BY <3>1, <4>1, <4>2, <4>3
    <3>5. Written(t)'
      BY <1>w, <2>3, <3>2, <3>3, <3>4
    <3> QED BY <1>8, <1>9, <1>11, <3>3, <3>5 DEF Settled
  <2> QED BY <1>10, <2>2, <2>3
<1>14. CASE Replace(t)
  <2> DEFINE metadata == IF j.kind = "updateByName" THEN {NameKey(j.name)} ELSE {}
  <2>1. pc[t] = "replace" /\ j.kind \in Updates /\ j.is = disk[SpecRow] /\ j.value \in Values
    BY <1>1, <1>14 DEF Replace, Settled, Suits
  <2>2. Rewrites(j) /\ Rewrites(job'[t]) /\ usage.transacted
    BY <1>1, <1>7, <2>1 DEF Rewrites, Updates, CalmInv, Calm
  <2>3. CASE pc'[t] = "failed"
    <3>1. Write(t, Row(ContentRow(d), None))
      BY <1>1, <1>14, <2>1, <2>3 DEF Replace, Goto, ThreadsOK
    <3>2. Own(t)'
      BY <1>1, <1>7, <2>1, <2>2, <2>3, <3>1, WroteContent
    <3> QED BY <1>8, <1>9, <1>11, <2>3, <3>2 DEF Settled, Written
  <2>4. CASE pc'[t] = "metadata"
    <3>1. /\ Write(t, Row(ContentRow(d), j.value))
          /\ job'[t].add = metadata \cup ContentKeys(j.is, j.value)
          /\ job'[t].del = metadata \cup ContentKeys(j.is, db[ContentRow(d)])
      BY <1>1, <1>14, <2>1, <2>4 DEF Replace, Fail, ThreadsOK, Job
    <3>3. /\ Own(t)' /\ writer'[ContentRow(d)] = t /\ db'[ContentRow(d)] = j.value
          /\ db[ContentRow(d)] = disk[ContentRow(d)]
      BY <1>1, <1>7, <2>1, <2>2, <2>4, <3>1, WroteContent
    <3>4. Stashes(job[t])'
      <4> SUFFICES ASSUME NEW k \in Keys
                   PROVE  IF k[1] = NameIndex THEN k \in job'[t].add <=> k \in job'[t].del
                          ELSE /\ k \in job'[t].add <=> New(job[t], k)'
                               /\ k \in job'[t].del <=> Old(job[t], k)'
        BY <1>7, <2>1 DEF Stashes, Touches, Renames, Rewrites, Updates
      <4>1. CASE k[1] = NameIndex
        BY <3>1, <4>1, <1>s, <2>1, <3>3, KeysOf
      <4>2. CASE k[1] # NameIndex
        <5>0. k \notin metadata
          BY <4>2 DEF NameKey
        <5>1. k \in job'[t].add <=> k \in ContentKeys(disk[SpecRow], j.value)
          BY <2>1, <3>1, <5>0
        <5>2. k \in job'[t].del <=> k \in ContentKeys(disk[SpecRow], disk[ContentRow(d)])
          BY <2>1, <3>1, <3>3, <5>0
        <5>3. New(job[t], k)' <=> HasKeyOf(disk[SpecRow], j.name, j.value, k)
          BY <1>2, <1>7, <2>1 DEF New, Named, Deletes, Updates
        <5>4. Old(job[t], k)' <=> HasKeyOf(disk[SpecRow], disk[MetaRow(d)], disk[ContentRow(d)], k)
          BY <1>2, <1>7 DEF Old, HasKey
        <5>5. /\ HasKeyOf(disk[SpecRow], j.name, j.value, k) <=> k \in ContentKeys(disk[SpecRow], j.value)
              /\ HasKeyOf(disk[SpecRow], disk[MetaRow(d)], disk[ContentRow(d)], k)
                    <=> k \in ContentKeys(disk[SpecRow], disk[ContentRow(d)])
          BY <1>1, <1>s, <4>2, KeysOf
        <5> QED BY <4>2, <5>1, <5>2, <5>3, <5>4, <5>5
      <4> QED BY <4>1, <4>2
    <3>5. Written(t)'
      BY <1>w, <2>2, <2>4, <3>3, <3>4
    <3> QED BY <1>8, <1>9, <1>11, <3>3, <3>5 DEF Settled
  <2> QED BY <1>10, <2>3, <2>4
<1>15. CASE ReplaceName(t)
  <2> DEFINE old == db[MetaRow(d)]
  <2>1. pc[t] = "rename" /\ j.kind = "rename" /\ UNCHANGED <<db, writer>> /\ Read(t, MetaRow(d))
    BY <1>1, <1>15 DEF ReplaceName, Settled, Suits
  <2>2. /\ old = disk[MetaRow(d)] /\ t \in readers'[MetaRow(d)]
    BY <1>1, <2>1, HoldsNothing, RowsAre, IdsAre DEF Read, CanRead, ThreadsOK
  <2>3. Own(t)'
    <3>1. \A r \in Rows : writer'[r] # t
      BY <1>1, <2>1, HoldsNothing
    <3> QED BY <3>1, RowsAre, IdsAre DEF Own
  <2>4. CASE pc'[t] = "failed"
    BY <1>8, <1>9, <1>11, <2>3, <2>4 DEF Settled, Written
  <2>5. CASE pc'[t] = "metadata"
    <3> DEFINE del == IF old = None THEN {} ELSE {NameKey(old)}
    <3>0. job' = [job EXCEPT ![t].add = {NameKey(j.name)}, ![t].del = del]
      BY <1>1, <1>15, <2>5 DEF ReplaceName, Fail, ThreadsOK
    <3>1. job'[t].add = {NameKey(j.name)} /\ job'[t].del = del
      BY <1>1, <3>0 DEF ThreadsOK, Job
    <3>2. Stashes(job[t])'
      <4> SUFFICES ASSUME NEW k \in Keys
                   PROVE  IF k[1] # NameIndex THEN k \notin job'[t].add /\ k \notin job'[t].del
                          ELSE /\ k \in job'[t].add <=> New(job[t], k)'
                               /\ k \in job'[t].del <=> Old(job[t], k)'
        BY <1>7, <2>1 DEF Stashes, Touches, Renames, Rewrites, Updates
      <4>1. CASE k[1] # NameIndex
        BY <3>1, <4>1, <1>1 DEF NameKey
      <4>2. CASE k[1] = NameIndex
        <5>1. New(job[t], k)' <=> HasKeyOf(disk[SpecRow], j.name, j.value, k)
          BY <1>2, <1>7, <2>1 DEF New, Named, Deletes
        <5>2. Old(job[t], k)' <=> HasKeyOf(disk[SpecRow], disk[MetaRow(d)], disk[ContentRow(d)], k)
          BY <1>2, <1>7 DEF Old, HasKey
        <5>3. /\ HasKeyOf(disk[SpecRow], j.name, j.value, k) <=> k = NameKey(j.name)
              /\ HasKeyOf(disk[SpecRow], disk[MetaRow(d)], disk[ContentRow(d)], k)
                    <=> disk[MetaRow(d)] # None /\ k = NameKey(disk[MetaRow(d)])
          BY <1>1, <1>s, <4>2, KeysOf, NamesAssumption
        <5> QED BY <2>2, <3>1, <4>2, <5>1, <5>2, <5>3
      <4> QED BY <4>1, <4>2
    <3>3. Written(t)'
      BY <1>7, <2>1, <2>2, <2>5, <3>2 DEF Written, Rewrites
    <3> QED BY <1>8, <1>9, <1>11, <2>3, <3>3 DEF Settled
  <2> QED BY <1>10, <2>4, <2>5
<1>16. CASE RemoveContentAndIndex(t)
  <2>1. /\ pc[t] = "remove" /\ pc'[t] = "metadata" /\ j.kind \in Deletes /\ j.is = disk[SpecRow]
        /\ j.add = {} /\ j.value = None
    BY <1>1, <1>16 DEF RemoveContentAndIndex, Settled, Suits, Goto, ThreadsOK
  <2>2. /\ Write(t, Row(ContentRow(d), None)) /\ job'[t].add = {}
        /\ job'[t].del = {NameKey(j.name)} \cup ContentKeys(j.is, db[ContentRow(d)])
    BY <1>1, <1>16, <2>1 DEF RemoveContentAndIndex, ThreadsOK, Job
  <2>3. Rewrites(j) /\ Rewrites(job'[t])
    BY <1>7, <2>1 DEF Rewrites, Deletes
  <2>4. /\ Own(t)' /\ writer'[ContentRow(d)] = t /\ db'[ContentRow(d)] = j.value
        /\ db[ContentRow(d)] = disk[ContentRow(d)]
    BY <1>1, <1>7, <2>1, <2>2, <2>3, WroteContent
  <2>5. disk[MetaRow(d)] \in {None, j.name}
    <3>1. usage.ops[t] \cap Deletes # {} /\ j.kind # "rename" /\ d # 0 /\ ~Adding(t)
      BY <1>1, <2>1, IdsAre DEF Deletes, Adding
    <3> QED BY <1>1, <3>1 DEF Settled, Place, Known
  <2>6. Stashes(job[t])'
    <3> SUFFICES ASSUME NEW k \in Keys
                 PROVE  ~New(job[t], k)' /\ (Old(job[t], k)' => k \in job'[t].del)
      BY <1>7, <2>1, <2>2 DEF Stashes, Touches, Renames, Rewrites, Updates, Deletes
    <3>1. ~New(job[t], k)'
      BY <1>2, <1>7, <1>12, <1>s, <2>1 DEF New, Named
    <3>2. Old(job[t], k)' <=> HasKeyOf(disk[SpecRow], disk[MetaRow(d)], disk[ContentRow(d)], k)
      BY <1>2, <1>7 DEF Old, HasKey
    <3>3. HasKeyOf(disk[SpecRow], disk[MetaRow(d)], disk[ContentRow(d)], k) => k \in job'[t].del
      BY <1>s, <2>1, <2>2, <2>4, <2>5, KeysOf
    <3> QED BY <3>1, <3>2, <3>3
  <2>7. Written(t)'
    BY <1>w, <2>1, <2>3, <2>4, <2>6
  <2> QED BY <1>8, <1>9, <1>11, <2>4, <2>7 DEF Settled
<1> QED BY <1>13, <1>14, <1>15, <1>16

LEMMA WriteMetaDataCalm ==
  ASSUME StoreOK, StoreOK', ThreadsOK, ThreadsOK', CalmInv, NEW t \in Txns, UNCHANGED usage,
         WriteMetaData(t)
  PROVE  Moves(t) /\ Settled(t)'
<1> DEFINE j == job[t]
           d == job[t].id
           m == IF j.kind = "updateByName" THEN 0 ELSE d
<1>1. /\ Settled(t) /\ pc[t] = "metadata" /\ j \in Job /\ d \in Ids /\ j.kind \in usage.ops[t]
      /\ Calm(usage)
  BY DEF CalmInv, ThreadsOK, WriteMetaData, Settled, Suits
<1>2. /\ UNCHANGED <<disk, readers, sequence, job, handle>>
      /\ pc'[t] = "keys" /\ \A s \in Txns \ {t} : pc'[s] = pc[s]
  BY DEF WriteMetaData, Goto, ThreadsOK
<1>3. m \in 0..MaxDocs /\ MetaRow(m) \in Rows /\ MetaRow(m) \in MetaRows
  BY <1>1, RowsAre, IdsAre
<1>4. j.kind \in {"put", "rename", "update", "updateByName", "delete", "deleteByName"}
  <2>1. usage.ops[t] \subseteq Kinds
    BY UsageAssumption DEF ThreadsOK
  <2>2. j.kind \notin {"addIndex", "deleteIndex"}
    BY <1>1 DEF Calm
  <2> QED BY <1>1, <2>1, <2>2 DEF Kinds
<1>5. \/ j.kind = "update" /\ UNCHANGED <<db, writer>>
      \/ j.kind # "update" /\ Write(t, Row(MetaRow(m), IF j.kind = "updateByName" THEN j.name ELSE Named(j)))
  <2>1. CASE j.kind \in {"put", "rename"}
    BY <2>1 DEF WriteMetaData, Named, Deletes
  <2>2. CASE j.kind \in {"update", "updateByName"}
    BY <2>2 DEF WriteMetaData
  <2>3. CASE j.kind \in {"delete", "deleteByName"}
    BY <2>3 DEF WriteMetaData, Named, Deletes
  <2> QED BY <1>4, <2>1, <2>2, <2>3
<1>6. /\ j.kind # "update" => /\ Free(t, MetaRow(m)) /\ readers[MetaRow(m)] \subseteq {t}
                              /\ writer'[MetaRow(m)] = t
                              /\ Renames(j) => db'[MetaRow(m)] = Named(j)
      /\ \A r \in Rows : r # MetaRow(m) \/ j.kind = "update" => writer'[r] = writer[r] /\ db'[r] = db[r]
  BY <1>3, <1>5 DEF Write, Lock, Row, Renames, Updates
<1>7. Moves(t)
  <2>1. \A r \in MetaRows : r \in Rows
    BY DEF Rows
  <2> QED BY <1>1, <1>2, <1>3, <1>6, <2>1 DEF Moves, ThreadsOK, Adding
<1>8. Place(t)'
  BY <1>1, <1>2, <1>7, PlaceStays DEF Settled
<1>9. Suits(t)'
  BY <1>1, <1>2 DEF Settled, Suits
<1>10. /\ SpecRow # MetaRow(m)
       /\ \A e : ContentRow(e) # MetaRow(m) /\ (MetaRow(e) = MetaRow(m) => e = m)
       /\ \A k : KeyRow(k) # MetaRow(m)
  BY RowsDistinct
<1>11. Renames(j) <=> j.kind \notin {"update", "updateByName"}
  BY DEF Renames, Updates
<1>12. Own(t)'
  <2>1. writer'[SpecRow] = writer[SpecRow]
    BY <1>6, <1>10, RowsAre
  <2>2. ASSUME NEW e \in Ids
        PROVE  /\ writer'[ContentRow(e)] = writer[ContentRow(e)]
               /\ writer'[MetaRow(e)] = t => Renames(j) /\ e = d
    <3>1. ContentRow(e) \in Rows /\ MetaRow(e) \in Rows /\ e # 0
      BY RowsAre, IdsAre
    <3>2. writer[MetaRow(e)] # t
      BY <1>1 DEF Settled, Own
    <3> QED BY <1>6, <1>10, <1>11, <3>1, <3>2
  <2>3. writer'[MetaRow(0)] = t => j.kind = "updateByName"
    <3>1. writer[MetaRow(0)] # t /\ MetaRow(0) \in Rows
      BY <1>1, RowsAre, IdsAre DEF Settled, Own
    <3> QED BY <1>1, <1>6, <1>10, <3>1, IdsAre
  <2>4. ASSUME NEW k \in Keys PROVE writer'[KeyRow(k)] # t
    BY <1>1, <1>6, <1>10, RowsAre DEF Settled, Own
  <2> QED BY <1>1, <1>2, <2>1, <2>2, <2>3, <2>4 DEF Settled, Own, Rewrites, Renames
<1>13. Written(t)'
  <2>1. Rewrites(j) => writer'[ContentRow(d)] = t /\ db'[ContentRow(d)] = j.value
    BY <1>1, <1>6, <1>10, RowsAre DEF Settled, Written
  <2>2. Renames(j) => writer'[MetaRow(d)] = t /\ db'[MetaRow(d)] = Named(j)
    BY <1>6, <1>11
  <2>3. Stashes(j)' <=> Stashes(j)
    BY <1>2 DEF Stashes, Touches, Renames, Rewrites, Old, New, HasKey, HasKeyOf, Named
  <2> QED BY <1>1, <1>2, <2>1, <2>2, <2>3 DEF Settled, Written, Rewrites, Renames, Named
<1> QED BY <1>7, <1>8, <1>9, <1>12, <1>13 DEF Settled

LEMMA UpdateIndexCalm ==
  ASSUME StoreOK, StoreOK', ThreadsOK, ThreadsOK', CalmInv, NEW t \in Txns, UNCHANGED usage,
         UpdateIndex(t)
  PROVE  Moves(t) /\ Settled(t)'
<1> DEFINE j == job[t]
           d == job[t].id
<1>1. /\ Settled(t) /\ pc[t] = "keys" /\ j \in Job /\ d \in Ids /\ j.kind \in usage.ops[t]
      /\ j.new = {} /\ j.add \subseteq Keys /\ j.del \subseteq Keys
      /\ Exact(disk, disk[SpecRow])
  BY DEF CalmInv, InOrder, ThreadsOK, UpdateIndex, Settled, Suits, Job
<1>u. PICK updated \in SUBSET {k \in j.add \cap j.del : k[1] # NameIndex} :
        Write(t, Stashed(d, j.add, j.del \ updated))
  BY DEF UpdateIndex
<1> DEFINE del == j.del \ updated
           keys == (j.add \cup del) \ (j.add \cap del)
<1>2. /\ UNCHANGED <<disk, readers, sequence, handle>> /\ Write(t, Stashed(d, j.add, del))
      /\ pc' = [pc EXCEPT ![t] = "done"] /\ job' = [job EXCEPT ![t].adds = {}]
  BY <1>1, <1>u DEF UpdateIndex, Goto, ThreadsOK
<1>3. /\ pc'[t] = "done" /\ \A s \in Txns \ {t} : pc'[s] = pc[s] /\ job'[s] = job[s]
      /\ job'[t].id = d /\ job'[t].name = j.name /\ job'[t].kind = j.kind
      /\ job'[t].value = j.value /\ job'[t].is = j.is /\ job'[t].new = {}
  BY <1>1, <1>2 DEF ThreadsOK, Job
<1>k. /\ del \subseteq Keys /\ \A k \in Keys : k \in keys <=> (k \in j.add /\ k \notin del) \/ (k \notin j.add /\ k \in del)
      /\ \A k : k \in del <=> k \in j.del /\ k \notin updated
  BY <1>1
<1>4. DOMAIN Stashed(d, j.add, del) = {KeyRow(k) : k \in keys}
  BY DEF Stashed
<1>5. /\ \A r \in KeyRows : r \in Rows /\ r \notin MetaRows
      /\ \A r \in Rows \ KeyRows : writer'[r] = writer[r] /\ db'[r] = db[r]
      /\ \A r \in Rows : (writer'[r] = writer[r] /\ db'[r] = db[r]) \/ (writer'[r] = t /\ Free(t, r))
  <2>1. {KeyRow(k) : k \in keys} \subseteq KeyRows
    BY <1>1 DEF KeyRows
  <2>2. \A r \in KeyRows : r \in Rows /\ r \notin MetaRows
    BY RowsDistinct DEF Rows, KeyRows, MetaRows
  <2>3. /\ \A r \in {KeyRow(k) : k \in keys} : Free(t, r)
        /\ writer' = [r \in Rows |-> IF r \in {KeyRow(k) : k \in keys} THEN t ELSE writer[r]]
    BY <1>2, <1>4 DEF Write, Lock
  <2> DEFINE new == Stashed(d, j.add, del)
  <2>4. db' = [r \in Rows |-> IF r \in {KeyRow(k) : k \in keys} THEN new[r] ELSE db[r]]
    BY <1>2, <1>4 DEF Write
  <2> HIDE DEF new, keys
  <2>5. ASSUME NEW r \in Rows, r \notin {KeyRow(k) : k \in keys}
        PROVE  writer'[r] = writer[r] /\ db'[r] = db[r]
    BY <2>3, <2>4, <2>5
  <2>6. ASSUME NEW r \in Rows, r \in {KeyRow(k) : k \in keys}
        PROVE  writer'[r] = t /\ Free(t, r)
    BY <2>3, <2>6
  <2> QED BY <2>1, <2>2, <2>5, <2>6
<1>6. ASSUME NEW k \in Keys
      PROVE  /\ k \in keys => writer'[KeyRow(k)] = t /\ db[KeyRow(k)] = disk[KeyRow(k)]
             /\ k \notin keys => writer'[KeyRow(k)] # t
             /\ KeyRow(k) \in KeyRows
  <2>1. KeyRow(k) \in Rows /\ writer[KeyRow(k)] # t /\ KeyRow(k) \in KeyRows
    BY <1>1, RowsAre DEF Settled, Own, KeyRows
  <2>2. KeyRow(k) \in {KeyRow(l) : l \in keys} <=> k \in keys
    BY <1>1, KeyRowsDistinct
  <2> QED BY <1>2, <1>4, <2>1, <2>2 DEF Write, Lock, Free, StoreOK, Isolated
<1>7. /\ \A k \in Keys :
           db'[KeyRow(k)] = IF k \in j.add \ del THEN db[KeyRow(k)] \cup {d}
                            ELSE IF k \in del \ j.add THEN db[KeyRow(k)] \ {d}
                            ELSE db[KeyRow(k)]
      /\ \A r \in Rows \ KeyRows : db'[r] = db[r]
  <2>1. Write(t, Stashed(d, j.add, del)) /\ j.add \in SUBSET Keys /\ del \in SUBSET Keys
    BY <1>1, <1>2, <1>k
  <2> HIDE DEF d, del
  <2> QED BY <2>1, WriteStash
<1>8. Moves(t)
  <2>1. Adding(t)' => Adding(t)
    BY <1>3 DEF Adding
  <2>2. \A r \in MetaRows : writer'[r] = writer[r]
    BY <1>5 DEF Rows
  <2> QED BY <1>1, <1>2, <1>3, <1>5, <2>1, <2>2 DEF Moves, ThreadsOK
<1>9. Place(t)'
  BY <1>1, <1>2, <1>3, <1>8, PlaceStays DEF Settled
<1>10. Suits(t)'
  BY <1>1, <1>2, <1>3 DEF Settled, Suits
<1>11. /\ Renames(job'[t]) <=> Renames(j)
       /\ Rewrites(job'[t]) <=> Rewrites(j)
       /\ \A k : Touches(job'[t], k) <=> Touches(j, k)
       /\ \A k : New(job[t], k)' <=> New(j, k)
       /\ Named(job'[t]) = Named(j)
  BY <1>2, <1>3 DEF Renames, Rewrites, Touches, New, Named, HasKeyOf
<1>12. Stashes(j)
  BY <1>1 DEF Settled, Written
<1>13. Own(t)'
  <2>1. ASSUME NEW k \in Keys, writer'[KeyRow(k)] = t
        PROVE  Touches(j, k) /\ \A e \in Ids \ {d} : e \in db'[KeyRow(k)] <=> e \in disk[KeyRow(k)]
    <3>1. k \in keys /\ db[KeyRow(k)] = disk[KeyRow(k)]
      BY <1>6, <2>1
    <3>2. Touches(j, k)
      BY <1>12, <1>k, <3>1 DEF Stashes
    <3> QED BY <1>7, <3>1, <3>2
  <2>2. /\ writer'[SpecRow] = writer[SpecRow]
        /\ \A e \in 0..MaxDocs : writer'[MetaRow(e)] = writer[MetaRow(e)]
        /\ \A e \in Ids : writer'[ContentRow(e)] = writer[ContentRow(e)]
    BY <1>5, DocumentRows
  <2> QED BY <1>1, <1>2, <1>3, <1>11, <2>1, <2>2, IdsAre DEF Settled, Own
<1>14. Written(t)'
  <2>1. ASSUME NEW k \in Keys, Touches(j, k)
        PROVE  New(j, k) <=> d \in IF writer'[KeyRow(k)] = t THEN db'[KeyRow(k)] ELSE disk[KeyRow(k)]
    <3>1. /\ k \in j.add <=> New(j, k)
          /\ Old(j, k) => k \in j.del
          /\ k \in j.add /\ k \in j.del => Old(j, k)
      BY <1>12, <2>1 DEF Stashes
    <3>2. Old(j, k) <=> d \in disk[KeyRow(k)]
      BY <1>1 DEF Exact, Old
    <3>3. CASE k \in j.add /\ k \notin del
      BY <1>6, <1>7, <1>k, <3>1, <3>3
    <3>4. CASE k \notin j.add /\ k \in del
      BY <1>6, <1>7, <1>k, <3>1, <3>4
    <3>5. CASE k \in j.add <=> k \in del
      <4>1. k \in j.add <=> k \in j.del
        BY <1>k, <3>5
      <4> QED BY <1>6, <1>k, <3>1, <3>2, <3>5, <4>1
    <3> QED BY <3>3, <3>4, <3>5
  <2>2. Rewrites(j) => writer'[ContentRow(d)] = t /\ db'[ContentRow(d)] = j.value
    BY <1>1, <1>5, DocumentRows DEF Settled, Written
  <2>3. Renames(j) => writer'[MetaRow(d)] = t /\ db'[MetaRow(d)] = Named(j)
    BY <1>1, <1>5, DocumentRows, IdsAre DEF Settled, Written
  <2> QED BY <1>2, <1>3, <1>11, <2>1, <2>2, <2>3 DEF Written
<1> QED BY <1>8, <1>9, <1>10, <1>13, <1>14 DEF Settled

\* A transaction of thread t ends: it is committed or aborted, or has nothing to
\* commit.
Ends(t) ==
  /\ UNCHANGED <<usage, sequence>>
  /\ pc'[t] = "idle" /\ job'[t] = NoJob
  /\ handle'[t] = NoHandle \/ (usage.keep /\ handle'[t] = handle[t])
  /\ \A s \in Txns \ {t} : pc'[s] = pc[s] /\ job'[s] = job[s] /\ handle'[s] = handle[s]
  /\ \A r \in Rows : /\ writer'[r] = IF writer[r] = t THEN NoTxn ELSE writer[r]
                     /\ writer[r] # t => db'[r] = db[r]
                     /\ \/ disk'[r] = disk[r]
                        \/ writer[r] = t /\ pc[t] = "done" /\ disk'[r] = db[r]
  /\ \A r \in MetaRows : readers'[r] = readers[r] \ {t}

\* An operation that ends without being done in a container without transactions
\* has written nothing.
LEMMA FailedHoldsNothing ==
  ASSUME StoreOK, NEW t \in Txns, Own(t), pc[t] \in {"read", "failed"}, ~usage.transacted
  PROVE  \A r \in Rows : writer[r] # t
<1> TAKE r \in Rows
<1>1. CASE r = SpecRow
  BY <1>1 DEF Own
<1>2. ASSUME NEW d \in 0..MaxDocs, r = MetaRow(d) PROVE writer[r] # t
  <2>1. d = 0 \/ d \in Ids
    BY BoundAssumption DEF Ids
  <2> QED BY <1>2, <2>1 DEF Own
<1>3. ASSUME NEW d \in Ids, r = ContentRow(d) PROVE writer[r] # t
  BY <1>3 DEF Own
<1>4. ASSUME NEW k \in Keys, r = KeyRow(k) PROVE writer[r] # t
  BY <1>4 DEF Own
<1> QED BY <1>1, <1>2, <1>3, <1>4 DEF Rows, MetaRows, ContentRows, KeyRows

LEMMA EndsSo ==
  ASSUME StoreOK, ThreadsOK, NEW t \in Txns, Own(t), UNCHANGED usage, Commit(t) \/ Abort(t)
  PROVE  Ends(t)
<1>1. /\ UNCHANGED <<usage, sequence>> /\ pc' = [pc EXCEPT ![t] = "idle"] /\ Release(t)
  BY DEF Commit, Abort
<1>2. \A r \in Rows : /\ writer[r] # t => db'[r] = db[r]
                      /\ \/ disk'[r] = disk[r]
                         \/ writer[r] = t /\ pc[t] = "done" /\ disk'[r] = db[r]
  <2>1. CASE Abort(t)
    BY <2>1 DEF Abort
  <2>2. CASE Commit(t) /\ pc[t] = "done"
    BY <2>2 DEF Commit
  <2>3. CASE Commit(t) /\ pc[t] # "done"
    <3>1. \A r \in Rows : writer[r] # t
      BY <2>3, FailedHoldsNothing DEF Commit
    <3> QED BY <2>3, <3>1 DEF Commit
  <2> QED BY <2>1, <2>2, <2>3
<1>3. /\ pc'[t] = "idle" /\ job'[t] = NoJob
      /\ handle'[t] = NoHandle \/ (usage.keep /\ handle'[t] = handle[t])
      /\ \A s \in Txns \ {t} : pc'[s] = pc[s] /\ job'[s] = job[s] /\ handle'[s] = handle[s]
  BY <1>1 DEF Release, ThreadsOK
<1>4. /\ \A r \in Rows : writer'[r] = IF writer[r] = t THEN NoTxn ELSE writer[r]
      /\ \A r \in MetaRows : readers'[r] = readers[r] \ {t}
  BY <1>1 DEF Release
<1> QED BY <1>1, <1>2, <1>3, <1>4 DEF Ends

\* What a job can be.
LEMMA CalmKinds ==
  ASSUME ThreadsOK, CalmInv, NEW t \in Txns, job[t].kind \in usage.ops[t]
  PROVE  /\ job[t].kind \in {"put", "rename", "update", "updateByName", "delete", "deleteByName"}
         /\ MayVanish(usage, t) => job[t].kind \in {"put", "delete", "deleteByName"}
<1>1. usage.ops[t] \subseteq Kinds
  BY UsageAssumption DEF ThreadsOK
<1>2. job[t].kind \notin {"addIndex", "deleteIndex"}
  BY DEF CalmInv, Calm
<1>3. MayVanish(usage, t) => usage.ops[t] \subseteq {"put", "delete", "deleteByName"}
  BY DEF CalmInv, Calm, Deletes
<1> QED BY <1>1, <1>2, <1>3 DEF Kinds

\* The documents that other threads add, delete or rename.
LEMMA OthersApart ==
  ASSUME StoreOK, ThreadsOK, CalmInv, NEW t \in Txns, NEW s \in Txns \ {t}, NEW d \in Ids
  PROVE  /\ Adding(s) /\ d = job[s].id => writer[MetaRow(d)] # t /\ writer[ContentRow(d)] # t
         /\ pc[s] \in {"metadata", "keys"} /\ Renames(job[s]) /\ d = job[s].id =>
              writer[MetaRow(d)] # t
<1>1. /\ Settled(s) /\ Settled(t) /\ s # t /\ s \in Txns
      /\ MetaRow(d) \in Rows /\ ContentRow(d) \in Rows /\ d # 0 /\ d \in 0..MaxDocs
  BY RowsAre, IdsAre DEF CalmInv
<1>2. writer[MetaRow(d)] = t \/ writer[ContentRow(d)] = t => d = job[t].id
  BY <1>1 DEF Settled, Own
<1>3. Adding(s) /\ d = job[s].id => writer[MetaRow(d)] # t /\ writer[ContentRow(d)] # t
  <2>1. Adding(s) /\ Adding(t) => job[t].id # job[s].id
    BY <1>1 DEF Settled, Place, Fresh
  <2>2. Adding(s) /\ ~Adding(t) /\ job[t].id # 0 => job[t].id # job[s].id
    BY <1>1 DEF Settled, Place, Known
  <2> QED BY <1>1, <1>2, <2>1, <2>2
<1>4. ASSUME pc[s] \in {"metadata", "keys"}, Renames(job[s]), d = job[s].id, writer[MetaRow(d)] = t
      PROVE  FALSE
  <2>1. job[s].kind \in usage.ops[s] /\ Rewrites(job[s]) => writer[ContentRow(d)] = s
    BY <1>1, <1>4 DEF Settled, Written
  <2>2. pc[s] = "metadata"
    BY <1>1, <1>4 DEF Settled, Written
  <2>3. job[s].kind \in usage.ops[s] /\ ~Adding(s)
    BY <1>1, <1>3, <1>4, <2>2 DEF Settled, Suits
  <2>4. /\ pc[t] \in {"keys", "done"} /\ Renames(job[t]) /\ d = job[t].id
        /\ Rewrites(job[t]) => writer[ContentRow(d)] = t
    BY <1>1, <1>4 DEF Settled, Own, Written
  <2>5. job[t].kind \in usage.ops[t] /\ ~Adding(t)
    <3>1. job[t].kind \in usage.ops[t]
      BY <1>1, <2>4 DEF Settled, Suits
    <3>2. job[s].id # 0 /\ ~Adding(s) => \A u \in Txns : Adding(u) => job[u].id # job[s].id
      BY <1>1 DEF Settled, Place, Known
    <3> QED BY <1>1, <1>4, <2>3, <2>4, <3>1, <3>2
  <2>6. CASE job[s].kind = "rename"
    <3>1. s \in readers[MetaRow(d)] /\ writer[MetaRow(d)] \in {s, NoTxn}
      BY <1>1, <1>4, <2>2, <2>6 DEF Settled, Written, CalmInv, Shared
    <3> QED BY <1>1, <1>4, <3>1, NamesAssumption
  <2>7. CASE job[s].kind # "rename"
    <3>1. job[s].kind \in Deletes /\ MayVanish(usage, t)
      BY <1>1, <1>4, <2>3, <2>7, CalmKinds DEF Renames, Updates, Deletes, Adding, MayVanish
    <3>2. job[t].kind \in Deletes
      BY <2>5, <3>1, CalmKinds DEF Deletes, Adding
    <3>3. writer[ContentRow(d)] = s /\ writer[ContentRow(d)] = t
      BY <2>1, <2>3, <2>4, <3>1, <3>2 DEF Rewrites, Deletes
    <3> QED BY <1>1, <3>3
  <2> QED BY <2>6, <2>7
<1> QED BY <1>3, <1>4

\* A thread that renames documents does not find any that another deletes, and
\* if XmlDocument objects are kept it deletes none itself.
LEMMA RenamerAlone ==
  ASSUME CalmInv, NEW t \in Txns, "rename" \in usage.ops[t], NEW s \in Txns, s # t \/ usage.keep
  PROVE  usage.ops[s] \cap Deletes = {}
<1>1. ~MayVanish(usage, t)
  BY DEF CalmInv, Calm, Deletes
<1> QED BY <1>1 DEF MayVanish

LEMMA EndsKnown ==
  ASSUME StoreOK, ThreadsOK, CalmInv, NEW t \in Txns, Ends(t), NEW s \in Txns, s # t \/ usage.keep,
         NEW d \in Ids, NEW n, Known(s, d, n)
  PROVE  Known(s, d, n)'
<1>1. /\ Settled(t) /\ MetaRow(d) \in Rows /\ usage' = usage /\ sequence' = sequence
  BY RowsAre, IdsAre DEF CalmInv, Ends
<1>2. ASSUME NEW u \in Txns, Adding(u)' PROVE job'[u].id # d
  <2>1. u # t
    BY <1>2, NamesAssumption DEF Ends, Adding, NoJob, Kinds
  <2> QED BY <1>2, <2>1 DEF Ends, Adding, Known
<1>3. CASE disk'[MetaRow(d)] = disk[MetaRow(d)]
  <2>1. \/ usage.ops[s] \cap Deletes = {} \/ job'[s].kind = "rename"
        \/ disk[MetaRow(d)] \in {None, n}
    <3>1. CASE s # t
      BY <3>1 DEF Ends, Known
    <3>2. CASE s = t /\ job[t].kind = "rename"
      <4>1. "rename" \in usage.ops[t]
        BY <1>1, <3>2, NamesAssumption DEF Settled, Suits, Kinds
      <4> QED BY <3>2, <4>1, RenamerAlone
    <3>3. CASE s = t /\ job[t].kind # "rename"
      BY <3>3 DEF Known
    <3> QED BY <3>1, <3>2, <3>3
  <2> QED BY <1>1, <1>2, <1>3, <2>1 DEF Known
<1>4. CASE writer[MetaRow(d)] = t /\ pc[t] = "done" /\ disk'[MetaRow(d)] = db[MetaRow(d)]
  <2>1. Renames(job[t]) /\ d = job[t].id /\ job[t].kind \in usage.ops[t] /\ job[t].name \in Names
    BY <1>1, <1>4 DEF Settled, Own, Suits
  <2>2. disk'[MetaRow(d)] = Named(job[t])
    BY <1>1, <1>4, <2>1 DEF Settled, Written
  <2>3. job[t].kind = "rename" \/ job[t].kind \in Deletes
    BY <2>1, CalmKinds DEF Known, Adding, Renames, Updates, Deletes
  <2>4. CASE job[t].kind = "rename"
    <3>1. usage.ops[s] \cap Deletes = {}
      BY <2>1, <2>4, RenamerAlone
    <3>2. disk'[MetaRow(d)] # None
      BY <2>1, <2>2, <2>4, NamesAssumption DEF Named, Deletes
    <3> QED BY <1>1, <1>2, <3>1, <3>2 DEF Known
  <2>5. CASE job[t].kind \in Deletes
    <3>1. MayVanish(usage, s)
      BY <2>1, <2>5 DEF MayVanish
    <3>2. disk'[MetaRow(d)] = None
      BY <2>2, <2>5 DEF Named
    <3> QED BY <1>1, <1>2, <3>1, <3>2 DEF Known
  <2> QED BY <2>3, <2>4, <2>5
<1> QED BY <1>1, <1>3, <1>4 DEF Ends

LEMMA EndsOthers ==
  ASSUME StoreOK, StoreOK', ThreadsOK, ThreadsOK', CalmInv, NEW t \in Txns, Ends(t),
         NEW s \in Txns \ {t}
  PROVE  Settled(s)'
<1>1. /\ pc'[s] = pc[s] /\ job'[s] = job[s] /\ handle'[s] = handle[s]
      /\ usage' = usage /\ s # t /\ s \in Txns /\ s # NoTxn /\ Settled(s) /\ Settled(t)
  BY NamesAssumption DEF Ends, CalmInv
<1>2. \A r \in Rows : /\ writer'[r] = s <=> writer[r] = s
                      /\ writer[r] = s => db'[r] = db[r] /\ disk'[r] = disk[r]
                      /\ writer[r] # t => disk'[r] = disk[r]
  BY <1>1 DEF Ends
<1>3. disk'[SpecRow] = disk[SpecRow]
  BY <1>1, <1>2, RowsAre DEF Settled, Own
<1>4. Suits(s)'
  BY <1>1, <1>3 DEF Suits, Settled
<1>5. Place(s)'
  <2>1. handle[s].id # 0 => handle[s].id \in Ids
    BY DEF ThreadsOK, NoHandle
  <2>2. job[s].id # 0 => job[s].id \in Ids
    <3>1. job[s].id \in 0..MaxDocs
      BY <1>1 DEF ThreadsOK, Job
    <3> QED BY <3>1, BoundAssumption DEF Ids
  <2>3. handle[s].id # 0 => Known(s, handle[s].id, handle[s].name)'
    BY <1>1, <2>1, EndsKnown DEF Settled, Place
  <2>4. job[s].id # 0 /\ ~Adding(s) => Known(s, job[s].id, job[s].name)'
    BY <1>1, <2>2, EndsKnown DEF Settled, Place
  <2>5. ASSUME Adding(s) PROVE Fresh(s)'
    <3>1. Fresh(s)
      BY <1>1, <2>5 DEF Settled, Place
    <3>2. writer[MetaRow(job[s].id)] # t /\ writer[ContentRow(job[s].id)] # t
      BY <2>5, <3>1, OthersApart DEF Fresh
    <3>3. disk'[MetaRow(job[s].id)] = None /\ disk'[ContentRow(job[s].id)] = None
      BY <1>2, <3>1, <3>2, RowsAre, IdsAre DEF Fresh
    <3>4. ASSUME NEW u \in Txns \ {s}, Adding(u)' PROVE job'[u].id # job[s].id
      <4>1. u # t
        BY <3>4, NamesAssumption DEF Ends, Adding, NoJob, Kinds
      <4> QED BY <3>1, <3>4, <4>1 DEF Ends, Adding, Fresh
    <3>5. sequence' = sequence
      BY DEF Ends
    <3> QED BY <1>1, <3>1, <3>3, <3>4, <3>5 DEF Fresh
  <2> QED BY <1>1, <2>3, <2>4, <2>5 DEF Place, Adding
<1>6. Own(s)'
  BY <1>1, <1>2, RowsAre, IdsAre DEF Own, Settled, Touches, Renames, Rewrites
<1>7. Written(s)'
  <2> DEFINE j == job[s]
             d == job[s].id
  <2>1. \A k : New(job[s], k)' <=> New(job[s], k)
    BY <1>1, <1>3 DEF New, Named, HasKeyOf
  <2>2. \A k : Touches(job[s], k)' <=> Touches(job[s], k)
    BY <1>1 DEF Touches, Renames, Rewrites
  <2>3. pc[s] \in {"metadata", "keys", "done"} => d \in Ids /\ d \in 0..MaxDocs
    BY <1>1, IdsAre DEF Settled, Suits
  <2>4. pc[s] \in {"metadata", "keys"} => Stashes(job[s])'
    <3> SUFFICES ASSUME pc[s] \in {"metadata", "keys"}, NEW k \in Keys, Touches(j, k)
                 PROVE  Old(job[s], k)' <=> Old(job[s], k)
      BY <1>1, <2>1, <2>2 DEF Settled, Written, Stashes
    <3>1. CASE k[1] = NameIndex
      <4>1. writer[MetaRow(d)] # t
        BY <2>3, <3>1, OthersApart DEF Touches
      <4>2. disk'[MetaRow(d)] = disk[MetaRow(d)]
        BY <1>2, <2>3, <4>1, RowsAre
      <4> QED BY <1>1, <1>3, <3>1, <4>2 DEF Old, HasKey, HasKeyOf
    <3>2. CASE k[1] # NameIndex
      <4>1. writer[ContentRow(d)] = s
        BY <1>1, <3>2 DEF Touches, Settled, Written
      <4>2. disk'[ContentRow(d)] = disk[ContentRow(d)]
        BY <1>2, <2>3, <4>1, RowsAre
      <4> QED BY <1>1, <1>3, <3>2, <4>2 DEF Old, HasKey, HasKeyOf
    <3> QED BY <3>1, <3>2
  <2>5. ASSUME pc[s] = "done", NEW k \in Keys, Touches(j, k)
        PROVE  New(j, k) <=> d \in IF writer'[KeyRow(k)] = s THEN db'[KeyRow(k)] ELSE disk'[KeyRow(k)]
    <3>1. New(j, k) <=> d \in IF writer[KeyRow(k)] = s THEN db[KeyRow(k)] ELSE disk[KeyRow(k)]
      BY <1>1, <2>5 DEF Settled, Written
    <3>2. KeyRow(k) \in Rows /\ d \in Ids
      BY <2>3, <2>5, RowsAre
    <3>3. CASE writer[KeyRow(k)] = s \/ disk'[KeyRow(k)] = disk[KeyRow(k)]
      BY <1>2, <3>1, <3>2, <3>3
    <3>4. CASE /\ writer[KeyRow(k)] = t /\ pc[t] = "done" /\ disk'[KeyRow(k)] = db[KeyRow(k)]
      <4>1. /\ Touches(job[t], k)
            /\ \A e \in Ids \ {job[t].id} : e \in db[KeyRow(k)] <=> e \in disk[KeyRow(k)]
        BY <1>1, <3>4 DEF Settled, Own
      <4>2. d # job[t].id
        <5>1. CASE k[1] = NameIndex
          BY <1>1, <2>5, <3>4, <4>1, <5>1 DEF Touches, Settled, Written
        <5>2. CASE k[1] # NameIndex
          BY <1>1, <2>5, <3>4, <4>1, <5>2 DEF Touches, Settled, Written
        <5> QED BY <5>1, <5>2
      <4> QED BY <1>1, <1>2, <3>1, <3>2, <3>4, <4>1, <4>2
    <3> QED BY <3>2, <3>3, <3>4 DEF Ends
  <2>6. \A e \in 0..MaxDocs : s \in readers[MetaRow(e)] => s \in readers'[MetaRow(e)]
    BY <1>1, RowsAre DEF Ends
  <2> QED BY <1>1, <1>2, <2>1, <2>2, <2>3, <2>4, <2>5, <2>6, RowsAre, IdsAre
          DEF Written, Settled, Renames, Rewrites, Named
<1> QED BY <1>4, <1>5, <1>6, <1>7 DEF Settled

LEMMA SameInOrder ==
  ASSUME NEW f, NEW g, \A r \in Rows : g[r] = f[r],
         Exact(f, f[SpecRow]), Paired(f), NoZero(f)
  PROVE  Exact(g, g[SpecRow]) /\ Paired(g) /\ NoZero(g)
<1>1. /\ g[SpecRow] = f[SpecRow] /\ g[MetaRow(0)] = f[MetaRow(0)]
      /\ \A d \in Ids : g[MetaRow(d)] = f[MetaRow(d)] /\ g[ContentRow(d)] = f[ContentRow(d)]
      /\ \A k \in Keys : g[KeyRow(k)] = f[KeyRow(k)]
  BY RowsAre, IdsAre
<1> QED BY <1>1 DEF Exact, HasKey, Paired, NoZero

\* What a transaction that is committed makes of the rows.
LEMMA CommitMakes ==
  ASSUME StoreOK, ThreadsOK, CalmInv, NEW t \in Txns, Ends(t), pc[t] = "done",
         \A r \in Rows : writer[r] = t => disk'[r] = db[r]
  PROVE  LET j == job[t]
             d == job[t].id IN
         /\ disk'[SpecRow] = disk[SpecRow]
         /\ disk'[MetaRow(0)] = disk[MetaRow(0)] \/ j.kind = "updateByName"
         /\ disk'[MetaRow(d)] = IF Renames(j) THEN Named(j) ELSE disk[MetaRow(d)]
         /\ disk'[ContentRow(d)] = IF Rewrites(j) THEN j.value ELSE disk[ContentRow(d)]
         /\ \A e \in Ids \ {d} : /\ disk'[MetaRow(e)] = disk[MetaRow(e)]
                                 /\ disk'[ContentRow(e)] = disk[ContentRow(e)]
         /\ \A k \in Keys :
              /\ \A e \in Ids \ {d} : e \in disk'[KeyRow(k)] <=> e \in disk[KeyRow(k)]
              /\ IF Touches(j, k) THEN d \in disk'[KeyRow(k)] <=> New(j, k)
                 ELSE disk'[KeyRow(k)] = disk[KeyRow(k)]
<1> DEFINE j == job[t]
           d == job[t].id
<1>1. Settled(t) /\ d \in Ids
  BY DEF CalmInv, Settled, Suits
<1>2. \A r \in Rows : /\ writer[r] = t => disk'[r] = db[r]
                      /\ writer[r] # t => disk'[r] = disk[r]
  BY DEF Ends
<1>3. /\ disk'[SpecRow] = disk[SpecRow]
      /\ disk'[MetaRow(0)] = disk[MetaRow(0)] \/ j.kind = "updateByName"
  BY <1>1, <1>2, RowsAre, IdsAre DEF Settled, Own
<1>4. /\ disk'[MetaRow(d)] = IF Renames(j) THEN Named(j) ELSE disk[MetaRow(d)]
      /\ disk'[ContentRow(d)] = IF Rewrites(j) THEN j.value ELSE disk[ContentRow(d)]
  BY <1>1, <1>2, RowsAre, IdsAre DEF Settled, Own, Written
<1>5. ASSUME NEW e \in Ids \ {d}
      PROVE  disk'[MetaRow(e)] = disk[MetaRow(e)] /\ disk'[ContentRow(e)] = disk[ContentRow(e)]
  BY <1>1, <1>2, RowsAre, IdsAre DEF Settled, Own
<1>6. ASSUME NEW k \in Keys
      PROVE  /\ \A e \in Ids \ {d} : e \in disk'[KeyRow(k)] <=> e \in disk[KeyRow(k)]
             /\ IF Touches(j, k) THEN d \in disk'[KeyRow(k)] <=> New(j, k)
                ELSE disk'[KeyRow(k)] = disk[KeyRow(k)]
  BY <1>1, <1>2, RowsAre DEF Settled, Own, Written
<1> QED BY <1>3, <1>4, <1>5, <1>6

LEMMA CommitInOrder ==
  ASSUME StoreOK, ThreadsOK, CalmInv, NEW t \in Txns, Ends(t), pc[t] = "done",
         \A r \in Rows : writer[r] = t => disk'[r] = db[r]
  PROVE  InOrder'
<1> DEFINE j == job[t]
           d == job[t].id
<1>1. /\ Settled(t) /\ d \in Ids /\ j.kind \in usage.ops[t] /\ j.name \in Names
      /\ Exact(disk, disk[SpecRow]) /\ Paired(disk) /\ NoZero(disk)
      /\ sequence' = sequence /\ usage' = usage
  BY DEF CalmInv, InOrder, Settled, Suits, Ends
<1>2. /\ disk'[SpecRow] = disk[SpecRow]
      /\ disk'[MetaRow(0)] = disk[MetaRow(0)] \/ j.kind = "updateByName"
      /\ disk'[MetaRow(d)] = IF Renames(j) THEN Named(j) ELSE disk[MetaRow(d)]
      /\ disk'[ContentRow(d)] = IF Rewrites(j) THEN j.value ELSE disk[ContentRow(d)]
      /\ \A e \in Ids \ {d} : /\ disk'[MetaRow(e)] = disk[MetaRow(e)]
                              /\ disk'[ContentRow(e)] = disk[ContentRow(e)]
      /\ \A k \in Keys :
           /\ \A e \in Ids \ {d} : e \in disk'[KeyRow(k)] <=> e \in disk[KeyRow(k)]
           /\ IF Touches(j, k) THEN d \in disk'[KeyRow(k)] <=> New(j, k)
              ELSE disk'[KeyRow(k)] = disk[KeyRow(k)]
  BY CommitMakes
<1>3. Exact(disk, disk[SpecRow])'
  <2> SUFFICES ASSUME NEW k \in Keys, NEW e \in Ids
               PROVE  e \in disk'[KeyRow(k)] <=> HasKeyOf(disk'[SpecRow], disk'[MetaRow(e)], disk'[ContentRow(e)], k)
    BY DEF Exact, HasKey
  <2>1. e \in disk[KeyRow(k)] <=> HasKeyOf(disk[SpecRow], disk[MetaRow(e)], disk[ContentRow(e)], k)
    BY <1>1 DEF Exact, HasKey
  <2>2. CASE e # d
    BY <1>2, <2>1, <2>2
  <2>3. CASE e = d /\ Touches(j, k)
    <3>1. CASE k[1] = NameIndex
      BY <1>2, <2>3, <3>1 DEF Touches, New, HasKeyOf
    <3>2. CASE k[1] # NameIndex
      BY <1>2, <2>3, <3>2 DEF Touches, New, HasKeyOf
    <3> QED BY <3>1, <3>2
  <2>4. CASE e = d /\ ~Touches(j, k)
    BY <1>2, <2>1, <2>4 DEF Touches, HasKeyOf
  <2> QED BY <2>2, <2>3, <2>4
<1>4. Paired(disk)'
  <2>1. /\ disk'[MetaRow(d)] = None <=> disk'[ContentRow(d)] = None
        /\ disk'[MetaRow(d)] # None => d <= sequence
    <3>1. /\ j.kind \in {"put", "rename", "update", "updateByName", "delete", "deleteByName"}
          /\ MayVanish(usage, t) => j.kind \in {"put", "delete", "deleteByName"}
      BY <1>1, CalmKinds
    <3>2. d <= sequence /\ (j.kind # "put" /\ ~MayVanish(usage, t) => disk[MetaRow(d)] # None)
      BY <1>1, IdsAre DEF Settled, Place, Known, Fresh, Adding
    <3>3. /\ j.name # None /\ (j.kind \in {"put", "update", "updateByName"} => j.value # None)
          /\ j.kind \in Deletes => j.value = None
      BY <1>1, NamesAssumption DEF Settled, Suits, Updates
    <3>4. disk[MetaRow(d)] = None <=> disk[ContentRow(d)] = None
      BY <1>1 DEF Paired
    <3>5. CASE j.kind \in {"put", "rename"}
      BY <1>2, <3>1, <3>2, <3>3, <3>4, <3>5 DEF Renames, Rewrites, Named, Updates, Deletes
    <3>6. CASE j.kind \in {"update", "updateByName"}
      BY <1>2, <3>1, <3>2, <3>3, <3>4, <3>6 DEF Renames, Rewrites, Named, Updates, Deletes
    <3>7. CASE j.kind \in {"delete", "deleteByName"}
      BY <1>2, <3>1, <3>2, <3>3, <3>4, <3>7 DEF Renames, Rewrites, Named, Updates, Deletes
    <3> QED BY <3>1, <3>5, <3>6, <3>7
  <2>2. ~(d <= sequence) <=> d > sequence
    BY <1>1, BoundAssumption DEF Ids, ThreadsOK
  <2> QED BY <1>1, <1>2, <2>1, <2>2 DEF Paired
<1>5. NoZero(disk)'
  BY <1>1, <1>2 DEF NoZero
<1> QED BY <1>3, <1>4, <1>5 DEF InOrder

LEMMA EndCalm ==
  ASSUME StoreOK, StoreOK', ThreadsOK, ThreadsOK', CalmInv, NEW t \in Txns, UNCHANGED usage,
         Commit(t) \/ Abort(t)
  PROVE  CalmInv'
<1>1. Settled(t) /\ Ends(t) /\ Calm(usage) /\ InOrder /\ Shared
  BY EndsSo DEF CalmInv, Settled
<1>2. InOrder'
  <2>1. CASE Abort(t)
    <3>1. disk' = disk /\ sequence' = sequence
      BY <2>1 DEF Abort
    <3> QED BY <1>1, <3>1 DEF InOrder, Exact, HasKey, Paired, NoZero
  <2>2. CASE Commit(t) /\ pc[t] = "done"
    <3>1. \A r \in Rows : writer[r] = t => disk'[r] = db[r]
      BY <2>2 DEF Commit
    <3> QED BY <1>1, <2>2, <3>1, CommitInOrder
  <2>3. CASE Commit(t) /\ pc[t] # "done"
    <3>1. \A r \in Rows : disk'[r] = disk[r]
      BY <1>1, <2>3 DEF Ends
    <3>2. Exact(disk', disk'[SpecRow]) /\ Paired(disk') /\ NoZero(disk')
      BY <1>1, <3>1, SameInOrder DEF InOrder
    <3>3. sequence' = sequence
      BY <1>1 DEF Ends
    <3> QED BY <3>2, <3>3 DEF InOrder, Exact, HasKey, Paired, NoZero
  <2> QED BY <2>1, <2>2, <2>3
<1>3. Shared'
  <2> SUFFICES ASSUME NEW d \in 0..MaxDocs, NEW s \in readers'[MetaRow(d)]
               PROVE  writer'[MetaRow(d)] \in {s, NoTxn}
    BY DEF Shared
  <2>1. MetaRow(d) \in Rows /\ MetaRow(d) \in MetaRows
    BY RowsAre
  <2>2. s \in readers[MetaRow(d)] /\ writer'[MetaRow(d)] \in {writer[MetaRow(d)], NoTxn}
    BY <1>1, <2>1 DEF Ends
  <2> QED BY <1>1, <2>2 DEF Shared
<1>4. Settled(t)'
  <2>1. /\ pc'[t] = "idle" /\ job'[t] = NoJob
        /\ handle'[t] = NoHandle \/ (usage.keep /\ handle'[t] = handle[t])
        /\ \A r \in Rows : writer'[r] # t
    BY <1>1, NamesAssumption DEF Ends
  <2>2. NoJob.kind = None /\ NoJob.id = 0 /\ NoJob.new = {} /\ NoHandle.id = 0
    BY DEF NoJob, NoHandle
  <2>3. None # "put" /\ None \notin Updates /\ None \notin Deletes
    BY NamesAssumption DEF Kinds, Updates, Deletes
  <2>4. Suits(t)'
    BY <2>1, <2>2, <2>3 DEF Suits
  <2>5. handle'[t].id # 0 => Known(t, handle[t].id, handle[t].name)'
    <3>1. handle[t].id # 0 => handle[t].id \in Ids
      BY DEF ThreadsOK, NoHandle
    <3>2. handle'[t].id # 0 => handle'[t] = handle[t] /\ handle[t].id # 0 /\ usage.keep
      BY <2>1, <2>2
    <3>3. handle[t].id # 0 => Known(t, handle[t].id, handle[t].name)
      BY <1>1 DEF Settled, Place
    <3> QED BY <1>1, <3>1, <3>2, <3>3, EndsKnown
  <2>6. Place(t)'
    BY <2>1, <2>2, <2>3, <2>5 DEF Place, Adding
  <2>7. Own(t)' /\ Written(t)'
    BY <2>1, RowsAre, IdsAre DEF Own, Written
  <2> QED BY <2>4, <2>6, <2>7 DEF Settled
<1>5. ASSUME NEW s \in Txns PROVE Settled(s)'
  BY <1>1, <1>4, EndsOthers
<1> QED BY <1>1, <1>2, <1>3, <1>5 DEF CalmInv, Ends, Calm

LEMMA InitCalm ==
  ASSUME Init, Calm(usage)
  PROVE  CalmInv
<1>1. InOrder
  BY InitGood DEF Good, Rest, InOrder
<1>2. Shared
  BY NamesAssumption, RowsAre DEF Init, Shared
<1>3. ASSUME NEW t \in Txns PROVE Settled(t)
  <2>1. /\ pc[t] = "idle" /\ job[t] = NoJob /\ handle[t] = NoHandle
        /\ \A r \in Rows : writer[r] = NoTxn /\ writer[r] # t
    BY NamesAssumption DEF Init
  <2>2. NoJob.kind = None /\ NoJob.id = 0 /\ NoJob.new = {} /\ NoHandle.id = 0
    BY DEF NoJob, NoHandle
  <2>3. None # "put" /\ None \notin Updates /\ None \notin Deletes
    BY NamesAssumption DEF Kinds, Updates, Deletes
  <2>4. Suits(t) /\ Place(t)
    BY <2>1, <2>2, <2>3 DEF Suits, Place, Adding
  <2>5. Own(t) /\ Written(t)
    BY <2>1, RowsAre, IdsAre DEF Own, Written
  <2> QED BY <2>4, <2>5 DEF Settled
<1> QED BY <1>1, <1>2, <1>3 DEF CalmInv

LEMMA StepCalm ==
  ASSUME TypeOK, TypeOK', CalmInv, Next
  PROVE  CalmInv'
<1>1. StoreOK /\ ThreadsOK /\ StoreOK' /\ ThreadsOK' /\ UNCHANGED usage
  BY TypeParts DEF Next, TypeOK, StoreOK, ThreadsOK, RowsOK, Isolated
<1>2. ASSUME NEW t \in Txns, Moves(t) /\ Settled(t)' PROVE CalmInv'
  BY <1>1, <1>2, GoesOnCalm
<1>3. ASSUME NEW t \in Txns,
             \/ \E n \in Names : Get(t, n) \/ Rename(t, n) \/ DeleteByName(t, n)
             \/ \E n \in Names, v \in Values : Put(t, n, v) \/ UpdateByName(t, n, v)
             \/ \E v \in Values : Update(t, v)
             \/ \E s \in Strategies : AddIndex(t, s) \/ DeleteIndex(t, s)
             \/ Delete(t)
      PROVE  CalmInv'
  BY <1>1, <1>2, <1>3, StartCalm
<1>4. ASSUME NEW t \in Txns,
             \/ GetRead(t) \/ Fetch(t) \/ InitDelete(t)
             \/ Add(t) \/ Replace(t) \/ ReplaceName(t) \/ RemoveContentAndIndex(t)
             \/ WriteMetaData(t) \/ UpdateIndex(t)
      PROVE  CalmInv'
  BY <1>1, <1>2, <1>4, ReadCalm, PlanCalm, WriteMetaDataCalm, UpdateIndexCalm
<1>5. ASSUME NEW t \in Txns,
             \/ SetIndexSpecification(t) \/ RemoveIndexes(t) \/ Reindex(t)
             \/ PutIndexSpecification(t)
      PROVE  FALSE
  <2>1. pc[t] \notin {"set", "clear", "reindex", "write"}
    BY DEF CalmInv, Settled, Suits
  <2> QED BY <1>5, <2>1 DEF SetIndexSpecification, RemoveIndexes, Reindex, PutIndexSpecification
<1>6. ASSUME NEW t \in Txns, Commit(t) \/ Abort(t) PROVE CalmInv'
  BY <1>1, <1>6, EndCalm
<1> QED BY <1>3, <1>4, <1>5, <1>6 DEF Next

LEMMA CalmAlways ==
  ASSUME \A u \in Usages : Calm(u)
  PROVE  Spec => []CalmInv
<1>1. Init => CalmInv
  <2> SUFFICES ASSUME Init PROVE CalmInv
    OBVIOUS
  <2>1. usage \in Usages
    BY DEF Init
  <2> QED BY <2>1, InitCalm
<1>2. TypeOK /\ CalmInv /\ [Next]_vars /\ TypeOK' => CalmInv'
  <2> SUFFICES ASSUME TypeOK, CalmInv, [Next]_vars, TypeOK' PROVE CalmInv'
    OBVIOUS
  <2>1. CASE UNCHANGED vars
    <3>1. UNCHANGED <<usage, db, disk, writer, readers, sequence, pc, job, handle>>
      BY <2>1 DEF vars
    <3>2. InOrder' /\ Shared' /\ Calm(usage)'
      BY <3>1 DEF CalmInv, InOrder, Exact, HasKey, Paired, NoZero, Shared, Calm
    <3>3. ASSUME NEW t \in Txns PROVE Settled(t)'
      <4>1. Settled(t)
        BY DEF CalmInv
      <4>2. Suits(t)' /\ Own(t)'
        BY <3>1, <4>1 DEF Settled, Suits, Own, Touches, Renames, Rewrites
      <4>3. Place(t)'
        BY <3>1, <4>1 DEF Settled, Place, Known, Fresh, Adding
      <4>4. Written(t)'
        <5>1. Stashes(job[t])' <=> Stashes(job[t])
          BY <3>1 DEF Stashes, Touches, Renames, Rewrites, Old, New, Named, HasKey
        <5>2. \A k : New(job[t], k)' <=> New(job[t], k)
          BY <3>1 DEF New, Named
        <5> QED BY <3>1, <4>1, <5>1, <5>2 DEF Settled, Written, Touches, Renames, Rewrites, Named
      <4> QED BY <4>2, <4>3, <4>4 DEF Settled
    <3> QED BY <3>2, <3>3 DEF CalmInv
  <2> QED BY <2>1, StepCalm
<1> QED BY <1>1, <1>2, TypeCorrect, PTL DEF Spec

\* Any number of threads may put, update, rename and delete documents, as long as
\* none updates or renames a document that another one may delete, the
\* specification does not change and a container without transactions is not
\* updated: the indexes on disk are exact after every transaction. The entries of one document are not
\* disturbed by what the others write under the same key, and a document never
\* has keys of a content or a name that it has no more.
THEOREM SharedIndexesExact ==
  ASSUME \A u \in Usages : Calm(u)
  PROVE  Spec => []IndexExact
<1>1. TypeOK /\ CalmInv => IndexExact
  BY OrderIsRight, TypeParts DEF CalmInv, InOrder
<1> QED BY <1>1, CalmAlways, TypeCorrect, PTL

\* Under the same conditions every document has content and metadata or neither.
THEOREM SharedDocumentsWhole ==
  ASSUME \A u \in Usages : Calm(u)
  PROVE  Spec => []Whole
<1>1. TypeOK /\ CalmInv => Whole
  BY OrderIsRight, TypeParts DEF CalmInv, InOrder
<1> QED BY <1>1, CalmAlways, TypeCorrect, PTL

-----------------------------------------------------------------------------
(* Unique values where many threads use the container *)

\* At most one thread gives documents names, and at most one gives them contents.
NamesDocuments(ops) == ops \cap {"put", "rename"} # {}
FillsDocuments(ops) == ops \cap ({"put"} \cup Updates) # {}
OneAdds(u) ==
  \A s, t \in Txns : s # t =>
    /\ ~(NamesDocuments(u.ops[s]) /\ NamesDocuments(u.ops[t]))
    /\ ~(FillsDocuments(u.ops[s]) /\ FillsDocuments(u.ops[t]))

\* No other document has the unique keys that thread t is going to add.
Vacant(t) ==
  pc[t] \in {"metadata", "keys", "done"} =>
    \A k \in UniqueKeys(Keys) :
      Touches(job[t], k) /\ New(job[t], k) => disk[KeyRow(k)] \subseteq {job[t].id}

SoleInv == OneAdds(usage) /\ Sole(disk) /\ \A t \in Txns : Vacant(t)

\* The check of a unique key that finds no other document.
LEMMA CheckedVacant ==
  ASSUME StoreOK, Sole(disk), NEW t \in Txns, Own(t),
         pc[t] \notin {"metadata", "keys", "done", "failed"},
         NEW keys \in SUBSET Keys, NEW d \in Ids,
         CanRead(t, {KeyRow(k) : k \in UniqueKeys(keys)}), ~Violates(d, keys),
         NEW k \in UniqueKeys(keys)
  PROVE  disk[KeyRow(k)] \subseteq {d}
<1>1. k \in Keys /\ k \in UniqueKeys(Keys) /\ KeyRow(k) \in Rows
  BY RowsAre DEF UniqueKeys
<1>2. Entries(k) = disk[KeyRow(k)] /\ Entries(k) \subseteq Ids
  BY <1>1, HoldsNothing DEF CanRead, Entries, StoreOK, RowsOK
<1>3. ASSUME NEW e \in disk[KeyRow(k)] PROVE e = d
  <2>1. \A f \in Entries(k) : f = e
    BY <1>1, <1>2, <1>3 DEF Sole
  <2>2. e \in First(k)
    BY <1>2, <1>3, <2>1, BoundAssumption DEF First, Ids
  <2> QED BY <2>2 DEF Violates
<1> QED BY <1>3

LEMMA PlanVacant ==
  ASSUME StoreOK, ThreadsOK, ThreadsOK', CalmInv, SoleInv, NEW t \in Txns, UNCHANGED usage,
         Add(t) \/ Replace(t) \/ ReplaceName(t) \/ RemoveContentAndIndex(t),
         Settled(t)', disk' = disk
  PROVE  Vacant(t)'
<1> SUFFICES ASSUME pc'[t] = "metadata", NEW k \in UniqueKeys(Keys),
                    Touches(job[t], k)', New(job[t], k)'
             PROVE  disk[KeyRow(k)] \subseteq {job'[t].id}
  <2>1. pc'[t] \in {"metadata", "failed"}
    BY DEF Add, Replace, ReplaceName, RemoveContentAndIndex, Fail, Goto, ThreadsOK
  <2> QED BY <2>1 DEF Vacant
<1> DEFINE j == job[t]
<1>1. /\ Settled(t) /\ Own(t) /\ pc[t] \in {"add", "replace", "rename", "remove"}
      /\ j \in Job /\ j.id \in Ids /\ k \in Keys /\ job'[t] \in Job
  BY DEF CalmInv, ThreadsOK, Add, Replace, ReplaceName, RemoveContentAndIndex, Settled, Suits,
         UniqueKeys
<1>2. k \in job'[t].add
  BY <1>1 DEF Settled, Written, Stashes
<1>3. k \in UniqueKeys(job'[t].add)
  BY <1>2 DEF UniqueKeys
<1>4. ASSUME NEW add, job'[t].add = add, job'[t].id = j.id, ~Violates(j.id, add),
             CanRead(t, {KeyRow(l) : l \in UniqueKeys(add)})
      PROVE  disk[KeyRow(k)] \subseteq {job'[t].id}
  <2>1. add \in SUBSET Keys
    BY <1>1, <1>4 DEF Job
  <2> QED BY <1>1, <1>3, <1>4, <2>1, CheckedVacant DEF SoleInv
<1>5. CASE Add(t)
  <2> DEFINE add == {NameKey(j.name)} \cup ContentKeys(j.is, j.value)
  <2>1. /\ ~Violates(j.id, add) /\ job' = [job EXCEPT ![t].add = add, ![t].new = AutoSpec]
        /\ CanRead(t, {KeyRow(l) : l \in UniqueKeys(add)})
    BY <1>1, <1>5 DEF Add, Fail, ThreadsOK, CanRead
  <2>2. job'[t].add = add /\ job'[t].id = j.id
    BY <1>1, <2>1 DEF ThreadsOK, Job
  <2> QED BY <1>4, <2>1, <2>2
<1>6. CASE Replace(t)
  <2> DEFINE metadata == IF j.kind = "updateByName" THEN {NameKey(j.name)} ELSE {}
             add == metadata \cup ContentKeys(j.is, j.value)
             del == metadata \cup ContentKeys(j.is, db[ContentRow(j.id)])
  <2>1. /\ ~Violates(j.id, add)
        /\ job' = [job EXCEPT ![t].add = add, ![t].del = del, ![t].new = AutoSpec]
        /\ CanRead(t, {KeyRow(l) : l \in UniqueKeys(add)})
    BY <1>1, <1>6 DEF Replace, Fail, ThreadsOK, CanRead
  <2>2. job'[t].add = add /\ job'[t].id = j.id
    BY <1>1, <2>1 DEF ThreadsOK, Job
  <2> QED BY <1>4, <2>1, <2>2
<1>7. CASE ReplaceName(t)
  <2> DEFINE add == {NameKey(j.name)}
             del == IF db[MetaRow(j.id)] = None THEN {} ELSE {NameKey(db[MetaRow(j.id)])}
  <2>1. /\ ~Violates(j.id, add) /\ job' = [job EXCEPT ![t].add = add, ![t].del = del]
        /\ CanRead(t, {KeyRow(l) : l \in UniqueKeys(add)})
    BY <1>1, <1>7 DEF ReplaceName, Fail, ThreadsOK, CanRead, UniqueKeys
  <2>2. job'[t].add = add /\ job'[t].id = j.id
    BY <1>1, <2>1 DEF ThreadsOK, Job
  <2> QED BY <1>4, <2>1, <2>2
<1>8. CASE RemoveContentAndIndex(t)
  <2>1. job'[t].add = {}
    <3>1. pc[t] = "remove" /\ j.add = {}
      BY <1>1, <1>8 DEF RemoveContentAndIndex, Settled, Suits
    <3>2. job' = [job EXCEPT ![t].del = {NameKey(j.name)} \cup ContentKeys(j.is, db[ContentRow(j.id)])]
      BY <1>8 DEF RemoveContentAndIndex
    <3> QED BY <1>1, <3>1, <3>2 DEF ThreadsOK, Job
  <2> QED BY <1>2, <2>1
<1> QED BY <1>5, <1>6, <1>7, <1>8

LEMMA GoesOnSole ==
  ASSUME ThreadsOK, ThreadsOK', SoleInv, NEW t \in Txns, UNCHANGED <<usage, disk>>,
         \A s \in Txns \ {t} : pc'[s] = pc[s] /\ job'[s] = job[s], Vacant(t)'
  PROVE  SoleInv'
<1>1. ASSUME NEW s \in Txns \ {t} PROVE Vacant(s)'
  BY DEF SoleInv, Vacant, Touches, Renames, Rewrites, New, Named
<1>2. Sole(disk)' /\ OneAdds(usage)'
  BY DEF SoleInv, Sole, OneAdds
<1> QED BY <1>1, <1>2 DEF SoleInv

\* A commit adds the unique keys of one document, and no other thread is about
\* to add such a key.
LEMMA EndSole ==
  ASSUME StoreOK, StoreOK', ThreadsOK, ThreadsOK', CalmInv, SoleInv, NEW t \in Txns,
         UNCHANGED usage, Commit(t) \/ Abort(t)
  PROVE  SoleInv'
<1>1. Settled(t) /\ Ends(t) /\ Sole(disk) /\ Vacant(t) /\ OneAdds(usage)
  BY EndsSo DEF CalmInv, Settled, SoleInv
<1>2. /\ pc'[t] = "idle"
      /\ \A s \in Txns \ {t} : pc'[s] = pc[s] /\ job'[s] = job[s]
  BY <1>1 DEF Ends
<1>3. Vacant(t)'
  BY <1>2 DEF Vacant
<1>4. CASE \A r \in Rows : disk'[r] = disk[r]
  <2>1. disk'[SpecRow] = disk[SpecRow] /\ \A k \in UniqueKeys(Keys) : disk'[KeyRow(k)] = disk[KeyRow(k)]
    BY <1>4, RowsAre DEF UniqueKeys
  <2>2. Sole(disk)'
    BY <1>1, <2>1 DEF Sole
  <2>3. ASSUME NEW s \in Txns \ {t} PROVE Vacant(s)'
    BY <1>2, <2>1 DEF SoleInv, Vacant, Touches, Renames, Rewrites, New, Named
  <2> QED BY <1>1, <1>3, <2>2, <2>3 DEF SoleInv, OneAdds
<1>5. CASE Commit(t) /\ pc[t] = "done"
  <2> DEFINE j == job[t]
             d == job[t].id
  <2>1. /\ disk'[SpecRow] = disk[SpecRow]
        /\ \A k \in Keys :
             /\ \A e \in Ids \ {d} : e \in disk'[KeyRow(k)] <=> e \in disk[KeyRow(k)]
             /\ IF Touches(j, k) THEN d \in disk'[KeyRow(k)] <=> New(j, k)
                ELSE disk'[KeyRow(k)] = disk[KeyRow(k)]
    <3>1. \A r \in Rows : writer[r] = t => disk'[r] = db[r]
      BY <1>5 DEF Commit
    <3> QED BY <1>1, <1>5, <3>1, CommitMakes
  <2>2. ASSUME NEW k \in UniqueKeys(Keys)
        PROVE  /\ k \in Keys /\ disk[KeyRow(k)] \subseteq Ids /\ disk'[KeyRow(k)] \subseteq Ids
               /\ Touches(j, k) /\ New(j, k) => disk[KeyRow(k)] \subseteq {d}
    BY <1>1, <1>5 DEF UniqueKeys, Vacant, StoreOK, RowsOK
  <2>3. Sole(disk)'
    <3> SUFFICES ASSUME NEW k \in UniqueKeys(Keys), NEW e \in disk'[KeyRow(k)], NEW f \in disk'[KeyRow(k)]
                 PROVE  e = f
      BY DEF Sole, UniqueKeys
    <3>1. CASE Touches(j, k) /\ New(j, k)
      BY <2>1, <2>2, <3>1
    <3>2. CASE ~Touches(j, k) \/ ~New(j, k)
      <4>1. disk'[KeyRow(k)] \subseteq disk[KeyRow(k)]
        BY <2>1, <2>2, <3>2
      <4> QED BY <1>1, <2>2, <4>1 DEF Sole
    <3> QED BY <3>1, <3>2
  <2>4. ASSUME NEW s \in Txns \ {t} PROVE Vacant(s)'
    <3> SUFFICES ASSUME pc[s] \in {"metadata", "keys", "done"}, NEW k \in UniqueKeys(Keys),
                        Touches(job[s], k), New(job[s], k)
                 PROVE  disk'[KeyRow(k)] \subseteq {job[s].id}
      BY <1>2, <2>1 DEF Vacant, Touches, Renames, Rewrites, New, Named, HasKeyOf
    <3>1. disk[KeyRow(k)] \subseteq {job[s].id}
      BY DEF SoleInv, Vacant
    <3>2. CASE Touches(j, k) /\ New(j, k)
      <4>1. \A u \in {s, t} :
              /\ job[u].kind \in usage.ops[u] /\ Touches(job[u], k) /\ New(job[u], k)
              /\ job[u].kind \in {"put", "rename", "update", "updateByName", "delete", "deleteByName"}
              /\ job[u].kind \in Deletes => job[u].value = None
        BY <1>1, <1>5, <3>2, CalmKinds DEF CalmInv, Settled, Suits
      <4>2. k[1] = NameIndex => k[2] # None
        BY <2>2, NamesAssumption DEF Keys
      <4>3. k[1] # NameIndex => k[2] # None
        BY <2>2, NamesAssumption DEF Keys
      <4>4. CASE k[1] = NameIndex
        <5>1. \A u \in {s, t} : job[u].kind \in {"put", "rename"}
          BY <4>1, <4>2, <4>4 DEF Touches, Renames, Updates, Deletes, New, Named, HasKeyOf
        <5> QED BY <1>1, <4>1, <5>1 DEF OneAdds, NamesDocuments
      <4>5. CASE k[1] # NameIndex
        <5>1. \A u \in {s, t} : job[u].kind \in {"put"} \cup Updates
          BY <4>1, <4>3, <4>5 DEF Touches, Rewrites, Updates, Deletes, New, HasKeyOf
        <5> QED BY <1>1, <4>1, <5>1 DEF OneAdds, FillsDocuments
      <4> QED BY <4>4, <4>5
    <3>3. CASE ~Touches(j, k) \/ ~New(j, k)
      <4>1. disk'[KeyRow(k)] \subseteq disk[KeyRow(k)]
        BY <2>1, <2>2, <3>3
      <4> QED BY <3>1, <4>1
    <3> QED BY <3>2, <3>3
  <2> QED BY <1>1, <1>3, <2>3, <2>4 DEF SoleInv, OneAdds
<1>6. ~(Commit(t) /\ pc[t] = "done") => \A r \in Rows : disk'[r] = disk[r]
  BY <1>1 DEF Ends, Abort, Commit
<1> QED BY <1>4, <1>5, <1>6

LEMMA StepSole ==
  ASSUME TypeOK, TypeOK', CalmInv, CalmInv', SoleInv, Next
  PROVE  SoleInv'
<1>1. StoreOK /\ ThreadsOK /\ StoreOK' /\ ThreadsOK' /\ UNCHANGED usage
  BY TypeParts DEF Next, TypeOK, StoreOK, ThreadsOK, RowsOK, Isolated
<1>2. ASSUME NEW t \in Txns, disk' = disk,
             \A s \in Txns \ {t} : pc'[s] = pc[s] /\ job'[s] = job[s], Vacant(t)'
      PROVE  SoleInv'
  BY <1>1, <1>2, GoesOnSole
<1>3. ASSUME NEW t \in Txns,
             \/ \E n \in Names : Get(t, n) \/ Rename(t, n) \/ DeleteByName(t, n)
             \/ \E n \in Names, v \in Values : Put(t, n, v) \/ UpdateByName(t, n, v)
             \/ \E v \in Values : Update(t, v)
             \/ \E s \in Strategies : AddIndex(t, s) \/ DeleteIndex(t, s)
             \/ Delete(t) \/ GetRead(t) \/ Fetch(t) \/ InitDelete(t)
      PROVE  SoleInv'
  <2>1. /\ pc'[t] \notin {"metadata", "keys", "done"} /\ disk' = disk
        /\ \A s \in Txns \ {t} : pc'[s] = pc[s] /\ job'[s] = job[s]
    BY <1>1, <1>3 DEF Get, Rename, DeleteByName, Put, UpdateByName, Update, AddIndex, DeleteIndex,
       Change, Delete, OnHandle, Lookup, GetRead, Fetch, InitDelete, Fail, Goto, DbUnchanged, ThreadsOK
  <2>2. Vacant(t)'
    BY <2>1 DEF Vacant
  <2> QED BY <1>2, <2>1, <2>2
<1>4. ASSUME NEW t \in Txns, Add(t) \/ Replace(t) \/ ReplaceName(t) \/ RemoveContentAndIndex(t)
      PROVE  SoleInv'
  <2>1. /\ disk' = disk
        /\ \A s \in Txns \ {t} : pc'[s] = pc[s] /\ job'[s] = job[s]
    BY <1>1, <1>4 DEF Add, Replace, ReplaceName, RemoveContentAndIndex, Fail, Goto, ThreadsOK
  <2>2. Settled(t)'
    BY DEF CalmInv
  <2> QED BY <1>1, <1>2, <1>4, <2>1, <2>2, PlanVacant
<1>5. ASSUME NEW t \in Txns, WriteMetaData(t) \/ UpdateIndex(t) PROVE SoleInv'
  <2>1. /\ disk' = disk /\ pc[t] \in {"metadata", "keys"}
        /\ \A s \in Txns \ {t} : pc'[s] = pc[s] /\ job'[s] = job[s]
    BY <1>1, <1>5 DEF WriteMetaData, UpdateIndex, Goto, ThreadsOK
  <2>2. /\ job'[t].id = job[t].id /\ job'[t].kind = job[t].kind /\ job'[t].name = job[t].name
        /\ job'[t].value = job[t].value
    <3>1. job' = job \/ job' = [job EXCEPT ![t].adds = job[t].new \ job[t].is]
      BY <1>5 DEF WriteMetaData, UpdateIndex
    <3> QED BY <1>1, <3>1 DEF ThreadsOK, Job
  <2>3. Vacant(t)'
    BY <2>1, <2>2 DEF SoleInv, Vacant, Touches, Renames, Rewrites, New, Named
  <2> QED BY <1>2, <2>1, <2>3
<1>6. ASSUME NEW t \in Txns,
             \/ SetIndexSpecification(t) \/ RemoveIndexes(t) \/ Reindex(t)
             \/ PutIndexSpecification(t)
      PROVE  FALSE
  <2>1. pc[t] \notin {"set", "clear", "reindex", "write"}
    BY DEF CalmInv, Settled, Suits
  <2> QED BY <1>6, <2>1 DEF SetIndexSpecification, RemoveIndexes, Reindex, PutIndexSpecification
<1>7. ASSUME NEW t \in Txns, Commit(t) \/ Abort(t) PROVE SoleInv'
  BY <1>1, <1>7, EndSole
<1> QED BY <1>3, <1>4, <1>5, <1>6, <1>7 DEF Next

LEMMA SoleAlways ==
  ASSUME \A u \in Usages : Calm(u) /\ OneAdds(u)
  PROVE  Spec => [](CalmInv /\ SoleInv)
<1>1. Init => SoleInv
  <2> SUFFICES ASSUME Init PROVE SoleInv
    OBVIOUS
  <2>1. OneAdds(usage)
    BY DEF Init
  <2>2. \A t \in Txns : Vacant(t)
    BY DEF Init, Vacant
  <2> QED BY <2>1, <2>2, InitGood DEF SoleInv, Good, Rest
<1>2. TypeOK /\ TypeOK' /\ CalmInv /\ CalmInv' /\ SoleInv /\ [Next]_vars => SoleInv'
  <2> SUFFICES ASSUME TypeOK, TypeOK', CalmInv, CalmInv', SoleInv, [Next]_vars PROVE SoleInv'
    OBVIOUS
  <2>1. CASE UNCHANGED vars
    BY <2>1 DEF vars, SoleInv, OneAdds, Sole, Vacant, Touches, Renames, Rewrites, New, Named
  <2> QED BY <2>1, StepSole
<1>3. Spec => []CalmInv
  BY CalmAlways
<1> QED BY <1>1, <1>2, <1>3, TypeCorrect, PTL DEF Spec

\* Under the same conditions, if at most one thread gives documents names and at
\* most one gives them contents, no two documents have the same name or the same
\* value under a unique index, although the check for it keeps no lock and other
\* threads delete, rename or update documents meanwhile.
THEOREM SharedUniquenessHeld ==
  ASSUME \A u \in Usages : Calm(u) /\ OneAdds(u)
  PROVE  Spec => []UniqueHeld
<1>1. TypeOK /\ CalmInv /\ SoleInv => UniqueHeld
  BY SoleIsUnique, TypeParts DEF SoleInv
<1> QED BY <1>1, SoleAlways, TypeCorrect, PTL

LEMMA SharedCommitIsOne ==
  ASSUME StoreOK, StoreOK', ThreadsOK, CalmInv, CalmInv', SoleInv, SoleInv', NEW t \in Txns,
         UNCHANGED usage, Commit(t)
  PROVE  [Store!Next]_Docs
<1>1. Settled(t) /\ Ends(t)
  BY EndsSo DEF CalmInv, Settled
<1>2. /\ Exact(disk, disk[SpecRow]) /\ Sole(disk) /\ Paired(disk)
      /\ Exact(disk', disk'[SpecRow]) /\ Sole(disk') /\ Paired(disk')
  <2>1. sequence' = sequence
    BY <1>1 DEF Ends
  <2> QED BY <2>1 DEF CalmInv, InOrder, SoleInv, Exact, HasKey, Sole, Paired
<1>3. ASSUME NEW d \in Ids,
             \A e \in Ids \ {d} : /\ disk'[MetaRow(e)] = disk[MetaRow(e)]
                                  /\ disk'[ContentRow(e)] = disk[ContentRow(e)],
             \/ disk'[MetaRow(d)] = disk[MetaRow(d)] \/ disk[MetaRow(d)] = None
             \/ disk'[MetaRow(d)] = None \/ disk'[ContentRow(d)] = disk[ContentRow(d)]
      PROVE  [Store!Next]_Docs
  BY <1>2, <1>3, ChangeIsStep
<1>4. CASE pc[t] = "done"
  <2> DEFINE j == job[t]
             d == job[t].id
  <2>1. /\ disk'[MetaRow(d)] = IF Renames(j) THEN Named(j) ELSE disk[MetaRow(d)]
        /\ disk'[ContentRow(d)] = IF Rewrites(j) THEN j.value ELSE disk[ContentRow(d)]
        /\ \A e \in Ids \ {d} : /\ disk'[MetaRow(e)] = disk[MetaRow(e)]
                                /\ disk'[ContentRow(e)] = disk[ContentRow(e)]
    <3>1. \A r \in Rows : writer[r] = t => disk'[r] = db[r]
      BY DEF Commit
    <3> QED BY <1>1, <1>4, <3>1, CommitMakes
  <2>2. d \in Ids /\ j.kind \in {"put", "rename", "update", "updateByName", "delete", "deleteByName"}
    BY <1>1, <1>4, CalmKinds DEF Settled, Suits
  <2>3. j.kind = "put" => disk[MetaRow(d)] = None
    BY <1>1 DEF Settled, Place, Adding, Fresh
  <2>4. \/ disk'[MetaRow(d)] = disk[MetaRow(d)] \/ disk[MetaRow(d)] = None
        \/ disk'[MetaRow(d)] = None \/ disk'[ContentRow(d)] = disk[ContentRow(d)]
    BY <2>1, <2>2, <2>3 DEF Renames, Rewrites, Named, Updates, Deletes
  <2> QED BY <1>3, <2>1, <2>2, <2>4
<1>5. CASE pc[t] # "done"
  <2>1. \A r \in Rows : disk'[r] = disk[r]
    BY <1>1, <1>5 DEF Ends
  <2>2. \A e \in Ids : disk'[MetaRow(e)] = disk[MetaRow(e)] /\ disk'[ContentRow(e)] = disk[ContentRow(e)]
    BY <2>1, RowsAre, IdsAre
  <2>3. 1 \in Ids
    BY BoundAssumption DEF Ids
  <2> QED BY <1>3, <2>2, <2>3
<1> QED BY <1>4, <1>5

\* Under these conditions the container that many threads use is still a map
\* from names to contents: each commit puts, updates, renames or deletes one
\* document, or changes none, and nothing else changes any.
THEOREM SharedContainerIsStore ==
  ASSUME \A u \in Usages : Calm(u) /\ OneAdds(u)
  PROVE  Spec => Refines
<1>1. Init /\ TypeOK => Store!Init
  <2> SUFFICES ASSUME Init, TypeOK PROVE Store!Init
    OBVIOUS
  <2>1. Exact(disk, disk[SpecRow]) /\ Sole(disk)
    BY InitGood DEF Good, Rest
  <2> QED BY <2>1, TypeParts, DocsTyped DEF Store!Init, Docs
<1>2. /\ TypeOK /\ TypeOK' /\ CalmInv /\ CalmInv' /\ SoleInv /\ SoleInv' /\ [Next]_vars
      => [Store!Next]_Docs
  <2> SUFFICES ASSUME TypeOK, TypeOK', CalmInv, CalmInv', SoleInv, SoleInv', [Next]_vars
               PROVE  [Store!Next]_Docs
    OBVIOUS
  <2>1. CASE ~Next \/ ~\E t \in Txns : Commit(t)
    <3>1. disk' = disk
      BY <2>1, CommitsAlone DEF vars
    <3> QED BY <3>1 DEF Docs, Find
  <2>2. ASSUME Next, NEW t \in Txns, Commit(t) PROVE [Store!Next]_Docs
    <3>1. StoreOK /\ StoreOK' /\ ThreadsOK /\ UNCHANGED usage
      BY <2>2, TypeParts DEF Next, TypeOK, StoreOK, Isolated, RowsOK
    <3> QED BY <2>2, <3>1, SharedCommitIsOne
  <2> QED BY <2>1, <2>2
<1>3. Spec => [](CalmInv /\ SoleInv)
  BY SoleAlways
<1>4. Spec => [][Store!Next]_Docs
  BY <1>2, <1>3, TypeCorrect, PTL DEF Spec
<1> QED BY <1>1, <1>4, TypeCorrect, PTL DEF Spec, Refines, Store!Spec, Docs
=============================================================================
