----------------------- MODULE ContainerStoreProofs -----------------------
(***************************************************************************)
(* What holds of the container store for every set of threads, files and   *)
(* aliases and any number of containers and handles: the counts are those  *)
(* of the handles, a handle keeps its container, a name leads to an open   *)
(* one, no file is open twice; and where nobody looks up a container whose *)
(* last handle is being released, none is touched after its deletion.      *)
(***************************************************************************)
EXTENDS ContainerStore, FiniteSetTheorems, TLAPS

Objects == Threads \X Slots

Opened == {i \in Ids : i < nextId}

\* What a thread in a call works on.
ArgsOK ==
  \A t \in Threads :
    /\ pc[t] = "find" => arg[t] \in Names
    /\ pc[t] \in {"find id", "dropped", "close", "delete"} => arg[t] \in Opened

\* A container that has left the store does not come back.
Registered ==
  /\ containers \subseteq Opened /\ deleted \subseteq Opened
  /\ containers \cap deleted = {}
  /\ NamesLive
  /\ \A t \in Threads : pc[t] = "delete" => arg[t] \notin containers

Counted == CountExact /\ \A i \in Ids : count[i] > 0 => i \in containers

StoreInv == TypeOK /\ ArgsOK /\ Registered /\ Counted

-----------------------------------------------------------------------------
LEMMA IdsAre == NoId \notin Ids /\ Ids \subseteq Nat
  BY BoundAssumption DEF NoId, Ids

LEMMA ReferencesFinite ==
  ASSUME NEW i
  PROVE  IsFiniteSet({x \in Objects : handles[x] = i})
<1>1. IsFiniteSet(Slots)
  BY FS_Interval, BoundAssumption DEF Slots
<1>2. IsFiniteSet(Objects)
  BY <1>1, FS_Product, ThreadsAssumption DEF Objects
<1> QED BY <1>2, FS_Subset

LEMMA HeldIsCounted ==
  ASSUME TypeOK, CountExact, NEW t \in Threads, NEW i \in Ids, Holds(t, i)
  PROVE  count[i] > 0
<1> DEFINE R == {x \in Objects : handles[x] = i}
<1>1. PICK h \in Slots : handles[<<t, h>>] = i
  BY DEF Holds
<1>2. R # {}
  BY <1>1 DEF Objects
<1>3. IsFiniteSet(R)
  BY ReferencesFinite
<1>4. count[i] = Cardinality(R) /\ count[i] \in Nat
  BY DEF CountExact, TypeOK, Objects
<1> HIDE DEF R
<1> QED BY <1>2, <1>3, <1>4, FS_EmptySet

\* One handle more and one more counted.
LEMMA AcquireCounts ==
  ASSUME TypeOK, CountExact, NEW t \in Threads, NEW i \in Ids, Acquire(t, i)
  PROVE  /\ CountExact' /\ count' \in [Ids -> Nat] /\ handles' \in [Objects -> Ids \cup {NoId}]
         /\ count'[i] > 0 /\ \A j \in Ids \ {i} : count'[j] = count[j]
<1>1. PICK h \in Slots : handles[<<t, h>>] = NoId /\ handles' = [handles EXCEPT ![<<t, h>>] = i]
  BY DEF Acquire, NewHandle
<1>2. count' = [count EXCEPT ![i] = @ + 1]
  BY DEF Acquire
<1>3. /\ count' \in [Ids -> Nat] /\ handles' \in [Objects -> Ids \cup {NoId}]
      /\ count'[i] > 0 /\ \A j \in Ids \ {i} : count'[j] = count[j]
  <2>1. count \in [Ids -> Nat] /\ handles \in [Objects -> Ids \cup {NoId}]
    BY DEF TypeOK, Objects
  <2>2. handles' \in [Objects -> Ids \cup {NoId}]
    BY <1>1, <2>1
  <2>3. \A j \in Ids \ {i} : count'[j] = count[j]
    BY <1>2, <2>1
  <2>4. count[i] \in Nat /\ count'[i] = count[i] + 1
    BY <1>2, <2>1
  <2>5. count'[i] \in Nat /\ count'[i] > 0
    BY <2>4
  <2>6. count' \in [Ids -> Nat]
    BY <1>2, <2>1, <2>5
  <2> QED BY <2>2, <2>3, <2>5, <2>6
<1>4. ASSUME NEW j \in Ids
      PROVE  count'[j] = Cardinality({x \in Objects : handles'[x] = j})
  <2> DEFINE R == {x \in Objects : handles[x] = j}
             S == {x \in Objects : handles'[x] = j}
  <2>1. count[j] = Cardinality(R)
    BY DEF CountExact, Objects
  <2>2. CASE j = i
    <3>1. S = R \cup {<<t, h>>} /\ <<t, h>> \notin R
      BY <1>1, <2>2, IdsAre DEF TypeOK, Objects
    <3>2. IsFiniteSet(R)
      BY ReferencesFinite
    <3>3. Cardinality(S) = Cardinality(R) + 1
      <4> HIDE DEF R, S
      <4> QED BY <3>1, <3>2, FS_AddElement
    <3> HIDE DEF R, S
    <3>4. count'[j] = count[j] + 1
      BY <1>2, <2>2 DEF TypeOK
    <3> QED BY <2>1, <3>3, <3>4 DEF S
  <2>3. CASE j # i
    <3>1. S = R
      BY <1>1, <2>3, IdsAre DEF TypeOK, Objects
    <3>2. count'[j] = count[j]
      BY <1>2, <2>3 DEF TypeOK
    <3> QED BY <2>1, <3>1, <3>2
  <2> QED BY <2>2, <2>3
<1> QED BY <1>3, <1>4 DEF CountExact, Objects

\* One handle less and one less counted.
LEMMA ReleaseCounts ==
  ASSUME TypeOK, CountExact, NEW t \in Threads, NEW h \in Slots, NEW i \in Ids,
         handles[<<t, h>>] = i,
         count' = [count EXCEPT ![i] = @ - 1],
         handles' = [handles EXCEPT ![<<t, h>>] = NoId]
  PROVE  CountExact' /\ count' \in [Ids -> Nat] /\ handles' \in [Objects -> Ids \cup {NoId}]
<1>1. count[i] > 0 /\ Holds(t, i)
  BY HeldIsCounted DEF Holds
<1>2. count' \in [Ids -> Nat] /\ handles' \in [Objects -> Ids \cup {NoId}]
  <2>1. count \in [Ids -> Nat] /\ handles \in [Objects -> Ids \cup {NoId}]
    BY DEF TypeOK, Objects
  <2>2. handles' \in [Objects -> Ids \cup {NoId}]
    BY <2>1
  <2>3. count[i] \in Nat /\ count[i] - 1 \in Nat
    BY <1>1, <2>1
  <2>4. count' \in [Ids -> Nat]
    BY <2>1, <2>3
  <2> QED BY <2>2, <2>4
<1>3. ASSUME NEW j \in Ids
      PROVE  count'[j] = Cardinality({x \in Objects : handles'[x] = j})
  <2> DEFINE R == {x \in Objects : handles[x] = j}
             S == {x \in Objects : handles'[x] = j}
  <2>1. count[j] = Cardinality(R)
    BY DEF CountExact, Objects
  <2>2. CASE j = i
    <3>1. S = R \ {<<t, h>>} /\ <<t, h>> \in R
      BY <2>2, IdsAre DEF TypeOK, Objects
    <3>2. IsFiniteSet(R)
      BY ReferencesFinite
    <3>3. Cardinality(S) = Cardinality(R) - 1
      <4> HIDE DEF R, S
      <4> QED BY <3>1, <3>2, FS_RemoveElement
    <3> HIDE DEF R, S
    <3>4. count'[j] = count[j] - 1
      BY <2>2 DEF TypeOK
    <3> QED BY <2>1, <3>3, <3>4 DEF S
  <2>3. CASE j # i
    <3>1. S = R
      BY <2>3, IdsAre DEF TypeOK, Objects
    <3>2. count'[j] = count[j]
      BY <2>3 DEF TypeOK
    <3> QED BY <2>1, <3>1, <3>2
  <2> QED BY <2>2, <2>3
<1> QED BY <1>2, <1>3 DEF CountExact, Objects

-----------------------------------------------------------------------------
(* The invariant, one lemma for each group of actions *)

LEMMA NamesLead ==
  ASSUME StoreInv, NEW n \in Names
  PROVE  idmap[n] \in containers \cup {NoId}
  BY DEF StoreInv, TypeOK, Registered, NamesLive

LEMMA HeldIsOpen ==
  ASSUME StoreInv, NEW t \in Threads, NEW i \in Ids, Holds(t, i)
  PROVE  i \in containers /\ i \in Opened /\ count[i] > 0
  BY HeldIsCounted DEF StoreInv, Counted, Registered

LEMMA InitStore == Init => StoreInv
<1> SUFFICES ASSUME Init PROVE StoreInv
  OBVIOUS
<1>1. TypeOK
  <2>1. NoId \in {0} /\ 1 \in 1..(MaxId + 1)
    BY BoundAssumption DEF NoId
  <2> QED BY <2>1, NamesAssumption DEF Init, TypeOK
<1>2. ArgsOK /\ Registered
  BY DEF Init, ArgsOK, Registered, NamesLive
<1>3. CountExact
  <2>1. ASSUME NEW i \in Ids PROVE {x \in Objects : handles[x] = i} = {}
    BY IdsAre DEF Init, Objects
  <2> QED BY <2>1, FS_EmptySet DEF Init, CountExact, Objects
<1>4. Counted
  BY <1>3 DEF Init, Counted
<1> QED BY <1>1, <1>2, <1>4 DEF StoreInv

\* Calls that leave the counts alone.
LEMMA FindLockKeeps ==
  ASSUME StoreInv, UNCHANGED reopen, NEW t \in Threads, NEW n \in Names,
         FindLock(t, n)
  PROVE  StoreInv'
<1>1. TypeOK'
  BY DEF StoreInv, TypeOK, ArgsOK, Opened, FindLock, Goto
<1>2. ArgsOK' /\ Registered'
  BY DEF StoreInv, TypeOK, ArgsOK, Opened, Registered, NamesLive, FindLock, Goto
<1>3. Counted'
  BY DEF StoreInv, Counted, CountExact, FindLock
<1> QED BY <1>1, <1>2, <1>3 DEF StoreInv

LEMMA FindFailsKeeps ==
  ASSUME StoreInv, UNCHANGED reopen, NEW t \in Threads, FindFails(t)
  PROVE  StoreInv'
<1>1. TypeOK'
  BY DEF StoreInv, TypeOK, ArgsOK, Opened, FindFails, Goto
<1>2. ArgsOK' /\ Registered'
  BY DEF StoreInv, TypeOK, ArgsOK, Opened, Registered, NamesLive, FindFails,
         Goto
<1>3. Counted'
  BY DEF StoreInv, Counted, CountExact, FindFails
<1> QED BY <1>1, <1>2, <1>3 DEF StoreInv

LEMMA FindIdLockKeeps ==
  ASSUME StoreInv, UNCHANGED reopen, NEW t \in Threads, NEW i \in Ids,
         FindIdLock(t, i)
  PROVE  StoreInv'
<1>1. TypeOK'
  BY DEF StoreInv, TypeOK, ArgsOK, Opened, FindIdLock, Goto
<1>2. ArgsOK' /\ Registered'
  BY DEF StoreInv, TypeOK, ArgsOK, Opened, Registered, NamesLive, FindIdLock,
         Goto
<1>3. Counted'
  BY DEF StoreInv, Counted, CountExact, FindIdLock
<1> QED BY <1>1, <1>2, <1>3 DEF StoreInv

LEMMA AddAliasKeeps ==
  ASSUME StoreInv, UNCHANGED reopen, NEW t \in Threads, NEW i \in Ids,
         NEW a \in Aliases, AddAlias(t, i, a)
  PROVE  StoreInv'
<1>0. i \in containers
  BY HeldIsOpen DEF AddAlias
<1>1. TypeOK'
  BY <1>0 DEF StoreInv, TypeOK, ArgsOK, Opened, AddAlias, Names
<1>2. ArgsOK' /\ Registered'
  BY <1>0 DEF StoreInv, TypeOK, ArgsOK, Opened, Registered, NamesLive, AddAlias,
              Names
<1>3. Counted'
  BY <1>0 DEF StoreInv, Counted, CountExact, AddAlias
<1> QED BY <1>1, <1>2, <1>3 DEF StoreInv

LEMMA RemoveAliasKeeps ==
  ASSUME StoreInv, UNCHANGED reopen, NEW t \in Threads, NEW i \in Ids,
         NEW a \in Names, RemoveAlias(t, i, a)
  PROVE  StoreInv'
<1>1. TypeOK'
  BY DEF StoreInv, TypeOK, ArgsOK, Opened, RemoveAlias
<1>2. ArgsOK' /\ Registered'
  BY DEF StoreInv, TypeOK, ArgsOK, Opened, Registered, NamesLive, RemoveAlias
<1>3. Counted'
  BY DEF StoreInv, Counted, CountExact, RemoveAlias
<1> QED BY <1>1, <1>2, <1>3 DEF StoreInv

LEMMA CloseLockKeeps ==
  ASSUME StoreInv, UNCHANGED reopen, NEW t \in Threads, CloseLock(t)
  PROVE  StoreInv'
<1>1. TypeOK'
  BY DEF StoreInv, TypeOK, ArgsOK, Opened, CloseLock, Goto
<1>2. ArgsOK' /\ Registered'
  BY DEF StoreInv, TypeOK, ArgsOK, Opened, Registered, NamesLive, CloseLock,
         Goto
<1>3. Counted'
  BY DEF StoreInv, Counted, CountExact, CloseLock
<1> QED BY <1>1, <1>2, <1>3 DEF StoreInv

LEMMA CloseReferencedKeeps ==
  ASSUME StoreInv, UNCHANGED reopen, NEW t \in Threads, CloseReferenced(t)
  PROVE  StoreInv'
<1>1. TypeOK'
  BY DEF StoreInv, TypeOK, ArgsOK, Opened, CloseReferenced, Goto
<1>2. ArgsOK' /\ Registered'
  BY DEF StoreInv, TypeOK, ArgsOK, Opened, Registered, NamesLive,
         CloseReferenced, Goto
<1>3. Counted'
  BY DEF StoreInv, Counted, CountExact, CloseReferenced
<1> QED BY <1>1, <1>2, <1>3 DEF StoreInv

LEMMA DeleteKeeps ==
  ASSUME StoreInv, UNCHANGED reopen, NEW t \in Threads, Delete(t)
  PROVE  StoreInv'
<1>1. TypeOK'
  BY DEF StoreInv, TypeOK, ArgsOK, Opened, Delete, Goto
<1>2. ArgsOK' /\ Registered'
  BY DEF StoreInv, TypeOK, ArgsOK, Opened, Registered, NamesLive, Delete, Goto
<1>3. Counted'
  BY DEF StoreInv, Counted, CountExact, Delete
<1> QED BY <1>1, <1>2, <1>3 DEF StoreInv

LEMMA CloseKeeps ==
  ASSUME StoreInv, UNCHANGED reopen, NEW t \in Threads, Close(t)
  PROVE  StoreInv'
<1>1. TypeOK'
  BY DEF StoreInv, TypeOK, ArgsOK, Opened, Close, Goto, Unregistered
<1>2. ArgsOK' /\ Registered'
  BY DEF StoreInv, TypeOK, ArgsOK, Opened, Registered, NamesLive, Close, Goto,
         Unregistered
<1>3. Counted'
  BY DEF StoreInv, Counted, CountExact, Close
<1> QED BY <1>1, <1>2, <1>3 DEF StoreInv

\* Calls that make a handle: its container is in the store.
LEMMA AcquireKeeps ==
  ASSUME StoreInv, NEW t \in Threads, NEW i \in Ids, Acquire(t, i),
         TypeOK', i \in containers', containers \subseteq containers'
  PROVE  Counted'
<1>1. /\ CountExact' /\ count' \in [Ids -> Nat]
      /\ \A j \in Ids \ {i} : count'[j] = count[j]
  BY AcquireCounts DEF StoreInv, Counted
<1>2. \A j \in Ids : count'[j] > 0 => j \in containers'
  BY <1>1 DEF StoreInv, Counted
<1> QED BY <1>1, <1>2 DEF Counted

LEMMA FindOpenKeeps ==
  ASSUME StoreInv, UNCHANGED reopen, NEW t \in Threads, FindOpen(t)
  PROVE  StoreInv'
<1> DEFINE i == idmap[arg[t]]
<1>1. i \in Ids /\ i \in containers /\ Acquire(t, i)
  <2>1. arg[t] \in Names
    BY DEF StoreInv, ArgsOK, FindOpen
  <2> QED BY <2>1, NamesLead DEF StoreInv, TypeOK, FindOpen
<1>2. /\ count' \in [Ids -> Nat]
      /\ handles' \in [Objects -> Ids \cup {NoId}]
  BY <1>1, AcquireCounts DEF StoreInv, Counted
<1>3. TypeOK'
  BY <1>1, <1>2 DEF StoreInv, TypeOK, Objects, FindOpen, Acquire, Goto
<1>4. ArgsOK' /\ Registered'
  BY <1>1 DEF StoreInv, TypeOK, ArgsOK, Opened, Registered, NamesLive, FindOpen,
              Goto
<1>5. i \in containers' /\ containers \subseteq containers'
  BY <1>1 DEF FindOpen
<1>6. Counted'
  BY <1>1, <1>3, <1>5, AcquireKeeps
<1> QED BY <1>3, <1>4, <1>6 DEF StoreInv

LEMMA FindNewKeeps ==
  ASSUME StoreInv, UNCHANGED reopen, NEW t \in Threads, FindNew(t)
  PROVE  StoreInv'
<1> DEFINE i == nextId
<1>1. i \in Ids /\ Acquire(t, i) /\ i \notin Opened /\ i + 1 \in 1..(MaxId + 1)
      /\ Opened \cup {i} \subseteq {j \in Ids : j < i + 1}
  BY BoundAssumption DEF FindNew, Opened, Ids
<1>2. /\ count' \in [Ids -> Nat]
      /\ handles' \in [Objects -> Ids \cup {NoId}]
  BY <1>1, AcquireCounts DEF StoreInv, Counted
<1>3. TypeOK'
  BY <1>1, <1>2 DEF StoreInv, TypeOK, Objects, FindNew, Acquire, Goto
<1>4. ArgsOK' /\ Registered'
  BY <1>1 DEF StoreInv, TypeOK, ArgsOK, Opened, Registered, NamesLive, FindNew,
              Goto
<1>5. i \in containers' /\ containers \subseteq containers'
  BY <1>1 DEF FindNew
<1>6. Counted'
  BY <1>1, <1>3, <1>5, AcquireKeeps
<1> QED BY <1>3, <1>4, <1>6 DEF StoreInv

LEMMA CopyKeeps ==
  ASSUME StoreInv, UNCHANGED reopen, NEW t \in Threads, NEW i \in Ids, Copy(t, i)
  PROVE  StoreInv'
<1>1. i \in containers /\ Acquire(t, i)
  BY HeldIsOpen DEF Copy
<1>2. /\ count' \in [Ids -> Nat]
      /\ handles' \in [Objects -> Ids \cup {NoId}]
  BY <1>1, AcquireCounts DEF StoreInv, Counted
<1>3. TypeOK'
  BY <1>1, <1>2 DEF StoreInv, TypeOK, Objects, Copy, Acquire
<1>4. ArgsOK' /\ Registered'
  BY <1>1 DEF StoreInv, TypeOK, ArgsOK, Opened, Registered, NamesLive, Copy
<1>5. i \in containers' /\ containers \subseteq containers'
  BY <1>1 DEF Copy
<1>6. Counted'
  BY <1>1, <1>3, <1>5, AcquireKeeps
<1> QED BY <1>3, <1>4, <1>6 DEF StoreInv

LEMMA FindIdKeeps ==
  ASSUME StoreInv, UNCHANGED reopen, NEW t \in Threads, FindId(t)
  PROVE  StoreInv'
<1>1. CASE arg[t] \notin containers
  <2>1. TypeOK'
    BY <1>1 DEF StoreInv, TypeOK, ArgsOK, Opened, FindId, Goto
  <2>2. ArgsOK' /\ Registered'
    BY <1>1 DEF StoreInv, TypeOK, ArgsOK, Opened, Registered, NamesLive, FindId,
                Goto
  <2>3. Counted'
    <3>1. count' = count /\ handles' = handles /\ containers' = containers
      BY <1>1 DEF FindId
    <3> QED BY <3>1 DEF StoreInv, Counted, CountExact
  <2> QED BY <2>1, <2>2, <2>3 DEF StoreInv
<1>2. CASE arg[t] \in containers
  <2> DEFINE i == arg[t]
  <2>1. i \in Ids /\ i \in containers /\ Acquire(t, i)
    BY <1>2 DEF StoreInv, TypeOK, FindId
  <2>2. /\ count' \in [Ids -> Nat]
        /\ handles' \in [Objects -> Ids \cup {NoId}]
    BY <2>1, AcquireCounts DEF StoreInv, Counted
  <2>3. TypeOK'
    BY <2>1, <2>2 DEF StoreInv, TypeOK, Objects, FindId, Acquire, Goto
  <2>4. ArgsOK' /\ Registered'
    BY DEF StoreInv, TypeOK, ArgsOK, Opened, Registered, NamesLive, FindId, Goto
  <2>5. i \in containers' /\ containers \subseteq containers'
    BY <2>1 DEF FindId
  <2>6. Counted'
    BY <2>1, <2>3, <2>5, AcquireKeeps
  <2> QED BY <2>3, <2>4, <2>6 DEF StoreInv
<1> QED BY <1>1, <1>2

\* A handle is destroyed.
LEMMA ReleaseKeeps ==
  ASSUME StoreInv, UNCHANGED reopen, NEW t \in Threads, NEW h \in Slots,
         Release(t, h)
  PROVE  StoreInv'
<1> DEFINE i == handles[<<t, h>>]
<1>1. i \in Ids /\ Holds(t, i)
  BY DEF StoreInv, TypeOK, Release, Holds
<1>2. i \in containers /\ i \in Opened
  BY <1>1, HeldIsOpen
<1>3. CountExact' /\ count' \in [Ids -> Nat] /\ handles' \in [Objects -> Ids \cup {NoId}]
  BY <1>1, ReleaseCounts DEF StoreInv, Counted, Release
<1>4. TypeOK'
  BY <1>1, <1>3 DEF StoreInv, TypeOK, Objects, Release, Goto
<1>5. ArgsOK' /\ Registered'
  BY <1>2 DEF StoreInv, TypeOK, ArgsOK, Opened, Registered, NamesLive, Release,
              Goto
<1>6. \A j \in Ids : count'[j] > 0 => j \in containers'
  BY <1>1, <1>2 DEF StoreInv, TypeOK, Counted, Release
<1> QED BY <1>3, <1>4, <1>5, <1>6 DEF StoreInv, Counted

-----------------------------------------------------------------------------
LEMMA StoreSteps ==
  ASSUME StoreInv, [Next]_vars
  PROVE  StoreInv'
<1>1. CASE UNCHANGED vars
  <2>1. TypeOK'
    BY <1>1 DEF StoreInv, TypeOK, vars, store
  <2>2. ArgsOK' /\ Registered'
    BY <1>1 DEF StoreInv, ArgsOK, Opened, Registered, NamesLive, vars, store
  <2>3. Counted'
    BY <1>1 DEF StoreInv, Counted, CountExact, vars, store
  <2> QED BY <2>1, <2>2, <2>3 DEF StoreInv
<1>2. ASSUME UNCHANGED reopen, NEW t \in Threads, Call(t)
      PROVE  StoreInv'
  <2>1. ASSUME NEW n \in Names, FindLock(t, n) PROVE StoreInv'
    BY <1>2, <2>1, FindLockKeeps
  <2>2. ASSUME NEW i \in Ids, FindIdLock(t, i) PROVE StoreInv'
    BY <1>2, <2>2, FindIdLockKeeps
  <2>3. ASSUME NEW i \in Ids, Copy(t, i) PROVE StoreInv'
    BY <1>2, <2>3, CopyKeeps
  <2>4. ASSUME NEW h \in Slots, Release(t, h) PROVE StoreInv'
    BY <1>2, <2>4, ReleaseKeeps
  <2>5. ASSUME NEW i \in Ids, NEW a \in Aliases, AddAlias(t, i, a) PROVE StoreInv'
    BY <1>2, <2>5, AddAliasKeeps
  <2>6. ASSUME NEW i \in Ids, NEW a \in Removable, RemoveAlias(t, i, a) PROVE StoreInv'
    BY <1>2, <2>6, RemoveAliasKeeps DEF Removable, Names
  <2> QED BY <1>2, <2>1, <2>2, <2>3, <2>4, <2>5, <2>6 DEF Call
<1>3. ASSUME UNCHANGED reopen, NEW t \in Threads, Continue(t)
      PROVE  StoreInv'
  BY <1>3, FindOpenKeeps, FindNewKeeps, FindFailsKeeps, FindIdKeeps, CloseLockKeeps,
     CloseKeeps, CloseReferencedKeeps, DeleteKeeps DEF Continue
<1> QED BY <1>1, <1>2, <1>3 DEF Next

LEMMA StoreAlways == Spec => []StoreInv
<1>1. Init => StoreInv
  BY InitStore
<1>2. StoreInv /\ [Next]_vars => StoreInv'
  BY StoreSteps
<1> QED BY <1>1, <1>2, PTL DEF Spec

\* Type correctness: every step of every call keeps the types of the state of
\* the store (Manager.cpp).
THEOREM TypeCorrect == Spec => []TypeOK
<1>1. StoreInv => TypeOK
  BY DEF StoreInv
<1> QED BY StoreAlways, <1>1, PTL

\* The count kept by Container::acquire and release is the number of
\* XmlContainer objects on the container, whatever the lookups, copies and
\* releases of any number of threads.
THEOREM CountsAreExact == Spec => []CountExact
<1>1. StoreInv => CountExact
  BY DEF StoreInv, Counted
<1> QED BY StoreAlways, <1>1, PTL

\* A thread that has a handle has a container that is in the store and not
\* deleted: closeContainer never takes it away from under a handle.
THEOREM HandlesStayLive == Spec => []HandlesLive
<1>1. StoreInv => HandlesLive
  <2> SUFFICES ASSUME StoreInv, NEW t \in Threads, NEW i \in Ids, Holds(t, i)
               PROVE  i \in containers /\ i \notin deleted
    BY DEF HandlesLive
  <2>1. i \in containers
    BY HeldIsOpen
  <2> QED BY <2>1 DEF StoreInv, Registered
<1> QED BY StoreAlways, <1>1, PTL

\* The assertion of findContainer: a name or alias that is registered leads to
\* an open container, also when another thread has just closed one.
THEOREM NamesStayLive == Spec => []NamesLive
<1>1. StoreInv => NamesLive
  BY DEF StoreInv, Registered
<1> QED BY StoreAlways, <1>1, PTL

-----------------------------------------------------------------------------
(* One container for a file *)

\* The name of its file leads to every open container.
Located == \A i \in containers : idmap[file[i]] = i

LEMMA LocatedSteps ==
  ASSUME RemoveNames = FALSE, StoreInv, Located, [Next]_vars
  PROVE  Located'
<1>1. CASE UNCHANGED vars
  BY <1>1 DEF Located, vars, store
<1>2. ASSUME NEW t \in Threads, Call(t)
      PROVE  Located'
  <2>1. CASE /\ \/ \E n \in Names : FindLock(t, n)
                \/ \E i \in Ids : FindIdLock(t, i) \/ Copy(t, i)
                \/ \E h \in Slots : Release(t, h)
    BY <2>1 DEF Located, FindLock, FindIdLock, Copy, Release
  <2>2. ASSUME NEW i \in Ids, NEW a \in Aliases, AddAlias(t, i, a) \/ RemoveAlias(t, i, a)
        PROVE  Located'
    <3>1. containers' = containers /\ file' = file
      BY <2>2 DEF AddAlias, RemoveAlias
    <3>2. \A n \in Files : n # a /\ idmap'[n] = idmap[n]
      BY <2>2, NamesAssumption DEF StoreInv, TypeOK, AddAlias, RemoveAlias,
                                   Names
    <3>3. \A j \in containers : file[j] \in Files
      BY DEF StoreInv, TypeOK
    <3> QED BY <3>1, <3>2, <3>3 DEF Located
  <2> QED BY <1>2, <2>1, <2>2 DEF Call, Removable
<1>3. ASSUME NEW t \in Threads, Continue(t)
      PROVE  Located'
  <2>1. CASE \/ FindOpen(t) \/ FindFails(t) \/ FindId(t)
             \/ CloseLock(t) \/ CloseReferenced(t) \/ Delete(t)
    BY <2>1 DEF Located, FindOpen, FindFails, FindId, CloseLock,
                CloseReferenced, Delete
  <2>2. CASE FindNew(t)
    <3>1. /\ nextId \in Ids /\ nextId # NoId /\ nextId \notin containers
          /\ arg[t] \in Files /\ idmap[arg[t]] = NoId
      BY <2>2, IdsAre DEF FindNew, StoreInv, Registered, Opened
    <3>2. idmap'[file'[nextId]] = nextId
      BY <2>2, <3>1 DEF FindNew, StoreInv, TypeOK, Names
    <3>3. ASSUME NEW j \in containers PROVE idmap'[file'[j]] = j
      <4>1. j \in Ids /\ j # nextId /\ j # NoId /\ idmap[file[j]] = j
        BY <3>1, IdsAre DEF StoreInv, TypeOK, Located
      <4>2. file'[j] = file[j] /\ file[j] # arg[t] /\ file[j] \in Names
        BY <2>2, <3>1, <4>1 DEF FindNew, StoreInv, TypeOK, Names
      <4> QED BY <2>2, <4>1, <4>2 DEF FindNew, StoreInv, TypeOK
    <3> QED BY <2>2, <3>2, <3>3 DEF FindNew, Located
  <2>3. CASE Close(t)
    BY <2>3 DEF Close, Unregistered, Located, StoreInv, TypeOK, Names
  <2> QED BY <1>3, <2>1, <2>2, <2>3 DEF Continue
<1> QED BY <1>1, <1>2, <1>3 DEF Next

\* The comment of XmlManager.hpp on unique names: as long as removeAlias is
\* given aliases and not the names of files, the store never has two containers
\* open on one file.
THEOREM FilesOpenOnce ==
  ASSUME RemoveNames = FALSE
  PROVE  Spec => []OneContainer
<1>1. Init => Located
  BY DEF Init, Located
<1>2. StoreInv /\ Located /\ [Next]_vars => Located'
  BY LocatedSteps
<1>3. Located => OneContainer
  BY DEF Located, OneContainer
<1> QED BY StoreAlways, <1>1, <1>2, <1>3, PTL DEF Spec

-----------------------------------------------------------------------------
(* Deleting where no lookup overtakes a close *)

\* The mutex of the store is held from FindLock and CloseLock to the end.
LookupsLocked ==
  \A t \in Threads : pc[t] \in {"find", "find id", "close"} => storeMutex = t

\* A thread that is closing a container has it for itself.
Closing(t) == pc[t] \in {"dropped", "close", "delete"}

ClosesApart ==
  /\ \A t \in Threads :
       /\ pc[t] \in {"dropped", "close"} => arg[t] \in containers /\ count[arg[t]] = 0
       /\ pc[t] = "delete" => arg[t] \notin deleted
  /\ \A t, u \in Threads : t # u /\ Closing(t) /\ Closing(u) => arg[t] # arg[u]

\* The container a lookup will find is held, and stays so.
FindsHeld == \A t \in Threads : Sought(t) \in containers => count[Sought(t)] > 0

SafeInv == LookupsLocked /\ ClosesApart /\ FindsHeld /\ ~misuse

\* While a thread has the mutex of the store, or nobody, no other looks up.
LEMMA NobodyFinds ==
  ASSUME StoreInv, LookupsLocked, NEW t \in Threads, NEW u \in Threads, u # t,
         storeMutex \in {t, NoThread}
  PROVE  Sought(u) = NoId /\ pc[u] \notin {"find", "find id"}
<1>1. pc[u] \notin {"find", "find id"}
  <2>1. storeMutex # u
    BY ThreadsAssumption
  <2> QED BY <2>1 DEF LookupsLocked
<1>2. Sought(u) = NoId
  BY <1>1 DEF Sought
<1> QED BY <1>1, <1>2

(* One lemma for each action *)

LEMMA FindLockSafe ==
  ASSUME StoreInv, SafeInv, ~reopen, NEW t \in Threads, NEW n \in Names,
         FindLock(t, n)
  PROVE  SafeInv'
<1>2. LookupsLocked'
  BY ThreadsAssumption DEF StoreInv, TypeOK, SafeInv, LookupsLocked, FindLock,
                           Goto, MayFind
<1>3. ClosesApart'
  BY ThreadsAssumption DEF StoreInv, TypeOK, Registered, SafeInv, ClosesApart,
                           Closing, FindLock, Goto, MayFind
<1>4. FindsHeld'
  <2> SUFFICES ASSUME NEW u \in Threads, Sought(u)' \in containers'
               PROVE  count'[Sought(u)'] > 0
    BY DEF FindsHeld
  <2>1. CASE u = t
    <3>1. Sought(u)' = idmap[n] /\ containers' = containers /\ count' = count
      BY <2>1 DEF FindLock, Goto, Sought, StoreInv, TypeOK
    <3>2. ~(idmap[n] \in containers /\ count[idmap[n]] = 0)
      BY Zenon DEF FindLock, MayFind
    <3>3. idmap[n] \in containers
      BY <3>1
    <3>4. count[idmap[n]] \in Nat
      BY <3>3 DEF StoreInv, TypeOK
    <3>5. count[idmap[n]] > 0
      BY <3>2, <3>3, <3>4
    <3> QED BY <3>1, <3>5
  <2>2. CASE u # t
    <3>1. Sought(u)' = Sought(u) /\ containers' = containers /\ count' = count
      BY <2>2 DEF FindLock, Goto, Sought, StoreInv, TypeOK
    <3> QED BY <3>1 DEF SafeInv, FindsHeld
  <2> QED BY <2>1, <2>2
<1>5. ~misuse'
  BY ThreadsAssumption DEF StoreInv, TypeOK, Registered, SafeInv, ClosesApart,
                           FindLock, MayFind
<1> QED BY <1>2, <1>3, <1>4, <1>5 DEF SafeInv

LEMMA FindIdLockSafe ==
  ASSUME StoreInv, SafeInv, ~reopen, NEW t \in Threads, NEW i \in Ids,
         FindIdLock(t, i)
  PROVE  SafeInv'
<1>2. LookupsLocked'
  BY ThreadsAssumption DEF StoreInv, TypeOK, SafeInv, LookupsLocked, FindIdLock,
                           Goto, MayFind
<1>3. ClosesApart'
  BY ThreadsAssumption DEF StoreInv, TypeOK, Registered, SafeInv, ClosesApart,
                           Closing, FindIdLock, Goto, MayFind
<1>4. FindsHeld'
  <2> SUFFICES ASSUME NEW u \in Threads, Sought(u)' \in containers'
               PROVE  count'[Sought(u)'] > 0
    BY DEF FindsHeld
  <2>1. CASE u = t
    <3>1. Sought(u)' = i /\ containers' = containers /\ count' = count
      BY <2>1 DEF FindIdLock, Goto, Sought, StoreInv, TypeOK
    <3>2. ~(i \in containers /\ count[i] = 0)
      BY Zenon DEF FindIdLock, MayFind
    <3>3. i \in containers
      BY <3>1
    <3>4. count[i] \in Nat
      BY <3>3 DEF StoreInv, TypeOK
    <3>5. count[i] > 0
      BY <3>2, <3>3, <3>4
    <3> QED BY <3>1, <3>5
  <2>2. CASE u # t
    <3>1. Sought(u)' = Sought(u) /\ containers' = containers /\ count' = count
      BY <2>2 DEF FindIdLock, Goto, Sought, StoreInv, TypeOK
    <3> QED BY <3>1 DEF SafeInv, FindsHeld
  <2> QED BY <2>1, <2>2
<1>5. ~misuse'
  BY ThreadsAssumption DEF StoreInv, TypeOK, Registered, SafeInv, ClosesApart,
                           FindIdLock, MayFind
<1> QED BY <1>2, <1>3, <1>4, <1>5 DEF SafeInv

LEMMA FindFailsSafe ==
  ASSUME StoreInv, SafeInv, ~reopen, NEW t \in Threads, FindFails(t)
  PROVE  SafeInv'
<1>2. LookupsLocked'
  BY DEF StoreInv, TypeOK, SafeInv, LookupsLocked, FindFails, Goto
<1>3. ClosesApart'
  BY DEF StoreInv, TypeOK, Registered, SafeInv, ClosesApart, Closing, FindFails,
         Goto
<1>4. FindsHeld'
  <2> SUFFICES ASSUME NEW u \in Threads, Sought(u)' \in containers'
               PROVE  count'[Sought(u)'] > 0
    BY DEF FindsHeld
  <2>1. CASE u = t
    <3>1. Sought(u)' = NoId /\ NoId \notin containers'
      BY <2>1, IdsAre DEF FindFails, Goto, Sought, StoreInv, TypeOK
    <3> QED BY <3>1
  <2>2. CASE u # t
    <3>1. Sought(u)' = Sought(u) /\ containers' = containers /\ count' = count
      BY <2>2 DEF FindFails, Goto, Sought, StoreInv, TypeOK
    <3> QED BY <3>1 DEF SafeInv, FindsHeld
  <2> QED BY <2>1, <2>2
<1>5. ~misuse'
  BY DEF StoreInv, TypeOK, Registered, SafeInv, ClosesApart, FindFails
<1> QED BY <1>2, <1>3, <1>4, <1>5 DEF SafeInv

LEMMA FindOpenSafe ==
  ASSUME StoreInv, SafeInv, ~reopen, NEW t \in Threads, FindOpen(t)
  PROVE  SafeInv'
<1> DEFINE i == idmap[arg[t]]
<1>1. /\ i \in Ids /\ i \in containers /\ Acquire(t, i)
      /\ count[i] > 0 /\ storeMutex = t
  <2>1. storeMutex = t
    BY DEF FindOpen, SafeInv, LookupsLocked
  <2>2. arg[t] \in Names
    BY DEF StoreInv, ArgsOK, FindOpen
  <2>3. i \in Ids /\ i \in containers /\ Acquire(t, i)
    BY <2>2, NamesLead DEF StoreInv, TypeOK, FindOpen
  <2>4. Sought(t) = i
    BY DEF FindOpen, Sought
  <2> QED BY <2>1, <2>3, <2>4 DEF SafeInv, FindsHeld
<1>2. \A j \in Ids \ {i} : count'[j] = count[j]
  BY <1>1, AcquireCounts DEF StoreInv, Counted
<1>3. LookupsLocked'
  BY <1>1 DEF StoreInv, TypeOK, SafeInv, LookupsLocked, FindOpen, Goto
<1>4. ClosesApart'
  <2>1. \A u \in Threads : Closing(u)' => /\ Closing(u) /\ pc'[u] = pc[u]
                                         /\ arg'[u] = arg[u]
    BY DEF FindOpen, Goto, Closing, StoreInv, TypeOK
  <2>2. \A u \in Threads : pc[u] \in {"dropped", "close"} =>
          arg[u] \in containers' /\ count'[arg[u]] = 0
    <3>1. \A u \in Threads : pc[u] \in {"dropped", "close"} =>
            arg[u] \in containers /\ count[arg[u]] = 0
      BY DEF SafeInv, ClosesApart
    <3>2. \A j \in containers : count[j] = 0 => count'[j] = 0
      <4>1. containers \subseteq Ids
        BY DEF StoreInv, TypeOK
      <4>2. ASSUME NEW j \in containers, count[j] = 0 PROVE j # i
        BY <1>1, <4>2
      <4> QED BY <1>2, <4>1, <4>2
    <3>3. containers \subseteq containers'
      BY DEF FindOpen
    <3> QED BY <3>1, <3>2, <3>3
  <2> QED BY <2>1, <2>2 DEF FindOpen, SafeInv, ClosesApart, Closing
<1>5. FindsHeld'
  <2> SUFFICES ASSUME NEW u \in Threads, Sought(u)' \in containers'
               PROVE  count'[Sought(u)'] > 0
    BY DEF FindsHeld
  <2>1. CASE u = t
    <3>1. Sought(u)' = NoId
      BY <2>1 DEF FindOpen, Goto, Sought, StoreInv, TypeOK
    <3>2. NoId \notin containers'
      BY <1>1, IdsAre DEF FindOpen, StoreInv, TypeOK
    <3> QED BY <3>1, <3>2
  <2>2. CASE u # t
    <3>1. pc[u] \notin {"find", "find id"}
      BY <1>1, <2>2, NobodyFinds DEF SafeInv
    <3>2. Sought(u)' = NoId
      BY <2>2, <3>1 DEF FindOpen, Goto, Sought, StoreInv, TypeOK
    <3>3. NoId \notin containers'
      BY <1>1, IdsAre DEF FindOpen, StoreInv, TypeOK
    <3> QED BY <3>2, <3>3
  <2> QED BY <2>1, <2>2
<1>6. ~misuse'
  BY <1>1 DEF StoreInv, TypeOK, Registered, SafeInv, FindOpen, Acquire
<1> QED BY <1>3, <1>4, <1>5, <1>6 DEF SafeInv

LEMMA FindNewSafe ==
  ASSUME StoreInv, SafeInv, ~reopen, NEW t \in Threads, FindNew(t)
  PROVE  SafeInv'
<1> DEFINE i == nextId
<1>1. /\ i \in Ids /\ Acquire(t, i) /\ storeMutex = t
      /\ i \notin containers /\ i \notin deleted
  <2>1. storeMutex = t
    BY DEF FindNew, SafeInv, LookupsLocked
  <2>2. ~(i < i)
    BY IdsAre DEF FindNew
  <2> QED BY <2>1, <2>2 DEF FindNew, StoreInv, Registered, Opened
<1>2. \A j \in Ids \ {i} : count'[j] = count[j]
  BY <1>1, AcquireCounts DEF StoreInv, Counted
<1>3. LookupsLocked'
  BY <1>1 DEF StoreInv, TypeOK, SafeInv, LookupsLocked, FindNew, Goto
<1>4. ClosesApart'
  <2>1. \A u \in Threads : Closing(u)' => /\ Closing(u) /\ pc'[u] = pc[u]
                                         /\ arg'[u] = arg[u]
    BY DEF FindNew, Goto, Closing, StoreInv, TypeOK
  <2>2. \A u \in Threads : pc[u] \in {"dropped", "close"} =>
          arg[u] \in containers' /\ count'[arg[u]] = 0
    <3>1. \A u \in Threads : pc[u] \in {"dropped", "close"} =>
            arg[u] \in containers /\ count[arg[u]] = 0
      BY DEF SafeInv, ClosesApart
    <3>2. \A j \in containers : count[j] = 0 => count'[j] = 0
      <4>1. containers \subseteq Ids
        BY DEF StoreInv, TypeOK
      <4>2. ASSUME NEW j \in containers, count[j] = 0 PROVE j # i
        BY <1>1, <4>2
      <4> QED BY <1>2, <4>1, <4>2
    <3>3. containers \subseteq containers'
      BY DEF FindNew
    <3> QED BY <3>1, <3>2, <3>3
  <2> QED BY <2>1, <2>2 DEF FindNew, SafeInv, ClosesApart, Closing
<1>5. FindsHeld'
  <2> SUFFICES ASSUME NEW u \in Threads, Sought(u)' \in containers'
               PROVE  count'[Sought(u)'] > 0
    BY DEF FindsHeld
  <2>1. CASE u = t
    <3>1. Sought(u)' = NoId
      BY <2>1 DEF FindNew, Goto, Sought, StoreInv, TypeOK
    <3>2. NoId \notin containers'
      BY <1>1, IdsAre DEF FindNew, StoreInv, TypeOK
    <3> QED BY <3>1, <3>2
  <2>2. CASE u # t
    <3>1. pc[u] \notin {"find", "find id"}
      BY <1>1, <2>2, NobodyFinds DEF SafeInv
    <3>2. Sought(u)' = NoId
      BY <2>2, <3>1 DEF FindNew, Goto, Sought, StoreInv, TypeOK
    <3>3. NoId \notin containers'
      BY <1>1, IdsAre DEF FindNew, StoreInv, TypeOK
    <3> QED BY <3>2, <3>3
  <2> QED BY <2>1, <2>2
<1>6. ~misuse'
  BY <1>1 DEF StoreInv, TypeOK, Registered, SafeInv, FindNew, Acquire
<1> QED BY <1>3, <1>4, <1>5, <1>6 DEF SafeInv

LEMMA FindIdSafe ==
  ASSUME StoreInv, SafeInv, ~reopen, NEW t \in Threads, FindId(t)
  PROVE  SafeInv'
<1> DEFINE i == arg[t]
<1>1. storeMutex = t
  BY DEF FindId, SafeInv, LookupsLocked
<1>2. (\A j \in containers : count[j] = 0 => count'[j] = 0) /\ ~misuse'
  <2>1. CASE i \notin containers
    BY <2>1 DEF FindId, SafeInv
  <2>2. CASE i \in containers
    <3>1. containers \subseteq Ids
      BY DEF StoreInv, TypeOK
    <3>2. Sought(t) = i
      BY DEF FindId, Sought
    <3>3. i \in Ids /\ count[i] > 0
      BY <2>2, <3>1, <3>2 DEF SafeInv, FindsHeld
    <3>4. Acquire(t, i)
      BY <2>2 DEF FindId
    <3>5. \A j \in Ids \ {i} : count'[j] = count[j]
      BY <3>3, <3>4, AcquireCounts DEF StoreInv, Counted
    <3>6. ASSUME NEW j \in containers, count[j] = 0 PROVE j # i
      BY <3>3, <3>6
    <3>7. ~misuse'
      BY <2>2, <3>4 DEF Acquire, SafeInv, StoreInv, Registered
    <3> QED BY <3>1, <3>5, <3>6, <3>7
  <2> QED BY <2>1, <2>2
<1>3. LookupsLocked'
  BY <1>1 DEF StoreInv, TypeOK, SafeInv, LookupsLocked, FindId, Goto
<1>4. ClosesApart'
  <2>1. \A u \in Threads : Closing(u)' => /\ Closing(u) /\ pc'[u] = pc[u]
                                         /\ arg'[u] = arg[u]
    BY DEF FindId, Goto, Closing, StoreInv, TypeOK
  <2>2. \A u \in Threads : pc[u] \in {"dropped", "close"} =>
          arg[u] \in containers' /\ count'[arg[u]] = 0
    <3>1. \A u \in Threads : pc[u] \in {"dropped", "close"} =>
            arg[u] \in containers /\ count[arg[u]] = 0
      BY DEF SafeInv, ClosesApart
    <3>2. containers \subseteq containers'
      BY DEF FindId
    <3> QED BY <3>1, <3>2, <1>2
  <2> QED BY <2>1, <2>2 DEF FindId, SafeInv, ClosesApart, Closing
<1>5. FindsHeld'
  <2> SUFFICES ASSUME NEW u \in Threads, Sought(u)' \in containers'
               PROVE  count'[Sought(u)'] > 0
    BY DEF FindsHeld
  <2>1. CASE u = t
    <3>1. Sought(u)' = NoId
      BY <2>1 DEF FindId, Goto, Sought, StoreInv, TypeOK
    <3>2. NoId \notin containers'
      BY <1>1, IdsAre DEF FindId, StoreInv, TypeOK
    <3> QED BY <3>1, <3>2
  <2>2. CASE u # t
    <3>1. pc[u] \notin {"find", "find id"}
      BY <1>1, <2>2, NobodyFinds DEF SafeInv
    <3>2. Sought(u)' = NoId
      BY <2>2, <3>1 DEF FindId, Goto, Sought, StoreInv, TypeOK
    <3>3. NoId \notin containers'
      BY <1>1, IdsAre DEF FindId, StoreInv, TypeOK
    <3> QED BY <3>2, <3>3
  <2> QED BY <2>1, <2>2
<1>6. ~misuse'
  BY <1>2
<1> QED BY <1>3, <1>4, <1>5, <1>6 DEF SafeInv

LEMMA AddAliasSafe ==
  ASSUME StoreInv, SafeInv, ~reopen, NEW t \in Threads, NEW i \in Ids,
         NEW a \in Names, AddAlias(t, i, a)
  PROVE  SafeInv'
<1>1. storeMutex = NoThread
  BY DEF AddAlias
<1>2. LookupsLocked'
  BY DEF StoreInv, TypeOK, SafeInv, LookupsLocked, AddAlias
<1>3. ClosesApart'
  BY DEF SafeInv, ClosesApart, Closing, AddAlias
<1>4. FindsHeld'
  <2> SUFFICES ASSUME NEW u \in Threads PROVE Sought(u)' \notin containers'
    BY DEF FindsHeld
  <2>1. pc[u] \notin {"find", "find id"}
    BY <1>1, ThreadsAssumption DEF SafeInv, LookupsLocked
  <2>2. Sought(u)' = NoId
    BY <2>1 DEF AddAlias, Sought
  <2> QED BY <2>2, IdsAre DEF AddAlias, StoreInv, TypeOK
<1>5. ~misuse'
  BY DEF AddAlias, SafeInv
<1> QED BY <1>2, <1>3, <1>4, <1>5 DEF SafeInv

LEMMA RemoveAliasSafe ==
  ASSUME StoreInv, SafeInv, ~reopen, NEW t \in Threads, NEW i \in Ids,
         NEW a \in Names, RemoveAlias(t, i, a)
  PROVE  SafeInv'
<1>1. storeMutex = NoThread
  BY DEF RemoveAlias
<1>2. LookupsLocked'
  BY DEF StoreInv, TypeOK, SafeInv, LookupsLocked, RemoveAlias
<1>3. ClosesApart'
  BY DEF SafeInv, ClosesApart, Closing, RemoveAlias
<1>4. FindsHeld'
  <2> SUFFICES ASSUME NEW u \in Threads PROVE Sought(u)' \notin containers'
    BY DEF FindsHeld
  <2>1. pc[u] \notin {"find", "find id"}
    BY <1>1, ThreadsAssumption DEF SafeInv, LookupsLocked
  <2>2. Sought(u)' = NoId
    BY <2>1 DEF RemoveAlias, Sought
  <2> QED BY <2>2, IdsAre DEF RemoveAlias, StoreInv, TypeOK
<1>5. ~misuse'
  BY DEF RemoveAlias, SafeInv
<1> QED BY <1>2, <1>3, <1>4, <1>5 DEF SafeInv

LEMMA CopySafe ==
  ASSUME StoreInv, SafeInv, ~reopen, NEW t \in Threads, NEW i \in Ids, Copy(t, i)
  PROVE  SafeInv'
<1>1. i \in containers /\ count[i] > 0 /\ Acquire(t, i)
  BY HeldIsOpen DEF Copy
<1>2. /\ count'[i] > 0
      /\ \A j \in Ids \ {i} : count'[j] = count[j]
  BY <1>1, AcquireCounts DEF StoreInv, Counted
<1>3. LookupsLocked'
  BY DEF SafeInv, LookupsLocked, Copy
<1>4. ClosesApart'
  <2>1. \A u \in Threads : pc[u] \in {"dropped", "close"} =>
          arg[u] \in containers /\ count[arg[u]] = 0
    BY DEF SafeInv, ClosesApart
  <2>2. ASSUME NEW j \in containers, count[j] = 0 PROVE count'[j] = 0
    <3>1. j \in Ids
      BY DEF StoreInv, TypeOK
    <3>2. j # i
      BY <1>1, <2>2
    <3> QED BY <1>2, <2>2, <3>1, <3>2
  <2> QED BY <2>1, <2>2 DEF SafeInv, ClosesApart, Closing, Copy
<1>5. FindsHeld'
  <2>1. ASSUME NEW j \in containers, count[j] > 0 PROVE count'[j] > 0
    <3>1. j \in Ids
      BY DEF StoreInv, TypeOK
    <3> QED BY <1>2, <2>1, <3>1
  <2>2. ASSUME NEW u \in Threads PROVE Sought(u)' = Sought(u)
    BY DEF Copy, Sought
  <2> QED BY <2>1, <2>2 DEF SafeInv, FindsHeld, Copy
<1>6. ~misuse'
  BY <1>1 DEF StoreInv, Registered, SafeInv, Acquire
<1> QED BY <1>3, <1>4, <1>5, <1>6 DEF SafeInv

LEMMA ReleaseSafe ==
  ASSUME StoreInv, SafeInv, ~reopen, NEW t \in Threads, NEW h \in Slots,
         Release(t, h)
  PROVE  SafeInv'
<1> DEFINE i == handles[<<t, h>>]
<1>1. i \in Ids /\ i \in containers /\ count[i] > 0
  <2>1. i \in Ids /\ Holds(t, i)
    BY DEF StoreInv, TypeOK, Release, Holds
  <2> QED BY <2>1, HeldIsOpen
<1>2. /\ count' = [count EXCEPT ![i] = @ - 1]
      /\ idmap' = idmap /\ containers' = containers /\ deleted' = deleted
      /\ storeMutex' = storeMutex /\ pc[t] = "idle"
  BY DEF Release
<1>3. count \in [Ids -> Nat] /\ containers \subseteq Ids
  BY DEF StoreInv, TypeOK
<1> HIDE DEF i
<1>4. \/ UNCHANGED <<pc, arg>>
      \/ count[i] = 1 /\ Goto(t, "dropped", i)
  BY DEF Release, i
<1>5. LookupsLocked'
  BY <1>2, <1>4 DEF StoreInv, TypeOK, SafeInv, LookupsLocked, Goto
<1>6. ClosesApart'
  <2>1. ASSUME NEW u \in Threads, pc[u] \in {"dropped", "close"}
        PROVE  arg[u] \in containers /\ arg[u] # i /\ count'[arg[u]] = 0
    <3>1. arg[u] \in containers /\ count[arg[u]] = 0
      BY <2>1 DEF SafeInv, ClosesApart
    <3> QED BY <1>1, <1>2, <1>3, <3>1
  <2>2. ASSUME NEW u \in Threads, Closing(u) PROVE arg[u] # i
    BY <1>1, <2>1, <2>2 DEF Closing, StoreInv, Registered
  <2>3. CASE UNCHANGED <<pc, arg>>
    BY <1>2, <2>1, <2>3 DEF SafeInv, ClosesApart, Closing
  <2>4. CASE count[i] = 1 /\ Goto(t, "dropped", i)
    <3>1. count'[i] = 0
      BY <1>1, <1>2, <1>3, <2>4
    <3>2. \A u \in Threads : IF u = t THEN pc'[u] = "dropped" /\ arg'[u] = i
                                        ELSE pc'[u] = pc[u] /\ arg'[u] = arg[u]
      BY <2>4 DEF Goto, StoreInv, TypeOK
    <3>3. \A u \in Threads : Closing(u)' => u = t \/ (Closing(u) /\ u # t)
      BY <3>2 DEF Closing
    <3>4. \A u \in Threads :
            /\ pc'[u] \in {"dropped", "close"} =>
                 arg'[u] \in containers' /\ count'[arg'[u]] = 0
            /\ pc'[u] = "delete" => arg'[u] \notin deleted'
      BY <1>1, <1>2, <2>1, <3>1, <3>2 DEF SafeInv, ClosesApart
    <3>5. ASSUME NEW u \in Threads, NEW w \in Threads, u # w, Closing(u)', Closing(w)'
          PROVE  arg'[u] # arg'[w]
      BY <2>2, <3>2, <3>3, <3>5 DEF SafeInv, ClosesApart
    <3>6. \A u, w \in Threads : u # w /\ Closing(u)' /\ Closing(w)' => arg'[u] # arg'[w]
      BY <3>5
    <3> QED BY <3>4, <3>6 DEF ClosesApart
  <2> QED BY <1>4, <2>3, <2>4
<1>7. FindsHeld'
  <2> SUFFICES ASSUME NEW u \in Threads, Sought(u)' \in containers'
               PROVE  count'[Sought(u)'] > 0
    BY DEF FindsHeld
  <2>1. Sought(u)' = Sought(u) /\ Sought(u) \in Ids
    <3>1. Sought(u)' = Sought(u) \/ Sought(u)' = NoId
      BY <1>2, <1>4 DEF Sought, Goto, StoreInv, TypeOK
    <3>2. Sought(u)' # NoId
      BY <1>2, <1>3, IdsAre
    <3> QED BY <1>2, <1>3, <3>1, <3>2
  <2>2. count[Sought(u)] > 0
    BY <1>2, <2>1 DEF SafeInv, FindsHeld
  <2>3. ~(count[i] = 1 /\ Sought(u) = i)
    BY Zenon DEF Release, MayDrop, i
  <2>4. count[Sought(u)] \in Nat /\ (Sought(u) = i => count[Sought(u)] # 1)
    BY <1>3, <2>1, <2>3
  <2> QED BY <1>2, <1>3, <2>1, <2>2, <2>4
<1>8. ~misuse'
  BY <1>1 DEF Release, StoreInv, Registered, SafeInv, i
<1> QED BY <1>5, <1>6, <1>7, <1>8 DEF SafeInv

LEMMA CloseLockSafe ==
  ASSUME StoreInv, SafeInv, ~reopen, NEW t \in Threads, CloseLock(t)
  PROVE  SafeInv'
<1>2. LookupsLocked'
  BY ThreadsAssumption DEF StoreInv, TypeOK, SafeInv, LookupsLocked, CloseLock,
                           Goto
<1>3. ClosesApart'
  BY DEF StoreInv, TypeOK, Registered, SafeInv, ClosesApart, Closing, CloseLock,
         Goto
<1>4. FindsHeld'
  <2> SUFFICES ASSUME NEW u \in Threads, Sought(u)' \in containers'
               PROVE  count'[Sought(u)'] > 0
    BY DEF FindsHeld
  <2>1. CASE u = t
    <3>1. Sought(u)' = NoId /\ NoId \notin containers'
      BY <2>1, IdsAre DEF CloseLock, Goto, Sought, StoreInv, TypeOK
    <3> QED BY <3>1
  <2>2. CASE u # t
    <3>1. Sought(u)' = Sought(u) /\ containers' = containers /\ count' = count
      BY <2>2 DEF CloseLock, Goto, Sought, StoreInv, TypeOK
    <3> QED BY <3>1 DEF SafeInv, FindsHeld
  <2> QED BY <2>1, <2>2
<1>5. ~misuse'
  BY DEF StoreInv, TypeOK, Registered, SafeInv, ClosesApart, CloseLock
<1> QED BY <1>2, <1>3, <1>4, <1>5 DEF SafeInv

LEMMA DeleteSafe ==
  ASSUME StoreInv, SafeInv, ~reopen, NEW t \in Threads, Delete(t)
  PROVE  SafeInv'
<1>2. LookupsLocked'
  BY DEF StoreInv, TypeOK, SafeInv, LookupsLocked, Delete, Goto
<1>3. ClosesApart'
  BY DEF StoreInv, TypeOK, Registered, SafeInv, ClosesApart, Closing, Delete,
         Goto
<1>4. FindsHeld'
  <2> SUFFICES ASSUME NEW u \in Threads, Sought(u)' \in containers'
               PROVE  count'[Sought(u)'] > 0
    BY DEF FindsHeld
  <2>1. CASE u = t
    <3>1. Sought(u)' = NoId /\ NoId \notin containers'
      BY <2>1, IdsAre DEF Delete, Goto, Sought, StoreInv, TypeOK
    <3> QED BY <3>1
  <2>2. CASE u # t
    <3>1. Sought(u)' = Sought(u) /\ containers' = containers /\ count' = count
      BY <2>2 DEF Delete, Goto, Sought, StoreInv, TypeOK
    <3> QED BY <3>1 DEF SafeInv, FindsHeld
  <2> QED BY <2>1, <2>2
<1>5. ~misuse'
  BY DEF StoreInv, TypeOK, Registered, SafeInv, ClosesApart, Delete
<1> QED BY <1>2, <1>3, <1>4, <1>5 DEF SafeInv

LEMMA CloseReferencedSafe ==
  ASSUME StoreInv, SafeInv, ~reopen, NEW t \in Threads, CloseReferenced(t)
  PROVE  SafeInv'
<1>1. count[arg[t]] = 0
  BY DEF CloseReferenced, SafeInv, ClosesApart
<1> QED BY <1>1 DEF CloseReferenced

LEMMA CloseSafe ==
  ASSUME StoreInv, SafeInv, ~reopen, NEW t \in Threads, Close(t)
  PROVE  SafeInv'
<1>1. storeMutex = t
  BY DEF Close, SafeInv, LookupsLocked
<1>2. LookupsLocked'
  BY <1>1 DEF StoreInv, TypeOK, SafeInv, LookupsLocked, Close, Goto
<1>3. ClosesApart'
  BY <1>1 DEF StoreInv, TypeOK, Registered, SafeInv, ClosesApart, Closing,
              Close, Goto
<1>4. FindsHeld'
  <2> SUFFICES ASSUME NEW u \in Threads, Sought(u)' \in containers'
               PROVE  count'[Sought(u)'] > 0
    BY DEF FindsHeld
  <2>1. CASE u = t
    <3>1. Sought(u)' = NoId
      BY <2>1 DEF Close, Goto, Sought, StoreInv, TypeOK
    <3>2. NoId \notin containers'
      BY <1>1, IdsAre DEF Close, StoreInv, TypeOK
    <3> QED BY <3>1, <3>2
  <2>2. CASE u # t
    <3>1. pc[u] \notin {"find", "find id"}
      BY <1>1, <2>2, NobodyFinds DEF SafeInv
    <3>2. Sought(u)' = NoId
      BY <2>2, <3>1 DEF Close, Goto, Sought, StoreInv, TypeOK
    <3>3. NoId \notin containers'
      BY <1>1, IdsAre DEF Close, StoreInv, TypeOK
    <3> QED BY <3>2, <3>3
  <2> QED BY <2>1, <2>2
<1>5. ~misuse'
  BY <1>1 DEF StoreInv, TypeOK, Registered, SafeInv, ClosesApart, Close
<1> QED BY <1>2, <1>3, <1>4, <1>5 DEF SafeInv

LEMMA SafeSteps ==
  ASSUME StoreInv, SafeInv, ~reopen, [Next]_vars
  PROVE  SafeInv' /\ ~reopen'
<1>1. UNCHANGED reopen
  BY DEF Next, vars
<1>2. CASE UNCHANGED vars
  BY <1>2 DEF SafeInv, LookupsLocked, ClosesApart, Closing, FindsHeld, Sought,
              vars, store
<1>3. ASSUME NEW t \in Threads, Call(t)
      PROVE  SafeInv'
  <2>1. ASSUME NEW n \in Names, FindLock(t, n) PROVE SafeInv'
    BY <2>1, FindLockSafe
  <2>2. ASSUME NEW i \in Ids, FindIdLock(t, i) PROVE SafeInv'
    BY <2>2, FindIdLockSafe
  <2>3. ASSUME NEW i \in Ids, Copy(t, i) PROVE SafeInv'
    BY <2>3, CopySafe
  <2>4. ASSUME NEW h \in Slots, Release(t, h) PROVE SafeInv'
    BY <2>4, ReleaseSafe
  <2>5. ASSUME NEW i \in Ids, NEW a \in Aliases, AddAlias(t, i, a) PROVE SafeInv'
    BY <2>5, AddAliasSafe DEF Names
  <2>6. ASSUME NEW i \in Ids, NEW a \in Removable, RemoveAlias(t, i, a) PROVE SafeInv'
    BY <2>6, RemoveAliasSafe DEF Removable, Names
  <2> QED BY <1>3, <2>1, <2>2, <2>3, <2>4, <2>5, <2>6 DEF Call
<1>4. ASSUME NEW t \in Threads, Continue(t)
      PROVE  SafeInv'
  BY <1>4, FindOpenSafe, FindNewSafe, FindFailsSafe, FindIdSafe, CloseLockSafe,
     CloseSafe, CloseReferencedSafe, DeleteSafe DEF Continue
<1>5. ~reopen'
  BY <1>1
<1> QED BY <1>2, <1>3, <1>4, <1>5 DEF Next

\* What the comment of closeContainer promises, "it is safe to delete the
\* object", holds where no application looks a container up while the last
\* handle on it is being released: no thread then touches a deleted container,
\* and none is deleted twice.
THEOREM DeletingIsSafe ==
  ASSUME TRUE \notin Assured
  PROVE  Spec => []SafeToDelete
<1>1. Init => reopen \/ (~reopen /\ SafeInv)
  <2> SUFFICES ASSUME Init, ~reopen PROVE SafeInv
    OBVIOUS
  <2>1. ClosesApart /\ LookupsLocked
    BY DEF Init, ClosesApart, LookupsLocked, Closing
  <2>2. \A t \in Threads : Sought(t) = NoId
    BY DEF Init, Sought
  <2>3. FindsHeld
    BY <2>2 DEF Init, FindsHeld
  <2> QED BY <2>1, <2>3 DEF Init, SafeInv
<1>2. reopen /\ [Next]_vars => reopen'
  BY DEF Next, vars
<1>3. StoreInv /\ SafeInv /\ ~reopen /\ [Next]_vars => SafeInv' /\ ~reopen'
  BY SafeSteps
<1>4. StoreInv /\ (reopen \/ (~reopen /\ SafeInv)) => SafeToDelete
  <2> SUFFICES ASSUME StoreInv, reopen \/ (~reopen /\ SafeInv), reopen \in Assured
               PROVE  ~misuse
    BY DEF SafeToDelete
  <2>1. reopen \in BOOLEAN /\ reopen # TRUE
    BY UsageAssumption DEF StoreInv, TypeOK
  <2>2. ~reopen
    BY <2>1
  <2> QED BY <2>2 DEF SafeInv
<1> QED BY StoreAlways, <1>1, <1>2, <1>3, <1>4, PTL DEF Spec

=============================================================================
