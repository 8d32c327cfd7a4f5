--------------------------- MODULE ContainerStore ---------------------------
(***************************************************************************)
(* Manager::ContainerStore: the open containers of an XmlManager, found by *)
(* name, by alias or by id from any thread, and closed when the last       *)
(* XmlContainer handle is released.                                        *)
(*                                                                         *)
(* Two locks matter: the mutex of the store, held while a container is     *)
(* looked up, opened or closed, and the mutex of each container, held for  *)
(* the moment its reference count changes.  The count reaches zero under   *)
(* the second; the container leaves the store later, under the first.      *)
(***************************************************************************)
EXTENDS Naturals, FiniteSets

CONSTANTS
  Threads,
  Files,       \* the names of container files
  Aliases,     \* other names an application gives to open containers
  NoThread,    \* a mutex nobody holds
  MaxId,       \* bound on the containers opened, ids are never reused
  MaxHandles,  \* bound on the XmlContainer objects of one thread
  Reopens,     \* whether applications look a container up while the last
               \* handle on it is being released: {TRUE}, {FALSE} or both
  Assured,     \* where they do what Reopens has, and calls are to return
  RemoveNames  \* whether an application passes removeAlias the name of a file

ASSUME ThreadsAssumption == IsFiniteSet(Threads) /\ NoThread \notin Threads
ASSUME BoundAssumption == MaxId \in Nat \ {0} /\ MaxHandles \in Nat \ {0}
ASSUME UsageAssumption ==
  Reopens \subseteq BOOLEAN /\ Assured \subseteq Reopens /\ RemoveNames \in BOOLEAN
ASSUME NamesAssumption == Files # {} /\ Files \cap Aliases = {}

Ids == 1..MaxId
Names == Files \cup Aliases
NoId == 0
Slots == 1..MaxHandles

VARIABLES
  reopen,     \* what the applications of this store do, of Reopens
  idmap,      \* idmap_: the id registered for a name, or NoId
  containers, \* the ids whose slot of containers_ is not null
  nextId,     \* the size of containers_ (slot 0 is the transient container)
  file,       \* the file each container was opened on
  count,      \* count_ of each container
  deleted,    \* the containers whose destructor has run
  mutex,      \* the thread that holds the mutex of each container
  storeMutex, \* the thread that holds the mutex of the store
  handles,    \* the container that each XmlContainer object of a thread refers to
  pc, arg,    \* what each thread is doing, and to which name or container
  misuse      \* whether a deleted container has been touched

store == <<idmap, containers, nextId, file, count, deleted, mutex, storeMutex,
           handles, pc, arg, misuse>>
vars == <<reopen, store>>

TypeOK ==
  /\ reopen \in Reopens
  /\ idmap \in [Names -> Ids \cup {NoId}]
  /\ containers \subseteq Ids
  /\ nextId \in 1..(MaxId + 1)
  /\ file \in [Ids -> Files]
  /\ count \in [Ids -> Nat]
  /\ deleted \subseteq Ids
  /\ mutex \in [Ids -> Threads \cup {NoThread}]
  /\ storeMutex \in Threads \cup {NoThread}
  /\ handles \in [Threads \X Slots -> Ids \cup {NoId}]
  /\ pc \in [Threads -> {"idle", "find", "find id", "dropped", "close", "delete"}]
  /\ arg \in [Threads -> Names \cup Ids \cup {NoId}]
  /\ misuse \in BOOLEAN

Init ==
  /\ reopen \in Reopens
  /\ idmap = [n \in Names |-> NoId]
  /\ containers = {} /\ nextId = 1
  /\ file = [i \in Ids |-> CHOOSE f \in Files : TRUE]
  /\ count = [i \in Ids |-> 0] /\ deleted = {}
  /\ mutex = [i \in Ids |-> NoThread] /\ storeMutex = NoThread
  /\ handles = [x \in Threads \X Slots |-> NoId]
  /\ pc = [t \in Threads |-> "idle"] /\ arg = [t \in Threads |-> NoId]
  /\ misuse = FALSE

-----------------------------------------------------------------------------
Goto(t, label, value) ==
  pc' = [pc EXCEPT ![t] = label] /\ arg' = [arg EXCEPT ![t] = value]

\* The mutex of a container is recursive, and free outside the short sections
\* that take it unless one of them forgot to release it.
CanLock(t, i) == mutex[i] \in {t, NoThread}

Holds(t, i) == \E h \in Slots : handles[<<t, h>>] = i

\* A new XmlContainer object of thread t refers to i.
NewHandle(t, i) ==
  \E h \in Slots :
    /\ handles[<<t, h>>] = NoId /\ \A k \in 1..(h - 1) : handles[<<t, k>>] # NoId
    /\ handles' = [handles EXCEPT ![<<t, h>>] = i]

\* XmlContainer(container): acquire.
Acquire(t, i) ==
  /\ CanLock(t, i)
  /\ count' = [count EXCEPT ![i] = @ + 1]
  /\ NewHandle(t, i)
  /\ misuse' = (misuse \/ i \in deleted)

\* Where a lookup starts, the bound on the handles of its thread.
Room(t) == Holds(t, NoId)

\* The container a lookup in progress will find.
Sought(t) == IF pc[t] = "find" THEN idmap[arg[t]]
             ELSE IF pc[t] = "find id" THEN arg[t] ELSE NoId

\* Looking a container up and releasing the last handle on it at the same time,
\* which some applications do.
MayFind(i) == ~reopen => ~(i \in containers /\ count[i] = 0)
MayDrop(i) == ~reopen => ~(count[i] = 1 /\ \E t \in Threads : Sought(t) = i)

-----------------------------------------------------------------------------
(* Lookups *)

\* XmlManager::openContainer or createContainer takes the mutex of the store.
FindLock(t, n) ==
  /\ pc[t] = "idle" /\ Room(t) /\ MayFind(idmap[n]) /\ storeMutex = NoThread
  /\ storeMutex' = t
  /\ Goto(t, "find", n)
  /\ UNCHANGED <<idmap, containers, nextId, file, count, deleted, mutex,
                 handles, misuse>>

\* The name is registered: a new handle on the open container.
FindOpen(t) ==
  LET i == idmap[arg[t]] IN
  /\ pc[t] = "find" /\ i # NoId
  /\ Acquire(t, i)
  /\ storeMutex' = NoThread
  /\ Goto(t, "idle", NoId)
  /\ UNCHANGED <<idmap, containers, nextId, file, deleted, mutex>>

\* Mutant: the container is inserted under its id only.
FindNewNameless(t) ==
  /\ pc[t] = "find" /\ idmap[arg[t]] = NoId /\ arg[t] \in Files
  /\ nextId \in Ids
  /\ Acquire(t, nextId)
  /\ containers' = containers \cup {nextId}
  /\ file' = [file EXCEPT ![nextId] = arg[t]]
  /\ nextId' = nextId + 1
  /\ storeMutex' = NoThread
  /\ Goto(t, "idle", NoId)
  /\ UNCHANGED <<idmap, deleted, mutex>>

\* It is not: a Container is constructed and inserted, and the first handle
\* made.
FindNew(t) ==
  /\ pc[t] = "find" /\ idmap[arg[t]] = NoId /\ arg[t] \in Files
  /\ nextId \in Ids
  /\ Acquire(t, nextId)
  /\ idmap' = [idmap EXCEPT ![arg[t]] = nextId]
  /\ containers' = containers \cup {nextId}
  /\ file' = [file EXCEPT ![nextId] = arg[t]]
  /\ nextId' = nextId + 1
  /\ storeMutex' = NoThread
  /\ Goto(t, "idle", NoId)
  /\ UNCHANGED <<deleted, mutex>>

\* Mutant: the exception leaves the mutex of the store locked.
FindFailsLocked(t) ==
  /\ pc[t] = "find" /\ idmap[arg[t]] = NoId
  /\ Goto(t, "idle", NoId)
  /\ UNCHANGED <<idmap, containers, nextId, file, count, deleted, mutex,
                 storeMutex, handles, misuse>>

\* The constructor of the Container raises an exception; findOpenContainer,
\* which only looks, returns a null handle.
FindFails(t) ==
  /\ pc[t] = "find" /\ idmap[arg[t]] = NoId
  /\ storeMutex' = NoThread
  /\ Goto(t, "idle", NoId)
  /\ UNCHANGED <<idmap, containers, nextId, file, count, deleted, mutex,
                 handles, misuse>>

\* A ScopedContainer, made from the id a document or a result carries.
FindIdLock(t, i) ==
  /\ pc[t] = "idle" /\ Room(t) /\ i < nextId /\ MayFind(i) /\ storeMutex = NoThread
  /\ storeMutex' = t
  /\ Goto(t, "find id", i)
  /\ UNCHANGED <<idmap, containers, nextId, file, count, deleted, mutex,
                 handles, misuse>>

\* Mutant: the pointer is returned without a reference, and released later.
FindIdUncounted(t) ==
  LET i == arg[t] IN
  /\ pc[t] = "find id"
  /\ IF i \in containers THEN NewHandle(t, i) ELSE UNCHANGED handles
  /\ storeMutex' = NoThread
  /\ Goto(t, "idle", NoId)
  /\ UNCHANGED <<idmap, containers, nextId, file, count, deleted, mutex, misuse>>

\* getContainerFromID with acquire: a null pointer once the container closed.
FindId(t) ==
  LET i == arg[t] IN
  /\ pc[t] = "find id"
  /\ IF i \in containers
     THEN Acquire(t, i)
     ELSE UNCHANGED <<count, handles, misuse>>
  /\ storeMutex' = NoThread
  /\ Goto(t, "idle", NoId)
  /\ UNCHANGED <<idmap, containers, nextId, file, deleted, mutex>>

-----------------------------------------------------------------------------
(* Aliases *)

AddAlias(t, i, a) ==
  /\ pc[t] = "idle" /\ Holds(t, i) /\ storeMutex = NoThread
  /\ idmap[a] = NoId
  /\ idmap' = [idmap EXCEPT ![a] = i]
  /\ UNCHANGED <<containers, nextId, file, count, deleted, mutex, storeMutex,
                 handles, pc, arg, misuse>>

RemoveAlias(t, i, a) ==
  /\ pc[t] = "idle" /\ Holds(t, i) /\ storeMutex = NoThread
  /\ idmap[a] = i
  /\ idmap' = [idmap EXCEPT ![a] = NoId]
  /\ UNCHANGED <<containers, nextId, file, count, deleted, mutex, storeMutex,
                 handles, pc, arg, misuse>>

-----------------------------------------------------------------------------
(* Releasing and closing *)

\* A handle is copied, by its thread or another: XmlContainer(o).
Copy(t, i) ==
  /\ pc[t] = "idle" /\ Room(t) /\ \E u \in Threads : Holds(u, i)
  /\ Acquire(t, i)
  /\ UNCHANGED <<idmap, containers, nextId, file, deleted, mutex, storeMutex, pc, arg>>

\* Mutant: the old value of the count is looked at.
ReleaseOld(t, h) ==
  LET i == handles[<<t, h>>] IN
  /\ pc[t] = "idle" /\ i # NoId /\ MayDrop(i) /\ CanLock(t, i)
  /\ count' = [count EXCEPT ![i] = @ - 1]
  /\ handles' = [handles EXCEPT ![<<t, h>>] = NoId]
  /\ IF count[i] = 0 THEN Goto(t, "dropped", i) ELSE UNCHANGED <<pc, arg>>
  /\ UNCHANGED <<idmap, containers, nextId, file, deleted, mutex, storeMutex, misuse>>

\* ~XmlContainer and Container::release: the count falls under the mutex of the
\* container.
Release(t, h) ==
  LET i == handles[<<t, h>>] IN
  /\ pc[t] = "idle" /\ i # NoId /\ MayDrop(i) /\ CanLock(t, i)
  /\ count' = [count EXCEPT ![i] = @ - 1]
  /\ handles' = [handles EXCEPT ![<<t, h>>] = NoId]
  /\ misuse' = (misuse \/ i \in deleted)
  /\ IF count[i] = 1 THEN Goto(t, "dropped", i) ELSE UNCHANGED <<pc, arg>>
  /\ UNCHANGED <<idmap, containers, nextId, file, deleted, mutex, storeMutex>>

\* closeContainer takes the mutex of the store, reads the id, and takes the
\* mutex of the container.
CloseLock(t) ==
  /\ pc[t] = "dropped" /\ storeMutex = NoThread
  /\ storeMutex' = t
  /\ misuse' = (misuse \/ arg[t] \in deleted)
  /\ Goto(t, "close", arg[t])
  /\ UNCHANGED <<idmap, containers, nextId, file, count, deleted, mutex, handles>>

Unregistered(i) == [n \in Names |-> IF idmap[n] = i THEN NoId ELSE idmap[n]]

\* Mutant: whether the container has been found again is not looked at.
CloseUnconditionally(t) ==
  LET i == arg[t] IN
  /\ pc[t] = "close" /\ CanLock(t, i)
  /\ idmap' = Unregistered(i)
  /\ containers' = containers \ {i}
  /\ storeMutex' = NoThread
  /\ Goto(t, "delete", i)
  /\ UNCHANGED <<nextId, file, count, deleted, mutex, handles, misuse>>

\* Mutant: the aliases of the container stay registered.
CloseName(t) ==
  LET i == arg[t] IN
  /\ pc[t] = "close" /\ CanLock(t, i) /\ count[i] = 0
  /\ idmap' = [idmap EXCEPT ![file[i]] = NoId]
  /\ containers' = containers \ {i}
  /\ storeMutex' = NoThread
  /\ Goto(t, "delete", i)
  /\ UNCHANGED <<nextId, file, count, deleted, mutex, handles, misuse>>

\* Nobody refers to the container: it leaves the store with all its names.
Close(t) ==
  LET i == arg[t] IN
  /\ pc[t] = "close" /\ CanLock(t, i) /\ count[i] = 0
  /\ idmap' = Unregistered(i)
  /\ containers' = containers \ {i}
  /\ storeMutex' = NoThread
  /\ Goto(t, "delete", i)
  /\ UNCHANGED <<nextId, file, count, deleted, mutex, handles, misuse>>

\* A lookup came first: the container stays, and so does the lock on it, which
\* only the other branch gives back.
CloseReferenced(t) ==
  LET i == arg[t] IN
  /\ pc[t] = "close" /\ CanLock(t, i) /\ count[i] > 0
  /\ mutex' = [mutex EXCEPT ![i] = t]
  /\ storeMutex' = NoThread
  /\ Goto(t, "idle", NoId)
  /\ UNCHANGED <<idmap, containers, nextId, file, count, deleted, handles, misuse>>

\* delete this, when closeContainer did close
Delete(t) ==
  LET i == arg[t] IN
  /\ pc[t] = "delete"
  /\ deleted' = deleted \cup {i}
  /\ misuse' = (misuse \/ i \in deleted)
  /\ Goto(t, "idle", NoId)
  /\ UNCHANGED <<idmap, containers, nextId, file, count, mutex, storeMutex, handles>>

-----------------------------------------------------------------------------
Removable == IF RemoveNames THEN Names ELSE Aliases

\* What a thread does next when the application calls.
Call(t) ==
  \/ \E n \in Names : FindLock(t, n)
  \/ \E i \in Ids : FindIdLock(t, i) \/ Copy(t, i)
  \/ \E h \in Slots : Release(t, h)
  \/ \E i \in Ids, a \in Aliases : AddAlias(t, i, a)
  \/ \E i \in Ids, a \in Removable : RemoveAlias(t, i, a)

\* What it does without being asked.
Continue(t) ==
  \/ FindOpen(t) \/ FindNew(t) \/ FindFails(t) \/ FindId(t)
  \/ CloseLock(t) \/ Close(t) \/ CloseReferenced(t) \/ Delete(t)

Next == UNCHANGED reopen /\ \E t \in Threads : Call(t) \/ Continue(t)

Spec == Init /\ [][Next]_vars

\* A thread inside the library goes on when it can; one that waits to close a
\* container gets the mutex of the store if that is free again and again.
FairSpec ==
  Spec /\ \A t \in Threads : WF_store(Continue(t)) /\ SF_store(CloseLock(t))

-----------------------------------------------------------------------------
(* Properties *)

\* The count of a container is the number of handles on it.
CountExact ==
  \A i \in Ids : count[i] = Cardinality({x \in Threads \X Slots : handles[x] = i})

\* A handle keeps its container: in the store, with its object not deleted.
HandlesLive ==
  \A t \in Threads, i \in Ids :
    Holds(t, i) => i \in containers /\ i \notin deleted

\* The assertion of findContainer: a registered name, the aliases included,
\* leads to an open container.
NamesLive == \A n \in Names : idmap[n] # NoId => idmap[n] \in containers

\* "The name provided here must be unique for the environment": no file is open
\* in two containers of the store.
OneContainer == \A i, j \in containers : file[i] = file[j] => i = j

\* "It is safe to delete the object": no thread touches a deleted container,
\* and none is deleted twice.
SafeToDelete == reopen \in Assured => ~misuse

\* Every call returns.
CallsReturn ==
  reopen \in Assured => \A t \in Threads : pc[t] # "idle" ~> pc[t] = "idle"

\* The store lets go of a container: once nobody has a handle on it, it is
\* deleted, unless it is found again.
EventuallyDeleted ==
  reopen \in Assured =>
    \A i \in Ids : (i < nextId /\ count[i] = 0) ~> (i \in deleted \/ count[i] > 0)
=============================================================================
