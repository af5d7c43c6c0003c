-------------------------- MODULE RollingCollections --------------------------
(***************************************************************************)
(* The RollingCollections actors: Setup threads that create a window of    *)
(* collections, a Manage thread that drops the oldest and creates a new    *)
(* one, and Write and Read threads that use whatever the window holds.     *)
(* They share an AtomicDeque of names.  Its methods lock for one call      *)
(* each, and return references that are copied after the lock is gone.     *)
(*                                                                         *)
(* The server is here as a set of collections.  As for every actor of the  *)
(* repository that inserts without creating, an insert creates the         *)
(* collection it names; a find or drop of a missing one does nothing.      *)
(***************************************************************************)
EXTENDS Naturals, Sequences, FiniteSets, SequencesExt

CONSTANTS
  Setups, Writers, Readers,   \* threads by Operation
  Manager,                    \* the one thread with Operation: Manage
  CollectionWindowSize,
  MaxCreated, MaxClock        \* bounds: names taken, milliseconds passed

ASSUME WindowAssumption ==
  /\ CollectionWindowSize \in Nat /\ MaxCreated \in Nat /\ MaxClock \in Nat
  /\ IsFiniteSet(Setups)

\* A thread has one Operation.
ASSUME RolesAssumption ==
  /\ Manager \notin Setups \cup Writers \cup Readers
  /\ Setups \cap (Writers \cup Readers) = {} /\ Writers \cap Readers = {}

VARIABLES
  clock,      \* milliseconds since the epoch
  id,         \* the static counter of getRollingCollectionName()
  names,      \* rollingCollectionNames
  db,         \* the collections that exist
  pc,
  mine,       \* per thread: the name it works with
  left,       \* per Setup thread: collections still to create
  index       \* per Read thread: the size it saw, then the index it drew

shared == <<id, names, db>>
rollingVars == <<clock, shared, pc, mine, left, index>>

RollingThreads == Setups \cup Writers \cup Readers \cup {Manager}

Name == (0..MaxClock) \X (0..MaxCreated)

RollingTypeOK ==
  /\ clock \in 0..MaxClock /\ id \in 0..MaxCreated
  /\ names \in Seq(Name) /\ db \subseteq Name
  /\ pc \in [RollingThreads -> {"idle", "name", "loadId", "nextId", "create", "emplace", "front",
                         "pop", "drop", "back", "copy", "insert", "draw", "at", "find",
                         "exists", "failed", "done", "undefined"}]
  /\ mine \in [RollingThreads -> Name]
  /\ left \in [Setups -> 0..CollectionWindowSize]
  /\ index \in [Readers -> Nat]

RollingInit ==
  /\ clock = 0 /\ id = 0
  /\ names = <<>> /\ db = {}
  /\ pc = [t \in RollingThreads |-> "idle"]
  /\ mine = [t \in RollingThreads |-> <<0, 0>>]
  /\ left = [t \in Setups |-> CollectionWindowSize]
  /\ index = [t \in Readers |-> 0]

RollingGoto(t, label) == pc' = [pc EXCEPT ![t] = label]

RollingStep(t, from, to) == pc[t] = from /\ RollingGoto(t, to)

-----------------------------------------------------------------------------
(* getRollingCollectionName(), createCollection() and emplace_back(), as   *)
(* Setup and Manage call them.                                             *)

TakeMillis(t) ==
  /\ RollingStep(t, "name", "loadId")
  /\ mine' = [mine EXCEPT ![t] = <<clock, 0>>]
  /\ UNCHANGED <<clock, shared, left, index>>

LoadId(t) ==
  /\ RollingStep(t, "loadId", "nextId")
  /\ mine' = [mine EXCEPT ![t] = <<@[1], id>>]
  /\ UNCHANGED <<clock, shared, left, index>>

NextId(t) ==
  /\ id < MaxCreated
  /\ RollingStep(t, "nextId", "create")
  /\ id' = id + 1
  /\ UNCHANGED <<clock, names, db, mine, left, index>>

\* The server refuses to create what exists, and the actor's thread throws; so it
\* does when the request fails, or that of an index of the new collection.
createCollection(t) ==
  /\ \/ mine[t] \in db /\ RollingStep(t, "create", "exists") /\ UNCHANGED db
     \/ mine[t] \notin db /\ RollingStep(t, "create", "emplace") /\ db' = db \cup {mine[t]}
     \/ mine[t] \notin db /\ RollingStep(t, "create", "failed") /\ db' \in {db, db \cup {mine[t]}}
  /\ UNCHANGED <<clock, id, names, mine, left, index>>

\* Setup then inserts its documents into the collection, which may throw.
EmplaceBack(t) ==
  /\ \/ RollingStep(t, "emplace", "idle")
     \/ t \in Setups /\ RollingStep(t, "emplace", "failed")
  /\ left' = IF t \in Setups THEN [left EXCEPT ![t] = @ - 1] ELSE left
  /\ names' = Append(names, mine[t])
  /\ UNCHANGED <<clock, id, db, mine, index>>

\* Fault: the loop runs once too often.
Setup_OneMore(t) ==
  /\ IF left[t] + 1 = 0 THEN RollingStep(t, "idle", "done") ELSE RollingStep(t, "idle", "name")
  /\ UNCHANGED <<clock, shared, mine, left, index>>

\* Setup::run, in a phase of its own before the others', as the documented
\* workload has it.
Setup(t) ==
  /\ IF left[t] = 0 THEN RollingStep(t, "idle", "done") ELSE RollingStep(t, "idle", "name")
  /\ UNCHANGED <<clock, shared, mine, left, index>>

Running == \A t \in Setups : pc[t] = "done"

-----------------------------------------------------------------------------
(* Manage::run.                                                            *)

Manage ==
  /\ Running
  /\ IF names = <<>> THEN RollingStep(Manager, "idle", "name") ELSE RollingStep(Manager, "idle", "front")
  /\ UNCHANGED <<clock, shared, mine, left, index>>

\* Fault: the collection is dropped before its name is taken out.
TakeFront_DropsFirst ==
  /\ RollingStep(Manager, "front", "pop")
  /\ mine' = [mine EXCEPT ![Manager] = Head(names)]
  /\ db' = db \ {Head(names)}
  /\ UNCHANGED <<clock, id, names, left, index>>

TakeFront ==
  /\ RollingStep(Manager, "front", "pop")
  /\ mine' = [mine EXCEPT ![Manager] = Head(names)]
  /\ UNCHANGED <<clock, shared, left, index>>

PopFront ==
  /\ RollingStep(Manager, "pop", "drop")
  /\ names' = Tail(names)
  /\ UNCHANGED <<clock, id, db, mine, left, index>>

Drop ==
  /\ \/ RollingStep(Manager, "drop", "name") /\ db' = db \ {mine[Manager]}
     \/ RollingStep(Manager, "drop", "failed") /\ UNCHANGED db
  /\ UNCHANGED <<clock, id, names, mine, left, index>>

-----------------------------------------------------------------------------
(* Write::run; with no names it fails at once, and so does Read::run.      *)

Write(t) ==
  /\ Running /\ names # <<>>
  /\ RollingStep(t, "idle", "back")
  /\ UNCHANGED <<clock, shared, mine, left, index>>

\* back() of a deque that was emptied since is undefined.
Back(t) ==
  /\ IF names = <<>>
     THEN RollingStep(t, "back", "undefined") /\ UNCHANGED mine
     ELSE RollingStep(t, "back", "copy") /\ mine' = [mine EXCEPT ![t] = Last(names)]
  /\ UNCHANGED <<clock, shared, left, index>>

\* The name is copied through the reference: undefined if it was popped since,
\* unless the memory still holds it.
CopyName(t, next) ==
  /\ \/ RollingStep(t, "copy", next)
     \/ ~Contains(names, mine[t]) /\ RollingStep(t, "copy", "undefined")
  /\ UNCHANGED <<clock, shared, mine, left, index>>

\* An operation_exception is counted as a failed write.
InsertOne(t) ==
  /\ RollingStep(t, "insert", "idle")
  /\ db' \in {db, db \cup {mine[t]}}
  /\ UNCHANGED <<clock, id, names, mine, left, index>>

-----------------------------------------------------------------------------
(* Read::run.                                                              *)

\* What getNextCollectionId() can return: floor(size - distribution * rand * size)
\* with both factors in the unit interval, the second below one.
NextCollectionIds(size) == 0..size

Read(t) ==
  /\ Running /\ names # <<>>
  /\ RollingStep(t, "idle", "draw")
  /\ index' = [index EXCEPT ![t] = Len(names)]
  /\ UNCHANGED <<clock, shared, mine, left>>

Draw(t) ==
  /\ RollingStep(t, "draw", "at")
  /\ \E i \in NextCollectionIds(index[t]) : index' = [index EXCEPT ![t] = i]
  /\ UNCHANGED <<clock, shared, mine, left>>

\* at() checks its argument, and the exception is counted as a failed read.
At(t) ==
  /\ IF index[t] < Len(names)
     THEN RollingStep(t, "at", "copy") /\ mine' = [mine EXCEPT ![t] = names[index[t] + 1]]
     ELSE RollingStep(t, "at", "idle") /\ UNCHANGED mine
  /\ UNCHANGED <<clock, shared, left, index>>

FindOne(t) ==
  /\ RollingStep(t, "find", "idle")
  /\ UNCHANGED <<clock, shared, mine, left, index>>

Tick ==
  /\ clock < MaxClock
  /\ clock' = clock + 1
  /\ UNCHANGED <<shared, pc, mine, left, index>>

-----------------------------------------------------------------------------
NewCollection(t) ==
  TakeMillis(t) \/ LoadId(t) \/ NextId(t) \/ createCollection(t) \/ EmplaceBack(t)

RollingNext ==
  \/ \E t \in Setups \cup {Manager} : NewCollection(t)
  \/ \E t \in Setups : Setup(t)
  \/ Manage \/ TakeFront \/ PopFront \/ Drop
  \/ \E t \in Writers : Write(t) \/ Back(t) \/ CopyName(t, "insert") \/ InsertOne(t)
  \/ \E t \in Readers : Read(t) \/ Draw(t) \/ At(t) \/ CopyName(t, "find") \/ FindOne(t)
  \/ Tick

RollingSpec == RollingInit /\ [][RollingNext]_rollingVars

-----------------------------------------------------------------------------
(* Properties.                                                             *)

\* Whatever name the window offers is that of a collection: it is created
\* before it is offered, and withdrawn before it is dropped.
NamesExist == ToSet(names) \subseteq db

\* What the Setup threads create between them.
WindowSize == CollectionWindowSize * Cardinality(Setups)

\* The window rolls: once set up it has its size, or one less while the
\* manager replaces a collection; an empty window grows to one.
WindowRolls ==
  Running => /\ Len(names) <= (IF WindowSize = 0 THEN 1 ELSE WindowSize)
             /\ Len(names) >= (IF WindowSize = 0 THEN 0 ELSE WindowSize - 1)

\* Who reads the window finds as many collections as it has names.
WindowHolds == NamesExist /\ WindowRolls

\* No name is used twice: nobody finds that its new collection exists.
NamesUnique == \A t \in Setups \cup {Manager} : pc[t] # "exists"

\* "This actor is intended to create a rolling window of collections": what
\* exists is in the window, or on the manager's way in or out of it.
OnlyTheWindowExists == Running => db \subseteq ToSet(names) \cup {mine[Manager]}
=============================================================================
