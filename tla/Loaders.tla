------------------------------- MODULE Loaders -------------------------------
(***************************************************************************)
(* The actors that fill collections.  Loader and MonotonicLoader divide the *)
(* collections, or the documents of each, among their threads and build the *)
(* indexes; the threads of MonotonicSingleLoader take batches of ids from   *)
(* one shared counter; those of SamplingLoader insert copies of one sample. *)
(*                                                                         *)
(* load is the configuration: actor, threads (of the actor), phaseThreads   *)
(* ("Threads" of the phase, 0 without it),                                 *)
(* multiple (MultipleThreadsPerCollection), collections, documents, batch,  *)
(* and for the sample: sampleSize, population, batches.                    *)
(***************************************************************************)
EXTENDS Naturals, Sequences, FiniteSets

CONSTANTS
  Loads,              \* the configurations
  LoaderThreads,      \* 0 .. the most threads of any - 1
  MaxCollection,      \* bound: numbers of the collections
  MaxDocumentId       \* bound: ids of the documents

ASSUME LoadersAssumption ==
  /\ LoaderThreads = 0..(Cardinality(LoaderThreads) - 1) /\ Cardinality(LoaderThreads) \in Nat
  /\ MaxCollection \in Nat /\ MaxDocumentId \in Nat

\* Only a Loader has MultipleThreadsPerCollection; the constructor would divide
\* by zero without a collection, and by "Threads" of the phase otherwise.
ASSUME LoadsAssumption ==
  \A l \in Loads :
    /\ l.actor \in {"Loader", "MonotonicLoader", "MonotonicSingleLoader", "SamplingLoader"}
    /\ l.threads \in 1..Cardinality(LoaderThreads) /\ l.phaseThreads \in Nat /\ (l.multiple \/ l.phaseThreads > 0)
    /\ l.multiple \in BOOLEAN /\ (l.multiple => l.actor = "Loader" /\ l.collections > 0)
    /\ l.collections \in 0..(MaxCollection + 1)
    /\ l.documents \in Nat /\ l.batch \in Nat
    /\ l.actor = "MonotonicSingleLoader" => l.documents <= MaxDocumentId + 1
    /\ l.sampleSize \in Nat /\ l.population \in Nat /\ l.batches \in Nat

VARIABLES
  load, loaderAt,
  part,               \* PhaseConfig of a thread: [offset, count, documents, indexes]
  current, remaining, \* the collection a thread is at; remainingInserts
  stored, indexed,    \* the server: documents and index builds of a collection
  docIdCounter, low,  \* shared by MonotonicSingleLoader's threads; lowId
  inserted,           \* how often each id was inserted
  closed,             \* history: the most calls that closed the context of one batch
  sampleMutex, sample, gathered, retries

loadVars == <<stored, indexed, part, current, remaining>>
singleVars == <<docIdCounter, low, inserted, closed>>
sampleVars == <<sampleMutex, sample, gathered, retries>>
loaderVars == <<load, loaderAt, loadVars, singleVars, sampleVars>>

NoThread == Cardinality(LoaderThreads)
maxRetries == 3
CollectionNumbers == 0..MaxCollection
Ids == 0..MaxDocumentId
Threads == {t \in LoaderThreads : t < load.threads}

LoaderTypeOK ==
  /\ load \in Loads
  /\ loaderAt \in [LoaderThreads -> {"construct", "ready", "collection", "batch", "index", "take", "insert",
                                     "getSample", "gather", "sampled", "done", "dead", "invalid"}]
  /\ stored \in [CollectionNumbers -> Nat] /\ indexed \in [CollectionNumbers -> Nat]
  /\ remaining \in [LoaderThreads -> Nat] /\ docIdCounter \in Nat
  /\ inserted \in [Ids -> Nat] /\ closed \in [LoaderThreads -> 0..2]
  /\ sampleMutex \in LoaderThreads \cup {NoThread} /\ retries \in 0..maxRetries

LoaderInit ==
  /\ load \in Loads
  /\ loaderAt = [t \in LoaderThreads |-> "construct"]
  /\ part = [t \in LoaderThreads |-> [offset |-> 0, count |-> 0, documents |-> 0, indexes |-> FALSE]]
  /\ current = [t \in LoaderThreads |-> 0] /\ remaining = [t \in LoaderThreads |-> 0]
  /\ stored = [c \in CollectionNumbers |-> 0] /\ indexed = [c \in CollectionNumbers |-> 0]
  /\ docIdCounter = 0 /\ low = [t \in LoaderThreads |-> 0]
  /\ inserted = [i \in Ids |-> 0] /\ closed = [t \in LoaderThreads |-> 0]
  /\ sampleMutex = NoThread /\ sample = 0 /\ gathered = 0 /\ retries = 0

Move(t, from, to) == t \in Threads /\ loaderAt[t] = from /\ loaderAt' = [loaderAt EXCEPT ![t] = to]

-----------------------------------------------------------------------------
(* Loader and MonotonicLoader.                                             *)

\* Many threads for a collection: the first of them takes the documents that
\* are left over, and builds the indexes.
SharedPart(t) ==
  LET numThreads == load.threads \div load.collections
      first == t \div load.collections = 0
  IN [offset |-> t % load.collections, count |-> 1, indexes |-> first,
      documents |-> load.documents \div numThreads + (IF first THEN load.documents % numThreads ELSE 0)]

\* Many collections for a thread: the last one takes those that are left over.
OwnPart(t) ==
  LET count == load.collections \div load.phaseThreads
  IN [offset |-> count * t, indexes |-> TRUE, documents |-> load.documents,
      count |-> count + (IF t = load.phaseThreads - 1 THEN load.collections % load.phaseThreads ELSE 0)]

ValidLoad ==
  CASE load.actor = "Loader" /\ load.multiple -> load.phaseThreads = 0 /\ load.threads % load.collections = 0
    [] load.actor = "Loader" /\ ~load.multiple -> load.phaseThreads <= load.threads
    [] OTHER -> TRUE

\* The PhaseConfig; an invalid one ends the construction of the workload.
ConstructLoader(t) ==
  /\ load.actor \in {"Loader", "MonotonicLoader"}
  /\ Move(t, "construct", IF ValidLoad THEN "ready" ELSE "invalid")
  /\ part' = IF ValidLoad THEN [part EXCEPT ![t] = IF load.multiple THEN SharedPart(t) ELSE OwnPart(t)] ELSE part
  /\ UNCHANGED <<load, stored, indexed, current, remaining, singleVars, sampleVars>>

\* The actors run when all are constructed.
BeginLoad(t) ==
  /\ \A u \in Threads : loaderAt[u] # "construct" /\ loaderAt[u] # "invalid"
  /\ Move(t, "ready", "collection")
  /\ current' = [current EXCEPT ![t] = part[t].offset]
  /\ UNCHANGED <<load, part, stored, indexed, remaining, singleVars, sampleVars>>

NextCollection(t) ==
  /\ IF current[t] < part[t].offset + part[t].count
     THEN Move(t, "collection", "batch") /\ remaining' = [remaining EXCEPT ![t] = part[t].documents]
     ELSE Move(t, "collection", "done") /\ UNCHANGED remaining
  /\ UNCHANGED <<load, part, stored, indexed, current, singleVars, sampleVars>>

Least(i, j) == IF i < j THEN i ELSE j

BatchOf(n) == Least(load.batch, n)

\* insert_many of one batch.  A MonotonicLoader's ids begin at 1 in each
\* collection, so its documents clash with any that are there.
InsertBatch(t) ==
  /\ remaining[t] > 0
  /\ IF load.actor = "MonotonicLoader" /\ stored[current[t]] > part[t].documents - remaining[t]
     THEN Move(t, "batch", "dead") /\ UNCHANGED <<stored, remaining>>
     ELSE LET n == BatchOf(remaining[t])
          IN /\ Move(t, "batch", "batch")
             /\ stored' = [stored EXCEPT ![current[t]] = @ + n]
             /\ remaining' = [remaining EXCEPT ![t] = IF @ < n THEN 0 ELSE @ - n]
  /\ UNCHANGED <<load, part, indexed, current, singleVars, sampleVars>>

CollectionLoaded(t) ==
  /\ remaining[t] = 0
  /\ Move(t, "batch", "index")
  /\ UNCHANGED <<load, loadVars, singleVars, sampleVars>>

BuildIndexes(t) ==
  /\ Move(t, "index", "collection")
  /\ indexed' = IF part[t].indexes THEN [indexed EXCEPT ![current[t]] = @ + 1] ELSE indexed
  /\ current' = [current EXCEPT ![t] = @ + 1]
  /\ UNCHANGED <<load, part, stored, remaining, singleVars, sampleVars>>

-----------------------------------------------------------------------------
(* MonotonicSingleLoader.                                                  *)

ConstructSingle(t) ==
  /\ load.actor = "MonotonicSingleLoader" /\ Move(t, "construct", "take")
  /\ UNCHANGED <<load, loadVars, singleVars, sampleVars>>

\* fetch_add
TakeIds(t) ==
  /\ Move(t, "take", IF docIdCounter < load.documents THEN "insert" ELSE "done")
  /\ docIdCounter' = docIdCounter + load.batch
  /\ low' = [low EXCEPT ![t] = docIdCounter]
  /\ UNCHANGED <<load, loadVars, inserted, closed, sampleVars>>

highId(t) == Least(low[t] + load.batch, load.documents) - 1

\* An unordered insert that fails has inserted any of the documents; failure()
\* is called, and then success().
InsertIds(t) ==
  /\ Move(t, "insert", "take")
  /\ \/ /\ inserted' = [i \in Ids |-> IF i \in low[t]..highId(t) THEN inserted[i] + 1 ELSE inserted[i]]
        /\ closed' = [closed EXCEPT ![t] = IF @ = 2 THEN 2 ELSE 1]
     \/ /\ \E some \in SUBSET (low[t]..highId(t)) :
             inserted' = [i \in Ids |-> IF i \in some THEN inserted[i] + 1 ELSE inserted[i]]
        /\ closed' = [closed EXCEPT ![t] = 2]
  /\ UNCHANGED <<load, loadVars, docIdCounter, low, sampleVars>>

-----------------------------------------------------------------------------
(* SamplingLoader.                                                         *)

ConstructSampling(t) ==
  /\ load.actor = "SamplingLoader" /\ Move(t, "construct", "getSample")
  /\ UNCHANGED <<load, loadVars, singleVars, sampleVars>>

\* Fault: the sample is looked at before the mutex is taken, and not again.
getSample_Unlocked(t) ==
  /\ IF sample = 0 THEN Move(t, "getSample", "gather") /\ retries' = 0
     ELSE Move(t, "getSample", "sampled") /\ UNCHANGED retries
  /\ remaining' = [remaining EXCEPT ![t] = load.batches]
  /\ UNCHANGED <<load, stored, indexed, part, current, singleVars, sampleMutex, sample, gathered>>

getSample(t) ==
  /\ sampleMutex = NoThread
  /\ IF sample = 0
     THEN Move(t, "getSample", "gather") /\ sampleMutex' = t /\ retries' = 0
     ELSE Move(t, "getSample", "sampled") /\ UNCHANGED <<sampleMutex, retries>>
  /\ remaining' = [remaining EXCEPT ![t] = load.batches]
  /\ UNCHANGED <<load, stored, indexed, part, current, singleVars, sample, gathered>>

SampleFails(t) == Move(t, "gather", "dead") /\ sampleMutex' = NoThread /\ UNCHANGED <<sample, gathered, retries>>

\* One attempt.  The pipeline's suffix may leave out some of the documents that
\* $sample finds, and too few of them are an exception, as is any error but one.
\* That one may be retried, and after three of them the loop ends with nothing.
gatherSample(t) ==
  /\ \/ \E found \in {n \in 0..load.population : n <= load.sampleSize} :
          IF found = 0 \/ found < load.sampleSize THEN SampleFails(t)
          ELSE /\ Move(t, "gather", "sampled")
               /\ sample' = found /\ gathered' = gathered + 1
               /\ sampleMutex' = NoThread /\ UNCHANGED retries
     \/ /\ retries + 1 < maxRetries /\ Move(t, "gather", "gather")
        /\ retries' = retries + 1 /\ UNCHANGED <<sampleMutex, sample, gathered>>
     \/ retries + 1 = maxRetries /\ SampleFails(t)
  /\ UNCHANGED <<load, loadVars, singleVars>>

\* A batch of copies into the sampled collection.
InsertCopies(t) ==
  /\ IF remaining[t] = 0 THEN Move(t, "sampled", "done") /\ UNCHANGED <<stored, remaining>>
     ELSE \/ /\ Move(t, "sampled", "sampled")
             /\ stored' = [stored EXCEPT ![0] = @ + load.batch]
             /\ remaining' = [remaining EXCEPT ![t] = @ - 1]
          \/ Move(t, "sampled", "dead") /\ UNCHANGED <<stored, remaining>>
  /\ UNCHANGED <<load, indexed, part, current, singleVars, sampleVars>>

-----------------------------------------------------------------------------
\* An exception of a request of a Loader ends it.
LoaderFails(t) ==
  /\ \/ Move(t, "batch", "dead") /\ remaining[t] > 0
     \/ Move(t, "index", "dead") /\ part[t].indexes
  /\ UNCHANGED <<load, loadVars, singleVars, sampleVars>>

LoaderNext ==
  \E t \in LoaderThreads :
    \/ ConstructLoader(t) \/ BeginLoad(t) \/ NextCollection(t) \/ InsertBatch(t) \/ CollectionLoaded(t)
    \/ BuildIndexes(t) \/ ConstructSingle(t) \/ TakeIds(t) \/ InsertIds(t)
    \/ ConstructSampling(t) \/ getSample(t) \/ gatherSample(t) \/ InsertCopies(t) \/ LoaderFails(t)

LoaderSpec == LoaderInit /\ [][LoaderNext]_loaderVars

-----------------------------------------------------------------------------
(* Properties.                                                             *)

AllDone == \A t \in Threads : loaderAt[t] = "done"

\* When the threads of a load are done, each collection has all its documents
\* and its indexes once, however the collections and documents divide; no
\* other collection was touched.  A phase that uses fewer threads than the
\* actor has is left out: the others load further collections.
CollectionsLoaded ==
  AllDone /\ load.actor \in {"Loader", "MonotonicLoader"} /\ (load.multiple \/ load.phaseThreads = load.threads) =>
    \A c \in CollectionNumbers :
      /\ stored[c] = IF c < load.collections THEN load.documents ELSE 0
      /\ indexed[c] = IF c < load.collections THEN 1 ELSE 0

\* "a unique and montonically increasing _id": no id is inserted twice, and
\* all are when no batch failed.
IdsLoadedOnce ==
  /\ \A i \in Ids : inserted[i] <= 1
  /\ AllDone /\ load.actor = "MonotonicSingleLoader" /\ (\A t \in Threads : closed[t] <= 1) =>
       \A i \in 0..(load.documents - 1) : inserted[i] = 1

\* "Subsequent callers will block until that is finished and then receive a
\* copy of those results": the sample is gathered once and is not short, however
\* often it was tried, and when all threads are done all have inserted their
\* batches.
SampleGatheredOnce ==
  /\ gathered <= 1 /\ (sample # 0 => sample >= load.sampleSize)
  /\ AllDone /\ load.actor = "SamplingLoader" => stored[0] = load.threads * load.batches * load.batch

\* The threads of a load make what was asked for between them, nothing twice
\* and nothing left out, whichever loader it is.
LoadedExactly == CollectionsLoaded /\ IdsLoadedOnce /\ SampleGatheredOnce

\* "After calling failure() it is illegal to call any methods on this instance."
ClosedOnce == \A t \in LoaderThreads : closed[t] <= 1
=============================================================================
