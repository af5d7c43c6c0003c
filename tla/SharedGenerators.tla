--------------------------- MODULE SharedGenerators ---------------------------
(***************************************************************************)
(* The state that value generators of different threads share: DataSetCache,*)
(* which loads each file once, while the actors are constructed; and the   *)
(* frequency maps of FrequencyMapSingletonGenerator, by their id.          *)
(*                                                                         *)
(* A file has lines, or none, or cannot be opened.                         *)
(***************************************************************************)
EXTENDS Naturals, FiniteSets

CONSTANTS
  GenThreads,
  Paths,
  Lines,              \* Lines[p]: the lines of a file
  Missing,            \* paths that cannot be opened
  MapStrings,            \* what the frequency map gives
  MapCounts              \* MapCounts[s]: how often

Free == "free"

ASSUME SharedAssumption ==
  /\ Lines \in [Paths -> Nat] /\ MapCounts \in [MapStrings -> Nat]
  /\ Free \notin GenThreads

VARIABLES
  genPc,
  path,               \* of the dataset a thread wants
  datasetMutex,
  inserting,          \* the thread that is inserting into _all_datasets
  known,              \* the paths it has
  done, data,         \* of each Dataset: the flag, the lines read so far
  got,                \* how many lines the dataset a thread was given had
  mapMutex,
  singleton,          \* _generators[id]: counts that are left, <<>> if not made
  draw,               \* what the thread that holds mapMutex drew
  taken               \* history: how often each string was given, to any thread

cacheVars == <<path, datasetMutex, inserting, known, done, data, got>>
mapVars == <<mapMutex, singleton, draw, taken>>
genVars == <<genPc, cacheVars, mapVars>>

GenTypeOK ==
  /\ genPc \in [GenThreads -> {"start", "locked", "insert", "read", "finish", "waiting", "lookup",
                               "construct", "make", "ready", "draw", "failed", "undefined"}]
  /\ path \in [GenThreads -> Paths] /\ got \in [GenThreads -> Nat]
  /\ {datasetMutex, inserting, mapMutex} \subseteq GenThreads \cup {Free}
  /\ known \subseteq Paths /\ done \subseteq known
  /\ \A p \in Paths : data[p] <= Lines[p]
  /\ singleton = <<>> \/ singleton \in [MapStrings -> Nat]
  /\ draw \in MapStrings

GenInit ==
  /\ genPc = [t \in GenThreads |-> "start"]
  /\ path \in [GenThreads -> Paths]
  /\ datasetMutex = Free /\ inserting = Free
  /\ known = {} /\ done = {} /\ data = [p \in Paths |-> 0]
  /\ got = [t \in GenThreads |-> 0]
  /\ mapMutex = Free /\ singleton = <<>> /\ draw \in MapStrings
  /\ taken = [s \in MapStrings |-> 0]

GenStep(t, from, to) == genPc[t] = from /\ genPc' = [genPc EXCEPT ![t] = to]

-----------------------------------------------------------------------------
(* DataSetCache::loadDataset.                                              *)

LockDatasets(t) ==
  /\ datasetMutex = Free
  /\ GenStep(t, "start", "locked")
  /\ datasetMutex' = t
  /\ UNCHANGED <<path, inserting, known, done, data, got, mapVars>>

\* The wait releases the mutex.
FindPath(t) ==
  /\ \/ path[t] \in known /\ GenStep(t, "locked", "waiting") /\ datasetMutex' = Free /\ UNCHANGED inserting
     \/ path[t] \notin known /\ GenStep(t, "locked", "insert") /\ inserting' = t /\ UNCHANGED datasetMutex
  /\ UNCHANGED <<path, known, done, data, got, mapVars>>

Insert(t) ==
  /\ GenStep(t, "insert", "read")
  /\ known' = known \cup {path[t]}
  /\ inserting' = Free /\ datasetMutex' = Free
  /\ UNCHANGED <<path, done, data, got, mapVars>>

\* A waiter that sees the flag returns; the predicate is tested with the mutex.
WaitDone(t) ==
  /\ datasetMutex = Free /\ path[t] \in done
  /\ GenStep(t, "waiting", "lookup")
  /\ UNCHANGED <<cacheVars, mapVars>>

\* Fault: one line too many.
ReadFile_OneMore(t) ==
  /\ IF path[t] \in Missing THEN GenStep(t, "read", "failed") /\ UNCHANGED data
     ELSE IF data[path[t]] <= Lines[path[t]]
     THEN GenStep(t, "read", "read") /\ data' = [data EXCEPT ![path[t]] = @ + 1]
     ELSE GenStep(t, "read", "finish") /\ UNCHANGED data
  /\ UNCHANGED <<path, datasetMutex, inserting, known, done, got, mapVars>>

\* readFile, line by line, without the mutex.  The exception of a file that
\* cannot be opened leaves the path in the map, and nobody notified.
ReadFile(t) ==
  /\ IF path[t] \in Missing THEN GenStep(t, "read", "failed") /\ UNCHANGED data
     ELSE IF data[path[t]] < Lines[path[t]]
     THEN GenStep(t, "read", "read") /\ data' = [data EXCEPT ![path[t]] = @ + 1]
     ELSE GenStep(t, "read", "finish") /\ UNCHANGED data
  /\ UNCHANGED <<path, datasetMutex, inserting, known, done, got, mapVars>>

SetDone(t) ==
  /\ datasetMutex = Free
  /\ GenStep(t, "finish", "lookup")
  /\ done' = done \cup {path[t]}
  /\ UNCHANGED <<path, datasetMutex, inserting, known, data, got, mapVars>>

\* getDatasetForPath, like loadDataset's last line, looks the path up without
\* the mutex: what it finds while another thread inserts is undefined.  An
\* empty dataset is refused; a sequential generator keeps its line within it.
LookUp(t) ==
  /\ \/ GenStep(t, "lookup", IF data[path[t]] = 0 THEN "failed" ELSE "construct")
     \/ inserting \notin {Free, t} /\ GenStep(t, "lookup", "undefined")
  /\ got' = [got EXCEPT ![t] = data[path[t]]]
  /\ UNCHANGED <<path, datasetMutex, inserting, known, done, data, mapVars>>

-----------------------------------------------------------------------------
(* FrequencyMapSingletonGenerator: its constructor, and evaluate().        *)

ConstructSingleton(t) ==
  /\ mapMutex = Free
  /\ GenStep(t, "construct", "ready")
  /\ singleton' = IF singleton = <<>> THEN MapCounts ELSE singleton
  /\ UNCHANGED <<cacheVars, mapMutex, draw, taken>>

Left == {s \in MapStrings : singleton[s] > 0}

\* Fault: the lock is left out of evaluate().
DrawIndex_Unlocked(t) ==
  /\ GenStep(t, "ready", IF Left = {} THEN "failed" ELSE "draw")
  /\ IF Left = {} THEN UNCHANGED <<mapMutex, draw>>
     ELSE \E s \in Left : draw' = s /\ UNCHANGED mapMutex
  /\ UNCHANGED <<cacheVars, singleton, taken>>

\* With nothing left the index is out of bounds, and take() throws.
DrawIndex(t) ==
  /\ mapMutex = Free
  /\ GenStep(t, "ready", IF Left = {} THEN "failed" ELSE "draw")
  /\ IF Left = {} THEN UNCHANGED <<mapMutex, draw>>
     ELSE \E s \in Left : draw' = s /\ mapMutex' = t
  /\ UNCHANGED <<cacheVars, singleton, taken>>

\* The count is unsigned.
Take(t) ==
  /\ GenStep(t, "draw", "ready")
  /\ singleton' = [singleton EXCEPT ![draw] = IF @ = 0 THEN 255 ELSE @ - 1]
  /\ taken' = [taken EXCEPT ![draw] = @ + 1]
  /\ mapMutex' = Free
  /\ UNCHANGED <<cacheVars, draw>>

Generate(t) ==
  \/ LockDatasets(t) \/ FindPath(t) \/ Insert(t) \/ WaitDone(t) \/ ReadFile(t) \/ SetDone(t) \/ LookUp(t)
  \/ ConstructSingleton(t) \/ DrawIndex(t) \/ Take(t)

GenNext == \E t \in GenThreads : Generate(t)

GenSpec == GenInit /\ [][GenNext]_genVars

-----------------------------------------------------------------------------
(* Properties.                                                             *)

\* Whoever got a dataset got the whole file, though it was read by another
\* thread and without a lock.
WholeDataset ==
  \A t \in GenThreads : genPc[t] \in {"construct", "ready", "draw"} => got[t] = Lines[path[t]]

\* "ensure the distribution across threads matches exactly": each string is
\* given as often as the map says, over all the threads that share it.
StringsExactly ==
  singleton # <<>> => \A s \in MapStrings : taken[s] + singleton[s] = MapCounts[s]

\* Threads that generate at once have the whole of the datasets they share,
\* and of the strings they share no more than there are.
SharedExactly == WholeDataset /\ StringsExactly

\* "it should wait until loading is finished": a thread that waits for a
\* dataset does not wait for ever.  It does when the loading thread fails.
WaitEnds == \A t \in GenThreads : genPc[t] = "waiting" ~> genPc[t] # "waiting"

\* "getDataSetForPath method doesn't need the lock because loading and
\* evaluating are separate stages": nobody looks up while another inserts.
NoLookUpRace == \A t \in GenThreads : genPc[t] # "undefined"
=============================================================================
