# A TLA+ model of genny

Genny generates load for a database. A YAML file, the *workload*, names *actors*;
an actor is a C++ class of which one instance runs per configured thread, and all
threads go together through numbered *phases*. This directory holds TLA+ modules
of the parts of genny whose behaviour depends on the order in which threads do
things, TLC configurations that check them on small workloads, and TLAPS proofs
for workloads of any size.

Paths below are relative to the repository.

## 1. Inventory

### Components

| Component | State | Operations | Interacts with | What makes it correct |
|---|---|---|---|---|
| Orchestrator (`src/gennylib/src/Orchestrator.cpp`) | `_currentTokens`, `_requireTokens`, `_current`, `_max`, `state`, `_errors`, one condition variable, two lists of hooks | `awaitPhaseStart`, `awaitPhaseEnd`, `abort`, `continueRunning`, `morePhases`, two sleeps | every actor thread; hooks of rate limiter and external coordinator | a phase starts when everybody is there and ends when everybody has left; nobody is forgotten at the condition variable; an abort ends everything |
| PhaseLoop (`include/gennylib/PhaseLoop.hpp`) | per thread: phase, iteration, start of the phase | the operators `*`, `++`, `!=` of an outer and an inner iterator; sleeps; rate limit | Orchestrator, rate limiter | a blocking actor meets its `Repeat` and `Duration`; a background actor stops with the phase |
| DefaultDriver (`src/driver`), `parallel.hpp` | outcome code, threads, thrown exceptions | load, construct, dry run, spawn, run, catch, join | all of the above | success is reported only when the workload was carried out; the process ends |
| PhaseTimingRecorder | none | one loop over phases | Orchestrator, without a PhaseLoop | does not disturb the barrier |
| GlobalRateLimiter | three atomics, an atomic flag, two plain fields | `consumeIfWithinRate`, `isBreakin`, `notifyOfIteration`, `resetLastEmptied` | all threads that share it, hooks | no more tokens than the rate allows |
| Metrics streaming (`metrics/v2/event.hpp`) | two buffers, a position, a flag, a thread, a gRPC stream | `addAt`, `pop`, `sendOne`, `finish`, `wake` | actor threads, collector process | every event arrives once and in order; shutdown does not hang |
| Contexts (`context.cpp`, `context.hpp`), Cast | producers, ids, RNGs, phase contexts, rate limiters, registry of operations, hooks | construction of contexts one by one, of actors in parallel | everything, during set-up | all actors or none; ids, streams and users of limiters counted once; phases get the numbers that were configured |
| ExternalPhaseCoordinator (`context.cpp`) | a socket | write and wait for an answer at each phase change | an external process, under the Orchestrator's mutex | told of each phase, after the other hooks |
| PoolManager, PoolFactory, Encryption | pools by name and instance, key vaults, three locks | `createClient`, `createEncryptionContext` | set-up of actors, server | a pool is made once, with the keys of its collections |
| Metrics registry, operations, reporter | operations by actor and phase | `start`, `success`, `failure`, `discard`, report | actors, streams | each operation is reported once and as what it was |
| Node, conventions | tree of YAML nodes, marks of use | look-up with inheritance, conversions | everything | inherited values, complete report of unused settings |
| Topology, quiesce, dbcheck | description of the cluster; a lock and an outcome for all callers | discovery, walks of visitors, waits and retries | server, actors | one runs for all, nobody returns earlier, success covers the cluster |
| Value generators (`DocumentGenerator.cpp`) | counters, caches, datasets and frequency maps | parse, evaluate | actors | the n-th document is one the template means; what threads share is shared exactly |
| Actors (`src/cast_core`) | shared counters, samples, deques, state machines | one iteration each | server, metrics | division of work among threads, metrics that tell what happened |
| Python wrapper, task generator, preprocessor (`src/lamplib`) | files, child processes | run, select, expand | genny itself | scoping of parameters, selection of tasks |

`PROJECT.json` lists every component with its status and, for what is not modelled,
the reason; its `hazards` list says where the code is hard to test.

### What is hard here

* The barrier is one mutex, one condition variable and a count of tokens, used in
  four roles: blocking actors, actors that do not block the phase, threads that sleep
  to its end, and the recorder. An actor that does not block returns its token at once
  and finds out that the phase is over only after its current iteration.
* Any actor may throw at any point, before the last thread is even spawned. `abort()`
  then lets everybody past the barrier, and the tokens go on being counted.
* The rate limiter has no lock, several threads, a spurious failure in every
  compare-exchange and a reset that runs beside background threads.
* The metrics thread is notified without its lock, so notifications can be lost.
* Actors are constructed in parallel, and each of the threads may throw. Pools, key
  vaults, datasets, frequency maps, rate limiters and the registry are shared between them
  and each has a lock of its own, or none.
* A generator keeps state between documents and is evaluated inside other generators.
* Almost every request of an actor may fail. Some failures are swallowed, some recorded,
  some end the actor, and the metric of the operation has to follow.
* Several actors share state across threads: a sample, a counter of ids, the number of
  running scans, the outcome of a quiesce.

## 2. Modules

| Module | Models | State and actions |
|---|---|---|
| `Orchestrator` | the class | its fields are variables of the same names; `waiting` is the queue of the condition variable. Each method is an action or, where a thread can block in it, the part up to the wait and the part after it. The hooks are recorded in `hookLog` |
| `PhaseLoop` | a thread inside `PhaseLoop`, and `PhaseTimingRecorder::run` | `pc` is the place in the two nested loops; an action is an operator of an iterator with the Orchestrator call it makes |
| `DefaultDriver` | `doRunLogic`, `runActor`, `parallelRun` around those threads; construction of actors | `mainPc`, `outcome`, `result`; composes the two modules above. Properties are stated here |
| `PhaseBarrier` | abstract: a two-sided barrier | threads join, the phase opens, threads leave, the phase closes; an abort frees everybody |
| `GlobalRateLimiter` | the limiter and the loops that call it | one action per atomic access and per reading of the clock; the Orchestrator is present as "hooks run while blocking users wait" |
| `EventQueue` | abstract: a FIFO queue with a closing | record, send, close |
| `EventStream` | buffers, thread and destructor of one stream | `step` is the place of the thread in `run()`; `main` that of the destructor |
| `RollingCollections` | the Setup, Manage, Write and Read operations of that actor and the `AtomicDeque` they share | one action per call of the deque, of the server and of the name counter; the server is the set of its collections, an insert creates the one it names |
| `WorkloadContext` | contexts, Cast and producers, `parallelRun`, registry, rate limiters' users, hooks, the external coordinator | `stage` is the place of the constructor, `maker` the thread of each actor's context; one action per step another thread can see |
| `PoolManager` | `createClient`, `createEncryptionContext` and what they call | `poolPc` is the place of each thread; locks are the names of their holders; the server is the set of keys stored and the key each collection was made with |
| `ValueGenerators` | the generators and what each evaluation returns and keeps | a generator is a record of its function, arguments and parts; `Evaluate` gives the set of pairs of the generator afterwards and the value |
| `DocumentGenerator` | the parsers, and which of them a YAML node gets | functions from nodes to generators or an exception |
| `GeneratedDocuments` | a `DocumentGenerator` that is called again and again | `docGen`, `documents`; and `Meant`, what a template means, independently of the parsers |
| `SharedGenerators` | `DataSetCache` and `FrequencyMapSingletonGenerator` | `genPc` is the place of each thread between the mutex, the wait, the file and the notification |
| `CrudActor` | the actor: configuration, state machine, all operations, sessions, transactions, error handling | `crudPc`, `fsm`, `ops` still to run, `session`; the collection is its number of documents |
| `Loaders` | `Loader`, `MonotonicLoader`, `MonotonicSingleLoader`, `SamplingLoader` | `loaderAt` is the place of each thread; the server is the number of documents and indexes of each collection and the ids inserted |
| `CollectionScanner` | the actor, its four types of scan and its counter | `scan` is a record for each thread; `running` is the shared counter |
| `Topology` | discovery and the order of a visitor's hooks | functions from a cluster to a sequence of hooks |
| `Quiesce` | `quiesce()`, `dbcheck()` and the actors that call them | `where` is the place of each caller; the walk is taken hook by hook |
| `OperationActors` | fourteen actors whose iteration is one or a few operations, and the life of an `OperationContext` | `kind` says which actor a thread is, `at` its place, `metrics` its open and closed operations |
| `MCDefaultDriver`, `MCGlobalRateLimiter`, `MCCrudActor` | instances for TLC | phase maps, configurations, symmetry sets |
| `MCSetup` | what happens before the first phase: `PoolManager`, `GeneratedDocuments`, `SharedGenerators`, `WorkloadContext` | `focus` |
| `MCActors` | the actors beside one another: `RollingCollections`, `Loaders`, `CollectionScanner`, `Quiesce`, `OperationActors` | `focus` |
| `DefaultDriver_proofs` | theorems about `DefaultDriver` | the invariant of the tokens; wakeups, hooks, lock step and success; the barrier it implements |
| `GlobalRateLimiter_proofs`, `EventStream_proofs`, `CrudActor_proofs` | theorems about these modules | |
| `Setup_proofs` | theorems about `SharedGenerators`, `PoolManager`, `WorkloadContext` | |
| `Actors_proofs` | theorems about `OperationActors`, `RollingCollections`, `Loaders` | |
| `Cluster_proofs` | theorems about `CollectionScanner`, `Topology`, `Quiesce` | |
| `Numbers_proofs` | facts of arithmetic that the proofs share | products, quotients, the least number of a set |

Choices that matter:

* A step under `_mutex` is one action, since nobody else sees its parts. The wait of
  a condition variable is two: a notified thread still has to get the mutex, and any
  other step may come before it does. A spurious wakeup tests the condition and waits
  again, which is a stuttering step.
* `Duration` is a Boolean that an action `DurationElapses` sets at any time; the number
  of iterations is counted up to `IterCap`, which must be the largest `Repeat`.
* Exceptions leave the actor's body at any time, as a `boost::exception`, a
  `std::exception` or something else.
* The rate limiter's plain fields are written by one thread and read by others without
  synchronisation. Their two stores may be seen in either order.
* The order in which `isBreakin` reads the clock and `_lastEmptiedTimeNS` is
  unspecified in C++; the model has both.
* An exception that leaves the metrics thread ends the process: `terminated`.
* `MCSetup` and `MCActors` put parts side by side that share no variable. A behaviour moves
  the one part that `focus` names, chosen in the initial state; the others stay in one of their
  initial states. This checks each part in all its interleavings and none between parts
  that cannot affect each other.
* A random number is any number of its range: the models of generators, state machines and
  samples are nondeterministic where the code draws. Distributions are not modelled.
* Text is a sequence of opaque pieces, a YAML node is `<<"map", pairs>>`, `<<"seq", items>>`,
  `<<"scalar", type, value>>` or `<<"null">>`, which is what the parsers tell apart.
* The database server is as small as the properties allow: documents are counted, keys,
  collections and health logs are sets, and a request may always fail.
* `fetch_add`, `++` of an atomic and a section under one mutex are one step; a read and a
  later write are two.
* Lookups without the lock that writers hold (`encryption.cpp:836`, `getDatasetForPath`) are
  marked when they meet a writer, and what they return is then anything.

Definitions whose names end in a suffix after an underscore (`BurstCas_Store`) are
faults: what the code would be with a plausible mistake. Nothing uses them except
the checks that each property notices such a mistake.

## 3. Runs

| Run | Question | Bounds |
|---|---|---|
| `two_actors` | Is the bookkeeping of Orchestrator, loop and driver right, and does success mean success? | 2 threads, all combinations of five kinds of phase in two phases, and of ragged phase maps with gaps (`{}`, `{0}`, `{1}`, `{0,1}`, `{0,2}`); one iteration |
| `recorder` | Do three threads, one of them a PhaseTimingRecorder, implement the barrier, and does every run end? | 3 threads, 2 phases; one actor in the foreground or the background of each phase, one timed or in the background, with a phase less or not |
| `rate` | Is the rate kept, whatever the races? | 2 threads, 2 tokens per 2 ticks, 4 ticks, 2 phases |
| `percentile` | Is a percentile limiter reconfigured by one thread, once in a phase, to a period it has measured, and in the first phase after that time has really passed? | 2 threads, a minute of one tick, 3 ticks, 2 phases, up to 9 tokens and 8 iterations |
| `event_stream` | Is a stream a FIFO queue, and does its destructor return? | 2 producers, 6 events, buffers of 3 |
| `setup` | Are pools, documents, shared generators and the actors themselves made as configured, by threads that may fail, and does every call return? | 2 threads and 4 clients (two with one key vault, one with its own, one not encrypted), 2 calls each; some 250 templates, 3 documents each; 3 threads on 2 files, one of which cannot be read, and a map of 3 strings; 12 workloads of up to 3 actors and 3 phases, 2 casts; phase numbers wrap at 4 |
| `crud` | Is each operation of a CrudActor reported once unless an exception of another kind ends the actor, does a state machine stay where its graph leads, and is a `withTransaction` done whole or not at all? | 7 workloads that between them use every operation, 13 that are refused; 3 iterations in a phase, 1 retry of a transaction, 3 documents |
| `actors` | Do actors that share state divide their work, keep it and report it truly? | rolling: one thread each, window of 2, 4 names, 2 ms; 12 loads with 2 or 3 threads, 3 of them refused; 10 schedules of 2 scanners over 3 collections in 2 databases and 4 generated ones, documents of 1 to 3 bytes, batches of 2, 3 ticks, 2 swallowed errors; 3 callers with 2 calls each on 3 clusters, 1 recheck; 14 pairs of actors, 2 iterations each |
| `unique_names` | Violated: do several Setup threads take different names? | 2 Setup threads |
| `continue_state` | Violated: does a phase with `Continue` start where the phase before it stopped? | the state machine of `crud` |
| `dataset_wait` | Violated: does a thread that waits for a dataset go on? | the threads and files of `setup` |
| `breakin_minute` | Violated: does the break-in of a percentile limiter last a minute? | 1 thread, otherwise as `percentile` |

Why the bounds are enough. Two threads already give every pair of places; a third is
needed only where a thread that is neither first nor last matters, which is `recorder`.
Two phases let a straggler of one meet the next. Two tokens per burst are the smallest
number for which the burst bucket is used at all. Four ticks are two periods. A
percentile limiter with two users needs six iterations before it is reconfigured, so
eight iterations include some after it. Six events fill a buffer of three, swap it and
overflow the other. With four names a window of two is replaced completely while a writer
stands still, and two milliseconds let names differ in their time, their number or both.
In `setup`, two threads and four clients give every pair of calls: the same pool, one vault, different
vaults, none; the templates put each generator on each kind of leaf and two generators
inside one another, and three documents are one more than the length of a cycle. In
`actors`, the loads are those whose division leaves a rest, leaves none, and has more threads than
collections; the limits of the scans fall on the last byte of a document and within one, in the first collection and in a later one; three callers of `quiesce()` are one that runs, one that waits and one that
comes in between, which alone shows the stale outcome below; a recheck is enough to exhaust the
retries. Callers are alike (`AlikeCallers`), so their permutations are one state.

What is checked, beyond the types. `PoolsUsable`: a pool is made once; from then on, whatever other calls do and
whichever of them fail, it has the keys of its collections, each is in its key vault, and its collection was made for it. Two cases
are told apart and not left out: a pool whose options were read while another thread changed the map of vaults (`raced`) may miss keys, but
those it has are good; and a collection may be missing if the request that makes it has failed (`orphans`), which always comes with a call
that has thrown. `GeneratedAsMeant`: the n-th document is one that
the template means, keys are not repeated, no parser is ambiguous, strings of a frequency map come as often
as it says. `SharedExactly`: the same over threads, and nobody has part of a dataset.
`AllOrNothing`, `RegisteredOnce`, `EveryPhaseRuns`: the construction of a workload. `ReportedOnce`, `OnlyReachableStates`,
`WholeTransactions`: the CrudActor. `WindowHolds`: a name that is offered has its
collection, and the window keeps its size. `LoadedExactly`: nothing twice, nothing left out, no short sample. `CountsTheRunning`,
`ScanComplete`, `WholeUnlessCaught`: the scanners; the last one says that a scan which told its metrics of no exception and met no limit has
counted every document of its collections. `SuccessCoversCluster` and `RunAwaited`: quiesce and dbcheck.
`MetricsAreTrue` and `TransactionsIsolated`: the actors of one operation. Each is the conjunction of
named parts that the modules state one by one.

The runs of the limiter, of the stream, of the set-up and of the actors do not check for
deadlock: their clocks, tokens, events, calls and iterations are bounded, and at the bound nothing is
left to do. The runs of the driver and of the CrudActor check it; a returned driver and an actor that is done stutter.

**Fairness.** `FairSpec` of `DefaultDriver` asks weak fairness of each thread's steps
and of main: the operating system runs every thread, timed waits end, a `Duration` passes
and an actor's iteration returns. Nothing is asked of exceptions or spurious wakeups. `FairSpec` of
`EventStream` asks it of the metrics thread, whose wait is a timed one in the code, and
of the destructor once it has begun. `SetupSpec` asks it of each thread that makes a pool: a mutex that is
let go is got by somebody, and with two threads that is the other one; a request ends or
throws. `DatasetSpec` asks it of each thread that generates, and of the one that has failed nothing.

### What the violated runs show

* `unique_names`: the counter behind the names is read in one access and incremented in
  another. Two Setup threads in the same millisecond get the same name, and the second
  creation throws. With a single Setup thread (`actors`) this cannot happen.
* `continue_state`: each phase has a state machine of its own, so `Continue: true` continues
  from the first state of that machine and not from the state of the phase before, as
  `workloads/docs/CrudFSMTrivial.yml:25` says.
* `dataset_wait`: the thread that loads a dataset throws when the file cannot be opened and
  never sets `done`. Others that have found the path wait for ever, and so does `parallelRun`, which joins
  them before it reports the exception.
* `breakin_minute`: `resetLastEmptied` puts `_lastEmptiedTimeNS` one period back, and from the second phase on the period is
  the minute or more that the phase before has measured. `isBreakin` takes the phase to be that old when it begins, and the break-in lasts three
  iterations, where `GlobalRateLimiter.hpp:224` has "3 iterations or 1 minute, whichever is longer". In the first phase it is so (`LimitIsMeasured`).

### What else the code does not promise

These are statements in the modules that do not hold, without a run of their own:

* `StopHookOnlyForStartedPhase` (`DefaultDriver`): an abort can wake a thread that waits for
  a phase to begin; it goes on to `awaitPhaseEnd`, and the stop hooks run for a phase that never started.
* `HonorsPhaseDuration` (`CollectionScanner`): `CollectionScanner.cpp:115-118` assigns through an optional that is empty, so `stopPhase` is
  never engaged (the assignment itself is undefined) and the test at `:474-476` is never true. A snapshot is held for its whole `ScanDuration`, also beyond
  the phase's `Duration`, where the comment at `:470` has "honor the phase's duration if specified". The schedules of `actors` have such a phase.
* `UpToScanSizeBytes` (`CollectionScanner`): a document's length is added and then tested with `>=`, so a scan passes `ScanSizeBytes` by up to
  a document, where `workloads/docs/CollectionScanner.yml:61` has "up to this many bytes". `ScanComplete` has what does hold: a scan reads no document after the one that meets its limit.
* `OneBurstAtPhaseStart` (`GlobalRateLimiter`): the reset leaves `_burstCount` alone, so the rest of an
  unfinished burst is given in addition to the phase's own.
* `OnlyTheWindowExists` (`RollingCollections`): a writer takes the newest name, the manager replaces the
  window, and the insert creates the dropped collection again. Nobody drops it any more.
* `NoVaultRace` (`PoolManager`): `encryption.cpp:836` and `:864` search the map of key vaults without its lock,
  though `createClient` "could be called from multiple threads simultaneously".
* `NoLookUpRace` (`SharedGenerators`): `getDatasetForPath` looks up without the mutex while another
  thread may insert; constructors evaluate too, so loading and evaluating are not separate stages.
* `ClosedOnce` (`Loaders`): `MonotonicSingleLoader` calls `failure()` and then `success()` on one operation.

And what the models show without a statement:

* A caller of `quiesce()` or `dbcheck()` whose `try_lock` fails only because one who has waited holds the lock
  for a moment returns the outcome of a run that ended before it called.
* The dropped-collections visitor keeps the answer of the last set only, and after the last retry it
  answers false even if the last check found nothing. A dbCheck that a run has left behind when it threw may
  end the wait of the next one.
* A CollectionScanner that dies of an exception stays counted as running; its index is shared by all actors of the
  type; with more threads than collections its constructor throws; a scan at a point in time tests its
  limit with `==` after whole batches and may pass by it.
* A Loader phase with fewer `Threads` than the actor has loads collections beyond `CollectionCount`. The
  test for the last retry of a sample is never true, so the retries end in "unable to find any documents".
* The Orchestrator is told how many phases an actor has and not the highest of them: with gaps the last phases are not
  reached, and an empty list wraps the maximum around. Phases that are Nop are users of a rate limiter.
* Only an `operation_exception` is counted as a failure of a CrudActor's operation. What else an operation throws, before its context is started or
  inside it (`threw` in the model), ends the actor, and the context that was open is lost.
* A `withTransaction` on a session whose transaction is active fails; an operation of it with `OnSession: false` is not part of the transaction, and
  what it has done stays when the others are undone.
* HelloWorld reports a number that it reads after its success, so it may be that of another thread's greeting; the operation has no outcome (`kUnknown`).
* An exception inside `withTransaction` is a `MongoException`, which the driver does not retry.
  Unknown names of initial states are state 0.
* `^Cycle` of length 0, more weights than choices and a count of 0 in a frequency map are
  accepted; `^ObjectId` reads its node and not `hex`; `^RandomDate` evaluates its bounds anew each time.

`SuccessMeansComplete` holds for gapped phase numbers although `phasesAtLeastTo` gets a
count: an actor whose map lacks a phase throws in that phase, and the run fails.

## 4. Proofs

Every theorem is about the specification of its component and holds for every number of threads and
every value of the constants within the named assumptions; the exceptions are listed below. No property is
inductive as it stands, so each proof names the invariant that is.

**Assumptions.** Of the constants, all in the modules that declare them and evaluated by TLC in the runs: threads are
finite sets, bounds are natural numbers, rate, period and buffer size are positive, a percentile is 1 to 100. Beyond these:

| Assumption | Says | Because |
|---|---|---|
| `PlansAssumption` | phase maps are finite and `IterCap` is no less than any `Repeat`; a recorder has none | otherwise the cap on the counter would end a phase |
| `PhasesAssumption` | an actor has no more phases than there are phase numbers, and none without a `Phases` node | a map is indexed by phase number |
| `RolesAssumption` | a thread of RollingCollections has one `Operation` | each thread is configured with one |
| `LoadsAssumption` | only a Loader has `MultipleThreadsPerCollection`, and then a collection; the others have a thread in the phase; numbers of collections and ids are within `MaxCollection` and `MaxDocumentId` | the constructor would divide by zero, as it would with `Threads: 0` in a phase; the bounds only keep the state finite |
| `ScannerAssumption` | the threads of a CollectionScanner are numbered from 0, there is one at least, and the numbers of a phase are natural | `_index` counts the actors of the type; the YAML values are unsigned |
| `CollectionsAssumption` | a database lists a collection once and a collection has a natural number of documents, all of one natural length | names are unique in a database |
| `ClustersAssumption` | an answer to `isMaster` has a host at least, and a mongod on its own names itself only | it answers with its own address |
| `NamesAssumption` | the config set has one of the names `configSet`, `configRepl`, `configSvrRS`; shards and a set that is asked directly have others; there is a shard | `topology.cpp:149` tells a config server by these names alone. A config server with another name is not visited, and a success covers less |
| `WorkloadsAssumption` (CrudActor) | the shape of the YAML, not that it is accepted | the constructor's checks are part of the model |

Hypotheses of single theorems, each met by the instance that TLC checks:

* `PoolsAreUsable` assumes `SeparateVaults`: clients of one server reach a key vault through one URI, and an
  encrypted collection has one vault. It is false otherwise: a vault is known by its URI, so a second URI for
  the same server drops the keys that the first has stored.
* `ReconfiguredByOne` and `LimitsAreMeasured` assume `Background = {}`: the hooks set `_fullSpeed` again while a
  background thread may be in the middle of a reconfiguration. `RateBound` has its own antecedent, no percentile and no
  background users.

**The driver** (`DefaultDriver_proofs`). `TypeCorrect`, `TokensConserved`, `PhasesExclude` and
`AssertsNeverFail` follow from one inductive invariant, `IInv`: that `_currentTokens` is right depends on which threads hold a token,
which is a function of their places (`Holds`), and this in turn depends on the phase each thread thinks it is in. The invariant
says, for every place, whether the thread holds a token and how its phase relates to `_current` and `state`; the number of holders
is a cardinality, so each action's proof says which thread joins or leaves that set. On top of it:
`NoWakeupLost`, whoever waits has its predicate true or has been notified; `HooksAreInOrder`; `PhasesAreInLockStep`, from
`LockInv`, which adds that what the Orchestrator went past without an abort was completed (`NothingSkipped`); and `SuccessIsComplete`, from `SuccessInv`:
the outcome tells of an exception before its thread ends (`OutcomeTold`), an actor that ran a phase to its end has that phase (`PhasesKnown`), the
Orchestrator was told of as many phases as each actor has (`PhasesCounted`), and an abort comes after a failure or when everything is complete (`AbortReason`).

**The barrier** (`DefaultDriver_proofs`, its last part). `Refinement`: initial states map to initial states and each step to a step or a stutter of
`PhaseBarrier`, using the same invariant.

**The limiter** (`GlobalRateLimiter_proofs`). `CreditIsNeverFuture`, from `CreditInv`: no time that was read is ahead of the clock, what a
thread is about to exchange in is no later than the time it read, and the period is not negative, also while it is being measured.
`LimiterTypes` needs it, since `_rateNS` is a difference of times. `ReconfiguredByOne` and `LimitsAreMeasured`, from `ReconfigInv`: the flag is
down from the exchange that takes it to the end of the phase (`ConfiguredOnce`), one thread reconfigures (`MeasuresAlone`), and the period it stores was found to be a minute or more
(`MinuteMeasured`). That in the first phase this time has passed in it is `FirstInv`: the period is 0 until the first reset (`BeforeFirst`), so each reset of that
phase stores a time of the phase (`FirstResets`), and so is every time that a thread reads or holds while the phase goes on (`FirstPhase`). From the second phase on it is
false, as `breakin_minute` shows. `RateIsKept`, from `RateInv`: after some number k of refills since the reset, `_lastEmptiedTimeNS`
is k periods on, and what was given with what is left of the burst is no more than what the phase before had left and k bursts.

**The stream** (`EventStream_proofs`). `NoEventLost` and `Refinement`, from `StreamInv`: the order of recorded events is that of sent, in
hand, draining and loading, and past the loop of `run()` the flag was set, so that the last drain swaps whatever is loaded and no
producer is left to add more.

**The set-up** (`Setup_proofs`).
* `SharedIsExact`, from `GenInv`: the mutex is with whoever searches or inserts, a file that is in the map and not done has one reader at
  most, what is left of a frequency map and what was given from it is what it had. Reading happens without the lock, which is why the
  second part is needed.
* `PoolsAreMadeOnce`: whoever is past the lock of a name holds it (`NameHeld`). `PoolsAreUsable`, from `KeysInv` besides, which holds
  through failing calls and races: who records a key or makes a collection holds the lock of the vaults (`VaultsHeld`); a key that is recorded is in its vault, and its collection was made for it, is about to be,
  or is an orphan (`KeysStored`); who made a pool left the keys of its collections recorded and their collections no longer about to be made, and what the pool has of them is what was recorded
  (`PoolsHaveKeys`); and an orphan comes with a failed call (`OrphansFailed`).
* `EveryPhaseIsRun`, `AllActorsOrNone`, `AllIsRegisteredOnce`: contexts are constructed one by one, each with the ids after those of the one before and with its
  phases told to the Orchestrator (`ContextsOK`, `PhasesTold`); their actors in parallel, each thread with ids of its own context (`MakersOK`); and what
  is still to be registered and what has been add up to the phases that name it (`RegisterInv`: streams, hooks, users).

**The actors** (`Actors_proofs`).
* `TransfersAreIsolated`, from `TransferInv`: the snapshot of each open transaction and the committed balances have the initial sum, and a thread's place says what its
  transaction has changed, which cancels out once both accounts are written.
* `ReportsAreTrue`, from `ReportInv`: the place of a worker says which of its contexts are open and what it has still to report (`Pending`), and what is in the
  collection ahead of the reports is the number of workers with an insertion to report, less those with a deletion: a step moves one worker in
  or out of one of these sets. And from `HelloInv`: the counter is the number of `Greetings`, pairs of a thread and a number, which count
  a greeting from the step that makes it, though it is reported two steps later.
  For any number of workers, of any kinds.
* `WindowAlwaysHolds`, from `WindowInv`: no name is offered before its collection exists nor twice, a thread's place says whether the window is one
  short, and the manager works only when the Setup threads are done. Failing requests end their thread where it is.
* `AllIsLoadedOnce`, from `LoaderInv`: an id below the counter was taken by one thread, and is inserted, in hand or lost with a failed batch; who gathers the
  sample holds its mutex and found none, and a sample that is handed out is as large as it should be (`GatherInv`); and the documents and indexes of a collection are the *sum* of what each thread has given it so far. The sum is a function of partial sums that a step
  of one thread moves. How the work was divided enters only when everybody is done: the parts of a collection's threads make up its
  documents, rest included.

**The scanners, quiesce and dbcheck** (`Cluster_proofs`).
* `RunsAreAwaited`, from `QuiesceInv`: the lock is with who runs, and who waits and has seen no run end waits for one that is under way.
* `RunningIsCounted` and `SelectedTimeIsRead`, a part of `ScansAreComplete`: a cardinality, as the tokens of the Orchestrator, and `ReadInv`, which follows a scan from the phase
  that selects a time to the phases that read at it.
* `ScansAreComplete`, from `ScanInv`: while a thread scans, what is left of its list is the rest from some place on, and what it has tried are increasing
  places before it (`Follows`); each place left out is of a database in `skipped`, one of whose earlier places was tried (`Missed`); and below its limit a scan that goes on has
  room for one more (`LimitOK`). The places are a function that only the proof knows; a step extends it by one place, a failed find moves the rest past
  the database. That the generated names are shared out is an argument about quotient and remainder: a number is in the share of one thread and
  at one place of it (`OnePlace`).
* `SuccessesCoverTheCluster`, in two halves. First, of the walk alone, for every cluster: it comes by every set and every mongod, and the last hook that asks for dropped collections
  is that of the last shard (`CoversServer`; `Ends` follows the last asking hook through the joins of `AcceptSharded`). Then `RunGoes`, over the stages of a run: the hooks of the
  walk that a visitor no longer has before it have been acted on, and while no run has thrown a check is going only while its run waits, on members whose log
  has no stop, so that none is going when all have stopped.

**The CrudActor** (`CrudActor_proofs`). `CrudTypes`, `OperationsAreReportedOnce`, `StatesAreReachable` and `TransactionsAreWhole`, from `CrudInv`: what the constructor
accepts keeps each state machine on its states (`MachineInv`), only the first iteration of a phase may be one without operations (`SkipInv`), what is
still to be run was accepted (`QueueInv`), the collection and a transaction's snapshot are numbers within the bound (`DataInv`), and every operation that was started is accounted for, as a success, a failure
or lost with the actor (`AccountInv`). `ReachInv`: the machine of a phase is where its graph leads, and one whose phase has not come is in its first state, which is where
`Continue` starts. Reachability is the least set that the transitions do not leave, so a step is in every such set that the state before it was in. `WholeInv`: a `withTransaction` has run its first k operations, and if all are on its session its
transaction sees what these k leave (`RanFirst`), which at the end is all of them. What an operation, and a list of them, leaves of the collection are recursive functions.

Induction over numbers is done with `LeastNumber`: if a claim fails, it fails first somewhere. This reaches recursive functions
(`AfterSteps`, `AfterOperations`, partial sums, `FlattenSeq`), and not recursive operators.

**Only model-checked.**
* `Termination`, `JoinReturns` and `CallsReturn`: liveness under fairness is out of the prover's reach.
* `GeneratedAsMeant`: the generators are recursive operators over templates nested to any depth, which is out of its reach too.
* `WholeUnlessCaught`: the documents of a scan as a sum over its collections.
* `SetupTypeOK` and `FamiliesTypeOK`: conjunctions that `MCSetup` and `MCActors` form of the parts' types. Those the proofs
  need are in the invariants above.

## 5. Not modelled

See the components with that status in `PROJECT.json`. In short: the database server beyond
what the properties need; conversions from YAML; text output; child processes; cryptography. Of the
modelled parts: distributions of random numbers, `^IP` and `^BinData`, options that are only passed on to the driver,
the contents of events, gRPC channels and collectors, schemas of encrypted fields, the OplogTailer, LoggingActor,
OnlyRunInInstance (a constant of the operation), and the command line. A limiter with
background users is in the model and in the proofs of `NoFutureCredit` and of its types, and not in a run. A phase of a CollectionScanner
has one iteration. What the constructor of a generator throws comes with the first document in the model; `GeneratedAsMeant` says nothing of a document that throws,
and nothing is generated after it. An event whose write fails after the stream has accepted it is lost; `Conservation` counts it as sent.

The interleaving of parts that `MCSetup` and `MCActors` put side by side is not checked, since they share
no state. The Orchestrator's hooks run in `WorkloadContext` in the order in which they were added; that they run
under its mutex is in `Orchestrator`.

## 6. Plan

Done: the models of the core, the rate limiter, the metrics stream, the set-up (contexts, pools, encryption, generators) and the
actors, and the theorems of section 4. Every invariant of the runs that the prover can reach is proved; section 4 lists the others.

What a later extension could add: the Node's inheritance and marks of use, the reporter, and the statements of
"What else the code does not promise" once the code keeps them.

`ValueGenerators`, `DocumentGenerator`, `GeneratedDocuments` and `MCSetup` declare recursive operators and hold no
theorem; the modules with theorems do not depend on them.
