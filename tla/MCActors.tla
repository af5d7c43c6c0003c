------------------------------- MODULE MCActors -------------------------------
(***************************************************************************)
(* The actors of cast_core that run beside one another, each family on its *)
(* own: rolling collections, the loaders, the scanners, quiesce and        *)
(* dbcheck, and the actors of one operation.  A behaviour is one of one    *)
(* family (the focus), with the others at rest.                            *)
(***************************************************************************)
EXTENDS RollingCollections, Loaders, CollectionScanner, Quiesce, OperationActors, TLC

CONSTANTS s, m, w, r, w1, w2

VARIABLE focus

-----------------------------------------------------------------------------
(* Loads: collections shared out between threads, one collection shared by *)
(* several, ids taken from one counter, copies of a sample; and more or    *)
(* fewer threads in the phase than in the actor.  Three are refused: too   *)
(* many threads in the phase, threads in a phase where several share a     *)
(* collection, and collections that do not divide the threads.             *)

LoadOf(actor, threads, phaseThreads, multiple, collections, documents) ==
    [actor |-> actor, threads |-> threads, phaseThreads |-> phaseThreads, multiple |-> multiple,
     collections |-> collections, documents |-> documents, batch |-> 2,
     sampleSize |-> 0, population |-> 0, batches |-> 0]

Sampling(threads, size, population) ==
    [LoadOf("SamplingLoader", threads, threads, FALSE, 1, 0)
        EXCEPT !.sampleSize = size, !.population = population, !.batches = 2]

MCLoads ==
    { LoadOf("Loader", 2, 2, FALSE, 3, 3), LoadOf("Loader", 3, 3, FALSE, 3, 2),
      LoadOf("Loader", 3, 0, TRUE, 1, 5), LoadOf("Loader", 3, 0, TRUE, 2, 5), LoadOf("Loader", 2, 2, TRUE, 1, 3),
      LoadOf("Loader", 2, 3, FALSE, 3, 2), LoadOf("Loader", 3, 2, FALSE, 3, 2),
      LoadOf("MonotonicLoader", 2, 2, FALSE, 3, 3), LoadOf("MonotonicLoader", 3, 2, FALSE, 3, 2),
      LoadOf("MonotonicSingleLoader", 3, 3, FALSE, 1, 5),
      Sampling(3, 2, 2), Sampling(2, 3, 2) }

-----------------------------------------------------------------------------
(* Scans: each type, with limits, orders, durations and generated names;   *)
(* the last two are refused.                                               *)

ScanOf(type) ==
    [scanType |-> type, selectClusterTimeOnly |-> FALSE, scanDuration |-> 0, scanContinuous |-> FALSE,
     sortOrder |-> "none", collectionSkip |-> 0, generate |-> FALSE, collectionCount |-> 0,
     documents |-> 0, scanSizeBytes |-> 0, duration |-> 0]

MCSchedules ==
    { <<[ScanOf("snapshot") EXCEPT !.scanDuration = 1, !.sortOrder = "reverse", !.collectionSkip = 1]>>,
      <<[ScanOf("snapshot") EXCEPT !.scanDuration = 2, !.scanContinuous = TRUE, !.duration = 1]>>,
      <<[ScanOf("standard") EXCEPT !.documents = 3, !.sortOrder = "forward"]>>,
      <<[ScanOf("count") EXCEPT !.generate = TRUE, !.collectionCount = 4]>>,
      <<[ScanOf("standard") EXCEPT !.scanSizeBytes = 5]>>,
      <<[ScanOf("none") EXCEPT !.selectClusterTimeOnly = TRUE], ScanOf("point-in-time")>>,
      <<[ScanOf("point-in-time") EXCEPT !.documents = 2],
        [ScanOf("standard") EXCEPT !.collectionSkip = 5, !.sortOrder = "forward"]>>,
      <<[ScanOf("point-in-time") EXCEPT !.scanSizeBytes = 6]>>,
      <<[ScanOf("count") EXCEPT !.collectionSkip = 1]>>,
      <<[ScanOf("standard") EXCEPT !.generate = TRUE, !.collectionCount = 3]>> }

MCDatabases == << <<2, 1>>, <<3>> >>
MCDocumentCount == (0 :> 1) @@ (1 :> 2) @@ (2 :> 3) @@ (3 :> 1)
MCDocumentLength == (0 :> 1) @@ (1 :> 3) @@ (2 :> 2) @@ (3 :> 1)

-----------------------------------------------------------------------------
(* Clusters: a standalone, a set with a member of priority 0, two shards.  *)

SetOf(name, hosts, passives) ==
    [isMongos |-> FALSE, setName |-> name, hosts |-> hosts, passives |-> passives]

MCClusters ==
    { SetOf("", <<"s">>, <<>>), SetOf("rs", <<"a", "b">>, <<"p">>),
      [isMongos |-> TRUE, config |-> SetOf("configRepl", <<"c">>, <<>>),
       shards |-> <<SetOf("r0", <<"a">>, <<"p">>), SetOf("r1", <<"b">>, <<>>)>>,
       mongoses |-> <<[uri |-> "m"], [uri |-> "n"]>>] }

-----------------------------------------------------------------------------
(* The actors of one operation, two at a time.                             *)

Two(a, b) == [x \in Workers |-> IF x = w1 THEN a ELSE b]
Plain(a) == [actor |-> a]
RunCommandOf(awaitStepdown, throwOnFailure, reportMetrics, shouldRun) ==
    [actor |-> "RunCommand", awaitStepdown |-> awaitStepdown, throwOnFailure |-> throwOnFailure,
     reportMetrics |-> reportMetrics, shouldRun |-> shouldRun]
CommitLatencyOf(useSession, useTransaction) ==
    [actor |-> "CommitLatency", useSession |-> useSession, useTransaction |-> useTransaction]

MCCompanies ==
    { Two(RunCommandOf(TRUE, FALSE, TRUE, TRUE), RunCommandOf(FALSE, TRUE, FALSE, TRUE)),
      Two(RunCommandOf(FALSE, FALSE, TRUE, TRUE), RunCommandOf(FALSE, FALSE, TRUE, FALSE)),
      Two(Plain("Insert"), Plain("Deleter")), Two(Plain("Deleter"), Plain("Deleter")),
      Two(Plain("Insert"), Plain("AssertiveActor")), Two(Plain("InsertRemove"), Plain("InsertRemove")),
      Two(Plain("Deleter"), Plain("RandomSampler")),
      Two([actor |-> "MultiCollection", query |-> TRUE, count |-> 1],
          [actor |-> "MultiCollection", query |-> FALSE, count |-> 2]),
      Two(CommitLatencyOf(TRUE, TRUE), CommitLatencyOf(TRUE, TRUE)),
      Two(CommitLatencyOf(TRUE, FALSE), CommitLatencyOf(FALSE, FALSE)),
      Two(Plain("MoveRandomChunk"), Plain("MoveRandomChunk")),
      Two([actor |-> "StreamStats", expected |-> 2], Plain("NopMetrics")),
      Two([actor |-> "ExternalScript", python |-> TRUE], [actor |-> "ExternalScript", python |-> FALSE]),
      Two(Plain("HelloWorld"), Plain("HelloWorld")) }

-----------------------------------------------------------------------------
LoadersRest == LoaderInit /\ load = Sampling(2, 3, 2)
ScannersRest == ScannerInit /\ schedule = <<[ScanOf("standard") EXCEPT !.scanSizeBytes = 5]>>
QuiesceRests == QuiesceInit /\ cluster = SetOf("", <<"s">>, <<>>) /\ job = "quiesce"
WorkersRest ==
    ActorsInit /\ kind = Two(Plain("HelloWorld"), Plain("HelloWorld")) /\ shardOf = [c \in Chunks |-> "s"]

MCInit ==
    \/ focus = "rolling" /\ RollingInit /\ LoadersRest /\ ScannersRest /\ QuiesceRests /\ WorkersRest
    \/ focus = "load" /\ RollingInit /\ LoaderInit /\ ScannersRest /\ QuiesceRests /\ WorkersRest
    \/ focus = "scan" /\ RollingInit /\ LoadersRest /\ ScannerInit /\ QuiesceRests /\ WorkersRest
    \/ focus = "quiesce" /\ RollingInit /\ LoadersRest /\ ScannersRest /\ QuiesceInit /\ WorkersRest
    \/ focus = "operations" /\ RollingInit /\ LoadersRest /\ ScannersRest /\ QuiesceRests /\ ActorsInit

MCNext ==
    /\ UNCHANGED focus
    /\ \/ /\ focus = "rolling" /\ RollingNext
          /\ UNCHANGED <<loaderVars, scannerVars, quiesceVars, actorVars>>
       \/ /\ focus = "load" /\ LoaderNext
          /\ UNCHANGED <<rollingVars, scannerVars, quiesceVars, actorVars>>
       \/ /\ focus = "scan" /\ ScannerNext
          /\ UNCHANGED <<rollingVars, loaderVars, quiesceVars, actorVars>>
       \/ /\ focus = "quiesce" /\ QuiesceNext
          /\ UNCHANGED <<rollingVars, loaderVars, scannerVars, actorVars>>
       \/ /\ focus = "operations" /\ ActorsNext
          /\ UNCHANGED <<rollingVars, loaderVars, scannerVars, quiesceVars>>

MCSpec == MCInit /\ [][MCNext]_<<focus, rollingVars, loaderVars, scannerVars, quiesceVars, actorVars>>

(* Those that call quiesce() or dbcheck() are alike.                       *)
AlikeCallers == Permutations(Callers)

-----------------------------------------------------------------------------
(* The state of each family has its type.                                  *)
FamiliesTypeOK == RollingTypeOK /\ LoaderTypeOK /\ ScannerTypeOK /\ QuiesceTypeOK /\ ActorsTypeOK

=============================================================================
