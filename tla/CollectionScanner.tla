-------------------------- MODULE CollectionScanner ---------------------------
(***************************************************************************)
(* CollectionScanner (cast_core/src/CollectionScanner.cpp): threads that   *)
(* read the collections of some databases, phase after phase, each phase   *)
(* in one of four ways, with the count of the scanners at work that they   *)
(* share with RandomSampler.                                               *)
(*                                                                         *)
(* A collection is a number, which stands for its name and for its place   *)
(* in the order of names; the documents of a collection have one length.   *)
(* Any request may fail (the collection may be dropped while it is read).  *)
(* What the filter and the aggregation select and the pause of the rate    *)
(* limiter for every megabyte read are left out; a phase has one           *)
(* iteration.                                                              *)
(***************************************************************************)
EXTENDS Naturals, Sequences, SequencesExt, FiniteSets, FiniteSetsExt

CONSTANTS
    Scanners,         \* the threads, numbered from 0 as ActorCounter numbers them
    Schedules,        \* sequences of phases a workload may give the threads
    Databases,        \* for each database, its collections as the server lists them
    DocumentCount,    \* the documents of each collection
    DocumentLength,   \* the length of each of them
    ArrayLength,      \* what the array of a batch takes beside its documents
    BatchSize,        \* the documents of one batch
    MaxTime,          \* a bound on the clock
    MaxCaught         \* a bound on the exceptions of a scan that starts again

ASSUME ScannerAssumption ==
    /\ Scanners = 0 .. Cardinality(Scanners) - 1 /\ Cardinality(Scanners) \in Nat \ {0}
    /\ BatchSize \in Nat \ {0} /\ MaxTime \in Nat /\ MaxCaught \in Nat
    /\ \A phases \in Schedules : \A i \in DOMAIN phases :
        {phases[i].scanDuration, phases[i].collectionSkip, phases[i].collectionCount,
         phases[i].documents, phases[i].scanSizeBytes, phases[i].duration} \subseteq Nat

(* A database lists each of its collections once, and a collection that is *)
(* not there has no documents.                                             *)
ASSUME CollectionsAssumption ==
    /\ Databases \in Seq(Seq(Nat))
    /\ \A db \in DOMAIN Databases : IsInjective(Databases[db])
    /\ DOMAIN DocumentLength = DOMAIN DocumentCount /\ ArrayLength \in Nat
    /\ \A c \in DOMAIN DocumentCount : DocumentCount[c] \in Nat /\ DocumentLength[c] \in Nat

VARIABLES
    schedule,   \* the phases
    scan,       \* what each thread is doing
    running,    \* RunningActorCounter
    time        \* the steady clock, and the cluster's

scannerVars == <<schedule, scan, running, time>>

ScanTypes == {"count", "snapshot", "standard", "point-in-time"}

NoTime == MaxTime + 1

(* PhaseConfig: the checks of a phase's configuration.                     *)
ValidScan(config) ==
    /\ config.scanType \in ScanTypes \/ config.selectClusterTimeOnly
    /\ config.scanDuration # 0 => config.scanType = "snapshot"
    /\ config.scanContinuous => config.scanType = "snapshot" /\ config.scanDuration # 0
    /\ config.sortOrder \in {"none", "forward", "reverse"}
    /\ config.collectionSkip # 0 => config.sortOrder # "none"
    /\ config.generate => config.collectionCount > 0

(* A fair division of the collections; with more threads than collections  *)
(* the constructor throws.                                                 *)
distributeCollectionNames(collectionCount, threadCount, actorId) ==
    LET perActor == collectionCount \div threadCount
        start == (actorId % collectionCount) * perActor
    IN  [i \in 1 .. perActor |-> start + i - 1]

Distributable(config) ==
    config.generate => config.collectionCount % Cardinality(Scanners) = 0

Idle == [at |-> "idle", phase |-> 1, todo |-> <<>>, cursor |-> 0, docs |-> 0, size |-> 0,
         finished |-> FALSE, aborted |-> FALSE, started |-> 0, clusterTime |-> NoTime,
         tried |-> <<>>, skipped |-> {}, caught |-> 0, readAt |-> NoTime]

(* The constructor: every phase is configured before any of them runs, and *)
(* the count of the scanners at work starts at 0.                          *)
ScannerInit ==
    /\ schedule \in {s \in Schedules : \A i \in DOMAIN s : ValidScan(s[i]) /\ Distributable(s[i])}
    /\ scan = [s \in Scanners |-> Idle]
    /\ running = 0
    /\ time = 0

Config(s) == schedule[scan[s].phase]

InScan(s) == scan[s].at \notin {"idle", "failed"}

-----------------------------------------------------------------------------
(* The collections of an iteration                                         *)

(* The name with i - 1 others before it is the i-th.                       *)
Ascending(names) ==
    [i \in DOMAIN names |->
        CHOOSE name \in Range(names) : Cardinality({n \in Range(names) : n < name}) = i - 1]

InOrder(names, sortOrder) ==
    CASE sortOrder = "forward" -> Ascending(names)
      [] sortOrder = "reverse" -> Reverse(Ascending(names))
      [] OTHER -> names

(* collectionsFromNameList.                                                *)
collectionsFromNameList(config, names) ==
    IF config.collectionSkip >= Len(names) /\ config.collectionSkip # 0
      THEN <<>>
      ELSE SubSeq(InOrder(names, config.sortOrder), config.collectionSkip + 1, Len(names))

NamesOf(config, s, db) ==
    IF config.generate
      THEN distributeCollectionNames(config.collectionCount, Cardinality(Scanners), s)
      ELSE Databases[db]

(* A scan at a point in time takes the names as they are.                  *)
Chosen(config, s, db) ==
    IF config.scanType = "point-in-time"
      THEN NamesOf(config, s, db)
      ELSE collectionsFromNameList(config, NamesOf(config, s, db))

WithDatabase(names, db) == [i \in DOMAIN names |-> <<db, names[i]>>]

(* The collections of the phase, each with its database.                   *)
CollectionsOf(s) ==
    FlattenSeq([db \in DOMAIN Databases |-> WithDatabase(Chosen(Config(s), s, db), db)])

-----------------------------------------------------------------------------
(* run                                                                     *)

NextPhase(s) == [Idle EXCEPT !.phase = scan[s].phase + 1, !.clusterTime = scan[s].clusterTime]

(* Fault:    the cluster time is taken with the scanner counted as running.*)
SelectClusterTime_Counted(s) ==
    /\ scan[s].at = "idle"
    /\ scan[s].phase \in DOMAIN schedule
    /\ Config(s).selectClusterTimeOnly
    /\ scan' = [scan EXCEPT ![s] = [NextPhase(s) EXCEPT !.clusterTime = time]]
    /\ running' = running + 1
    /\ UNCHANGED <<schedule, time>>

(* An iteration that only notes the time of the cluster for later phases.  *)
SelectClusterTime(s) ==
    /\ scan[s].at = "idle"
    /\ scan[s].phase \in DOMAIN schedule
    /\ Config(s).selectClusterTimeOnly
    /\ scan' = [scan EXCEPT ![s] = [NextPhase(s) EXCEPT !.clusterTime = time]]
    /\ UNCHANGED <<schedule, running, time>>

SelectClusterTimeThrows(s) ==
    /\ scan[s].at = "idle"
    /\ scan[s].phase \in DOMAIN schedule
    /\ Config(s).selectClusterTimeOnly
    /\ scan' = [scan EXCEPT ![s].at = "failed"]
    /\ UNCHANGED <<schedule, running, time>>

(* The time a scan at a point in time reads at.                            *)
ReadTime(s) == IF scan[s].clusterTime = NoTime THEN time ELSE scan[s].clusterTime

(* An iteration that scans: counted, with its list of collections.         *)
BeginScan(s) ==
    /\ scan[s].at = "idle"
    /\ scan[s].phase \in DOMAIN schedule
    /\ ~Config(s).selectClusterTimeOnly
    /\ running' = running + 1
    /\ scan' = [scan EXCEPT ![s].at = "scan", ![s].todo = CollectionsOf(s), ![s].started = time,
                            ![s].readAt = ReadTime(s)]
    /\ UNCHANGED <<schedule, time>>

(* The limits of a scan, tested with the document or the batch counted.    *)
Stops(config, docs, size) ==
    \/ config.documents # 0 /\ docs = config.documents
    \/ config.scanSizeBytes # 0 /\ size >= config.scanSizeBytes

Reading(s) == scan[s].at = "scan" /\ scan[s].todo # <<>> /\ ~scan[s].finished

DocumentsIn(c) == IF c \in DOMAIN DocumentCount THEN DocumentCount[c] ELSE 0
LengthIn(c) == IF c \in DOMAIN DocumentLength THEN DocumentLength[c] ELSE 0

(* The collection that is read, or is the next to be.                      *)
Collection(s) == Head(scan[s].todo)[2]
DocumentsOf(s) == DocumentsIn(Collection(s))
SizeWith(s, read) == scan[s].size + read * LengthIn(Collection(s))
StopsWith(s, read) == Stops(Config(s), scan[s].docs + read, SizeWith(s, read))

(* The documents of the collection that the scan reads: to the limit.      *)
Wanted(s) ==
    LET ends == {i \in 1 .. DocumentsOf(s) : StopsWith(s, i)}
    IN  IF ends = {} THEN DocumentsOf(s) ELSE Min(ends)

(* collectionScan: one collection is read to its end, or to the limit.     *)
ScanCollection(s) ==
    /\ Reading(s)
    /\ Config(s).scanType \in {"snapshot", "standard"}
    /\ ~scan[s].aborted
    /\ LET read == Wanted(s)
       IN  scan' = [scan EXCEPT ![s].docs = @ + read, ![s].size = SizeWith(s, read),
                                ![s].tried = Append(@, Head(scan[s].todo)),
                                ![s].todo = Tail(@),
                                ![s].finished = read > 0 /\ StopsWith(s, read)]
    /\ UNCHANGED <<schedule, running, time>>

(* Fault:    the first collection that cannot be read ends the scan.       *)
ScanThrows_Ends(s) ==
    /\ Reading(s)
    /\ Config(s).scanType \in {"snapshot", "standard"}
    /\ scan' = [scan EXCEPT ![s].tried = Append(@, Head(scan[s].todo)),
                            ![s].todo = <<>>,
                            ![s].caught = @ + 1,
                            ![s].aborted = Config(s).scanType = "snapshot"]
    /\ UNCHANGED <<schedule, running, time>>

(* The cursor throws after some documents; the exception is counted and    *)
(* the scan goes on.  In a transaction the error has aborted it, and every *)
(* further request in it throws.                                           *)
ScanThrows(s) ==
    /\ Reading(s)
    /\ Config(s).scanType \in {"snapshot", "standard"}
    /\ \E read \in 0 .. (IF scan[s].aborted THEN 0 ELSE Wanted(s)) :
        /\ read = 0 \/ ~StopsWith(s, read)
        /\ scan' = [scan EXCEPT ![s].docs = @ + read, ![s].size = SizeWith(s, read),
                                ![s].tried = Append(@, Head(scan[s].todo)),
                                ![s].todo = Tail(@),
                                ![s].caught = @ + 1,
                                ![s].aborted = Config(s).scanType = "snapshot"]
    /\ UNCHANGED <<schedule, running, time>>

(* countScan: the server counts one collection, or throws.                 *)
CountCollection(s) ==
    /\ Reading(s)
    /\ Config(s).scanType = "count"
    /\ \/ scan' = [scan EXCEPT ![s].docs = @ + DocumentsOf(s),
                               ![s].tried = Append(@, Head(scan[s].todo)), ![s].todo = Tail(@)]
       \/ scan' = [scan EXCEPT ![s].caught = @ + 1,
                               ![s].tried = Append(@, Head(scan[s].todo)), ![s].todo = Tail(@)]
    /\ UNCHANGED <<schedule, running, time>>

-----------------------------------------------------------------------------
(* pointInTimeScan                                                         *)

(* A batch has arrived: it is told to the metrics, the limits are tested,  *)
(* and the collection is left when they are met or the cursor is at its    *)
(* end.                                                                    *)
Batch(s, rest) ==
    LET got == Min({rest, BatchSize})
        size == SizeWith(s, got) + ArrayLength
        stops == Stops(Config(s), scan[s].docs + got, size)
        more == rest > got /\ ~stops
    IN  scan' = [scan EXCEPT ![s].docs = @ + got, ![s].size = size,
                             ![s].cursor = IF more THEN rest - got ELSE 0,
                             ![s].tried = IF scan[s].cursor = 0 THEN Append(@, Head(scan[s].todo)) ELSE @,
                             ![s].todo = IF more THEN @ ELSE Tail(@),
                             ![s].finished = stops]

(* Fault:    the first batch is taken for the whole collection.            *)
Find_OneBatch(s) ==
    /\ Reading(s)
    /\ Config(s).scanType = "point-in-time"
    /\ scan[s].cursor = 0
    /\ Batch(s, Min({DocumentsOf(s), BatchSize}))
    /\ UNCHANGED <<schedule, running, time>>

Find(s) ==
    /\ Reading(s)
    /\ Config(s).scanType = "point-in-time"
    /\ scan[s].cursor = 0
    /\ Batch(s, DocumentsOf(s))
    /\ UNCHANGED <<schedule, running, time>>

GetMore(s) ==
    /\ Reading(s)
    /\ scan[s].cursor # 0
    /\ Batch(s, scan[s].cursor)
    /\ UNCHANGED <<schedule, running, time>>

(* A find that throws leaves the rest of the database.                     *)
FindThrows(s) ==
    /\ Reading(s)
    /\ Config(s).scanType = "point-in-time"
    /\ scan[s].cursor = 0
    /\ LET todo == scan[s].todo
           db == Head(todo)[1]
           others == {i \in DOMAIN todo : todo[i][1] # db}
           next == IF others = {} THEN Len(todo) + 1 ELSE Min(others)
       IN  scan' = [scan EXCEPT ![s].tried = Append(@, Head(todo)),
                                ![s].todo = SubSeq(@, next, Len(@)),
                                ![s].skipped = @ \cup {db},
                                ![s].caught = @ + 1]
    /\ UNCHANGED <<schedule, running, time>>

(* A getMore that throws leaves the collection.                            *)
GetMoreThrows(s) ==
    /\ Reading(s)
    /\ scan[s].cursor # 0
    /\ scan' = [scan EXCEPT ![s].cursor = 0, ![s].todo = Tail(@),
                            ![s].caught = @ + 1]
    /\ UNCHANGED <<schedule, running, time>>

-----------------------------------------------------------------------------
(* The end of an iteration                                                 *)

Scanned(s) == scan[s].at = "scan" /\ (scan[s].todo = <<>> \/ scan[s].finished)

(* The constructor gives stopPhase, an optional that holds nothing, its    *)
(* value through operator*: the time is stored and the optional still      *)
(* holds nothing, whatever the Duration of the phase.                      *)
stopPhase(config) == NoTime

(* When the transaction may end: at the end of the phase, were it noted.   *)
Stop(s) ==
    LET stop == scan[s].started + Config(s).scanDuration
        phaseEnd == stopPhase(Config(s))
    IN  IF phaseEnd # NoTime /\ phaseEnd < stop THEN phaseEnd ELSE stop

(* A continuous scan whose duration is not over starts again in the same   *)
(* transaction.                                                            *)
ScanAgain(s) ==
    /\ Scanned(s)
    /\ Config(s).scanContinuous
    /\ time < Stop(s)
    /\ scan[s].caught < MaxCaught
    /\ scan' = [scan EXCEPT ![s].todo = CollectionsOf(s), ![s].tried = <<>>, ![s].docs = 0,
                            ![s].size = 0, ![s].finished = FALSE]
    /\ UNCHANGED <<schedule, running, time>>

(* A scan that is not continuous sleeps the rest of its duration.          *)
Held(s) == time >= Stop(s)

(* The transaction is committed; an aborted one, or one the server can no  *)
(* longer commit, throws a transient error, which is counted.              *)
CommitScan(s) ==
    /\ Scanned(s)
    /\ Config(s).scanType = "snapshot"
    /\ Held(s)
    /\ \/ ~scan[s].aborted /\ scan' = [scan EXCEPT ![s].at = "end"]
       \/ scan' = [scan EXCEPT ![s].at = "end", ![s].caught = @ + 1]
    /\ UNCHANGED <<schedule, running, time>>

(* An error of the commit that is not transient is thrown on.  So is what  *)
(* no handler is around, or is no operation_exception: a session, a ping,  *)
(* a list of names (of each database in turn, at a point in time), a       *)
(* filter that cannot be made.                                             *)
ScannerDies(s) ==
    /\ scan[s].at = "scan"
    /\ \/ Reading(s) \/ scan[s].tried = <<>>
       \/ Config(s).scanType = "point-in-time" /\ ~scan[s].finished
       \/ Scanned(s) /\ Config(s).scanType = "snapshot" /\ Held(s)
    /\ scan' = [scan EXCEPT ![s].at = "dead"]
    /\ UNCHANGED <<schedule, running, time>>

EndScan(s) ==
    /\ \/ scan[s].at = "end"
       \/ Scanned(s) /\ Config(s).scanType # "snapshot"
    /\ running' = running - 1
    /\ scan' = [scan EXCEPT ![s] = NextPhase(s)]
    /\ UNCHANGED <<schedule, time>>

ScannerTick ==
    /\ time < MaxTime
    /\ time' = time + 1
    /\ UNCHANGED <<schedule, scan, running>>

ScannerNext ==
    \/ \E s \in Scanners :
        \/ SelectClusterTime(s) \/ SelectClusterTimeThrows(s) \/ BeginScan(s)
        \/ ScanCollection(s) \/ ScanThrows(s) \/ CountCollection(s)
        \/ Find(s) \/ GetMore(s) \/ FindThrows(s) \/ GetMoreThrows(s)
        \/ ScanAgain(s) \/ CommitScan(s) \/ ScannerDies(s) \/ EndScan(s)
    \/ ScannerTick

ScannerSpec == ScannerInit /\ [][ScannerNext]_scannerVars

-----------------------------------------------------------------------------
(* Properties                                                              *)

ScannerTypeOK ==
    /\ running \in 0 .. Cardinality(Scanners)
    /\ time \in 0 .. MaxTime
    /\ \A s \in Scanners :
        /\ scan[s].at \in {"idle", "scan", "end", "dead", "failed"}
        /\ scan[s].phase \in 1 .. Len(schedule) + 1
        /\ scan[s].docs \in Nat /\ scan[s].cursor \in Nat
        /\ scan[s].clusterTime \in 0 .. NoTime

(* RunningActorCounter, which RandomSampler reads to tell reads beside a   *)
(* scan from others, is the number of the scanners in a scan.  One that an *)
(* exception has ended stays counted.                                      *)
CountsTheRunning == running = Cardinality({s \in Scanners : InScan(s)})

(* GenerateCollectionNames: the threads share out the collections the      *)
(* Loader made, each to one of them.                                       *)
NamesShared ==
    \A i \in DOMAIN schedule :
        schedule[i].generate =>
            LET count == schedule[i].collectionCount
                names == [s \in Scanners |-> distributeCollectionNames(count, Cardinality(Scanners), s)]
            IN  \A n \in 0 .. count - 1 :
                    Cardinality({p \in Scanners \X (1 .. count) :
                                     p[2] \in DOMAIN names[p[1]] /\ names[p[1]][p[2]] = n}) = 1

(* A scan that is over has tried its collections once each and in their    *)
(* order, whatever failed on the way.  One it has not tried comes after    *)
(* all those that it has when it met its limit, or, at a point in time,    *)
(* after one of the same database whose find failed.                       *)
EveryCollectionTried ==
    \A s \in Scanners :
        Scanned(s) =>
            LET tried == scan[s].tried  all == CollectionsOf(s)
            IN  \E place \in [DOMAIN tried -> DOMAIN all] :
                    /\ \A k \in DOMAIN tried : tried[k] = all[place[k]]
                    /\ \A j, k \in DOMAIN tried : j < k => place[j] < place[k]
                    /\ \A i \in DOMAIN all : (\A k \in DOMAIN tried : place[k] # i) =>
                        \/ scan[s].finished /\ \A k \in DOMAIN tried : place[k] < i
                        \/ /\ all[i][1] \in scan[s].skipped
                           /\ \E k \in DOMAIN tried : place[k] < i /\ all[place[k]][1] = all[i][1]

(* "The Documents configuration specifies the max number of documents we   *)
(* want to scan per scan loop" (workloads/docs/CollectionScanner.yml), over *)
(* all the collections of the scan.  The document that meets ScanSizeBytes *)
(* is the last.  (A scan at a point in time reads whole batches and may    *)
(* pass by both limits.)                                                   *)
LimitKept ==
    \A s \in Scanners :
        InScan(s) /\ Config(s).scanType \in {"snapshot", "standard"} =>
            /\ Config(s).documents # 0 => scan[s].docs <= Config(s).documents
            /\ Config(s).scanSizeBytes # 0 /\ scan[s].size >= Config(s).scanSizeBytes =>
                 /\ scan[s].tried # <<>>
                 /\ scan[s].size - LengthIn(Last(scan[s].tried)[2]) < Config(s).scanSizeBytes

(* A scan at a point in time reads at the cluster time an earlier phase    *)
(* selected, whenever it starts.                                           *)
ReadsAtSelectedTime ==
    \A s \in Scanners :
        (InScan(s) /\ Config(s).scanType = "point-in-time"
             /\ \E i \in 1 .. scan[s].phase - 1 : schedule[i].selectClusterTimeOnly) =>
            scan[s].readAt = scan[s].clusterTime

(* The threads of a scan read their shares of the collections, all of them *)
(* up to the document that meets the limit, at the time selected for it.   *)
ScanComplete == NamesShared /\ EveryCollectionTried /\ LimitKept /\ ReadsAtSelectedTime

(* What a scan tells the metrics is what there was to read: with no        *)
(* exception told to them and no limit met, the documents it has counted   *)
(* are those of all its collections, through batches, cursors, databases   *)
(* and the rounds of a continuous scan.                                    *)
WholeUnlessCaught ==
    \A s \in Scanners :
        Scanned(s) /\ scan[s].caught = 0 /\ ~scan[s].finished =>
            LET all == CollectionsOf(s)
                Documents(i) == DocumentsIn(all[i][2])
            IN  scan[s].docs = MapThenSumSet(Documents, DOMAIN all)

-----------------------------------------------------------------------------
(* What the comments say.  Neither holds, and what does is ScanComplete.   *)

(* "Scan size bytes will scan up to this many bytes per scan iteration"    *)
(* (workloads/docs/CollectionScanner.yml:61).                              *)
UpToScanSizeBytes ==
    \A s \in Scanners :
        (InScan(s) /\ Config(s).scanType \in {"snapshot", "standard"} /\ Config(s).scanSizeBytes # 0)
            => scan[s].size <= Config(s).scanSizeBytes

(* "However, honor the phase's duration if specified."                     *)
(* (CollectionScanner.cpp:470): the transaction of a scan that has been    *)
(* read is held no longer than the phase lasts, which began no later than  *)
(* the scan.                                                               *)
HonorsPhaseDuration ==
    \A s \in Scanners :
        (Scanned(s) /\ Config(s).scanType = "snapshot" /\ Config(s).duration # 0
             /\ time >= scan[s].started + Config(s).duration) => Held(s)
=============================================================================
