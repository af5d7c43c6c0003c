------------------------------- MODULE Quiesce --------------------------------
(***************************************************************************)
(* quiesce() (gennylib/src/quiesce.cpp) and dbcheck()                      *)
(* (cast_core/src/DbCheckActor.cpp), with the actors that call them.       *)
(*                                                                         *)
(* Both are called by several actors and done by one of them: the one that *)
(* gets the lock discovers the cluster, walks over it and stores the       *)
(* outcome; the others wait for the lock, let it go and read what is       *)
(* stored.  A walk is taken hook by hook; every request to the cluster may *)
(* throw, which lets the lock go, stores nothing and ends the actor.       *)
(***************************************************************************)
EXTENDS Topology, Naturals, FiniteSets, Functions

CONSTANTS
    Callers,                      \* the actors, one thread each
    Clusters,                     \* what the servers the client reaches may answer
    DROPPED_COLLECTION_RETRIES,
    MaxAsked                      \* a bound on the calls of one actor

ASSUME QuiesceAssumption == DROPPED_COLLECTION_RETRIES \in Nat \ {0} /\ MaxAsked \in Nat

(* What isMaster tells of a set: a mongod on its own names itself only.    *)
AnswersAsSet(set) ==
    /\ set.hosts \in Seq(Range(set.hosts)) \ {<<>>} /\ set.passives \in Seq(Range(set.passives))
    /\ set.setName = NoSet => Len(set.hosts) = 1 /\ set.passives = <<>>

ASSUME ClustersAssumption ==
    \A server \in Clusters :
        /\ server.isMongos \in BOOLEAN
        /\ server.isMongos =>
               /\ AnswersAsSet(server.config)
               /\ server.shards \in Seq(Range(server.shards)) /\ \A set \in Range(server.shards) : AnswersAsSet(set)
               /\ server.mongoses \in Seq(Range(server.mongoses))
        /\ ~server.isMongos => AnswersAsSet(server)

(* A config server is told by the name of its set alone: the one behind a  *)
(* mongos has one of the names that are known, the shards, of which there  *)
(* is at least one, have others, and so has a set that is asked directly.  *)
NamesKnown(server) ==
    IF server.isMongos
      THEN /\ server.config.setName \in configSetNames
           /\ server.shards # <<>>
           /\ \A set \in Range(server.shards) : ClusterType(set.setName) = "replSetMember"
      ELSE ClusterType(server.setName) # "configSvrMember"

ASSUME NamesAssumption == \A server \in Clusters : NamesKnown(server)

NoCaller == "nobody"

ASSUME CallersAssumption == NoCaller \notin Callers

VARIABLES
    cluster,    \* the cluster
    job,        \* the call all the actors make: quiesce or dbcheck
    owner,      \* the actor that holds the lock, or NoCaller
    success,    \* the stored outcome
    where,      \* where each actor is
    asked,      \* the calls each actor has made
    visitors,   \* the visitors the runner has still to send, the current one first
    walk,       \* the hooks the current visitor has still to be called with
    oks,        \* what each visitor would answer to success()
    rechecks,   \* the checks for dropped collections at the current hook
    \* the cluster, and the history of the runs
    touched,    \* what the visitors of this run have done, and to which server
    stops,      \* the servers that have a dbCheckStop in their health log
    checks,     \* the numbers of the checks a server has still to finish
    threw,      \* the runs that have thrown
    ended       \* for each actor, whether the run under way when it called, or its own, has ended

quiesceVars == <<cluster, job, owner, success, where, asked, visitors, walk, oks, rechecks,
                 touched, stops, checks, threw, ended>>

Jobs == {"quiesce", "dbcheck"}

(* The visitors each job sends, in order; the dbCheck command itself is    *)
(* sent between the two of a dbcheck.                                      *)
Visitors == [quiesce |-> <<"oplog", "fsync", "dropped">>,
             dbcheck |-> <<"clear", "command", "wait">>]

(* What a visitor answers when it has met nothing.                         *)
InitialOk == [oplog |-> TRUE, fsync |-> TRUE, dropped |-> TRUE,
              clear |-> FALSE, command |-> TRUE, wait |-> FALSE]

(* The hooks each visitor overrides; the others do nothing.                *)
Overridden ==
    [oplog   |-> {"onBeforeReplSet"},
     fsync   |-> {"onStandaloneMongod", "onReplSetMongod", "onConfigSvrMongod"},
     dropped |-> {"onBeforeReplSet", "onStandaloneMongod"},
     clear   |-> {"onReplSetMongod"},
     command |-> {},
     wait    |-> {"onReplSetMongod"}]

(* The hooks of a walk over the cluster that a visitor acts on.            *)
WalkOf(v) ==
    LET hooks == accept(updateTopology(cluster))
    IN  FlattenSeq([i \in DOMAIN hooks |->
            IF hooks[i].on \in Overridden[v] THEN <<hooks[i]>> ELSE <<>>])

QuiesceInit ==
    /\ cluster \in Clusters
    /\ job \in Jobs
    /\ owner = NoCaller
    /\ success = FALSE
    /\ where = [c \in Callers |-> "idle"]
    /\ asked = [c \in Callers |-> 0]
    /\ visitors = <<>>
    /\ walk = <<>>
    /\ oks = InitialOk
    /\ rechecks = 0
    /\ touched = {}
    /\ stops = {}
    /\ checks = {}
    /\ threw = 0
    /\ ended = [c \in Callers |-> FALSE]

-----------------------------------------------------------------------------
(* The lock                                                                *)

(* run: the operation is started and the lock tried.                       *)
TryLock(c) ==
    /\ where[c] = "idle"
    /\ asked[c] < MaxAsked
    /\ asked' = [asked EXCEPT ![c] = @ + 1]
    /\ ended' = [ended EXCEPT ![c] = owner # NoCaller /\ where[owner] = "unlock"]
    /\ IF owner = NoCaller
         THEN /\ owner' = c
              /\ where' = [where EXCEPT ![c] = "discover"]
         ELSE /\ where' = [where EXCEPT ![c] = "wait"]
              /\ UNCHANGED owner
    /\ UNCHANGED <<cluster, job, success, visitors, walk, oks, rechecks, touched, stops, checks,
                   threw>>

(* Fault: a thread that finds the lock taken does not wait for it.         *)
LockToWait_Not(c) ==
    /\ where[c] = "wait"
    /\ where' = [where EXCEPT ![c] = "return"]
    /\ UNCHANGED <<cluster, job, owner, success, asked, visitors, walk, oks, rechecks,
                   touched, stops, checks, threw, ended>>

(* Who has waited takes the lock, and lets it go at once.  A thread that   *)
(* tries the lock in between waits as well, though nobody is running.      *)
LockToWait(c) ==
    /\ where[c] = "wait"
    /\ owner = NoCaller
    /\ owner' = c
    /\ where' = [where EXCEPT ![c] = "unlock"]
    /\ UNCHANGED <<cluster, job, success, asked, visitors, walk, oks, rechecks,
                   touched, stops, checks, threw, ended>>

Unlock(c) ==
    /\ where[c] = "unlock"
    /\ owner' = NoCaller
    /\ where' = [where EXCEPT ![c] = "return"]
    /\ UNCHANGED <<cluster, job, success, asked, visitors, walk, oks, rechecks,
                   touched, stops, checks, threw, ended>>

(* The stored outcome is read without the lock, and the operation ended  *)
(* as a success or a failure by it.                                        *)
Return(c) ==
    /\ where[c] = "return"
    /\ where' = [where EXCEPT ![c] = "idle"]
    /\ UNCHANGED <<cluster, job, owner, success, asked, visitors, walk, oks, rechecks, touched, stops,
                   checks, threw, ended>>

-----------------------------------------------------------------------------
(* The runner                                                              *)

(* The topology is discovered, and the first visitor sent.                 *)
Discover(c) ==
    /\ where[c] = "discover"
    /\ where' = [where EXCEPT ![c] = "run"]
    /\ visitors' = Visitors[job]
    /\ walk' = WalkOf(Head(Visitors[job]))
    /\ oks' = InitialOk
    /\ rechecks' = 0
    /\ touched' = {}
    /\ UNCHANGED <<cluster, job, owner, success, asked, stops, checks, threw, ended>>

Visiting(v) == visitors # <<>> /\ Head(visitors) = v

Runner == owner # NoCaller /\ where[owner] = "run"

Done(server) == touched' = touched \cup {<<Head(visitors), server>>}

NextHook == walk' = Tail(walk) /\ rechecks' = 0

(* WaitOplogVisitor: with every member in a reasonable state, a write that *)
(* all the members have acknowledged.                                      *)
WaitOplog(reasonable) ==
    /\ Visiting("oplog")
    /\ Head(walk).on = "onBeforeReplSet"
    /\ IF reasonable THEN Done(Head(walk).desc.primaryUri) /\ UNCHANGED oks
                     ELSE oks' = [oks EXCEPT !.oplog = FALSE] /\ UNCHANGED touched
    /\ NextHook
    /\ UNCHANGED <<stops, checks>>

(* DoFsyncVisitor: every mongod.                                           *)
DoFsync ==
    /\ Visiting("fsync")
    /\ Head(walk).on \in {"onStandaloneMongod", "onReplSetMongod", "onConfigSvrMongod"}
    /\ Done(Head(walk).desc.uri)
    /\ NextHook
    /\ UNCHANGED <<oks, stops, checks>>

CheckedUri == IF Head(walk).on = "onBeforeReplSet" THEN Head(walk).desc.primaryUri
                                                   ELSE Head(walk).desc.uri

(* CheckForDroppedCollectionsVisitor: asked again every second while some  *)
(* collection is still to be dropped; the answer of the last set asked is  *)
(* the visitor's.                                                          *)
CheckDropped(pending) ==
    /\ Visiting("dropped")
    /\ Head(walk).on \in {"onBeforeReplSet", "onStandaloneMongod"}
    /\ IF pending /\ rechecks < DROPPED_COLLECTION_RETRIES
         THEN rechecks' = rechecks + 1 /\ UNCHANGED <<walk, oks, touched>>
         ELSE /\ oks' = [oks EXCEPT !.dropped = rechecks < DROPPED_COLLECTION_RETRIES]
              /\ IF pending THEN UNCHANGED touched ELSE Done(CheckedUri)
              /\ NextHook
    /\ UNCHANGED <<stops, checks>>

(* ClearHealthLogVisitor: the health log of a member is dropped.           *)
ClearHealthLog ==
    /\ Visiting("clear")
    /\ Head(walk).on = "onReplSetMongod"
    /\ stops' = stops \ {Head(walk).desc.uri}
    /\ oks' = [oks EXCEPT !.clear = TRUE]
    /\ Done(Head(walk).desc.uri)
    /\ NextHook
    /\ UNCHANGED checks

(* WaitForDbCheckVisitor: the log of a member is read until it has a stop. *)
WaitForDbCheck ==
    /\ Visiting("wait")
    /\ Head(walk).on = "onReplSetMongod"
    /\ Head(walk).desc.uri \in stops
    /\ oks' = [oks EXCEPT !.wait = TRUE]
    /\ NextHook
    /\ UNCHANGED <<touched, stops, checks>>

Hooked ==
    /\ Runner
    /\ walk # <<>>
    /\ \/ \E reasonable \in BOOLEAN : WaitOplog(reasonable)
       \/ DoFsync
       \/ \E pending \in BOOLEAN : CheckDropped(pending)
       \/ ClearHealthLog
       \/ WaitForDbCheck
    /\ UNCHANGED <<cluster, job, owner, success, where, asked, visitors, threw, ended>>

(* The members of the replica sets, as the cluster has them.               *)
SetsOf(server) ==
    IF server.isMongos THEN Range(server.shards) ELSE {server}

MembersOf(set) == Range(set.hosts) \cup Range(set.passives)

ReplSetsOf(server) ==
    {set \in SetsOf(server) : ClusterType(set.setName) = "replSetMember"}

(* A visitor is done; the next one is sent, after the dbCheck command.     *)
NextVisitor ==
    /\ Runner
    /\ walk = <<>>
    /\ visitors # <<>>
    /\ visitors' = Tail(visitors)
    /\ walk' = IF Len(visitors) > 1 THEN WalkOf(visitors[2]) ELSE <<>>
    /\ checks' = IF Head(visitors) = "command"
                   THEN checks \cup {<<threw, uri>> :
                                       uri \in UNION {MembersOf(set) : set \in ReplSetsOf(cluster)}}
                   ELSE checks
    /\ rechecks' = 0
    /\ UNCHANGED <<cluster, job, owner, success, where, asked, oks, touched, stops, threw,
                   ended>>

(* A server has finished a check and logs it.                              *)
FinishCheck(check) ==
    /\ check \in checks
    /\ checks' = checks \ {check}
    /\ stops' = stops \cup {check[2]}
    /\ UNCHANGED <<cluster, job, owner, success, where, asked, visitors, walk, oks, rechecks,
                   touched, threw, ended>>

(* The outcome is stored and the lock let go.                              *)
Store ==
    /\ Runner
    /\ visitors = <<>>
    /\ success' = IF job = "quiesce" THEN oks.oplog /\ oks.dropped ELSE oks.clear /\ oks.wait
    /\ owner' = NoCaller
    /\ where' = [where EXCEPT ![owner] = "return"]
    /\ oks' = InitialOk
    /\ touched' = {}
    /\ ended' = [c \in Callers |-> TRUE]
    /\ UNCHANGED <<cluster, job, asked, visitors, walk, rechecks, stops, checks, threw>>

(* A request throws: the guard lets the lock go, nothing is stored, and    *)
(* the exception ends the actor.                                           *)
RunThrows ==
    /\ owner # NoCaller
    /\ where[owner] \in {"discover", "run"}
    /\ where' = [where EXCEPT ![owner] = "dead"]
    /\ owner' = NoCaller
    /\ threw' = threw + 1
    /\ visitors' = <<>>
    /\ walk' = <<>>
    /\ oks' = InitialOk
    /\ rechecks' = 0
    /\ touched' = {}
    /\ ended' = [c \in Callers |-> TRUE]
    /\ UNCHANGED <<cluster, job, success, asked, stops, checks>>

QuiesceNext ==
    \/ \E c \in Callers : TryLock(c) \/ LockToWait(c) \/ Unlock(c) \/ Return(c) \/ Discover(c)
    \/ Hooked
    \/ NextVisitor
    \/ \E check \in checks : FinishCheck(check)
    \/ Store
    \/ RunThrows

QuiesceSpec == QuiesceInit /\ [][QuiesceNext]_quiesceVars

-----------------------------------------------------------------------------
(* Properties                                                              *)

QuiesceTypeOK ==
    /\ owner \in Callers \cup {NoCaller}
    /\ success \in BOOLEAN
    /\ where \in [Callers -> {"idle", "wait", "unlock", "discover", "run", "return", "dead"}]
    /\ asked \in [Callers -> 0 .. MaxAsked]
    /\ rechecks \in 0 .. DROPPED_COLLECTION_RETRIES
    /\ Len(visitors) \in 0 .. 3
    /\ owner # NoCaller => where[owner] \in {"unlock", "discover", "run"}

MongodsOf(server) ==
    UNION {MembersOf(set) : set \in SetsOf(server) \cup
                                    (IF server.isMongos THEN {server.config} ELSE {})}

(* What a run that is about to store success has done: quiesce() has       *)
(* flushed the oplog of every replica set of the cluster and synced every  *)
(* mongod, the config servers' and the priority-0 members too; dbcheck()   *)
(* has seen the end of a check on every member it cleared, and unless an   *)
(* earlier run has thrown and left its own check running, no check is left.*)
(* (Of the dropped collections only the last set asked is known.)          *)
SuccessCoversCluster ==
    (Runner /\ visitors = <<>>) =>
        /\ (job = "quiesce" /\ oks.oplog /\ oks.dropped) =>
               /\ \A set \in ReplSetsOf(cluster) : <<"oplog", set.hosts[1]>> \in touched
               /\ \A uri \in MongodsOf(cluster) : <<"fsync", uri>> \in touched
               /\ cluster.isMongos => <<"dropped", Last(cluster.shards).hosts[1]>> \in touched
               /\ ~cluster.isMongos => <<"dropped", cluster.hosts[1]>> \in touched
        /\ (job = "dbcheck" /\ oks.clear /\ oks.wait) =>
               /\ \A set \in ReplSetsOf(cluster) : MembersOf(set) \subseteq stops
               /\ threw = 0 => checks = {}

(* "If another thread enters the function while a quiesce is happening, it *)
(* waits until the quiesce finishes and exits" (quiesce.cpp, and likewise  *)
(* DbCheckActor.cpp): nobody returns before the run has ended that was     *)
(* under way when it called, or that it did itself.  It may return without *)
(* any run since its call, when it finds the lock with one who waited.     *)
RunAwaited == \A c \in Callers : where[c] = "return" => ended[c]

=============================================================================
