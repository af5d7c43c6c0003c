------------------------------- MODULE Topology -------------------------------
(***************************************************************************)
(* The discovery of a cluster and the walk of a visitor over it            *)
(* (gennylib/src/topology.cpp).                                            *)
(*                                                                         *)
(* A server is what it answers to the admin commands: isMaster gives the   *)
(* name of its set, its hosts, here with the primary first, and its        *)
(* passives (no name on a standalone mongod); a mongos also answers        *)
(* getShardMap and listShards.  The walk is the sequence of the hooks it   *)
(* calls on a visitor, each with the description it passes.                *)
(***************************************************************************)
EXTENDS Naturals, Sequences, SequencesExt, FiniteSetsExt

(* A mongod on its own has no set name.                                    *)
NoSet == ""

(* The replica sets taken for a config server.                             *)
configSetNames == {"configSet", "configRepl", "configSvrRS"}

(* The type of a mongod of the replica set named setName.                  *)
ClusterType(setName) ==
    CASE setName = NoSet -> "standalone"
      [] setName \in configSetNames -> "configSvrMember"
      [] OTHER -> "replSetMember"

Mongod(setName, uri) == [is |-> ClusterType(setName), uri |-> uri]

(* Fault:    the members of priority 0 are not read.                       *)
computeDataMemberConnectionStrings_NoPassives(server) ==
    IF server.setName = NoSet
      THEN Mongod(NoSet, server.hosts[1])
      ELSE [is |-> IF server.setName \in configSetNames THEN "configSvr" ELSE "replSet",
            primaryUri |-> server.hosts[1],
            nodes |-> [i \in DOMAIN server.hosts |-> Mongod(server.setName, server.hosts[i])]]

(* What a server that is not a mongos says of its set: the electable       *)
(* members, then the ones of priority 0.                                   *)
computeDataMemberConnectionStrings(server) ==
    IF server.setName = NoSet
      THEN Mongod(NoSet, server.hosts[1])
      ELSE LET members == server.hosts \o server.passives
           IN  [is |-> IF server.setName \in configSetNames THEN "configSvr" ELSE "replSet",
                primaryUri |-> server.hosts[1],
                nodes |-> [i \in DOMAIN members |-> Mongod(server.setName, members[i])]]

(* A description no visitor has filled in.                                 *)
NoDescription == [is |-> "replSet", primaryUri |-> "", nodes |-> <<>>]

(* The last description of the kind wanted a retriever has met.            *)
Retrieve(kind, servers) ==
    LET met == {i \in DOMAIN servers : computeDataMemberConnectionStrings(servers[i]).is = kind}
    IN  IF met = {} THEN NoDescription ELSE computeDataMemberConnectionStrings(servers[Max(met)])

(* The cluster behind a mongos; one retriever serves all the shards.       *)
findConnectedNodesViaMongos(server) ==
    [is |-> "sharded",
     configsvr |-> Retrieve("configSvr", <<server.config>>),
     shards |-> [i \in DOMAIN server.shards |-> Retrieve("replSet", SubSeq(server.shards, 1, i))],
     mongoses |-> server.mongoses]

updateTopology(server) ==
    IF server.isMongos THEN findConnectedNodesViaMongos(server)
                       ELSE computeDataMemberConnectionStrings(server)

-----------------------------------------------------------------------------
(* The walk                                                                *)

Hook(name, desc) == <<[on |-> name, desc |-> desc]>>

(* The walks of the parts, one after the other, with a hook between two.   *)
WithBetween(walks, between) ==
    FlattenSeq([i \in DOMAIN walks |-> (IF i = 1 THEN <<>> ELSE between) \o walks[i]])

AcceptMongod(desc) ==
    Hook(CASE desc.is = "standalone" -> "onStandaloneMongod"
           [] desc.is = "replSetMember" -> "onReplSetMongod"
           [] OTHER -> "onConfigSvrMongod", desc)

AcceptNodes(desc) ==
    WithBetween([i \in DOMAIN desc.nodes |-> AcceptMongod(desc.nodes[i])],
                Hook("onBetweenMongods", desc))

AcceptReplSet(desc) ==
    Hook("onBeforeReplSet", desc) \o AcceptNodes(desc) \o Hook("onAfterReplSet", desc)

AcceptConfigSvr(desc) ==
    IF desc.nodes = <<>>
      THEN <<>>
      ELSE Hook("onBeforeConfigSvr", desc) \o AcceptNodes(desc) \o Hook("onAfterConfigSvr", desc)

AcceptSharded(desc) ==
    Hook("onBeforeShardedCluster", desc)
        \o AcceptConfigSvr(desc.configsvr)
        \o Hook("onBeforeShards", desc)
        \o WithBetween([i \in DOMAIN desc.shards |-> AcceptReplSet(desc.shards[i])],
                       Hook("onBetweenShards", desc))
        \o Hook("onAfterShards", desc)
        \o Hook("onBeforeMongoses", desc)
        \o WithBetween([i \in DOMAIN desc.mongoses |-> Hook("onMongos", desc.mongoses[i])],
                       Hook("onBetweenMongoses", desc))
        \o Hook("onAfterMongoses", desc)
        \o Hook("onAfterShardedCluster", desc)

accept(desc) ==
    Hook("onBeforeTopology", desc)
        \o (CASE desc.is = "sharded" -> AcceptSharded(desc)
              [] desc.is = "configSvr" -> AcceptConfigSvr(desc)
              [] desc.is = "replSet" -> AcceptReplSet(desc)
              [] OTHER -> AcceptMongod(desc))
        \o Hook("onAfterTopology", desc)

=============================================================================
