------------------------------- MODULE MCSetup -------------------------------
(***************************************************************************)
(* The parts of a workload's construction, each on its own: the pools of   *)
(* connections, the documents that generators make, the state generators   *)
(* share, and the contexts and actors.  They do not touch each other, so a *)
(* behaviour is one of one part (the focus), with the others at rest.      *)
(***************************************************************************)
EXTENDS PoolManager, GeneratedDocuments, SharedGenerators, WorkloadContext

CONSTANTS t1, t2, t3

VARIABLE focus

-----------------------------------------------------------------------------
(* Pools: clients A and B share a key vault; C has its own, on one server; *)
(* D is not encrypted.                                                     *)

MCClients == {"A", "B", "C", "D"}
MCUri == [c \in MCClients |-> "u1"]
MCServer == [u \in {"u1"} |-> "s1"]
MCVault == [c \in MCClients |-> IF c = "C" THEN "v2" ELSE IF c = "D" THEN NoVault ELSE "v1"]
MCEncrypted == [A |-> {1, 2}, B |-> {2}, C |-> {3}, D |-> {}]

-----------------------------------------------------------------------------
(* Shared generators: g is a file that cannot be opened.                   *)

MCLines == [f |-> 2, g |-> 1]
MCCounts == [u |-> 2, v |-> 1]

-----------------------------------------------------------------------------
(* Documents: each generator on each kind of leaf, and generators within   *)
(* generators.                                                             *)

Num(n) == Scalar("int32", n)
Word(s) == Scalar("string", <<s>>)
Bool(b) == Scalar("bool", b)
Text(v) == Scalar("string", v)
Fn(fn, arg) == Map(<<<<fn, arg>>>>)
List(items) == <<"seq", items>>
Doc(node) == Fn("a", node)
Pair(k, v) == <<k, v>>
Leaves == { Num(1), Word("x"), <<"null">>, Scalar("tagged", 2),
  Fn("^Inc", Map(<<<<"start", Num(5)>>, <<"step", Num(2)>>, <<"multiplier", Num(10)>>>>)),
  Fn("^RandomInt", Map(<<<<"min", Num(0)>>, <<"max", Num(1)>>>>)) }
Wrap(n) == {
  Fn("^Cycle", Map(<<<<"ofLength", Num(2)>>, <<"fromGenerator", n>>>>)),
  Fn("^FixedGeneratedValue", Map(<<<<"fromGenerator", n>>>>)),
  Fn("^Repeat", Map(<<<<"count", Num(2)>>, <<"fromGenerator", n>>>>)),
  Fn("^Choose", Map(<<<<"from", List(<<n, Num(7)>>)>>, <<"deterministic", Bool(TRUE)>>>>)),
  Fn("^Choose", Map(<<<<"from", List(<<n, Num(7)>>)>>, <<"weights", List(<<Num(1), Num(2)>>)>>>>)),
  Fn("^Array", Map(<<<<"of", n>>, <<"number", Num(2)>>>>)),
  Fn("^Array", Map(<<<<"of", n>>, <<"number", Num(2)>>, <<"distinct", Bool(TRUE)>>>>)),
  Fn("^Verbatim", List(<<n>>)),
  Fn("^Concat", Map(<<<<"arrays", List(<<List(<<n>>), Fn("^Array", Map(<<<<"of", n>>, <<"number", Num(1)>>>>))>>)>>>>)),
  Fn("^ConvertToInt", Map(<<<<"from", n>>>>)),
  List(<<n, n>>) }
Depth1 == UNION {Wrap(n) : n \in Leaves}
Counter == Fn("^Inc", Map(<<<<"start", Num(5)>>, <<"step", Num(2)>>, <<"multiplier", Num(10)>>>>))
Depth2 == UNION {Wrap(n) : n \in Wrap(Counter)}
RandomBit == Fn("^RandomInt", Map(<<Pair("min", Num(0)), Pair("max", Num(1))>>))
Name(s) == Scalar("string", s)
RandomText == Fn("^RandomString", Map(<<Pair("length", RandomBit), Pair("alphabet", Name({"a", "b"}))>>))
Distributed(fn, name, ps) == Fn(fn, Map(<<Pair("distribution", Name(name))>> \o [i \in DOMAIN ps |-> Pair(ps[i], Num(1))]))
Object(dup) == Fn("^Object", Map(<<Pair("havingKeys", Fn("^RandomString", Map(<<Pair("length", Num(1))>>))), Pair("andValues", Fn("^Inc", Map(<<>>))), Pair("withNEntries", Num(3)), Pair("duplicatedKeys", Name(dup))>>))
Others == {RandomText, Object("skip"), Object("other"), Map(<<Pair("inserts", Object("insert"))>>), Fn("^Object", Map(<<Pair("andValues", Num(1))>>)),
  Fn("^Join", Map(<<Pair("array", List(<<Word("x"), RandomText, Fn("^Choose", Map(<<Pair("from", List(<<Word("u"), Word("v")>>)), Pair("deterministic", Bool(TRUE))>>))>>))>>)),
  Fn("^Join", Map(<<Pair("array", List(<<Word("x"), Word("y")>>)), Pair("sep", Text(<<"-">>))>>)),
  Fn("^Join", Map(<<Pair("array", Word("x"))>>)),
  Fn("^FormatString", Map(<<Pair("format", Text(<<"d">>)), Pair("withArgs", List(<<RandomBit>>))>>)),
  Fn("^FormatString", Map(<<Pair("withArgs", List(<<RandomBit>>))>>)),
  Fn("^ObjectId", Text(<<>>)), Fn("^ObjectId", Word("h")), Fn("^ObjectId", Map(<<Pair("hex", Word("h"))>>)),
  Fn("^UUID", Map(<<Pair("hex", Word("uuid"))>>)), Fn("^UUID", Map(<<Pair("hex", Word("h")), Pair("subType", Num(3))>>)),
  Fn("^RandomDate", Map(<<Pair("min", Num(1))>>)), Fn("^RandomDate", Map(<<Pair("min", Fn("^Inc", Map(<<>>))), Pair("max", Num(3))>>)),
  Fn("^RandomDate", Map(<<Pair("min", Fn("^Now", Map(<<>>)))>>)), Fn("^Date", Scalar("double", 1)),
  Fn("^Date", Fn("^Choose", Map(<<Pair("from", List(<<Scalar("tagged", 2)>>))>>))), Fn("^Date", Word("x")), Fn("^Date", List(<<>>)),
  Fn("^IncDate", Map(<<Pair("start", Num(2))>>)), Fn("^ActorId", Map(<<>>)), Fn("^ActorIdString", Map(<<>>)), Fn("^Null", Map(<<>>)),
  Fn("^NowTimestamp", Map(<<>>)), Fn("^Unknown", Num(1)), Map(<<Pair("^Inc", Num(1)), Pair("b", Num(2))>>),
  Fn("^ChooseFromDataset", Map(<<Pair("path", Name("f")), Pair("sequential", Bool(TRUE)), Pair("startFromLine", Num(1))>>)),
  Fn("^ChooseFromDataset", Map(<<Pair("path", Name("f")), Pair("sequential", Bool(TRUE)), Pair("startFromLine", Num(2))>>)),
  Fn("^ChooseFromDataset", Map(<<Pair("path", Name("f"))>>)), Fn("^ChooseFromDataset", Map(<<Pair("path", Name("empty"))>>)),
  Fn("^ConvertToInt", Map(<<Pair("from", RandomText)>>)), Fn("^ConvertToInt32", Map(<<Pair("from", Fn("^ConvertToInt", Map(<<Pair("from", RandomBit)>>)))>>)),
  Fn("^ConvertToDouble", Map(<<Pair("from", Fn("^RandomDouble", Map(<<Pair("min", Num(0)), Pair("max", Num(1))>>)))>>)),
  Fn("^ConvertToDecimal", Map(<<>>)), Fn("^ConvertToDecimal", Map(<<Pair("from", List(<<>>))>>)),
  Fn("^TwoDWalk", Map([i \in 1..6 |-> Pair(<<"docsPerSeries", "distPerDoc", "minX", "maxX", "minY", "maxY">>[i], Num(<<2, 1, 0, 1, 0, 0>>[i]))])),
  Fn("^TwoDWalk", Map(<<>>)), Fn("^Verbatim", RandomBit)}
  \cup {Distributed("^RandomInt", d, Int64Parameters[d]) : d \in DOMAIN Int64Parameters}
  \cup {Distributed("^RandomDouble", d, Parameters[d]) : d \in DOMAIN Parameters}
  \cup {Distributed("^RandomInt", "poisson", <<>>), Distributed("^RandomInt", "beta", <<"p">>)}
Taken == Map(<<Pair("taken", Fn("^TakeRandomStringFromFrequencyMap", Map(<<Pair("from", Map(<<Pair("u", Num(2)), Pair("v", Num(1))>>))>>)))>>)
Tops == {Taken, Num(1), RandomBit, Fn("^Verbatim", Num(1)), Fn("^Verbatim", Doc(RandomBit))}
MCTemplates == Tops \cup {Doc(n) : n \in Others} \cup {Doc(n) : n \in Leaves \cup Depth1 \cup Depth2}
MCDatasets == [f |-> <<<<"l1">>, <<"l2">>>>, empty |-> <<>>]
-----------------------------------------------------------------------------
(* Workloads: phases with names, ranges, gaps and errors.                  *)

Plain == [null |-> FALSE, range |-> <<>>, nop |-> FALSE, metrics |-> "", limiter |-> "", bad |-> FALSE]
Ranged(i, j) == [Plain EXCEPT !.range = <<i, j>>]
Named == [Plain EXCEPT !.metrics = "m", !.limiter = "l"]
Nop == [Plain EXCEPT !.nop = TRUE, !.limiter = "l"]
Actor(type, threads, phases) == [name |-> "A", type |-> type, threads |-> threads, hasPhases |-> TRUE, phases |-> phases]
NoPhases == [Actor("T", 2, <<>>) EXCEPT !.hasPhases = FALSE]
Workload(actors) == [schema |-> TRUE, format |-> "ftdc", actors |-> actors]
MCWorkloads ==
  { Workload(<<Actor("T", 2, <<Named, Named>>), Actor("U", 2, <<Plain, Nop>>)>>),
    [Workload(<<Actor("T", 1, <<Named, Named>>), Actor("U", 1, <<Ranged(0, 2)>>)>>) EXCEPT !.format = "csv"],
    Workload(<<Actor("T", 2, <<Ranged(2, 2), Ranged(0, 1)>>), Actor("U", 1, <<Ranged(1, 1)>>)>>),
    Workload(<<Actor("T", 2, <<Named, [Plain EXCEPT !.bad = TRUE]>>), Actor("U", 2, <<Named>>)>>),
    Workload(<<Actor("T", 1, <<Plain>>), Actor("X", 1, <<Plain>>), NoPhases>>),
    Workload(<<Actor("T", 1, <<Plain, Ranged(0, 1)>>)>>), Workload(<<Actor("T", 1, <<Plain, Ranged(2, 1)>>)>>),
    Workload(<<Actor("T", 1, <<>>), NoPhases>>), Workload(<<Actor("T", 1, <<>>), Actor("U", 1, <<Plain>>)>>),
    Workload(<<Actor("T", 1, <<[Plain EXCEPT !.null = TRUE]>>)>>),
    [Workload(<<>>) EXCEPT !.schema = FALSE], [Workload(<<>>) EXCEPT !.format = "json"] }
MCCasts == {{<<"T", 1>>, <<"U", 2>>}, {<<"T", 1>>, <<"U", 2>>, <<"T", 3>>}}
MCLimiters == {"l"}

-----------------------------------------------------------------------------
PoolRests == PoolInit /\ dryRun
DocRests == DocInit /\ template = Doc(Num(1))
GenRests == GenInit /\ path = [t \in GenThreads |-> "f"] /\ draw = "u"
WorkloadRests ==
  WorkloadInit /\ workload = Workload(<<Actor("T", 1, <<>>), NoPhases>>) /\ registrations = {<<"T", 1>>, <<"U", 2>>} /\ ~coordinator.up

SetupInit ==
  \/ focus = "pools" /\ PoolInit /\ DocRests /\ GenRests /\ WorkloadRests
  \/ focus = "documents" /\ PoolRests /\ DocInit /\ GenRests /\ WorkloadRests
  \/ focus = "shared" /\ PoolRests /\ DocRests /\ GenInit /\ WorkloadRests
  \/ focus = "workload" /\ PoolRests /\ DocRests /\ GenRests /\ WorkloadInit

BuildPool(t) ==
  focus = "pools" /\ Build(t) /\ UNCHANGED <<focus, docVars, genVars, workloadVars>>

GenerateShared(t) ==
  focus = "shared" /\ Generate(t) /\ UNCHANGED <<focus, poolVars, docVars, workloadVars>>

SetupNext ==
  \/ \E t \in Builders : BuildPool(t)
  \/ \E t \in Builders :
       focus = "pools" /\ PoolThrows(t) /\ UNCHANGED <<focus, docVars, genVars, workloadVars>>
  \/ focus = "documents" /\ DocNext /\ UNCHANGED <<focus, poolVars, genVars, workloadVars>>
  \/ \E t \in GenThreads : GenerateShared(t)
  \/ focus = "workload" /\ WorkloadNext /\ UNCHANGED <<focus, poolVars, docVars, genVars>>

setupAllVars == <<focus, poolVars, docVars, genVars, workloadVars>>

\* A thread that can take a step takes one: the locks are held for a bounded
\* number of steps, and a request ends or throws.
SetupSpec ==
  /\ SetupInit /\ [][SetupNext]_setupAllVars
  /\ \A t \in Builders : WF_setupAllVars(BuildPool(t))

DatasetSpec ==
  /\ focus = "shared" /\ PoolRests /\ DocRests /\ GenInit /\ WorkloadRests
  /\ [][SetupNext]_setupAllVars
  /\ \A t \in GenThreads : WF_setupAllVars(GenerateShared(t))

-----------------------------------------------------------------------------
(* The state of each part has its type.                                    *)
SetupTypeOK == PoolTypeOK /\ DocTypeOK /\ GenTypeOK /\ WorkloadTypeOK
=============================================================================
