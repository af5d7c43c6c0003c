--------------------------- MODULE OperationActors ---------------------------
(***************************************************************************)
(* The run() methods of the actors that do one thing in each iteration of  *)
(* a phase.  Workers are threads of these actors; kind[w] is a worker's     *)
(* actor and its configuration.  A metrics context is started, and then    *)
(* closed by success(), failure() or discard(), or lost when its scope is   *)
(* left.  Every request to a server may fail with an exception.            *)
(*                                                                         *)
(* The servers: documents in a collection, the two accounts of             *)
(* CommitLatency under snapshot isolation, the shard of each chunk, the     *)
(* messages a stream processor has read, files of scripts.                 *)
(***************************************************************************)
EXTENDS Integers, FiniteSets, Sequences

CONSTANTS
  Workers,
  Companies,          \* functions from Workers to kinds
  Shards, Chunks,
  MaxIterations       \* bound: iterations of a worker

ASSUME ActorsAssumption == MaxIterations \in Nat

VARIABLES
  kind, at, iteration,
  metrics,            \* per worker: open contexts, and how the others ended
  mem,                \* per worker: what it has read or drawn
  docs, claimed,      \* documents in the collection; inserted less deleted, as all have reported
  own,                \* workers whose own document is in the collection
  accounts, txn, errors,
  shardOf,
  messages, polled,   \* of the stream processor; as reported
  files,              \* workers whose script is on disk
  helloCounter

server == <<docs, own, accounts, txn, shardOf, messages, files, helloCounter>>
reported == <<claimed, errors, polled>>
actorVars == <<kind, at, iteration, metrics, mem, server, reported>>

NoMetrics == [open |-> 0, success |-> 0, failure |-> 0, discard |-> 0, unknown |-> 0, lost |-> 0]
NoTxn == [on |-> FALSE, base |-> <<0, 0>>, delta |-> <<0, 0>>]
InitialBalance == 100

ActorsTypeOK ==
  /\ kind \in Companies
  /\ iteration \in [Workers -> 0..MaxIterations]
  /\ \A w \in Workers : metrics[w].open \in 0..1 /\ txn[w].on \in BOOLEAN
  /\ docs \in Nat /\ own \subseteq Workers /\ files \subseteq Workers
  /\ accounts \in Int \X Int /\ shardOf \in [Chunks -> Shards]
  /\ claimed \in Int /\ errors \in [Workers -> Nat]

ActorsInit ==
  /\ kind \in Companies
  /\ at = [w \in Workers |-> "top"] /\ iteration = [w \in Workers |-> 0]
  /\ metrics = [w \in Workers |-> NoMetrics]
  /\ mem = [w \in Workers |-> 0]
  /\ docs = 1 /\ claimed = 0 /\ own = {}
  /\ accounts = <<InitialBalance, InitialBalance>>
  /\ txn = [w \in Workers |-> NoTxn] /\ errors = [w \in Workers |-> 0]
  /\ shardOf \in [Chunks -> Shards]
  /\ messages = 0 /\ polled = [w \in Workers |-> 0]
  /\ files = {} /\ helloCounter = 0

-----------------------------------------------------------------------------
(* Metrics contexts (OperationContextT).                                   *)

start(m) == [m EXCEPT !.open = @ + 1]
Close(m, outcome) == [m EXCEPT !.open = @ - 1, ![outcome] = @ + 1]

\* Operation::report(): an operation without a context, of unknown outcome.
report(m) == [m EXCEPT !.unknown = @ + 1]

\* The destructor of a context that is not closed.
LeaveScope(m) == [m EXCEPT !.open = 0, !.lost = @ + m.open]

Is(w, actor, from) == kind[w].actor = actor /\ at[w] = from
Goto(w, to) == at' = [at EXCEPT ![w] = to] /\ UNCHANGED <<kind, iteration>>
Measure(w, m) == metrics' = [metrics EXCEPT ![w] = m]

\* The next iteration of the phase.
Begin(w, actor, to) ==
  /\ Is(w, actor, "top") /\ iteration[w] < MaxIterations
  /\ at' = [at EXCEPT ![w] = to] /\ iteration' = [iteration EXCEPT ![w] = @ + 1]
  /\ Measure(w, start(metrics[w]))
  /\ UNCHANGED <<kind, server, reported>>

\* The end of an iteration, or of the operation.
Finish(w, outcome) == Goto(w, "top") /\ Measure(w, LeaveScope(Close(metrics[w], outcome)))

\* An exception that nobody catches ends the actor.
Dies(w, m) == Goto(w, "dead") /\ Measure(w, LeaveScope(m))

-----------------------------------------------------------------------------
(* RunCommand and AdminCommand.                                            *)

\* shouldRun() is evaluated once, when the phase begins.
StartCommand(w) ==
  /\ kind[w].actor = "RunCommand" => kind[w].shouldRun
  /\ Begin(w, "RunCommand", "command")
  /\ UNCHANGED mem

\* What run_command does, alone or in runThenAwaitStepdown: an
\* operation_exception becomes a MongoException; a stepdown that does not cut
\* the connection is a logic_error.
CommandOutcomes(w) ==
  IF kind[w].awaitStepdown THEN {"ok", "MongoException", "logic_error"} ELSE {"ok", "MongoException"}

\* Fault: the exception is rethrown before the failure is reported.
Command_NoFailure(w) ==
  /\ Is(w, "RunCommand", "command")
  /\ \E outcome \in CommandOutcomes(w) :
       IF outcome = "ok" THEN Finish(w, IF kind[w].reportMetrics THEN "success" ELSE "discard")
       ELSE IF outcome = "logic_error" \/ kind[w].throwOnFailure THEN Dies(w, metrics[w])
       ELSE Goto(w, "top") /\ Measure(w, LeaveScope(metrics[w]))
  /\ UNCHANGED <<mem, server, reported>>

\* catch (...) reports the failure; run() then catches boost::exception, which
\* a logic_error is not.
Command(w) ==
  /\ Is(w, "RunCommand", "command")
  /\ \E outcome \in CommandOutcomes(w) :
       IF outcome = "ok" THEN Finish(w, IF kind[w].reportMetrics THEN "success" ELSE "discard")
       ELSE IF outcome = "logic_error" \/ kind[w].throwOnFailure
       THEN Dies(w, Close(metrics[w], "failure"))
       ELSE Finish(w, "failure")
  /\ UNCHANGED <<mem, server, reported>>

-----------------------------------------------------------------------------
(* AssertiveActor.  Two commands run one after the other.                  *)

StartAssert(w) == Begin(w, "AssertiveActor", "expected") /\ mem' = [mem EXCEPT ![w] = docs]

RunExpected(w) ==
  /\ Is(w, "AssertiveActor", "expected") /\ Goto(w, "actual")
  /\ mem' = [mem EXCEPT ![w] = docs]
  /\ UNCHANGED <<metrics, server, reported>>

RunActual(w) ==
  /\ Is(w, "AssertiveActor", "actual")
  /\ IF mem[w] = docs THEN Finish(w, "success") ELSE Dies(w, Close(metrics[w], "failure"))
  /\ UNCHANGED <<mem, server, reported>>

-----------------------------------------------------------------------------
(* Insert, Deleter, InsertRemove, MultiCollectionUpdate and -Query.         *)

StartInsert(w) == Begin(w, "Insert", "insert") /\ UNCHANGED mem

insert_one(w) ==
  /\ Is(w, "Insert", "insert") /\ Goto(w, "inserted")
  /\ docs' = docs + 1
  /\ UNCHANGED <<metrics, mem, own, accounts, txn, shardOf, messages, files, helloCounter, reported>>

ReportInsert(w) ==
  /\ Is(w, "Insert", "inserted") /\ Finish(w, "success")
  /\ claimed' = claimed + 1
  /\ UNCHANGED <<mem, server, errors, polled>>

StartDelete(w) == Begin(w, "Deleter", "delete") /\ UNCHANGED mem

find_one_and_delete(w) ==
  /\ Is(w, "Deleter", "delete") /\ Goto(w, "deleted")
  /\ mem' = [mem EXCEPT ![w] = IF docs > 0 THEN 1 ELSE 0]
  /\ docs' = IF docs > 0 THEN docs - 1 ELSE docs
  /\ UNCHANGED <<metrics, own, accounts, txn, shardOf, messages, files, helloCounter, reported>>

ReportDelete(w) ==
  /\ Is(w, "Deleter", "deleted")
  /\ Finish(w, IF mem[w] = 1 THEN "success" ELSE "failure")
  /\ claimed' = claimed - mem[w]
  /\ UNCHANGED <<mem, server, errors, polled>>

StartInsertRemove(w) == Begin(w, "InsertRemove", "insertOwn") /\ UNCHANGED mem

\* The document's _id is the id of the actor.  A duplicate is an exception.
InsertOwn(w) ==
  /\ Is(w, "InsertRemove", "insertOwn") /\ w \notin own
  /\ Goto(w, "removeOwn") /\ Measure(w, start(Close(metrics[w], "success")))
  /\ own' = own \cup {w}
  /\ UNCHANGED <<mem, docs, accounts, txn, shardOf, messages, files, helloCounter, reported>>

RemoveOwn(w) ==
  /\ Is(w, "InsertRemove", "removeOwn") /\ Finish(w, "success")
  /\ own' = own \ {w}
  /\ UNCHANGED <<mem, docs, accounts, txn, shardOf, messages, files, helloCounter, reported>>

\* The collection is drawn from 0 .. CollectionCount - 1 for an update and
\* from 0 .. CollectionCount for a query, which then may find nothing.
StartMulti(w) ==
  /\ Begin(w, "MultiCollection", "collection")
  /\ \E n \in 0..(IF kind[w].query THEN kind[w].count ELSE kind[w].count - 1) : mem' = [mem EXCEPT ![w] = n]

Multi(w) ==
  /\ Is(w, "MultiCollection", "collection") /\ Finish(w, "success")
  /\ UNCHANGED <<mem, server, reported>>

-----------------------------------------------------------------------------
(* CommitLatency.  In a transaction the first read takes the snapshot, and  *)
(* a write conflicts with a change since; nothing retries.                 *)

StartTransfer(w) ==
  /\ Begin(w, "CommitLatency", "find1")
  /\ \E amount \in {-1, 1} : mem' = [mem EXCEPT ![w] = amount]

\* start_transaction and find_one.  Without a session the null _session is
\* dereferenced.
find1(w) ==
  /\ Is(w, "CommitLatency", "find1")
  /\ Goto(w, IF kind[w].useSession \/ kind[w].useTransaction THEN "update1" ELSE "undefined")
  /\ txn' = [txn EXCEPT ![w] = IF kind[w].useTransaction
                               THEN [on |-> TRUE, base |-> accounts, delta |-> <<0, 0>>] ELSE NoTxn]
  /\ UNCHANGED <<metrics, mem, docs, own, accounts, shardOf, messages, files, helloCounter, reported>>

Conflict(w, a) ==
  \/ accounts[a] # txn[w].base[a]
  \/ \E v \in Workers \ {w} : txn[v].on /\ txn[v].delta[a] # 0

update(w, a, from, to, amount) ==
  /\ Is(w, "CommitLatency", from)
  /\ IF txn[w].on
     THEN /\ ~Conflict(w, a)
          /\ txn' = [txn EXCEPT ![w].delta[a] = amount] /\ UNCHANGED accounts
     ELSE accounts' = [accounts EXCEPT ![a] = @ + amount] /\ UNCHANGED txn
  /\ Goto(w, to)
  /\ UNCHANGED <<metrics, mem, docs, own, shardOf, messages, files, helloCounter, reported>>

update1(w) == update(w, 1, "update1", "update2", -mem[w])

\* Fault: the second update is not given the session.
update2_NoSession(w) ==
  /\ Is(w, "CommitLatency", "update2") /\ Goto(w, "aggregate")
  /\ accounts' = [accounts EXCEPT ![2] = @ + mem[w]]
  /\ UNCHANGED <<metrics, mem, docs, own, txn, shardOf, messages, files, helloCounter, reported>>

update2(w) == update(w, 2, "update2", "aggregate", mem[w])

Total(w) ==
  LET seen == IF txn[w].on THEN txn[w].base ELSE accounts
  IN seen[1] + seen[2] + txn[w].delta[1] + txn[w].delta[2]

aggregate(w) ==
  /\ Is(w, "CommitLatency", "aggregate") /\ Goto(w, "commit")
  /\ errors' = [errors EXCEPT ![w] = IF Total(w) # 2 * InitialBalance THEN @ + 1 ELSE @]
  /\ UNCHANGED <<metrics, mem, server, claimed, polled>>

commit_transaction(w) ==
  /\ Is(w, "CommitLatency", "commit") /\ Finish(w, "success")
  /\ accounts' = [a \in 1..2 |-> accounts[a] + txn[w].delta[a]]
  /\ txn' = [txn EXCEPT ![w] = NoTxn]
  /\ UNCHANGED <<mem, docs, own, shardOf, messages, files, helloCounter, reported>>

-----------------------------------------------------------------------------
(* MoveRandomChunkToRandomShard: no metrics.  Another one may move the chunk *)
(* between the reads and the command.                                      *)

ChooseChunk(w) ==
  /\ Is(w, "MoveRandomChunk", "top") /\ iteration[w] < MaxIterations
  /\ at' = [at EXCEPT ![w] = "shard"] /\ iteration' = [iteration EXCEPT ![w] = @ + 1]
  /\ \E c \in Chunks : mem' = [mem EXCEPT ![w] = [chunk |-> c, from |-> shardOf[c], to |-> shardOf[c]]]
  /\ UNCHANGED <<kind, metrics, server, reported>>

ChooseShard(w) ==
  /\ Is(w, "MoveRandomChunk", "shard") /\ Goto(w, "move")
  /\ \E s \in Shards \ {mem[w].from} : mem' = [mem EXCEPT ![w].to = s]
  /\ UNCHANGED <<metrics, server, reported>>

moveChunk(w) ==
  /\ Is(w, "MoveRandomChunk", "move") /\ Goto(w, "top")
  /\ shardOf' = [shardOf EXCEPT ![mem[w].chunk] = mem[w].to]
  /\ UNCHANGED <<metrics, mem, docs, own, accounts, txn, messages, files, helloCounter, reported>>

-----------------------------------------------------------------------------
(* StreamStatsReporter: polls until the count is there, or a driver error. *)

\* continueRunning() is false after an abort, which may come before the first
\* poll or while the actor sleeps.
StartThroughput(w) ==
  /\ \E to \in {"poll", "aborted"} : Begin(w, "StreamStats", to)
  /\ mem' = [mem EXCEPT ![w] = 0]

Poll(w) ==
  /\ Is(w, "StreamStats", "poll")
  /\ mem' = [mem EXCEPT ![w] = messages]
  /\ Goto(w, IF messages >= kind[w].expected THEN "throughput" ELSE "sleep")
  /\ UNCHANGED <<metrics, server, reported>>

WakeToPoll(w) ==
  /\ Is(w, "StreamStats", "sleep") /\ \E to \in {"poll", "aborted"} : Goto(w, to)
  /\ UNCHANGED <<metrics, mem, server, reported>>

ReportThroughput(w) ==
  /\ kind[w].actor = "StreamStats" /\ at[w] \in {"throughput", "aborted"}
  /\ Goto(w, IF at[w] = "aborted" THEN "dead" ELSE "top")
  /\ Measure(w, Close(metrics[w], "success"))
  /\ polled' = [polled EXCEPT ![w] = mem[w]]
  /\ UNCHANGED <<mem, server, claimed, errors>>

StreamReads ==
  /\ \E w \in Workers : kind[w].actor = "StreamStats" /\ messages < kind[w].expected
  /\ messages' = messages + 1
  /\ UNCHANGED <<kind, at, iteration, metrics, mem, docs, own, accounts, txn, shardOf, files, helloCounter, reported>>

-----------------------------------------------------------------------------
(* ExternalScriptRunner and Python, HelloWorld, NopMetrics, RandomSampler.  *)

WriteScript(w) ==
  /\ Is(w, "ExternalScript", "top") /\ iteration[w] < MaxIterations
  /\ at' = [at EXCEPT ![w] = "exec"] /\ iteration' = [iteration EXCEPT ![w] = @ + 1]
  /\ Measure(w, start(metrics[w]))
  /\ files' = IF kind[w].python THEN files ELSE files \cup {w}
  /\ UNCHANGED <<kind, mem, docs, own, accounts, txn, shardOf, messages, helloCounter, reported>>

\* An exit code other than 0 is an exception; a number is reported as one
\* more operation; any other output is ignored.  The file goes with its object.
exec(w) ==
  /\ Is(w, "ExternalScript", "exec")
  /\ \E outcome \in {"failed", "number", "text"} :
       IF outcome = "failed" THEN Dies(w, metrics[w])
       ELSE /\ Goto(w, "top")
            /\ Measure(w, LET closing == Close(metrics[w], "success")
                          IN IF outcome = "number" THEN report(closing) ELSE closing)
  /\ files' = files \ {w}
  /\ UNCHANGED <<mem, docs, own, accounts, txn, shardOf, messages, helloCounter, reported>>

StartHello(w) == Begin(w, "HelloWorld", "hello") /\ UNCHANGED mem

\* The counter is one atomic for all the threads.
Hello(w) ==
  /\ Is(w, "HelloWorld", "hello") /\ Goto(w, "greeted")
  /\ helloCounter' = helloCounter + 1
  /\ UNCHANGED <<metrics, mem, docs, own, accounts, txn, shardOf, messages, files, reported>>

ReportHello(w) ==
  /\ Is(w, "HelloWorld", "greeted") /\ Goto(w, "number")
  /\ Measure(w, Close(metrics[w], "success"))
  /\ UNCHANGED <<mem, server, reported>>

\* The counter is read again: it may be another's greeting that is reported.
ReportNumber(w) ==
  /\ Is(w, "HelloWorld", "number") /\ Goto(w, "top")
  /\ mem' = [mem EXCEPT ![w] = helloCounter]
  /\ Measure(w, report(metrics[w]))
  /\ UNCHANGED <<server, reported>>

\* The context of an iteration is closed by the next one.
NopIteration(w) ==
  /\ Is(w, "NopMetrics", "top") /\ iteration[w] < MaxIterations
  /\ Measure(w, start(IF metrics[w].open = 1 THEN Close(metrics[w], "success") ELSE metrics[w]))
  /\ iteration' = [iteration EXCEPT ![w] = @ + 1]
  /\ UNCHANGED <<kind, at, mem, server, reported>>

NopPhaseEnds(w) ==
  /\ Is(w, "NopMetrics", "top") /\ iteration[w] = MaxIterations /\ metrics[w].open = 1
  /\ Goto(w, "ended") /\ Measure(w, Close(metrics[w], "success"))
  /\ UNCHANGED <<mem, server, reported>>

StartSample(w) == Begin(w, "RandomSampler", "sample") /\ UNCHANGED mem

\* A document that is not there is a domain_error.
Sample(w) ==
  /\ Is(w, "RandomSampler", "sample")
  /\ IF docs > 0 THEN Finish(w, "success") ELSE Dies(w, metrics[w])
  /\ UNCHANGED <<mem, server, reported>>

-----------------------------------------------------------------------------
\* Where a request is under way that no handler of the actor guards.  The
\* session goes with the actor, and with it its transaction.
RequestFails(w) ==
  /\ at[w] \in {"expected", "actual", "insert", "delete", "insertOwn", "removeOwn", "collection", "find1",
                "update1", "update2", "aggregate", "commit", "shard", "move", "poll", "sample"}
  /\ Dies(w, metrics[w])
  /\ txn' = [txn EXCEPT ![w] = NoTxn]
  /\ UNCHANGED <<mem, docs, own, accounts, shardOf, messages, files, helloCounter, reported>>

Worker(w) ==
  \/ StartCommand(w) \/ Command(w) \/ StartAssert(w) \/ RunExpected(w) \/ RunActual(w)
  \/ StartInsert(w) \/ insert_one(w) \/ ReportInsert(w)
  \/ StartDelete(w) \/ find_one_and_delete(w) \/ ReportDelete(w)
  \/ StartInsertRemove(w) \/ InsertOwn(w) \/ RemoveOwn(w) \/ StartMulti(w) \/ Multi(w)
  \/ StartTransfer(w) \/ find1(w) \/ update1(w) \/ update2(w) \/ aggregate(w) \/ commit_transaction(w)
  \/ ChooseChunk(w) \/ ChooseShard(w) \/ moveChunk(w)
  \/ StartThroughput(w) \/ Poll(w) \/ WakeToPoll(w) \/ ReportThroughput(w)
  \/ WriteScript(w) \/ exec(w) \/ StartHello(w) \/ Hello(w) \/ ReportHello(w) \/ ReportNumber(w)
  \/ NopIteration(w) \/ NopPhaseEnds(w) \/ StartSample(w) \/ Sample(w)
  \/ RequestFails(w)

ActorsNext == StreamReads \/ \E w \in Workers : Worker(w)

ActorsSpec == ActorsInit /\ [][ActorsNext]_actorVars

-----------------------------------------------------------------------------
(* Properties.                                                             *)

\* "did not close with success() or failure()": a context is lost only with
\* the actor it belongs to, and none is open between two iterations, except
\* that of NopMetrics.
NothingLost ==
  \A w \in Workers :
    /\ metrics[w].lost > 0 => at[w] = "dead"
    /\ at[w] = "top" /\ kind[w].actor # "NopMetrics" => metrics[w].open = 0

\* The documents that the metrics claim are those that came and went, over
\* all the threads, once each has reported.
DocumentsAccounted ==
  (\A w \in Workers : at[w] = "top") => docs = 1 + claimed /\ own = {}

\* CommitLatency in transactions counts no error, whoever else transfers; and
\* a transfer is done in both accounts or in none, though its thread fails.
TransactionsIsolated ==
  (\A w \in Workers : kind[w].actor = "CommitLatency" /\ kind[w].useTransaction) =>
    /\ \A w \in Workers : errors[w] = 0
    /\ accounts[1] + accounts[2] = 2 * InitialBalance

\* A reported throughput reaches the expected count, unless the run was aborted.
ThroughputReached ==
  \A w \in Workers : kind[w].actor = "StreamStats" /\ at[w] = "top" /\ metrics[w].success > 0 =>
                        polled[w] >= kind[w].expected

\* The greetings a thread has counted: those it has reported, and the one it is at.
Greeted(w) == metrics[w].success + (IF at[w] = "greeted" THEN 1 ELSE 0)
Greetings == UNION {{w} \X (1..Greeted(w)) : w \in Workers}

\* Whatever the interleaving, the counter that the threads of HelloWorld share is
\* the number of their greetings, each of which is reported as a success and,
\* after it, with a number; and no script is left behind.
SharedStateKept ==
  /\ \A w \in files : at[w] = "exec"
  /\ (\A w \in Workers : kind[w].actor = "HelloWorld") =>
       /\ Cardinality(Greetings) = helloCounter
       /\ \A w \in Workers : metrics[w].success = metrics[w].unknown + (IF at[w] = "number" THEN 1 ELSE 0)

\* What the actors report is what happened, over all the threads: no operation
\* is lost, and the documents, messages and greetings add up.
MetricsAreTrue == NothingLost /\ DocumentsAccounted /\ ThroughputReached /\ SharedStateKept
=============================================================================
