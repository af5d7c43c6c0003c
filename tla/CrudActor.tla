------------------------------ MODULE CrudActor ------------------------------
(***************************************************************************)
(* One thread of a CrudActor: the configuration of its phases, the finite  *)
(* state machine that a phase may have, and its operations, each of them a *)
(* doBlock() that reports to the metrics and handles the exceptions of the *)
(* driver.  The collection is a number of documents, all of which match    *)
(* every filter.  Any request may fail, also because of the other threads, *)
(* and one in a transaction then aborts the transaction on the server.     *)
(* What is not an operation_exception of the driver no doBlock() catches.  *)
(***************************************************************************)
EXTENDS Integers, Sequences, FiniteSets

CONSTANTS
  Workloads,          \* the sequences of phases that are run
  MaxVisits,          \* bound: iterations of a phase
  MaxRetries,         \* bound: retries of with_transaction()
  MaxDocs             \* bound: documents in the collection

\* What the YAML of an operation and of a phase says.  The operations of a
\* bulk write are requests, those of a withTransaction may be bulk writes.
Option == {"unset", "true", "false"}
OperationOf(S) ==
  [name : STRING, onSession : Option, throwOnFailure : Option, recordFailure : Option,
   limited : BOOLEAN, inner : Seq(S)]
Request == OperationOf({})
TxnOperation == OperationOf(Request)
Operation == OperationOf(TxnOperation)

Transition == [to : Nat, weight : Nat]
PhaseConfig ==
  [nop : BOOLEAN, database : BOOLEAN, collection : BOOLEAN, collectionCount : BOOLEAN,
   throwOnFailure : Option, recordFailure : Option, continue : Option, skipFirstOperations : Option,
   operations : Seq(Operation),
   states : Seq([operations : Seq(Operation), transitions : Seq(Transition)]),
   initialStates : Seq(Nat)]

ASSUME WorkloadsAssumption == Workloads \subseteq Seq(PhaseConfig)
ASSUME CrudBoundsAssumption == {MaxVisits, MaxRetries, MaxDocs} \subseteq Nat

VARIABLES
  crudPc,
  phases, phase,
  fsm,                \* of each phase: currentState, nextState and skip
  visits, ran,        \* iterations of this phase, and those that ran operations
  lastState,          \* history: where the previous state machine was
  ops,                \* operations still to run in this iteration
  txnOp, txnOps,      \* the withTransaction that is running, and what it has left
  retries,
  session,            \* the state of the session's transaction
  coll, snapshot,     \* documents of the collection, and as the transaction sees them
  started, succeeded, failed, errors, lost

fsmVars == <<phase, fsm, visits, ran, lastState>>
txnVars == <<txnOp, txnOps, retries>>
dataVars == <<session, coll, snapshot>>
crudMetrics == <<started, succeeded, failed, errors, lost>>
crudVars == <<crudPc, phases, fsmVars, ops, txnVars, dataVars, crudMetrics>>

NoOp == [name |-> "none"]
Lesser(a, b) == IF a < b THEN a ELSE b

CrudTypeOK ==
  /\ crudPc \in {"construct", "phase", "iterate", "ops", "txn", "done", "failed", "threw", "invalid"}
  /\ phases \in Workloads /\ phase \in 0..Len(phases)
  /\ \A p \in 1..Len(phases) :
       phases[p].states # <<>> => /\ fsm[p].currentState \in 1..Len(phases[p].states)
                                  /\ fsm[p].nextState \in 1..Len(phases[p].states)
  /\ ran <= visits /\ visits <= MaxVisits
  /\ session \in {"none", "active", "aborted"}
  /\ coll \in 0..MaxDocs /\ snapshot \in 0..MaxDocs
  /\ retries \in 0..MaxRetries

-----------------------------------------------------------------------------
(* The configuration.                                                      *)

TransactionOps == {"startTransaction", "commitTransaction", "withTransaction"}
WriteOps == {"insertOne", "updateOne", "deleteOne", "deleteMany", "replaceOne", "updateMany"}
OpConstructors ==
  TransactionOps \cup WriteOps \cup
  {"bulkWrite", "aggregate", "countDocuments", "estimatedDocumentCount", "createIndex", "find",
   "findOne", "findOneAndUpdate", "findOneAndDelete", "findOneAndReplace", "insertMany",
   "setReadConcern", "drop"}

Given(option, default) == IF option = "unset" THEN default ELSE option = "true"

decodeThrowMode(op, config) ==
  IF Given(op.recordFailure, Given(config.recordFailure, FALSE)) THEN "swallowAndRecord"
  ELSE IF Given(op.throwOnFailure, Given(config.throwOnFailure, TRUE)) THEN "rethrow"
  ELSE "swallow"

OnSession(op) == Given(op.onSession, op.name \in TransactionOps)

\* Fault: what a withTransaction runs is on its session only when it says so.
OnSessionInTxn_Outside(op) == Given(op.onSession, FALSE)

OnSessionInTxn(op) == Given(op.onSession, TRUE)

\* What the constructor of an operation refuses.
InvalidOperation(op, onSession) ==
  \/ op.name \notin OpConstructors
  \/ op.name \in TransactionOps /\ ~onSession
  \/ op.name = "estimatedDocumentCount" /\ onSession
  \/ op.name = "findOne" /\ op.limited
  \/ op.name = "bulkWrite" /\ \E i \in 1..Len(op.inner) : op.inner[i].name \notin WriteOps

InvalidTxnOperation(op) == op.name \in TransactionOps \/ InvalidOperation(op, OnSessionInTxn(op))

InvalidOperations(s) ==
  \E i \in 1..Len(s) :
    \/ InvalidOperation(s[i], OnSession(s[i]))
    \/ s[i].name = "withTransaction" /\ \E j \in 1..Len(s[i].inner) : InvalidTxnOperation(s[i].inner[j])

InvalidCollection(config) == config.collection = config.collectionCount

\* setup() of the state machine.  A transition to no state is an out_of_range.
InvalidStates(config, number) ==
  \/ config.operations # <<>> /\ config.states # <<>>
  \/ /\ config.states # <<>>
     /\ \/ IF Given(config.continue, FALSE) THEN number = 0 ELSE config.initialStates = <<>>
        \/ \E i \in 1..Len(config.states) :
             \/ InvalidOperations(config.states[i].operations)
             \/ \E j \in 1..Len(config.states[i].transitions) :
                  config.states[i].transitions[j].to \notin 1..Len(config.states)

InvalidPhase(config, number) ==
  /\ ~config.nop
  /\ \/ ~config.database
     \/ InvalidCollection(config)
     \/ InvalidStates(config, number)
     \/ /\ config.operations # <<>>
        /\ \/ config.continue # "unset" \/ config.skipFirstOperations # "unset"
           \/ InvalidOperations(config.operations)
     \/ config.operations = <<>> /\ config.states = <<>>

CrudInit ==
  /\ crudPc = "construct"
  /\ phases \in Workloads /\ phase = 0
  /\ fsm = [p \in 1..Len(phases) |-> [currentState |-> 1, nextState |-> 1, skip |-> FALSE]]
  /\ visits = 0 /\ ran = 0 /\ lastState = 0
  /\ ops = <<>> /\ txnOp = NoOp /\ txnOps = <<>> /\ retries = 0
  /\ session = "none" /\ coll = 0 /\ snapshot = 0
  /\ started = 0 /\ succeeded = 0 /\ failed = 0 /\ errors = 0 /\ lost = 0

Construct ==
  /\ crudPc = "construct"
  /\ crudPc' = IF \E p \in 1..Len(phases) : InvalidPhase(phases[p], p - 1) THEN "invalid" ELSE "phase"
  /\ UNCHANGED <<phases, fsmVars, ops, txnVars, dataVars, crudMetrics>>

-----------------------------------------------------------------------------
(* run(), and the state machine.                                           *)

Config == phases[phase]
Machine == fsm[phase]

\* A new session has no transaction; the old one aborts its own.
onNewPhase ==
  /\ crudPc = "phase" /\ phase < Len(phases)
  /\ phase' = phase + 1
  /\ LET c == phases[phase'] IN
     IF c.nop THEN crudPc' = "phase" /\ UNCHANGED fsm
     ELSE /\ crudPc' = "iterate"
          /\ \E n \in (IF c.states = <<>> \/ Given(c.continue, FALSE) THEN {fsm[phase'].currentState}
                       ELSE {i \in 1..Len(c.states) : c.initialStates[i] > 0}) :
               fsm' = [fsm EXCEPT ![phase'] =
                         [@ EXCEPT !.nextState = n,
                                   !.skip = c.states # <<>> /\ Given(c.skipFirstOperations, FALSE)]]
  /\ visits' = 0 /\ ran' = 0
  /\ session' = "none" /\ UNCHANGED <<coll, snapshot>>
  /\ lastState' = IF phase > 0 /\ Config.states # <<>> THEN Machine.currentState ELSE lastState
  /\ UNCHANGED <<phases, ops, txnVars, crudMetrics>>

\* The loop over the phases ends.
LastPhase ==
  /\ crudPc = "phase" /\ phase = Len(phases)
  /\ crudPc' = "done"
  /\ UNCHANGED <<phases, fsmVars, ops, txnVars, dataVars, crudMetrics>>

\* An iteration: its own operation "Crud" starts, then the machine moves.
StartIteration ==
  /\ crudPc = "iterate" /\ visits < MaxVisits
  /\ crudPc' = "ops"
  /\ visits' = visits + 1
  /\ ops' = IF Machine.skip THEN <<>>
            ELSE IF Config.states = <<>> THEN Config.operations
            ELSE Config.states[Machine.nextState].operations
  /\ ran' = IF Machine.skip THEN ran ELSE ran + 1
  /\ fsm' = [fsm EXCEPT ![phase] = [@ EXCEPT !.currentState = Machine.nextState, !.skip = FALSE]]
  /\ started' = started + 1
  /\ UNCHANGED <<phases, phase, lastState, txnVars, dataVars, succeeded, failed, errors, lost>>

\* Fault: every state can be drawn.
pickNext_Any == \E s \in 1..Len(Config.states) : fsm' = [fsm EXCEPT ![phase].nextState = s]

\* Fault: the states are counted from the wrong end.
pickNext_OffByOne ==
  \E i \in 1..Len(Config.states[Machine.currentState].transitions) :
    fsm' = [fsm EXCEPT ![phase].nextState = 1 + Config.states[Machine.currentState].transitions[i].to]

\* What discrete_distribution() can draw.
pickNext ==
  \E i \in 1..Len(Config.states[Machine.currentState].transitions) :
    LET t == Config.states[Machine.currentState].transitions[i] IN
    t.weight > 0 /\ fsm' = [fsm EXCEPT ![phase].nextState = t.to]

\* The transition's delay is slept off before the iteration counts.
EndIteration ==
  /\ crudPc = "ops" /\ ops = <<>>
  /\ crudPc' = "iterate"
  /\ IF Config.states = <<>> THEN UNCHANGED fsm ELSE pickNext
  /\ succeeded' = succeeded + 1
  /\ UNCHANGED <<phases, phase, visits, ran, lastState, ops, txnVars, dataVars, started, failed, errors,
                 lost>>

\* The PhaseLoop has enough of this phase.
EndPhase ==
  /\ crudPc = "iterate"
  /\ crudPc' = "phase"
  /\ UNCHANGED <<phases, fsmVars, ops, txnVars, dataVars, crudMetrics>>

-----------------------------------------------------------------------------
(* What a request does to a collection of c documents (external); the      *)
(* documents and bytes that it adds to its event are left out.             *)

insertOne(c) == c + 1
updateOne(c) == c
updateMany(c) == c
deleteOne(c) == c - Lesser(1, c)
deleteMany(c) == 0
replaceOne(c) == c
drop(c) == 0
findOneAndDelete(c) == c - Lesser(1, c)
findOneAndReplace(c) == c
findOneAndUpdate(c) == c
createIndex(c) == c
countDocuments(c) == c
estimatedDocumentCount(c) == c
find(c) == c
findOne(c) == c
aggregate(c) == c
setReadConcern(c) == c

After(name, c) ==
  CASE name = "insertOne" -> insertOne(c)
    [] name = "updateOne" -> updateOne(c)
    [] name = "updateMany" -> updateMany(c)
    [] name = "deleteOne" -> deleteOne(c)
    [] name = "deleteMany" -> deleteMany(c)
    [] name = "replaceOne" -> replaceOne(c)
    [] name = "drop" -> drop(c)
    [] name = "findOneAndDelete" -> findOneAndDelete(c)
    [] name = "findOneAndReplace" -> findOneAndReplace(c)
    [] name = "findOneAndUpdate" -> findOneAndUpdate(c)
    [] name = "createIndex" -> createIndex(c)
    [] name = "countDocuments" -> countDocuments(c)
    [] name = "estimatedDocumentCount" -> estimatedDocumentCount(c)
    [] name = "find" -> find(c)
    [] name = "findOne" -> findOne(c)
    [] name = "aggregate" -> aggregate(c)
    [] name = "setReadConcern" -> setReadConcern(c)

\* The models of a bulk write, and the documents of insertMany, one by one.
Steps(op) == IF op.name \in {"bulkWrite", "insertMany"} THEN Len(op.inner) ELSE 1
StepName(op, i) ==
  CASE op.name = "bulkWrite" -> op.inner[i].name
    [] op.name = "insertMany" -> "insertOne"
    [] OTHER -> op.name

\* The collection after the first n of them.
AfterSteps(op, n, c) ==
  LET f[i \in 0..n] == IF i = 0 THEN c ELSE After(StepName(op, i), f[i - 1]) IN f[n]

-----------------------------------------------------------------------------
(* doBlock().                                                              *)

Success == succeeded' = succeeded + 1 /\ UNCHANGED <<failed, errors>>

\* Fault: what is recorded as a failure is reported as a success too.
Caught_NoReturn(mode) ==
  CASE mode = "swallow" -> Success
    [] mode = "swallowAndRecord" -> errors' = errors + 1 /\ failed' = failed + 1 /\ succeeded' = succeeded + 1
    [] mode = "rethrow" -> failed' = failed + 1 /\ UNCHANGED <<succeeded, errors>>

\* The catch clause.  A failure that is swallowed counts as a success.
Caught(mode) ==
  CASE mode = "swallow" -> Success
    [] mode = "swallowAndRecord" -> errors' = errors + 1 /\ failed' = failed + 1 /\ UNCHANGED succeeded
    [] mode = "rethrow" -> failed' = failed + 1 /\ UNCHANGED <<succeeded, errors>>

\* A request reads and writes through the session's transaction, or beside it.
InTransaction(onSession) == onSession /\ session = "active"
Documents(onSession) == IF InTransaction(onSession) THEN snapshot ELSE coll
Write(onSession, c) ==
  /\ IF InTransaction(onSession) THEN snapshot' = c /\ UNCHANGED coll
     ELSE coll' = c /\ UNCHANGED snapshot
  /\ UNCHANGED session

Succeeds(op, onSession) ==
  /\ ~(onSession /\ session = "aborted")
  /\ AfterSteps(op, Steps(op), Documents(onSession)) <= MaxDocs
  /\ Write(onSession, AfterSteps(op, Steps(op), Documents(onSession)))

\* A failed write of several documents leaves the first of them; in a
\* transaction nothing, and the transaction is over.
FailsHalfway(op, onSession) ==
  /\ UNCHANGED snapshot
  /\ IF onSession /\ session # "none" THEN UNCHANGED coll
     ELSE \E n \in 0..(Steps(op) - 1) :
            AfterSteps(op, n, coll) <= MaxDocs /\ coll' = AfterSteps(op, n, coll)
Fails(op, onSession) ==
  /\ FailsHalfway(op, onSession)
  /\ session' = IF onSession /\ session # "none" THEN "aborted" ELSE session

\* The contexts that are open: that of the iteration, and of a withTransaction.
Running == (IF crudPc \in {"ops", "txn"} THEN 1 ELSE 0) + (IF crudPc = "txn" THEN 1 ELSE 0)

\* What doBlock() does with an operation_exception of the driver: it is over
\* with the operation, or with the actor and with all that it was doing.
Handled(mode) ==
  /\ Caught(mode) /\ started' = started + 1
  /\ crudPc' = IF mode = "rethrow" THEN "failed" ELSE crudPc
  /\ lost' = IF mode = "rethrow" THEN lost + Running ELSE lost

Completed == Success /\ started' = started + 1 /\ UNCHANGED <<crudPc, lost>>

\* Every other exception ends the actor, and no context is told: it comes from
\* a generator of the operation, before there is a context (own = 0), or out of
\* what doBlock() runs (own = 1).
Ungenerated == TransactionOps \cup {"estimatedDocumentCount", "setReadConcern", "drop"}
Escapes(op, own) ==
  /\ own = 1 \/ op.name \notin Ungenerated
  /\ started' = started + own /\ lost' = lost + Running + own
  /\ crudPc' = "threw"
  /\ UNCHANGED <<succeeded, failed, errors>>

\* An operation of the phase or of the state.
Plain(op) == op.name \notin TransactionOps \cup {"none"}

RunOperation ==
  /\ crudPc = "ops" /\ ops # <<>> /\ Plain(Head(ops))
  /\ LET op == Head(ops) IN
     \/ Succeeds(op, OnSession(op)) /\ Completed
     \/ Fails(op, OnSession(op)) /\ Handled(decodeThrowMode(op, Config))
     \/ Escapes(op, 0) /\ UNCHANGED dataVars
     \/ Escapes(op, 1) /\ (Succeeds(op, OnSession(op)) \/ Fails(op, OnSession(op)))
  /\ ops' = Tail(ops)
  /\ UNCHANGED <<phases, fsmVars, txnVars>>

\* startTransaction fails in a transaction; commitTransaction fails without
\* one.  A commit that fails leaves no transaction behind.
RunTransactionOperation ==
  /\ crudPc = "ops" /\ ops # <<>> /\ Head(ops).name \in {"startTransaction", "commitTransaction"}
  /\ LET op == Head(ops) starts == op.name = "startTransaction" IN
     \/ /\ starts /\ session = "none" /\ Completed
        /\ session' = "active" /\ snapshot' = coll /\ UNCHANGED coll
     \/ /\ ~starts /\ session = "active" /\ Completed
        /\ session' = "none" /\ coll' = snapshot /\ UNCHANGED snapshot
     \/ /\ ~starts \/ session # "none"
        /\ Handled(decodeThrowMode(op, Config))
        /\ session' = IF starts THEN session ELSE "none"
        /\ UNCHANGED <<coll, snapshot>>
     \/ Escapes(op, 1) /\ UNCHANGED dataVars
  /\ ops' = Tail(ops)
  /\ UNCHANGED <<phases, fsmVars, txnVars>>

-----------------------------------------------------------------------------
(* withTransaction: the driver's with_transaction() calls run_txn_ops().   *)

WithTransaction ==
  /\ crudPc = "ops" /\ ops # <<>> /\ Head(ops).name = "withTransaction" /\ session = "none"
  /\ crudPc' = "txn"
  /\ txnOp' = Head(ops) /\ txnOps' = Head(ops).inner /\ retries' = 0
  /\ ops' = Tail(ops)
  /\ session' = "active" /\ snapshot' = coll /\ UNCHANGED coll
  /\ started' = started + 1
  /\ UNCHANGED <<phases, fsmVars, succeeded, failed, errors, lost>>

\* with_transaction() cannot start one in the transaction of a startTransaction.
WithTransactionFails ==
  /\ crudPc = "ops" /\ ops # <<>> /\ Head(ops).name = "withTransaction" /\ session # "none"
  /\ Handled(decodeThrowMode(Head(ops), Config))
  /\ ops' = Tail(ops)
  /\ UNCHANGED <<phases, fsmVars, txnVars, dataVars>>

\* An operation of the transaction.  What it rethrows is a MongoException,
\* which the driver does not retry and the outer doBlock() does not catch:
\* the transaction is aborted, and the operations around it are never
\* reported.  So it is with the other exceptions.
RunTxnOperation ==
  /\ crudPc = "txn" /\ txnOps # <<>>
  /\ LET op == Head(txnOps) mode == decodeThrowMode(op, Config) IN
     \/ Succeeds(op, OnSessionInTxn(op)) /\ Completed
     \/ mode # "rethrow" /\ Fails(op, OnSessionInTxn(op)) /\ Handled(mode)
     \/ /\ session' = "none"
        /\ \/ mode = "rethrow" /\ FailsHalfway(op, OnSessionInTxn(op)) /\ Handled(mode)
           \/ Escapes(op, 0) /\ UNCHANGED <<coll, snapshot>>
           \/ Escapes(op, 1) /\ FailsHalfway(op, OnSessionInTxn(op))
  /\ txnOps' = Tail(txnOps)
  /\ UNCHANGED <<phases, fsmVars, ops, txnOp, retries>>

EndTransaction ==
  crudPc' = "ops" /\ txnOp' = NoOp /\ UNCHANGED <<txnOps, retries>> /\ session' = "none"

Commit ==
  /\ crudPc = "txn" /\ txnOps = <<>> /\ session = "active"
  /\ EndTransaction /\ Success
  /\ coll' = snapshot /\ UNCHANGED <<snapshot, lost, started>>
  /\ UNCHANGED <<phases, fsmVars, ops>>

\* The commit fails with a transient error: run_txn_ops() runs again.
Retry ==
  /\ crudPc = "txn" /\ txnOps = <<>> /\ retries < MaxRetries
  /\ retries' = retries + 1 /\ txnOps' = txnOp.inner
  /\ session' = "active" /\ snapshot' = coll
  /\ UNCHANGED <<crudPc, phases, fsmVars, ops, txnOp, coll, crudMetrics>>

\* It fails for good.
CommitFails ==
  /\ crudPc = "txn" /\ txnOps = <<>>
  /\ LET mode == decodeThrowMode(txnOp, Config) IN
     /\ Caught(mode)
     /\ IF mode = "rethrow"
        THEN crudPc' = "failed" /\ lost' = lost + 1 /\ session' = "none" /\ UNCHANGED txnVars
        ELSE EndTransaction /\ UNCHANGED lost
  /\ UNCHANGED <<phases, fsmVars, ops, coll, snapshot, started>>

-----------------------------------------------------------------------------
CrudStep ==
  \/ Construct \/ onNewPhase \/ LastPhase \/ StartIteration \/ EndIteration \/ EndPhase
  \/ RunOperation \/ RunTransactionOperation
  \/ WithTransaction \/ WithTransactionFails \/ RunTxnOperation \/ Commit \/ Retry \/ CommitFails

CrudOver == crudPc \in {"done", "failed", "threw", "invalid"} /\ UNCHANGED crudVars
CrudNext == CrudStep \/ CrudOver

CrudSpec == CrudInit /\ [][CrudNext]_crudVars

-----------------------------------------------------------------------------
(* Properties.                                                             *)

\* Every operation that was started is reported once, as a success or as a
\* failure, except those that the exception ending the actor passes by: a
\* context is lost exactly when the actor has ended so.  Every failure is a
\* recorded error, but for the one that a MongoException ended the actor with.
OperationsAccounted ==
  /\ started = succeeded + failed + lost + Running
  /\ failed = errors + (IF crudPc = "failed" THEN 1 ELSE 0)
  /\ lost # 0 <=> crudPc \in {"failed", "threw"}

\* The operations of a state are skipped in the first iteration of a phase
\* that says so, and in no other iteration.
SkipsOnlyFirst ==
  crudPc = "iterate" =>
    visits - ran = IF Given(Config.skipFirstOperations, FALSE) THEN Lesser(1, visits) ELSE 0

\* An iteration runs its operations, and each of them is reported once.
ReportedOnce == OperationsAccounted /\ SkipsOnlyFirst

\* The states that the graph of a phase leads to: the least set with those it
\* may start in that the transitions of positive weight do not leave.
StartStates(c) ==
  IF Given(c.continue, FALSE) THEN {1} ELSE {i \in 1..Len(c.states) : c.initialStates[i] > 0}
ClosedUnderTransitions(c, S) ==
  \A s \in S : \A i \in 1..Len(c.states[s].transitions) :
    c.states[s].transitions[i].weight > 0 => c.states[s].transitions[i].to \in S
Reachable(c) ==
  {s \in 1..Len(c.states) :
     \A S \in SUBSET (1..Len(c.states)) : StartStates(c) \subseteq S /\ ClosedUnderTransitions(c, S) => s \in S}

\* A state that no weight leads to is never entered: the machine of a phase
\* waits, and runs operations, only in states that its graph can reach from an
\* initial state (with Continue, from its first one), however many iterations
\* and phases went before.
OnlyReachableStates ==
  (crudPc \in {"iterate", "ops", "txn"} /\ Config.states # <<>>) =>
    /\ Machine.nextState \in Reachable(Config)
    /\ visits > 0 => Machine.currentState \in Reachable(Config)

\* What the operations of a withTransaction do, one after the other, to a
\* collection of c documents.
AfterOperations(s, n, c) ==
  LET f[i \in 0..n] == IF i = 0 THEN c ELSE AfterSteps(s[i], Steps(s[i]), f[i - 1]) IN f[n]

\* Nothing of a withTransaction is seen outside of it, or all of it at once:
\* unless one of its operations says OnSession: false, the collection changes
\* only by all of them, in order, though any of them may fail and be swallowed
\* and the whole be retried.
WholeTransactions ==
  [][ (crudPc = "txn" /\ coll' # coll /\ \A i \in 1..Len(txnOp.inner) : txnOp.inner[i].onSession # "false") =>
      coll' = AfterOperations(txnOp.inner, Len(txnOp.inner), coll) ]_crudVars

\* "The second phase continues from that state": a phase with Continue starts
\* in the state that the machine of the previous phase was in.
ContinuesFromPreviousPhase ==
  (crudPc = "iterate" /\ visits = 0 /\ lastState # 0 /\ Given(Config.continue, FALSE)) =>
    Machine.nextState = lastState
=============================================================================
