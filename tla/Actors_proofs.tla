----------------------------- MODULE Actors_proofs -----------------------------
(***************************************************************************)
(* What the actors that share state promise one another, for every number  *)
(* of threads: each family on its own, under its own specification.        *)
(***************************************************************************)
EXTENDS RollingCollections, Loaders, OperationActors, Numbers_proofs, FiniteSetTheorems

-----------------------------------------------------------------------------
(* The transfers of CommitLatency.                                         *)

AllTransfer == \A w \in Workers : kind[w].actor = "CommitLatency" /\ kind[w].useTransaction

\* What a worker has changed in its transaction so far.
DeltaAt(w) ==
  /\ at[w] = "update1" => txn[w].delta[1] = 0 /\ txn[w].delta[2] = 0
  /\ at[w] = "update2" => txn[w].delta[1] = -mem[w] /\ txn[w].delta[2] = 0
  /\ at[w] \in {"aggregate", "commit"} => txn[w].delta[1] = -mem[w] /\ txn[w].delta[2] = mem[w]

\* From its first read to its commit a worker is in a transaction, whose
\* snapshot has the sum of the accounts, and its changes cancel out once both
\* are made.
TransferOK(w) ==
  /\ mem[w] \in Int
  /\ DOMAIN txn[w] = {"on", "base", "delta"}
  /\ DOMAIN txn[w].delta = 1..2
  /\ at[w] \in {"update1", "update2", "aggregate", "commit"} =>
       /\ txn[w].on
       /\ txn[w].base[1] \in Int /\ txn[w].base[2] \in Int
       /\ txn[w].base[1] + txn[w].base[2] = 2 * InitialBalance
  /\ DeltaAt(w)

TransferInv ==
  /\ DOMAIN at = Workers /\ DOMAIN mem = Workers /\ DOMAIN txn = Workers /\ DOMAIN errors = Workers
  /\ \A w \in Workers : errors[w] = 0
  /\ DOMAIN accounts = 1..2 /\ accounts[1] \in Int /\ accounts[2] \in Int
  /\ accounts[1] + accounts[2] = 2 * InitialBalance
  /\ \A w \in Workers : TransferOK(w)

LEMMA TransferInit == ActorsInit => TransferInv
  BY DEF ActorsInit, TransferInv, TransferOK, DeltaAt, NoTxn, InitialBalance

\* A worker that takes a step leaves the others' transactions alone.
LEMMA OneTransfer ==
  ASSUME TransferInv, NEW w \in Workers,
         DOMAIN at' = Workers, DOMAIN mem' = Workers, DOMAIN txn' = Workers, DOMAIN errors' = Workers,
         \A v \in Workers : errors'[v] = errors[v],
         \A v \in Workers \ {w} : at'[v] = at[v] /\ mem'[v] = mem[v] /\ txn'[v] = txn[v],
         DOMAIN accounts' = 1..2, accounts'[1] \in Int, accounts'[2] \in Int,
         accounts'[1] + accounts'[2] = 2 * InitialBalance,
         TransferOK(w)'
  PROVE  TransferInv'
  BY DEF TransferInv, TransferOK, DeltaAt

LEMMA TransferStep ==
  ASSUME TransferInv, AllTransfer, ActorsNext
  PROVE  TransferInv'
<1>1. PICK w \in Workers : Worker(w)
  BY DEF ActorsNext, StreamReads, AllTransfer
<1>2. kind[w].actor = "CommitLatency" /\ kind[w].useTransaction
  BY DEF AllTransfer
<1>3. \/ StartTransfer(w) \/ find1(w) \/ update1(w) \/ update2(w) \/ aggregate(w)
      \/ commit_transaction(w) \/ RequestFails(w)
  BY <1>1, <1>2
     DEF Worker, Is, Begin, StartCommand, Command, StartAssert, RunExpected, RunActual, StartInsert,
         insert_one, ReportInsert, StartDelete, find_one_and_delete, ReportDelete, StartInsertRemove,
         InsertOwn, RemoveOwn, StartMulti, Multi, ChooseChunk, ChooseShard, moveChunk, StartThroughput,
         Poll, WakeToPoll, ReportThroughput, WriteScript, exec, StartHello, Hello, ReportHello, ReportNumber, NopIteration,
         NopPhaseEnds, StartSample, Sample
<1>0. TransferOK(w) /\ DOMAIN at = Workers /\ DOMAIN mem = Workers /\ DOMAIN txn = Workers
  BY DEF TransferInv
<1>4. CASE StartTransfer(w)
  <2>1. UNCHANGED <<txn, accounts, errors>> /\ at' = [at EXCEPT ![w] = "find1"]
    BY <1>4 DEF StartTransfer, Begin, server, reported
  <2>2. PICK amount \in {-1, 1} : mem' = [mem EXCEPT ![w] = amount]
    BY <1>4 DEF StartTransfer
  <2>3. TransferOK(w)'
    BY <1>0, <2>1, <2>2 DEF TransferOK, DeltaAt
  <2> QED
    BY <1>0, <2>1, <2>2, <2>3, OneTransfer DEF TransferInv
<1>5. CASE find1(w)
  <2>1. /\ UNCHANGED <<mem, accounts, errors>>
        /\ at' = [at EXCEPT ![w] = "update1"]
        /\ txn' = [txn EXCEPT ![w] = [on |-> TRUE, base |-> accounts, delta |-> <<0, 0>>]]
    BY <1>2, <1>5 DEF find1, Goto, reported
  <2>2. TransferOK(w)'
    BY <1>0, <2>1 DEF TransferOK, DeltaAt, TransferInv
  <2> QED
    BY <1>0, <2>1, <2>2, OneTransfer DEF TransferInv
<1>6. CASE update1(w)
  <2>1. /\ UNCHANGED <<mem, accounts, errors>>
        /\ at[w] = "update1" /\ at' = [at EXCEPT ![w] = "update2"]
        /\ txn' = [txn EXCEPT ![w].delta[1] = -mem[w]]
    BY <1>0, <1>6 DEF update1, update, Is, Goto, reported, TransferOK
  <2>2. TransferOK(w)'
    BY <1>0, <2>1 DEF TransferOK, DeltaAt
  <2> QED
    BY <1>0, <2>1, <2>2, OneTransfer DEF TransferInv
<1>7. CASE update2(w)
  <2>1. /\ UNCHANGED <<mem, accounts, errors>>
        /\ at[w] = "update2" /\ at' = [at EXCEPT ![w] = "aggregate"]
        /\ txn' = [txn EXCEPT ![w].delta[2] = mem[w]]
    BY <1>0, <1>7 DEF update2, update, Is, Goto, reported, TransferOK
  <2>2. TransferOK(w)'
    BY <1>0, <2>1 DEF TransferOK, DeltaAt
  <2> QED
    BY <1>0, <2>1, <2>2, OneTransfer DEF TransferInv
<1>8. CASE aggregate(w)
  <2>1. /\ UNCHANGED <<mem, accounts, txn>>
        /\ at[w] = "aggregate" /\ at' = [at EXCEPT ![w] = "commit"]
    BY <1>8 DEF aggregate, Is, Goto, server
  <2>2. Total(w) = 2 * InitialBalance
    BY <1>0, <2>1 DEF Total, TransferOK, DeltaAt, InitialBalance
  <2>3. DOMAIN errors' = Workers /\ \A v \in Workers : errors'[v] = errors[v]
    BY <1>8, <2>2 DEF aggregate, TransferInv
  <2>4. TransferOK(w)'
    BY <1>0, <2>1 DEF TransferOK, DeltaAt
  <2> QED
    BY <1>0, <2>1, <2>3, <2>4, OneTransfer DEF TransferInv
<1>9. CASE commit_transaction(w)
  <2>1. /\ UNCHANGED <<mem, errors>>
        /\ at[w] = "commit" /\ at' = [at EXCEPT ![w] = "top"]
        /\ accounts' = [a \in 1..2 |-> accounts[a] + txn[w].delta[a]]
        /\ txn' = [txn EXCEPT ![w] = NoTxn]
    BY <1>9 DEF commit_transaction, Is, Finish, Goto, reported
  <2>2. /\ accounts'[1] = accounts[1] - mem[w] /\ accounts'[2] = accounts[2] + mem[w]
        /\ DOMAIN accounts' = 1..2
    BY <1>0, <2>1 DEF TransferOK, DeltaAt, TransferInv
  <2>3. TransferOK(w)'
    BY <1>0, <2>1 DEF TransferOK, DeltaAt, NoTxn
  <2> QED
    BY <1>0, <2>1, <2>2, <2>3, OneTransfer DEF TransferInv, TransferOK
<1>10. CASE RequestFails(w)
  <2>1. /\ UNCHANGED <<mem, accounts, errors>>
        /\ at' = [at EXCEPT ![w] = "dead"]
        /\ txn' = [txn EXCEPT ![w] = NoTxn]
    BY <1>10 DEF RequestFails, Dies, Goto, reported
  <2>2. TransferOK(w)'
    BY <1>0, <2>1 DEF TransferOK, DeltaAt, NoTxn
  <2> QED
    BY <1>0, <2>1, <2>2, OneTransfer DEF TransferInv
<1> QED
  BY <1>3, <1>4, <1>5, <1>6, <1>7, <1>8, <1>9, <1>10

\* The kinds of the workers are given for good.
LEMMA KindIsFixed == [ActorsNext]_actorVars => UNCHANGED kind
<1> SUFFICES ASSUME ActorsNext PROVE UNCHANGED kind
  BY DEF actorVars
<1> USE DEF Begin, Goto, Finish, Dies
<1>1. ASSUME NEW w \in Workers, Worker(w) PROVE UNCHANGED kind
  BY <1>1 DEF Worker, StartCommand, Command, StartAssert, RunExpected, RunActual, StartInsert,
         insert_one, ReportInsert, StartDelete, find_one_and_delete, ReportDelete, StartInsertRemove,
         InsertOwn, RemoveOwn, StartMulti, Multi, ChooseChunk, ChooseShard, moveChunk, StartThroughput,
         Poll, WakeToPoll, ReportThroughput, WriteScript, exec, StartHello, Hello, ReportHello, ReportNumber, NopIteration,
         NopPhaseEnds, StartSample, Sample, StartTransfer, find1, update1, update2, update, aggregate,
         commit_transaction, RequestFails
<1> QED
  BY <1>1 DEF ActorsNext, StreamReads

\* TransactionsIsolated: with every transfer in a transaction, no thread of
\* CommitLatency counts an error and the sum of the accounts stays, however many
\* threads transfer at once and wherever their requests fail.
THEOREM TransfersAreIsolated == ActorsSpec => []TransactionsIsolated
<1> DEFINE Inv == AllTransfer => TransferInv
<1>1. ActorsInit => Inv
  BY TransferInit
<1>2. Inv /\ [ActorsNext]_actorVars => Inv'
  <2> SUFFICES ASSUME Inv, [ActorsNext]_actorVars, AllTransfer' PROVE TransferInv'
    OBVIOUS
  <2>1. AllTransfer /\ TransferInv
    BY KindIsFixed DEF AllTransfer
  <2>2. CASE ActorsNext
    BY <2>1, <2>2, TransferStep
  <2>3. CASE UNCHANGED actorVars
    BY <2>1, <2>3 DEF actorVars, server, reported, TransferInv, TransferOK, DeltaAt
  <2> QED
    BY <2>2, <2>3
<1>3. Inv => TransactionsIsolated
  BY DEF AllTransfer, TransferInv, TransactionsIsolated
<1> QED
  BY <1>1, <1>2, <1>3, PTL DEF ActorsSpec

-----------------------------------------------------------------------------
(* What the workers report.                                                *)

MetricsFields == {"open", "success", "failure", "discard", "unknown", "lost"}
MetricsOK(m) ==
  /\ DOMAIN m = MetricsFields
  /\ m.open \in Int /\ m.lost \in Int /\ m.success \in Int /\ m.failure \in Int /\ m.discard \in Int
  /\ m.unknown \in Int

LEMMA StartCounts ==
  ASSUME NEW m, MetricsOK(m)
  PROVE  MetricsOK(start(m)) /\ start(m).open = m.open + 1 /\ start(m).lost = m.lost
                             /\ start(m).success = m.success /\ start(m).unknown = m.unknown
  BY DEF start, MetricsOK, MetricsFields

LEMMA CloseCounts ==
  ASSUME NEW m, MetricsOK(m), NEW outcome \in {"success", "failure", "discard"}
  PROVE  /\ MetricsOK(Close(m, outcome))
         /\ Close(m, outcome).open = m.open - 1
         /\ Close(m, outcome).lost = m.lost
         /\ Close(m, outcome).success = IF outcome = "success" THEN m.success + 1 ELSE m.success
         /\ Close(m, outcome).unknown = m.unknown
  BY DEF Close, MetricsOK, MetricsFields

LEMMA ReportCounts ==
  ASSUME NEW m, MetricsOK(m)
  PROVE  /\ MetricsOK(report(m))
         /\ report(m).open = m.open /\ report(m).lost = m.lost /\ report(m).success = m.success
         /\ report(m).unknown = m.unknown + 1
  BY DEF report, MetricsOK, MetricsFields

LEMMA LeaveCounts ==
  ASSUME NEW m, MetricsOK(m)
  PROVE  /\ MetricsOK(LeaveScope(m))
         /\ LeaveScope(m).open = 0
         /\ LeaveScope(m).lost = m.lost + m.open
         /\ LeaveScope(m).success = m.success
  BY DEF LeaveScope, MetricsOK, MetricsFields

\* Where a context is open.
Working == {"command", "expected", "actual", "insert", "inserted", "delete", "deleted", "insertOwn",
            "removeOwn", "collection", "find1", "update1", "update2", "aggregate", "commit", "poll",
            "sleep", "throughput", "aborted", "exec", "hello", "greeted", "sample", "undefined"}

\* A worker has one context open while it works and none between, has lost
\* none unless it is dead, and reports the throughput it has seen.
WorkerOK(w) ==
  /\ MetricsOK(metrics[w])
  /\ at[w] = "deleted" => mem[w] \in {0, 1}
  /\ at[w] # "dead" => metrics[w].lost = 0
  /\ at[w] \in Working => metrics[w].open = 1
  /\ at[w] \in {"top", "shard", "move", "number"} =>
       metrics[w].open \in IF kind[w].actor = "NopMetrics" THEN {0, 1} ELSE {0}
  /\ kind[w].actor = "StreamStats" =>
       /\ at[w] = "throughput" => mem[w] >= kind[w].expected
       /\ at[w] # "dead" /\ metrics[w].success > 0 => polled[w] >= kind[w].expected
  /\ w \in files => at[w] = "exec"
  /\ w \in own => at[w] \in {"removeOwn", "dead"}

\* What a worker has done to the collection and has still to report.
Pending(w) == IF at[w] = "inserted" THEN 1 ELSE IF at[w] = "deleted" THEN -mem[w] ELSE 0

\* Who has an insert to report, and who the deletion of a document.
Inserters == {w \in Workers : at[w] = "inserted"}
Deleters == {w \in Workers : at[w] = "deleted" /\ mem[w] = 1}

ReportInv ==
  /\ DOMAIN at = Workers /\ DOMAIN mem = Workers /\ DOMAIN metrics = Workers /\ DOMAIN polled = Workers
  /\ files \subseteq Workers /\ own \subseteq Workers
  /\ docs \in Nat /\ claimed \in Int
  /\ \A w \in Workers : WorkerOK(w)
  /\ IsFiniteSet(Inserters) /\ IsFiniteSet(Deleters)
  /\ docs = 1 + claimed + Cardinality(Inserters) - Cardinality(Deleters)

LEMMA ReportInit == ActorsInit => ReportInv
<1> SUFFICES ASSUME ActorsInit PROVE ReportInv
  OBVIOUS
<1>1. Inserters = {} /\ Deleters = {}
  BY DEF ActorsInit, Inserters, Deleters
<1>2. IsFiniteSet({}) /\ Cardinality({}) = 0
  BY FS_EmptySet
<1>3. \A w \in Workers : WorkerOK(w)
  BY DEF ActorsInit, WorkerOK, MetricsOK, MetricsFields, NoMetrics, Working
<1> QED
  BY <1>1, <1>2, <1>3 DEF ActorsInit, ReportInv

\* What a step of a worker may do to the others, and to what they share.
Frame(w) ==
  /\ UNCHANGED kind
  /\ DOMAIN at' = Workers /\ DOMAIN mem' = Workers /\ DOMAIN metrics' = Workers /\ DOMAIN polled' = Workers
  /\ files' \cup {w} = files \cup {w} /\ own' \cup {w} = own \cup {w}
  /\ docs' \in Nat /\ claimed' \in Int
  /\ \A v \in Workers \ {w} :
       at'[v] = at[v] /\ mem'[v] = mem[v] /\ metrics'[v] = metrics[v] /\ polled'[v] = polled[v]

StepOK(w) ==
  /\ Frame(w)
  /\ WorkerOK(w)'
  /\ docs' - docs = (claimed' - claimed) + (Pending(w)' - Pending(w))

\* A set that differs from another in one element.
LEMMA OneDiffers ==
  ASSUME NEW S, IsFiniteSet(S), NEW T, NEW x, S \ {x} = T \ {x}
  PROVE  /\ IsFiniteSet(T) /\ Cardinality(S) \in Nat /\ Cardinality(T) \in Nat
         /\ Cardinality(T) - Cardinality(S) = (IF x \in T THEN 1 ELSE 0) - (IF x \in S THEN 1 ELSE 0)
<1>1. PICK R : R = S \ {x}
  OBVIOUS
<1>2. IsFiniteSet(R) /\ Cardinality(R) \in Nat /\ x \notin R
  BY <1>1, FS_Subset, FS_CardinalityType
<1>3. IsFiniteSet(R \cup {x}) /\ Cardinality(R \cup {x}) = Cardinality(R) + 1
  BY <1>2, FS_AddElement
<1>4. S = IF x \in S THEN R \cup {x} ELSE R
  BY <1>1
<1>5. T = IF x \in T THEN R \cup {x} ELSE R
  BY <1>1
<1>6. IsFiniteSet(S) /\ Cardinality(S) = Cardinality(R) + (IF x \in S THEN 1 ELSE 0)
  <2>1. CASE x \in S
    BY <1>2, <1>3, <1>4, <2>1
  <2>2. CASE x \notin S
    BY <1>2, <1>4, <2>2
  <2> QED
    BY <2>1, <2>2
<1>7. IsFiniteSet(T) /\ Cardinality(T) = Cardinality(R) + (IF x \in T THEN 1 ELSE 0)
  <2>1. CASE x \in T
    BY <1>2, <1>3, <1>5, <2>1
  <2>2. CASE x \notin T
    BY <1>2, <1>5, <2>2
  <2> QED
    BY <2>1, <2>2
<1>8. PICK n \in Nat, s \in {0, 1}, t \in {0, 1} :
         /\ n = Cardinality(R)
         /\ s = (IF x \in S THEN 1 ELSE 0) /\ t = (IF x \in T THEN 1 ELSE 0)
  BY <1>2
<1>9. Cardinality(S) = n + s /\ Cardinality(T) = n + t
  BY <1>6, <1>7, <1>8
<1>10. n + s \in Nat /\ n + t \in Nat /\ (n + t) - (n + s) = t - s
  OBVIOUS
<1> QED
  BY <1>6, <1>7, <1>8, <1>9, <1>10

\* The arithmetic of OneReports.
LEMMA Balance ==
  ASSUME NEW x \in Int, NEW y \in Int, NEW u \in Int, NEW v \in Int, NEW i \in Int, NEW j \in Int,
         NEW a \in Int, NEW b \in Int, NEW c \in Int, NEW d \in Int,
         x = 1 + u + a - c, y - x = (v - u) + (i - j), b - a = i, d - c = j
  PROVE  y = 1 + v + b - d
  OBVIOUS

LEMMA OneReports ==
  ASSUME ReportInv, NEW w \in Workers, StepOK(w)
  PROVE  ReportInv'
<1>1. \A v \in Workers \ {w} : at'[v] = at[v] /\ mem'[v] = mem[v]
  BY DEF StepOK, Frame
<1>2. WorkerOK(w) /\ WorkerOK(w)'
  BY DEF StepOK, ReportInv
<1>3. Inserters \ {w} = Inserters' \ {w} /\ Deleters \ {w} = Deleters' \ {w}
  BY <1>1 DEF Inserters, Deleters
<1>4. /\ IsFiniteSet(Inserters') /\ Cardinality(Inserters) \in Nat /\ Cardinality(Inserters') \in Nat
      /\ Cardinality(Inserters') - Cardinality(Inserters)
           = (IF w \in Inserters' THEN 1 ELSE 0) - (IF w \in Inserters THEN 1 ELSE 0)
  BY <1>3, OneDiffers DEF ReportInv
<1>5. /\ IsFiniteSet(Deleters') /\ Cardinality(Deleters) \in Nat /\ Cardinality(Deleters') \in Nat
      /\ Cardinality(Deleters') - Cardinality(Deleters)
           = (IF w \in Deleters' THEN 1 ELSE 0) - (IF w \in Deleters THEN 1 ELSE 0)
  BY <1>3, OneDiffers DEF ReportInv
<1>6. Pending(w) = (IF w \in Inserters THEN 1 ELSE 0) - (IF w \in Deleters THEN 1 ELSE 0)
  BY <1>2 DEF Pending, Inserters, Deleters, WorkerOK
<1>7. Pending(w)' = (IF w \in Inserters' THEN 1 ELSE 0) - (IF w \in Deleters' THEN 1 ELSE 0)
  BY <1>2 DEF Pending, Inserters, Deleters, WorkerOK
<1>8. docs' = 1 + claimed' + Cardinality(Inserters') - Cardinality(Deleters')
  <2>1. PICK a \in Nat, b \in Nat, c \in Nat, d \in Nat :
           /\ a = Cardinality(Inserters) /\ b = Cardinality(Inserters')
           /\ c = Cardinality(Deleters) /\ d = Cardinality(Deleters')
    BY <1>4, <1>5
  <2>2. PICK e \in {0, 1}, f \in {0, 1}, g \in {0, 1}, h \in {0, 1} :
           /\ e = (IF w \in Inserters THEN 1 ELSE 0) /\ f = (IF w \in Inserters' THEN 1 ELSE 0)
           /\ g = (IF w \in Deleters THEN 1 ELSE 0) /\ h = (IF w \in Deleters' THEN 1 ELSE 0)
    OBVIOUS
  <2>3. b - a = f - e /\ d - c = h - g
    BY <1>4, <1>5, <2>1, <2>2
  <2>4. Pending(w) = e - g /\ Pending(w)' = f - h
    BY <1>6, <1>7, <2>2
  <2>5. docs = 1 + claimed + a - c /\ docs \in Nat /\ claimed \in Int
    BY <2>1 DEF ReportInv
  <2>6. docs' - docs = (claimed' - claimed) + (Pending(w)' - Pending(w)) /\ docs' \in Nat /\ claimed' \in Int
    BY DEF StepOK, Frame
  <2>7. f - e \in Int /\ h - g \in Int /\ (f - h) - (e - g) = (f - e) - (h - g)
    OBVIOUS
  <2>8. docs' - docs = (claimed' - claimed) + ((f - e) - (h - g))
    BY <2>4, <2>6, <2>7
  <2>9. PICK x \in Int, y \in Int, u \in Int, v \in Int, i \in Int, j \in Int :
           x = docs /\ y = docs' /\ u = claimed /\ v = claimed' /\ i = f - e /\ j = h - g
    BY <2>5, <2>6, <2>7
  <2>10. x = 1 + u + a - c /\ y - x = (v - u) + (i - j) /\ b - a = i /\ d - c = j
    BY <2>3, <2>5, <2>8, <2>9
  <2>11. y = 1 + v + b - d
    BY <2>10, Balance
  <2> QED
    BY <2>1, <2>9, <2>11
<1>9. \A v \in Workers : WorkerOK(v)'
  <2> SUFFICES ASSUME NEW v \in Workers, v # w PROVE WorkerOK(v)'
    BY <1>2
  <2>1. /\ at'[v] = at[v] /\ mem'[v] = mem[v] /\ metrics'[v] = metrics[v] /\ polled'[v] = polled[v]
        /\ UNCHANGED kind /\ (v \in files' <=> v \in files) /\ (v \in own' <=> v \in own)
    BY DEF StepOK, Frame
  <2> QED
    BY <2>1 DEF ReportInv, WorkerOK
<1> QED
  BY <1>4, <1>5, <1>8, <1>9 DEF StepOK, Frame, ReportInv

\* The beginning of an iteration.
LEMMA BeginsOK ==
  ASSUME ReportInv, NEW w \in Workers, NEW actor, NEW to \in Working \ {"deleted", "inserted", "throughput"},
         actor # "NopMetrics", Begin(w, actor, to),
         \/ UNCHANGED mem
         \/ \E x : mem' = [mem EXCEPT ![w] = x]
  PROVE  StepOK(w)
<1> DEFINE m == start(metrics[w])
<1>1. /\ at[w] = "top" /\ at' = [at EXCEPT ![w] = to] /\ metrics' = [metrics EXCEPT ![w] = m]
      /\ kind[w].actor = actor
      /\ UNCHANGED <<kind, claimed, polled, docs, own, files>>
  BY DEF Begin, Is, Measure, server, reported
<1>2. WorkerOK(w) /\ MetricsOK(metrics[w])
  BY DEF ReportInv, WorkerOK
<1>3. MetricsOK(m) /\ m.open = metrics[w].open + 1 /\ m.lost = metrics[w].lost /\ m.success = metrics[w].success
  BY <1>2, StartCounts
<1> HIDE DEF m
<1>4. metrics'[w] = m /\ at'[w] = to /\ DOMAIN at' = Workers /\ DOMAIN metrics' = Workers /\ DOMAIN mem' = Workers
      /\ \A v \in Workers \ {w} : at'[v] = at[v] /\ mem'[v] = mem[v] /\ metrics'[v] = metrics[v]
  BY <1>1 DEF ReportInv
<1>5. WorkerOK(w)'
  BY <1>1, <1>2, <1>3, <1>4 DEF WorkerOK, Working
<1>6. Pending(w)' = Pending(w) /\ Pending(w) \in Int
  BY <1>1, <1>2, <1>4 DEF Pending, WorkerOK
<1> QED
  BY <1>1, <1>2, <1>3, <1>4, <1>5, <1>6 DEF StepOK, Frame, ReportInv, MetricsOK

\* The end of one, with its report.
LEMMA FinishesOK ==
  ASSUME ReportInv, NEW w \in Workers, Frame(w), at[w] \in Working,
         kind[w].actor \notin {"NopMetrics", "StreamStats", "HelloWorld"},
         NEW outcome \in {"success", "failure", "discard"}, Finish(w, outcome),
         w \notin files', w \notin own', UNCHANGED docs,
         claimed' = claimed + Pending(w)
  PROVE  StepOK(w)
<1> DEFINE m == Close(metrics[w], outcome)
           n == LeaveScope(m)
<1>1. WorkerOK(w) /\ MetricsOK(metrics[w])
  BY DEF ReportInv, WorkerOK
<1>2. MetricsOK(m) /\ m.open = metrics[w].open - 1 /\ m.lost = metrics[w].lost
  BY <1>1, CloseCounts
<1>3. MetricsOK(n) /\ n.open = 0 /\ n.lost = m.lost + m.open
  <2> HIDE DEF m
  <2> QED
    BY <1>2, LeaveCounts
<1> HIDE DEF m, n
<1>4. at'[w] = "top" /\ metrics'[w] = n
  BY DEF Finish, Goto, Measure, ReportInv, m, n
<1>5. Pending(w) \in Int /\ Pending(w)' = 0
  BY <1>1, <1>4 DEF Pending, WorkerOK
<1>6. WorkerOK(w)'
  BY <1>1, <1>2, <1>3, <1>4, <1>5 DEF WorkerOK, Working, Frame
<1> QED
  BY <1>5, <1>6 DEF StepOK, ReportInv

\* An exception: what is open is lost with the actor.
LEMMA DeathsOK ==
  ASSUME ReportInv, NEW w \in Workers, Frame(w), NEW m, MetricsOK(m), Dies(w, m),
         w \notin files', own' = own, w \in own => at[w] = "removeOwn", at[w] \notin {"inserted", "deleted"},
         UNCHANGED <<docs, claimed>>
  PROVE  StepOK(w)
<1>1. WorkerOK(w)
  BY DEF ReportInv
<1> DEFINE n == LeaveScope(m)
<1>2. MetricsOK(n) /\ n.success = m.success
  BY LeaveCounts
<1> HIDE DEF n
<1>3. at'[w] = "dead" /\ metrics'[w] = n
  BY DEF Dies, Goto, Measure, ReportInv, n
<1>4. Pending(w) \in Int /\ Pending(w)' = Pending(w)
  BY <1>1, <1>3 DEF Pending, WorkerOK
<1>5. WorkerOK(w)'
  BY <1>1, <1>2, <1>3, <1>4 DEF WorkerOK, Working, Frame
<1> QED
  BY <1>1, <1>2, <1>3, <1>4, <1>5 DEF StepOK, ReportInv, WorkerOK, MetricsOK

\* A step between two requests of one iteration.
LEMMA GoesOK ==
  ASSUME ReportInv, NEW w \in Workers, Frame(w),
         NEW to, at'[w] = to, UNCHANGED <<metrics, claimed, polled, files>>,
         \/ at[w] \in Working /\ to \in Working
         \/ at[w] \in {"shard", "move"} /\ to \in {"top", "move"} /\ kind[w].actor # "NopMetrics",
         at[w] # "exec", w \notin own',
         to = "throughput" => mem'[w] >= kind[w].expected,
         to = "deleted" => mem'[w] \in {0, 1},
         docs' - docs = (IF to = "inserted" THEN 1 ELSE IF to = "deleted" THEN -mem'[w] ELSE 0),
         at[w] \notin {"inserted", "deleted"}
  PROVE  StepOK(w)
<1>1. WorkerOK(w)
  BY DEF ReportInv
<1>2. WorkerOK(w)'
  BY <1>1 DEF WorkerOK, Working, Frame
<1>3. Pending(w) = 0 /\ docs' - docs = Pending(w)' /\ Pending(w)' \in Int
  BY <1>1, <1>2 DEF Pending, WorkerOK
<1> QED
  BY <1>1, <1>2, <1>3 DEF StepOK, ReportInv, WorkerOK, MetricsOK

\* What any step of a worker needs of the invariant.
LEMMA WorkersOwn ==
  ASSUME ReportInv, NEW w \in Workers
  PROVE  /\ DOMAIN at = Workers /\ DOMAIN mem = Workers /\ DOMAIN metrics = Workers
         /\ DOMAIN polled = Workers
         /\ MetricsOK(metrics[w]) /\ claimed \in Int /\ docs \in Nat
         /\ w \in files => at[w] = "exec"
         /\ w \in own => at[w] \in {"removeOwn", "dead"}
  BY DEF ReportInv, WorkerOK

\* RunCommand, AdminCommand and AssertiveActor.
LEMMA CommandsOK ==
  ASSUME ReportInv, NEW w \in Workers,
         StartCommand(w) \/ Command(w) \/ StartAssert(w) \/ RunExpected(w) \/ RunActual(w)
  PROVE  StepOK(w)
<1> USE WorkersOwn
<1>1. CASE StartCommand(w)
  <2>1. Begin(w, "RunCommand", "command") /\ UNCHANGED mem /\ "command" \in Working
    BY <1>1 DEF StartCommand, Working
  <2> QED
    BY <2>1, BeginsOK
<1>2. CASE StartAssert(w)
  <2>1. Begin(w, "AssertiveActor", "expected") /\ mem' = [mem EXCEPT ![w] = docs] /\ "expected" \in Working
    BY <1>2 DEF StartAssert, Working
  <2> QED
    BY <2>1, BeginsOK
<1>3. CASE Command(w)
  <2>1. /\ Is(w, "RunCommand", "command") /\ UNCHANGED <<mem, docs, own, files, claimed, polled>>
        /\ at[w] \in Working /\ Pending(w) = 0
    BY <1>3 DEF Command, server, reported, Is, Working, Pending
  <2>2. CASE \E outcome \in {"success", "discard", "failure"} : Finish(w, outcome)
    <3>1. Frame(w)
      BY <2>1, <2>2 DEF Finish, Goto, Measure, Frame
    <3> QED
      BY <2>1, <2>2, <3>1, FinishesOK DEF Is
  <2>3. CASE Dies(w, Close(metrics[w], "failure"))
    <3>1. Frame(w)
      BY <2>1, <2>3 DEF Dies, Goto, Measure, Frame
    <3>2. MetricsOK(Close(metrics[w], "failure")) 
      BY <2>1, CloseCounts DEF Is
    <3> QED
      BY <2>1, <2>3, <3>1, <3>2, DeathsOK DEF Is
  <2> QED
    BY <1>3, <2>2, <2>3 DEF Command
<1>4. CASE RunExpected(w)
  <2>1. Frame(w) /\ at[w] = "expected" /\ at'[w] = "actual"
        /\ UNCHANGED <<metrics, claimed, polled, files, docs, own>>
    BY <1>4 DEF RunExpected, Goto, Is, server, reported, Frame
  <2> QED
    BY <2>1, GoesOK DEF Working
<1>5. CASE RunActual(w)
  <2>1. /\ Is(w, "AssertiveActor", "actual") /\ UNCHANGED <<mem, docs, own, files, claimed, polled>>
        /\ at[w] \in Working /\ Pending(w) = 0
    BY <1>5 DEF RunActual, server, reported, Is, Working, Pending
  <2>2. CASE Finish(w, "success")
    <3>1. Frame(w)
      BY <2>1, <2>2 DEF Finish, Goto, Measure, Frame
    <3> QED
      BY <2>1, <2>2, <3>1, FinishesOK DEF Is
  <2>3. CASE Dies(w, Close(metrics[w], "failure"))
    <3>1. Frame(w)
      BY <2>1, <2>3 DEF Dies, Goto, Measure, Frame
    <3>2. MetricsOK(Close(metrics[w], "failure")) 
      BY <2>1, CloseCounts DEF Is
    <3> QED
      BY <2>1, <2>3, <3>1, <3>2, DeathsOK DEF Is
  <2> QED
    BY <1>5, <2>2, <2>3 DEF RunActual
<1> QED
  BY <1>1, <1>2, <1>3, <1>4, <1>5

\* Insert, Deleter, InsertRemove and the actors over many collections.
LEMMA DocumentsOK ==
  ASSUME ReportInv, NEW w \in Workers,
         \/ StartInsert(w) \/ insert_one(w) \/ ReportInsert(w)
         \/ StartDelete(w) \/ find_one_and_delete(w) \/ ReportDelete(w)
         \/ StartInsertRemove(w) \/ InsertOwn(w) \/ RemoveOwn(w) \/ StartMulti(w) \/ Multi(w)
  PROVE  StepOK(w)
<1> USE WorkersOwn
<1>1. CASE StartInsert(w)
  BY <1>1, BeginsOK DEF StartInsert, Working
<1>2. CASE insert_one(w)
  <2>1. Frame(w) /\ at[w] = "insert" /\ at'[w] = "inserted" /\ docs' = docs + 1
        /\ UNCHANGED <<metrics, claimed, polled, files, own>>
    BY <1>2 DEF insert_one, Goto, Is, reported, Frame
  <2> QED
    BY <2>1, GoesOK DEF Working
<1>3. CASE ReportInsert(w)
  <2>1. /\ kind[w].actor = "Insert" /\ at[w] = "inserted" /\ Finish(w, "success")
        /\ UNCHANGED <<mem, docs, own, files, polled>>
        /\ claimed' = claimed + 1
    BY <1>3 DEF ReportInsert, server, Is
  <2>2. Frame(w)
    BY <2>1 DEF Finish, Goto, Measure, Frame
  <2> QED
    BY <2>1, <2>2, FinishesOK DEF Working, Pending
<1>4. CASE StartDelete(w)
  BY <1>4, BeginsOK DEF StartDelete, Working
<1>5. CASE find_one_and_delete(w)
  <2>1. Frame(w) /\ at[w] = "delete" /\ at'[w] = "deleted" /\ mem'[w] \in {0, 1} /\ docs' - docs = -mem'[w]
        /\ UNCHANGED <<metrics, claimed, polled, files, own>>
    BY <1>5 DEF find_one_and_delete, Goto, Is, reported, Frame
  <2> QED
    BY <2>1, GoesOK DEF Working
<1>6. CASE ReportDelete(w)
  <2>1. /\ kind[w].actor = "Deleter" /\ at[w] = "deleted"
        /\ \E outcome \in {"success", "failure"} : Finish(w, outcome)
        /\ UNCHANGED <<mem, docs, own, files, polled>>
        /\ claimed' = claimed - mem[w]
    BY <1>6 DEF ReportDelete, server, Is
  <2>2. Frame(w)
    BY <2>1 DEF Finish, Goto, Measure, Frame
  <2>3. mem[w] \in {0, 1}
    BY <2>1 DEF ReportInv, WorkerOK
  <2> QED
    BY <2>1, <2>2, <2>3, FinishesOK DEF Working, Pending
<1>7. CASE StartInsertRemove(w)
  BY <1>7, BeginsOK DEF StartInsertRemove, Working
<1>8. CASE InsertOwn(w)
  <2> DEFINE m == Close(metrics[w], "success")
             n == start(m)
  <2>1. MetricsOK(m) /\ m.open = metrics[w].open - 1 /\ m.lost = metrics[w].lost
    BY CloseCounts
  <2>2. MetricsOK(n) /\ n.open = m.open + 1 /\ n.lost = m.lost
    <3> HIDE DEF m
    <3> QED
      BY <2>1, StartCounts
  <2> HIDE DEF m, n
  <2>3. /\ kind[w].actor = "InsertRemove" /\ at[w] = "insertOwn" /\ at'[w] = "removeOwn" /\ metrics'[w] = n
        /\ UNCHANGED <<docs, files, claimed>> /\ own' = own \cup {w} /\ Frame(w)
    BY <1>8 DEF InsertOwn, Is, Goto, Measure, reported, Frame, m, n
  <2>4. WorkerOK(w)
    BY DEF ReportInv
  <2>5. WorkerOK(w)'
    BY <2>1, <2>2, <2>3, <2>4 DEF WorkerOK, Working, Frame
  <2>6. Pending(w)' = Pending(w) /\ Pending(w) \in Int 
    BY <2>3 DEF Pending
  <2> QED
    BY <2>3, <2>5, <2>6 DEF StepOK
<1>9. CASE RemoveOwn(w)
  <2>1. /\ kind[w].actor = "InsertRemove" /\ at[w] = "removeOwn" /\ Finish(w, "success")
        /\ UNCHANGED <<mem, docs, files, polled, claimed>> /\ own' = own \ {w}
    BY <1>9 DEF RemoveOwn, reported, Is
  <2>2. Frame(w)
    BY <2>1 DEF Finish, Goto, Measure, Frame
  <2> QED
    BY <2>1, <2>2, FinishesOK DEF Working, Pending
<1>10. CASE StartMulti(w)
  BY <1>10, BeginsOK DEF StartMulti, Working
<1>11. CASE Multi(w)
  <2>1. /\ kind[w].actor = "MultiCollection" /\ at[w] = "collection" /\ Finish(w, "success")
        /\ UNCHANGED <<mem, docs, own, files, polled, claimed>>
    BY <1>11 DEF Multi, server, reported, Is
  <2>2. Frame(w)
    BY <2>1 DEF Finish, Goto, Measure, Frame
  <2> QED
    BY <2>1, <2>2, FinishesOK DEF Working, Pending
<1> QED
  BY <1>1, <1>2, <1>3, <1>4, <1>5, <1>6, <1>7, <1>8, <1>9, <1>10, <1>11

\* CommitLatency and MoveRandomChunkToRandomShard.
LEMMA TransfersOK ==
  ASSUME ReportInv, NEW w \in Workers,
         \/ StartTransfer(w) \/ find1(w) \/ update1(w) \/ update2(w) \/ aggregate(w) \/ commit_transaction(w)
         \/ ChooseChunk(w) \/ ChooseShard(w) \/ moveChunk(w)
  PROVE  StepOK(w)
<1> USE WorkersOwn
<1>1. CASE StartTransfer(w)
  BY <1>1, BeginsOK DEF StartTransfer, Working
<1>2. CASE find1(w) \/ update1(w) \/ update2(w) \/ aggregate(w)
  <2>1. /\ at[w] \in {"find1", "update1", "update2", "aggregate"}
        /\ at'[w] \in {"update1", "undefined", "update2", "aggregate", "commit"}
        /\ UNCHANGED <<metrics, claimed, polled, files, docs, own>> /\ Frame(w)
    BY <1>2 DEF find1, update1, update2, update, aggregate, Goto, Is, server, reported, Frame
  <2> QED
    BY <2>1, GoesOK DEF Working
<1>3. CASE commit_transaction(w)
  <2>1. /\ kind[w].actor = "CommitLatency" /\ at[w] = "commit" /\ Finish(w, "success")
        /\ UNCHANGED <<mem, docs, own, files, polled, claimed>>
    BY <1>3 DEF commit_transaction, reported, Is
  <2>2. Frame(w)
    BY <2>1 DEF Finish, Goto, Measure, Frame
  <2> QED
    BY <2>1, <2>2, FinishesOK DEF Working, Pending
<1>4. CASE ChooseChunk(w)
  <2>1. /\ kind[w].actor = "MoveRandomChunk" /\ at[w] = "top" /\ at'[w] = "shard"
        /\ UNCHANGED <<metrics, claimed, files, own, docs>> /\ Frame(w)
    BY <1>4 DEF ChooseChunk, Is, server, reported, Frame
  <2>2. WorkerOK(w)
    BY DEF ReportInv
  <2>3. WorkerOK(w)'
    BY <2>1, <2>2 DEF WorkerOK, Working, Frame
  <2>4. Pending(w)' = Pending(w) /\ Pending(w) \in Int 
    BY <2>1 DEF Pending
  <2> QED
    BY <2>1, <2>3, <2>4 DEF StepOK
<1>5. CASE ChooseShard(w) \/ moveChunk(w)
  <2>1. /\ kind[w].actor = "MoveRandomChunk" /\ at[w] \in {"shard", "move"} /\ at'[w] \in {"move", "top"}
        /\ UNCHANGED <<metrics, claimed, polled, files, docs, own>> /\ Frame(w)
    BY <1>5 DEF ChooseShard, moveChunk, Goto, Is, server, reported, Frame
  <2> QED
    BY <2>1, GoesOK
<1> QED
  BY <1>1, <1>2, <1>3, <1>4, <1>5

\* StreamStatsReporter.
LEMMA ThroughputOK ==
  ASSUME ReportInv, NEW w \in Workers,
         StartThroughput(w) \/ Poll(w) \/ WakeToPoll(w) \/ ReportThroughput(w)
  PROVE  StepOK(w)
<1> USE WorkersOwn
<1>1. CASE StartThroughput(w)
  <2>1. CASE Begin(w, "StreamStats", "poll")
    BY <1>1, <2>1, BeginsOK DEF StartThroughput, Working
  <2>2. CASE Begin(w, "StreamStats", "aborted")
    BY <1>1, <2>2, BeginsOK DEF StartThroughput, Working
  <2> QED
    BY <1>1, <2>1, <2>2 DEF StartThroughput
<1>2. CASE Poll(w)
  <2>1. /\ at[w] = "poll" /\ at'[w] \in {"throughput", "sleep"} /\ mem'[w] = messages
        /\ at'[w] = "throughput" => messages >= kind[w].expected
        /\ UNCHANGED <<metrics, claimed, polled, files, docs, own>> /\ Frame(w)
    BY <1>2 DEF Poll, Goto, Is, server, reported, Frame
  <2> QED
    BY <2>1, GoesOK DEF Working
<1>3. CASE WakeToPoll(w)
  <2>1. /\ at[w] = "sleep" /\ at'[w] \in {"poll", "aborted"}
        /\ UNCHANGED <<metrics, claimed, polled, files, docs, own>> /\ Frame(w)
    BY <1>3 DEF WakeToPoll, Goto, Is, server, reported, Frame
  <2> QED
    BY <2>1, GoesOK DEF Working
<1>4. CASE ReportThroughput(w)
  <2> DEFINE m == Close(metrics[w], "success")
  <2>1. MetricsOK(m) /\ m.open = metrics[w].open - 1 /\ m.lost = metrics[w].lost
    BY CloseCounts
  <2> HIDE DEF m
  <2>2. /\ kind[w].actor = "StreamStats" /\ at[w] \in {"throughput", "aborted"} /\ metrics'[w] = m
        /\ at'[w] = IF at[w] = "aborted" THEN "dead" ELSE "top"
        /\ polled'[w] = mem[w]
        /\ UNCHANGED <<claimed, files, own, docs>> /\ Frame(w)
    BY <1>4 DEF ReportThroughput, Goto, Measure, server, Frame, m
  <2>3. WorkerOK(w)
    BY DEF ReportInv
  <2>4. WorkerOK(w)'
    BY <2>1, <2>2, <2>3 DEF WorkerOK, Working, Frame
  <2>5. Pending(w)' = Pending(w) /\ Pending(w) \in Int 
    BY <2>2 DEF Pending
  <2> QED
    BY <2>2, <2>4, <2>5 DEF StepOK
<1> QED
  BY <1>1, <1>2, <1>3, <1>4

\* ExternalScriptRunner, HelloWorld, NopMetrics and RandomSampler.
LEMMA OthersOK ==
  ASSUME ReportInv, NEW w \in Workers,
         \/ WriteScript(w) \/ exec(w) \/ StartHello(w) \/ Hello(w) \/ ReportHello(w) \/ ReportNumber(w)
         \/ NopIteration(w) \/ NopPhaseEnds(w) \/ StartSample(w) \/ Sample(w)
  PROVE  StepOK(w)
<1> USE WorkersOwn
<1>0. WorkerOK(w)
  BY DEF ReportInv
<1> DEFINE begun == start(metrics[w])
           closed1 == Close(metrics[w], "success")
           more == report(closed1)
<1>a. MetricsOK(begun) /\ begun.open = metrics[w].open + 1 /\ begun.lost = metrics[w].lost
  BY StartCounts
<1>b. /\ MetricsOK(closed1) /\ closed1.open = metrics[w].open - 1 /\ closed1.lost = metrics[w].lost
      /\ closed1.success = metrics[w].success + 1
  BY CloseCounts
<1>c. /\ MetricsOK(more) /\ more.open = metrics[w].open - 1 /\ more.lost = metrics[w].lost
      /\ more.success = metrics[w].success + 1
  <2> HIDE DEF closed1
  <2> QED
    BY <1>b, ReportCounts
<1> HIDE DEF begun, closed1, more
<1>1. CASE WriteScript(w)
  <2>1. /\ kind[w].actor = "ExternalScript" /\ at[w] = "top" /\ at'[w] = "exec" /\ metrics'[w] = begun
        /\ UNCHANGED <<claimed, own, docs>> /\ Frame(w)
    BY <1>1 DEF WriteScript, Is, Measure, reported, Frame, begun
  <2>2. WorkerOK(w)'
    BY <1>0, <1>a, <2>1 DEF WorkerOK, Working, Frame
  <2>3. Pending(w)' = Pending(w) /\ Pending(w) \in Int 
    BY <2>1 DEF Pending
  <2> QED
    BY <2>1, <2>2, <2>3 DEF StepOK
<1>2. CASE exec(w)
  <2>1. /\ kind[w].actor = "ExternalScript" /\ at[w] = "exec" /\ files' = files \ {w}
        /\ UNCHANGED <<mem, docs, own, claimed, polled>>
    BY <1>2 DEF exec, Is, reported
  <2>2. CASE Dies(w, metrics[w])
    <3>1. Frame(w) 
      BY <2>1, <2>2 DEF Dies, Goto, Measure, Frame
    <3> QED
      BY <2>1, <2>2, <3>1, DeathsOK
  <2>3. CASE Goto(w, "top") /\ metrics' \in {[metrics EXCEPT ![w] = closed1], [metrics EXCEPT ![w] = more]}
    <3>1. Frame(w) /\ at'[w] = "top" /\ metrics'[w] \in {closed1, more}
      BY <2>1, <2>3 DEF Goto, Frame
    <3>2. WorkerOK(w)'
      BY <1>0, <1>b, <1>c, <2>1, <3>1 DEF WorkerOK, Working, Frame
    <3>3. Pending(w)' = Pending(w) /\ Pending(w) \in Int 
      BY <2>1, <3>1 DEF Pending
    <3> QED
      BY <2>1, <3>1, <3>2, <3>3 DEF StepOK
  <2> QED
    BY <1>2, <2>2, <2>3 DEF exec, Measure, closed1, more
<1>3. CASE StartHello(w)
  BY <1>3, BeginsOK DEF StartHello, Working
<1>4. CASE Hello(w)
  <2>1. /\ at[w] = "hello" /\ at'[w] = "greeted"
        /\ UNCHANGED <<metrics, claimed, polled, files, docs, own>> /\ Frame(w)
    BY <1>4 DEF Hello, Goto, Is, reported, Frame
  <2> QED
    BY <2>1, GoesOK DEF Working
<1>9. CASE ReportHello(w)
  <2>1. /\ kind[w].actor = "HelloWorld" /\ at[w] = "greeted" /\ at'[w] = "number" /\ metrics'[w] = closed1
        /\ UNCHANGED <<claimed, own, docs, files>> /\ Frame(w)
    BY <1>9 DEF ReportHello, Is, Goto, Measure, server, reported, Frame, closed1
  <2>2. WorkerOK(w)'
    BY <1>0, <1>b, <2>1 DEF WorkerOK, Working, Frame
  <2>3. Pending(w)' = Pending(w) /\ Pending(w) \in Int
    BY <2>1 DEF Pending
  <2> QED
    BY <2>1, <2>2, <2>3 DEF StepOK
<1>10. CASE ReportNumber(w)
  <2> DEFINE numbered == report(metrics[w])
  <2>1. MetricsOK(numbered) /\ numbered.open = metrics[w].open /\ numbered.lost = metrics[w].lost
    BY ReportCounts
  <2> HIDE DEF numbered
  <2>2. /\ kind[w].actor = "HelloWorld" /\ at[w] = "number" /\ at'[w] = "top" /\ metrics'[w] = numbered
        /\ UNCHANGED <<claimed, own, docs, files>> /\ Frame(w)
    BY <1>10 DEF ReportNumber, Is, Goto, Measure, server, reported, Frame, numbered
  <2>3. WorkerOK(w)'
    BY <1>0, <2>1, <2>2 DEF WorkerOK, Working, Frame
  <2>4. Pending(w)' = Pending(w) /\ Pending(w) \in Int
    BY <2>2 DEF Pending
  <2> QED
    BY <2>2, <2>3, <2>4 DEF StepOK
<1>5. CASE NopIteration(w)
  <2> DEFINE before == IF metrics[w].open = 1 THEN closed1 ELSE metrics[w]
             again == start(before)
  <2>1. MetricsOK(before) /\ before.lost = metrics[w].lost
        /\ before.open = IF metrics[w].open = 1 THEN 0 ELSE metrics[w].open
    BY <1>b DEF MetricsOK
  <2>2. MetricsOK(again) /\ again.open = before.open + 1 /\ again.lost = before.lost
    <3> HIDE DEF before
    <3> QED
      BY <2>1, StartCounts
  <2>3. metrics' = [metrics EXCEPT ![w] = again]
    BY <1>5 DEF NopIteration, Measure, closed1
  <2> HIDE DEF before, again
  <2>4. /\ kind[w].actor = "NopMetrics" /\ at[w] = "top" /\ at' = at /\ metrics'[w] = again
        /\ UNCHANGED <<claimed, own, docs, files>> /\ Frame(w)
    BY <1>5, <2>3 DEF NopIteration, Is, server, reported, Frame
  <2>5. WorkerOK(w)'
    BY <1>0, <2>1, <2>2, <2>4 DEF WorkerOK, Working, Frame
  <2>6. Pending(w)' = Pending(w) /\ Pending(w) \in Int 
    BY <2>4 DEF Pending
  <2> QED
    BY <2>4, <2>5, <2>6 DEF StepOK
<1>6. CASE NopPhaseEnds(w)
  <2>1. /\ kind[w].actor = "NopMetrics" /\ at[w] = "top" /\ at'[w] = "ended" /\ metrics'[w] = closed1
        /\ UNCHANGED <<claimed, own, docs, files>> /\ Frame(w)
    BY <1>6 DEF NopPhaseEnds, Is, Goto, Measure, server, reported, Frame, closed1
  <2>2. WorkerOK(w)'
    BY <1>0, <1>b, <2>1 DEF WorkerOK, Working, Frame
  <2>3. Pending(w)' = Pending(w) /\ Pending(w) \in Int 
    BY <2>1 DEF Pending
  <2> QED
    BY <2>1, <2>2, <2>3 DEF StepOK
<1>7. CASE StartSample(w)
  BY <1>7, BeginsOK DEF StartSample, Working
<1>8. CASE Sample(w)
  <2>1. /\ kind[w].actor = "RandomSampler" /\ at[w] = "sample"
        /\ UNCHANGED <<mem, docs, own, files, polled, claimed>>
        /\ Finish(w, "success") \/ Dies(w, metrics[w])
    BY <1>8 DEF Sample, server, reported, Is
  <2>2. Frame(w)
    BY <2>1 DEF Finish, Dies, Goto, Measure, Frame
  <2>3. CASE Finish(w, "success")
    BY <2>1, <2>2, <2>3, FinishesOK DEF Working, Pending
  <2>4. CASE Dies(w, metrics[w])
    BY <2>1, <2>2, <2>4, DeathsOK
  <2> QED
    BY <2>1, <2>3, <2>4
<1> QED
  BY <1>1, <1>2, <1>3, <1>4, <1>5, <1>6, <1>7, <1>8, <1>9, <1>10

\* A request that nobody guards.
LEMMA FailuresOK ==
  ASSUME ReportInv, NEW w \in Workers, RequestFails(w)
  PROVE  StepOK(w)
<1>1. /\ at[w] \notin {"inserted", "deleted", "exec", "dead"} /\ Dies(w, metrics[w])
      /\ UNCHANGED <<mem, docs, own, files, claimed, polled>>
  BY DEF RequestFails, reported
<1>2. Frame(w)
  BY <1>1, WorkersOwn DEF Dies, Goto, Measure, Frame
<1> QED
  BY <1>1, <1>2, WorkersOwn, DeathsOK

LEMMA ReportsKept == ReportInv /\ [ActorsNext]_actorVars => ReportInv'
<1> SUFFICES ASSUME ReportInv, [ActorsNext]_actorVars PROVE ReportInv'
  OBVIOUS
<1>1. ASSUME NEW w \in Workers, Worker(w) PROVE ReportInv'
  <2>1. StepOK(w)
    BY <1>1, CommandsOK, DocumentsOK, TransfersOK, ThroughputOK, OthersOK, FailuresOK DEF Worker
  <2> QED
    BY <2>1, OneReports
<1>2. CASE StreamReads \/ UNCHANGED actorVars
  <2>1. UNCHANGED <<kind, at, metrics, mem, docs, own, files, claimed, polled>>
    BY <1>2 DEF StreamReads, actorVars, server, reported
  <2>2. UNCHANGED <<Inserters, Deleters>> /\ \A w \in Workers : WorkerOK(w)' = WorkerOK(w)
    BY <2>1 DEF Inserters, Deleters, WorkerOK
  <2> QED
    BY <2>1, <2>2 DEF ReportInv
<1> QED
  BY <1>1, <1>2 DEF ActorsNext

\* The counter is the number of greetings; each is reported, and then with a number.
AllHello == \A w \in Workers : kind[w].actor = "HelloWorld"

HelloOK(w) ==
  /\ at[w] \in {"top", "hello", "greeted", "number"}
  /\ MetricsOK(metrics[w]) /\ metrics[w].success \in Nat
  /\ metrics[w].success = metrics[w].unknown + (IF at[w] = "number" THEN 1 ELSE 0)

HelloInv ==
  AllHello =>
    /\ DOMAIN at = Workers /\ DOMAIN metrics = Workers
    /\ \A w \in Workers : HelloOK(w)
    /\ helloCounter \in Nat
    /\ IsFiniteSet(Greetings) /\ Cardinality(Greetings) = helloCounter

LEMMA HelloInit == ActorsInit => HelloInv
<1> SUFFICES ASSUME ActorsInit PROVE HelloInv
  OBVIOUS
<1>1. Greetings = {}
  BY DEF ActorsInit, Greetings, Greeted, NoMetrics
<1>2. IsFiniteSet({}) /\ Cardinality({}) = 0
  BY FS_EmptySet
<1>3. \A w \in Workers : HelloOK(w)
  BY DEF ActorsInit, HelloOK, MetricsOK, MetricsFields, NoMetrics
<1> QED
  BY <1>1, <1>2, <1>3 DEF ActorsInit, HelloInv

\* Where all greet, a worker only greets.
LEMMA OnlyGreets ==
  ASSUME AllHello, HelloInv, NEW w \in Workers, Worker(w)
  PROVE  StartHello(w) \/ Hello(w) \/ ReportHello(w) \/ ReportNumber(w)
<1>1. kind[w].actor = "HelloWorld" /\ at[w] \in {"top", "hello", "greeted", "number"}
  BY DEF AllHello, HelloInv, HelloOK
<1>2. ~(StartCommand(w) \/ Command(w) \/ StartAssert(w) \/ RunExpected(w) \/ RunActual(w))
  BY <1>1 DEF StartCommand, Command, StartAssert, RunExpected, RunActual, Begin, Is
<1>3. ~(\/ StartInsert(w) \/ insert_one(w) \/ ReportInsert(w)
        \/ StartDelete(w) \/ find_one_and_delete(w) \/ ReportDelete(w)
        \/ StartInsertRemove(w) \/ InsertOwn(w) \/ RemoveOwn(w) \/ StartMulti(w) \/ Multi(w))
  BY <1>1 DEF StartInsert, insert_one, ReportInsert, StartDelete, find_one_and_delete, ReportDelete,
              StartInsertRemove, InsertOwn, RemoveOwn, StartMulti, Multi, Begin, Is
<1>4. ~(\/ StartTransfer(w) \/ find1(w) \/ update1(w) \/ update2(w) \/ aggregate(w) \/ commit_transaction(w)
        \/ ChooseChunk(w) \/ ChooseShard(w) \/ moveChunk(w))
  BY <1>1 DEF StartTransfer, find1, update1, update2, update, aggregate, commit_transaction,
              ChooseChunk, ChooseShard, moveChunk, Begin, Is
<1>5. ~(StartThroughput(w) \/ Poll(w) \/ WakeToPoll(w) \/ ReportThroughput(w))
  BY <1>1 DEF StartThroughput, Poll, WakeToPoll, ReportThroughput, Begin, Is
<1>6. ~(\/ WriteScript(w) \/ exec(w) \/ NopIteration(w) \/ NopPhaseEnds(w) \/ StartSample(w) \/ Sample(w)
        \/ RequestFails(w))
  BY <1>1 DEF WriteScript, exec, NopIteration, NopPhaseEnds, StartSample, Sample, RequestFails, Begin, Is
<1> QED
  BY <1>2, <1>3, <1>4, <1>5, <1>6 DEF Worker

\* A step that counts no greeting leaves the greetings as they are.
LEMMA SameGreetings ==
  ASSUME AllHello, HelloInv, NEW w \in Workers, UNCHANGED <<kind, helloCounter>>,
         NEW m, NEW to, metrics' = [metrics EXCEPT ![w] = m], at' = [at EXCEPT ![w] = to],
         HelloOK(w)', Greeted(w)' = Greeted(w)
  PROVE  HelloInv'
<1>1. /\ DOMAIN at = Workers /\ DOMAIN metrics = Workers
      /\ \A v \in Workers : HelloOK(v)
      /\ helloCounter \in Nat
      /\ IsFiniteSet(Greetings) /\ Cardinality(Greetings) = helloCounter
  BY DEF HelloInv
<1>2. \A v \in Workers \ {w} : at'[v] = at[v] /\ metrics'[v] = metrics[v]
  BY <1>1
<1>3. \A v \in Workers : HelloOK(v)' /\ Greeted(v)' = Greeted(v)
  BY <1>1, <1>2 DEF HelloOK, Greeted
<1>4. Greetings' = Greetings
  BY <1>3 DEF Greetings
<1> QED
  BY <1>1, <1>3, <1>4 DEF HelloInv

LEMMA GreetsOK ==
  ASSUME AllHello, HelloInv, NEW w \in Workers,
         StartHello(w) \/ Hello(w) \/ ReportHello(w) \/ ReportNumber(w)
  PROVE  HelloInv'
<1>1. /\ DOMAIN at = Workers /\ DOMAIN metrics = Workers
      /\ HelloOK(w) /\ MetricsOK(metrics[w]) /\ metrics[w].success \in Nat /\ helloCounter \in Nat
      /\ IsFiniteSet(Greetings) /\ Cardinality(Greetings) = helloCounter
  BY DEF HelloInv, HelloOK
<1>2. CASE StartHello(w)
  <2> DEFINE m == start(metrics[w])
  <2>1. MetricsOK(m) /\ m.success = metrics[w].success /\ m.unknown = metrics[w].unknown
    BY <1>1, StartCounts
  <2> HIDE DEF m
  <2>2. /\ at[w] = "top" /\ metrics' = [metrics EXCEPT ![w] = m] /\ at' = [at EXCEPT ![w] = "hello"]
        /\ UNCHANGED <<kind, helloCounter>>
    BY <1>2 DEF StartHello, Begin, Is, Measure, server, m
  <2>3. at'[w] = "hello" /\ metrics'[w] = m
    BY <1>1, <2>2
  <2>4. HelloOK(w)' /\ Greeted(w)' = Greeted(w)
    BY <1>1, <2>1, <2>2, <2>3 DEF HelloOK, Greeted
  <2> QED
    BY <2>2, <2>4, SameGreetings
<1>3. CASE ReportHello(w)
  <2> DEFINE m == Close(metrics[w], "success")
  <2>1. MetricsOK(m) /\ m.success = metrics[w].success + 1 /\ m.unknown = metrics[w].unknown
    BY <1>1, CloseCounts
  <2> HIDE DEF m
  <2>2. /\ at[w] = "greeted" /\ metrics' = [metrics EXCEPT ![w] = m] /\ at' = [at EXCEPT ![w] = "number"]
        /\ UNCHANGED <<kind, helloCounter>>
    BY <1>3 DEF ReportHello, Goto, Is, Measure, server, m
  <2>3. at'[w] = "number" /\ metrics'[w] = m
    BY <1>1, <2>2
  <2>4. HelloOK(w)' /\ Greeted(w)' = Greeted(w)
    BY <1>1, <2>1, <2>2, <2>3 DEF HelloOK, Greeted, MetricsOK
  <2> QED
    BY <2>2, <2>4, SameGreetings
<1>4. CASE ReportNumber(w)
  <2> DEFINE m == report(metrics[w])
  <2>1. MetricsOK(m) /\ m.success = metrics[w].success /\ m.unknown = metrics[w].unknown + 1
    BY <1>1, ReportCounts
  <2> HIDE DEF m
  <2>2. /\ at[w] = "number" /\ metrics' = [metrics EXCEPT ![w] = m] /\ at' = [at EXCEPT ![w] = "top"]
        /\ UNCHANGED <<kind, helloCounter>>
    BY <1>4 DEF ReportNumber, Goto, Is, Measure, server, m
  <2>3. at'[w] = "top" /\ metrics'[w] = m
    BY <1>1, <2>2
  <2>4. HelloOK(w)' /\ Greeted(w)' = Greeted(w)
    BY <1>1, <2>1, <2>2, <2>3 DEF HelloOK, Greeted, MetricsOK
  <2> QED
    BY <2>2, <2>4, SameGreetings
<1>5. CASE Hello(w)
  <2>1. /\ at[w] = "hello" /\ at' = [at EXCEPT ![w] = "greeted"] /\ UNCHANGED <<kind, metrics>>
        /\ helloCounter' = helloCounter + 1
    BY <1>5 DEF Hello, Goto, Is
  <2>2. at'[w] = "greeted" /\ \A v \in Workers \ {w} : at'[v] = at[v]
    BY <1>1, <2>1
  <2>3. PICK s \in Nat : s = metrics[w].success
    BY <1>1
  <2>4. /\ Greeted(w) = s /\ Greeted(w)' = s + 1
        /\ \A v \in Workers \ {w} : Greeted(v)' = Greeted(v)
    BY <2>1, <2>2, <2>3 DEF Greeted
  <2>5. Greetings' = Greetings \cup {<<w, s + 1>>} /\ <<w, s + 1>> \notin Greetings
    <3>1. 1..(s + 1) = (1..s) \cup {s + 1} /\ s + 1 \notin 1..s
      OBVIOUS
    <3>2. {w} \X (1..Greeted(w)') = ({w} \X (1..Greeted(w))) \cup {<<w, s + 1>>}
      BY <2>4, <3>1
    <3>3. Greetings' = Greetings \cup {<<w, s + 1>>}
      BY <2>4, <3>2 DEF Greetings
    <3>4. <<w, s + 1>> \notin Greetings
      BY <2>4, <3>1 DEF Greetings
    <3> QED
      BY <3>3, <3>4
  <2>6. IsFiniteSet(Greetings') /\ Cardinality(Greetings') = helloCounter'
    BY <1>1, <2>1, <2>5, FS_AddElement
  <2>7. \A v \in Workers : HelloOK(v)'
    BY <1>1, <2>1, <2>2 DEF HelloInv, HelloOK
  <2> QED
    BY <1>1, <2>1, <2>6, <2>7 DEF HelloInv
<1> QED
  BY <1>2, <1>3, <1>4, <1>5

LEMMA HelloKept == HelloInv /\ [ActorsNext]_actorVars => HelloInv'
<1> SUFFICES ASSUME HelloInv, [ActorsNext]_actorVars, AllHello' PROVE HelloInv'
  BY DEF HelloInv
<1>1. UNCHANGED kind
  BY KindIsFixed
<1>2. AllHello
  BY <1>1 DEF AllHello
<1>3. ASSUME NEW w \in Workers, Worker(w) PROVE HelloInv'
  BY <1>2, <1>3, OnlyGreets, GreetsOK
<1>4. CASE StreamReads \/ UNCHANGED actorVars
  <2>1. UNCHANGED <<kind, at, metrics, helloCounter>>
    BY <1>4 DEF StreamReads, actorVars, server
  <2> QED
    BY <1>2, <2>1 DEF HelloInv, HelloOK, Greetings, Greeted
<1> QED
  BY <1>3, <1>4 DEF ActorsNext

\* MetricsAreTrue: of any number of workers of any kinds, whatever fails, no
\* context is lost but with its actor, none is open between two iterations, the
\* documents reported are those in the collection, a throughput is reported when
\* its count is reached, and no greeting or script file is lost.
THEOREM ReportsAreTrue == ActorsSpec => []MetricsAreTrue
<1>1. ReportInv /\ HelloInv => MetricsAreTrue
  <2> SUFFICES ASSUME ReportInv, HelloInv PROVE MetricsAreTrue
    OBVIOUS
  <2>1. NothingLost /\ ThroughputReached
    BY DEF ReportInv, WorkerOK, MetricsOK, NothingLost, ThroughputReached
  <2>2. DocumentsAccounted
    <3> SUFFICES ASSUME \A w \in Workers : at[w] = "top" PROVE docs = 1 + claimed /\ own = {}
      BY DEF DocumentsAccounted
    <3>1. Inserters = {} /\ Deleters = {}
      BY DEF Inserters, Deleters
    <3>2. Cardinality({}) = 0
      BY FS_EmptySet
    <3> QED
      BY <3>1, <3>2 DEF ReportInv, WorkerOK
  <2>3. SharedStateKept
    BY DEF ReportInv, HelloInv, HelloOK, WorkerOK, AllHello, SharedStateKept
  <2> QED
    BY <2>1, <2>2, <2>3 DEF MetricsAreTrue
<1> QED
  BY <1>1, ReportInit, ReportsKept, HelloInit, HelloKept, PTL DEF ActorsSpec

-----------------------------------------------------------------------------
(* The rolling window.                                                     *)

\* Where a thread has left a name that the window does not have yet.
NotYetOffered == {"name", "loadId", "nextId", "create", "emplace", "exists", "failed"}

\* The window has each name once, of a collection that exists; so has who is
\* about to offer one, and nobody offers the same.
OfferedOnce ==
  /\ \A i, j \in 1..Len(names) : names[i] = names[j] => i = j
  /\ \A i \in 1..Len(names) : names[i] \in db
  /\ \A t \in Setups \cup {Manager} :
       pc[t] = "emplace" =>
         /\ mine[t] \in db
         /\ \A i \in 1..Len(names) : names[i] # mine[t]
         /\ \A u \in Setups \cup {Manager} : pc[u] = "emplace" /\ u # t => mine[u] # mine[t]

\* The manager takes the front, when the Setup threads are done.
ManagerOK ==
  /\ pc[Manager] \in NotYetOffered \cup {"idle", "front", "pop", "drop"}
  /\ pc[Manager] # "idle" => Running
  /\ pc[Manager] \in {"front", "pop"} => names # <<>>
  /\ pc[Manager] = "pop" => mine[Manager] = names[1]
  /\ pc[Manager] = "drop" => \A i \in 1..Len(names) : names[i] # mine[Manager]

SetupsOK ==
  \A t \in Setups : /\ pc[t] \in NotYetOffered \cup {"idle", "done"}
                    /\ pc[t] \in NotYetOffered \ {"failed"} => left[t] > 0
                    /\ pc[t] = "done" => left[t] = 0

\* The collections that the Setup threads have put into the window.
Made == {p \in Setups \X (1..CollectionWindowSize) : p[2] > left[p[1]]}

\* The window has them all, less the one the manager is replacing; it has what
\* the manager adds to an empty one.
SizeOK ==
  IF WindowSize = 0
    THEN /\ Len(names) <= 1
         /\ ~Running => names = <<>>
         /\ pc[Manager] \in NotYetOffered \cup {"drop"} => names = <<>>
    ELSE Len(names) = Cardinality(Made) - (IF pc[Manager] \in NotYetOffered \cup {"drop"} THEN 1 ELSE 0)

WindowInv == RollingTypeOK /\ OfferedOnce /\ ManagerOK /\ SetupsOK /\ SizeOK

LEMMA MadeFinite == RollingTypeOK => IsFiniteSet(Made) /\ Cardinality(Made) \in Nat
<1> SUFFICES ASSUME RollingTypeOK PROVE IsFiniteSet(Made) /\ Cardinality(Made) \in Nat
  OBVIOUS
<1>1. IsFiniteSet(1..CollectionWindowSize)
  BY FS_Interval, WindowAssumption
<1>2. IsFiniteSet(Setups \X (1..CollectionWindowSize))
  BY <1>1, FS_Product, WindowAssumption
<1>3. IsFiniteSet(Made)
  BY <1>2, FS_Subset DEF Made
<1> QED
  BY <1>3, FS_CardinalityType

LEMMA MadeAll == RollingTypeOK /\ SetupsOK /\ Running => Cardinality(Made) = WindowSize
<1> SUFFICES ASSUME RollingTypeOK, SetupsOK, Running PROVE Cardinality(Made) = WindowSize
  OBVIOUS
<1>1. Made = Setups \X (1..CollectionWindowSize)
  BY WindowAssumption DEF Made, SetupsOK, Running
<1>2. IsFiniteSet(1..CollectionWindowSize) /\ Cardinality(1..CollectionWindowSize) = CollectionWindowSize
  BY FS_Interval, WindowAssumption
<1>3. Cardinality(Made) = Cardinality(Setups) * CollectionWindowSize
  BY <1>1, <1>2, FS_Product, WindowAssumption
<1>4. Cardinality(Setups) \in Nat
  BY FS_CardinalityType, WindowAssumption
<1> QED
  BY <1>3, <1>4, WindowAssumption DEF WindowSize

LEMMA WindowInit == RollingInit => WindowInv
<1> SUFFICES ASSUME RollingInit PROVE WindowInv
  OBVIOUS
<1>1. RollingTypeOK
  BY WindowAssumption DEF RollingInit, RollingTypeOK, Name
<1>2. OfferedOnce /\ ManagerOK /\ SetupsOK
  BY RolesAssumption DEF RollingInit, OfferedOnce, ManagerOK, SetupsOK, RollingThreads, NotYetOffered
<1>3. Made = {}
  BY WindowAssumption DEF RollingInit, Made
<1>4. SizeOK
  BY <1>3, FS_EmptySet DEF RollingInit, SizeOK, RollingThreads, NotYetOffered
<1> QED
  BY <1>1, <1>2, <1>4 DEF WindowInv

\* A thread of the window that moves on without a name in the window changing.
LEMMA MovesOn ==
  ASSUME WindowInv, NEW t \in Setups \cup {Manager}, RollingTypeOK',
         UNCHANGED <<names, left>>, db \subseteq db',
         \A u \in (Setups \cup {Manager}) \ {t} : pc'[u] = pc[u] /\ mine'[u] = mine[u],
         pc'[t] # "emplace",
         t \in Setups => /\ pc[t] # "done"
                         /\ pc'[t] \in NotYetOffered \cup {"idle", "done"}
                         /\ pc'[t] \in NotYetOffered \ {"failed"} => left[t] > 0
                         /\ pc'[t] = "done" => left[t] = 0,
         t = Manager => /\ ManagerOK'
                        /\ pc'[t] \in NotYetOffered \cup {"drop"} <=> pc[t] \in NotYetOffered \cup {"drop"}
  PROVE  WindowInv'
<1>1. OfferedOnce'
  BY DEF WindowInv, OfferedOnce
<1>2. SetupsOK'
  BY RolesAssumption DEF WindowInv, SetupsOK
<1>3. ManagerOK'
  <2>1. CASE t \in Setups
    <3>1. pc[Manager] = "idle"
      BY <2>1 DEF WindowInv, ManagerOK, Running
    <3> QED
      BY <2>1, <3>1, RolesAssumption DEF WindowInv, ManagerOK, NotYetOffered
  <2> QED
    BY <2>1
<1>4. SizeOK'
  <2>1. Made' = Made
    BY DEF Made
  <2>2. pc'[Manager] \in NotYetOffered \cup {"drop"} <=> pc[Manager] \in NotYetOffered \cup {"drop"}
    BY RolesAssumption
  <2>3. ~Running' => ~Running \/ names = <<>>
    <3>1. CASE t \in Setups
      BY <3>1 DEF Running
    <3>2. CASE t = Manager
      BY <3>2, RolesAssumption DEF Running
    <3> QED
      BY <3>1, <3>2
  <2> QED
    BY <2>1, <2>2, <2>3 DEF WindowInv, SizeOK, WindowSize
<1> QED
  BY <1>1, <1>2, <1>3, <1>4 DEF WindowInv

\* A name is made up, and its collection created.
LEMMA NamingOK ==
  ASSUME WindowInv, NEW t \in Setups \cup {Manager}, TakeMillis(t) \/ LoadId(t) \/ NextId(t)
  PROVE  WindowInv'
<1>0. RollingTypeOK /\ t \in RollingThreads
  BY DEF WindowInv, RollingThreads
<1>1. /\ pc[t] \in {"name", "loadId", "nextId"}
      /\ pc' = [pc EXCEPT ![t] = IF pc[t] = "name" THEN "loadId" ELSE IF pc[t] = "loadId" THEN "nextId" ELSE "create"]
      /\ UNCHANGED <<names, db, left>>
      /\ \A u \in (Setups \cup {Manager}) \ {t} : mine'[u] = mine[u]
  BY <1>0 DEF TakeMillis, LoadId, NextId, RollingStep, RollingGoto, shared, RollingTypeOK, RollingThreads
<1>2. RollingTypeOK'
  <2> USE <1>0, WindowAssumption DEF RollingTypeOK, RollingStep, RollingGoto, shared, RollingThreads
  <2>1. CASE TakeMillis(t)
    BY <2>1 DEF TakeMillis, Name
  <2>2. CASE LoadId(t)
    BY <2>2 DEF LoadId, Name
  <2>3. CASE NextId(t)
    BY <2>3 DEF NextId
  <2> QED
    BY <2>1, <2>2, <2>3
<1>3. pc'[t] \in {"loadId", "nextId", "create"} /\ \A u \in (Setups \cup {Manager}) \ {t} : pc'[u] = pc[u]
  BY <1>0, <1>1 DEF RollingTypeOK, RollingThreads
<1>4. t = Manager => ManagerOK'
  BY <1>1, <1>3, RolesAssumption DEF WindowInv, ManagerOK, NotYetOffered, Running
<1> QED
  BY <1>1, <1>2, <1>3, <1>4, MovesOn DEF WindowInv, SetupsOK, NotYetOffered

LEMMA CreatingOK ==
  ASSUME WindowInv, NEW t \in Setups \cup {Manager}, createCollection(t)
  PROVE  WindowInv'
<1>0. RollingTypeOK /\ t \in RollingThreads
  BY DEF WindowInv, RollingThreads
<1>1. PICK to \in {"exists", "emplace", "failed"} :
        /\ pc[t] = "create" /\ pc' = [pc EXCEPT ![t] = to]
        /\ db \subseteq db' /\ db' \subseteq db \cup {mine[t]}
        /\ to = "emplace" => mine[t] \notin db /\ mine[t] \in db'
        /\ UNCHANGED <<clock, id, names, mine, left, index>>
  BY DEF createCollection, RollingStep, RollingGoto
<1>2. RollingTypeOK'
  BY <1>0, <1>1 DEF RollingTypeOK, RollingThreads
<1>3. /\ pc'[t] = to
      /\ \A u \in RollingThreads \ {t} : pc'[u] = pc[u]
  BY <1>0, <1>1 DEF RollingTypeOK
<1>4. OfferedOnce'
  BY <1>0, <1>1, <1>3 DEF WindowInv, OfferedOnce, RollingThreads
<1>5. SetupsOK'
  BY <1>0, <1>1, <1>3, RolesAssumption DEF WindowInv, SetupsOK, NotYetOffered, RollingThreads
<1>6. Running' = Running
  BY <1>0, <1>1, <1>3 DEF Running, RollingThreads
<1>7. ManagerOK'
  BY <1>0, <1>1, <1>3, <1>6, RolesAssumption DEF WindowInv, ManagerOK, NotYetOffered, RollingThreads
<1>8. SizeOK'
  <2>1. Made' = Made
    BY <1>1 DEF Made
  <2>2. pc'[Manager] \in NotYetOffered \cup {"drop"} <=> pc[Manager] \in NotYetOffered \cup {"drop"}
    BY <1>0, <1>1, <1>3, RolesAssumption DEF NotYetOffered, RollingThreads
  <2> QED
    BY <1>1, <1>6, <2>1, <2>2 DEF WindowInv, SizeOK, WindowSize
<1> QED
  BY <1>2, <1>4, <1>5, <1>7, <1>8 DEF WindowInv

\* A name that is new to the window is offered.
LEMMA OfferingOK ==
  ASSUME WindowInv, NEW t \in Setups \cup {Manager}, EmplaceBack(t)
  PROVE  WindowInv'
<1>0. RollingTypeOK /\ t \in RollingThreads /\ names \in Seq(Name) /\ mine[t] \in Name
  BY DEF WindowInv, RollingTypeOK, RollingThreads
<1>1. PICK to \in {"idle", "failed"} :
        /\ pc[t] = "emplace" /\ pc' = [pc EXCEPT ![t] = to] /\ (to = "failed" => t \in Setups)
        /\ names' = Append(names, mine[t]) /\ UNCHANGED <<clock, id, db, mine, index>>
        /\ left' = IF t \in Setups THEN [left EXCEPT ![t] = @ - 1] ELSE left
  BY DEF EmplaceBack, RollingStep, RollingGoto
<1>2. pc'[t] = to /\ \A u \in RollingThreads \ {t} : pc'[u] = pc[u]
  BY <1>0, <1>1 DEF RollingTypeOK
<1>3. t \in Setups => left[t] > 0
  BY <1>1 DEF WindowInv, SetupsOK, NotYetOffered
<1>4. RollingTypeOK'
  <2>1. left' \in [Setups -> 0..CollectionWindowSize]
    BY <1>0, <1>1, <1>3, WindowAssumption DEF RollingTypeOK
  <2>2. names' \in Seq(Name)
    BY <1>0, <1>1
  <2> QED
    BY <1>0, <1>1, <2>1, <2>2 DEF RollingTypeOK, RollingThreads
<1>5. OfferedOnce'
  <2>1. /\ Len(names') = Len(names) + 1 /\ names'[Len(names) + 1] = mine[t]
        /\ \A i \in 1..Len(names) : names'[i] = names[i]
        /\ Len(names) \in Nat
    BY <1>0, <1>1
  <2>2. mine[t] \in db /\ \A i \in 1..Len(names) : names[i] # mine[t]
    BY <1>1 DEF WindowInv, OfferedOnce
  <2>3. \A i, j \in 1..Len(names') : names'[i] = names'[j] => i = j
    BY <2>1, <2>2 DEF WindowInv, OfferedOnce
  <2>4. \A i \in 1..Len(names') : names'[i] \in db'
    BY <1>1, <2>1, <2>2 DEF WindowInv, OfferedOnce
  <2>5. ASSUME NEW u \in Setups \cup {Manager}, pc'[u] = "emplace"
        PROVE  /\ mine'[u] \in db'
               /\ \A i \in 1..Len(names') : names'[i] # mine'[u]
               /\ \A v \in Setups \cup {Manager} : pc'[v] = "emplace" /\ v # u => mine'[v] # mine'[u]
    <3>1. u # t /\ pc[u] = "emplace"
      BY <1>2, <2>5 DEF RollingThreads
    <3>2. mine[u] # mine[t] /\ mine[u] \in db /\ \A i \in 1..Len(names) : names[i] # mine[u]
      BY <1>1, <3>1 DEF WindowInv, OfferedOnce
    <3>3. \A v \in Setups \cup {Manager} : pc'[v] = "emplace" => pc[v] = "emplace"
      BY <1>2 DEF RollingThreads
    <3> QED
      BY <1>1, <2>1, <3>1, <3>2, <3>3 DEF WindowInv, OfferedOnce
  <2> QED
    BY <2>3, <2>4, <2>5 DEF OfferedOnce
<1>6. SetupsOK'
  BY <1>0, <1>1, <1>2, RolesAssumption DEF WindowInv, SetupsOK, NotYetOffered, RollingThreads, RollingTypeOK
<1>7. Running' = Running
  BY <1>0, <1>1, <1>2 DEF Running, RollingThreads
<1>8. ManagerOK'
  <2>1. CASE t = Manager
    BY <1>1, <1>2, <2>1, RolesAssumption DEF ManagerOK
  <2>2. CASE t \in Setups
    <3>1. pc[Manager] = "idle" /\ pc'[Manager] = "idle"
      BY <1>1, <1>2, <2>2, RolesAssumption DEF WindowInv, ManagerOK, Running, RollingThreads
    <3> QED
      BY <3>1 DEF ManagerOK
  <2> QED
    BY <2>1, <2>2
<1>9. SizeOK'
  <2>0. Len(names') = Len(names) + 1 /\ Len(names) \in Nat
    BY <1>0, <1>1
  <2>1. CASE t = Manager
    <3>1. Made' = Made /\ IsFiniteSet(Made) /\ Cardinality(Made) \in Nat
      BY <1>0, <1>1, <2>1, RolesAssumption, MadeFinite DEF Made
    <3>2. Running /\ pc[Manager] \in NotYetOffered /\ pc'[Manager] = "idle"
      BY <1>1, <1>2, <2>1, RolesAssumption DEF WindowInv, ManagerOK, NotYetOffered
    <3>3. WindowSize' = WindowSize
      BY DEF WindowSize
    <3> QED
      BY <1>7, <2>0, <3>1, <3>2, <3>3 DEF WindowInv, SizeOK, NotYetOffered
  <2>2. CASE t \in Setups
    <3>1. pc[Manager] = "idle" /\ pc'[Manager] = "idle"
      BY <1>1, <1>2, <2>2, RolesAssumption DEF WindowInv, ManagerOK, Running, RollingThreads
    <3>2. left[t] \in 1..CollectionWindowSize /\ \A u \in Setups : left[u] \in 0..CollectionWindowSize
      BY <1>0, <1>3, <2>2, WindowAssumption DEF RollingTypeOK
    <3>3. left'[t] = left[t] - 1 /\ \A u \in Setups \ {t} : left'[u] = left[u]
      BY <1>0, <1>1, <2>2 DEF RollingTypeOK
    <3>4. Made' = Made \cup {<<t, left[t]>>} /\ <<t, left[t]>> \notin Made
      BY <2>2, <3>2, <3>3, WindowAssumption DEF Made
    <3>5. Cardinality(Made') = Cardinality(Made) + 1 /\ Cardinality(Made) \in Nat
      BY <1>0, <3>4, MadeFinite, FS_AddElement
    <3>6. WindowSize # 0 /\ WindowSize' = WindowSize
      <4>1. Cardinality(Setups) \in Nat /\ Cardinality(Setups) # 0
        BY <2>2, FS_CardinalityType, FS_EmptySet, FS_RemoveElement, WindowAssumption
      <4>2. CollectionWindowSize \in Nat \ {0}
        BY <3>2, WindowAssumption
      <4> QED
        BY <4>1, <4>2 DEF WindowSize
    <3> QED
      BY <2>0, <3>1, <3>5, <3>6 DEF WindowInv, SizeOK, NotYetOffered
  <2> QED
    BY <2>1, <2>2
<1> QED
  BY <1>4, <1>5, <1>6, <1>8, <1>9 DEF WindowInv

LEMMA SettingUpOK ==
  ASSUME WindowInv, NEW t \in Setups, Setup(t)
  PROVE  WindowInv'
<1>0. RollingTypeOK /\ t \in RollingThreads /\ left[t] \in 0..CollectionWindowSize
  BY DEF WindowInv, RollingThreads, RollingTypeOK
<1>1. /\ pc[t] = "idle" /\ pc' = [pc EXCEPT ![t] = IF left[t] = 0 THEN "done" ELSE "name"]
      /\ UNCHANGED <<clock, id, names, db, mine, left, index>>
  BY DEF Setup, RollingStep, RollingGoto, shared
<1>2. RollingTypeOK'
  BY <1>0, <1>1 DEF RollingTypeOK
<1>3. pc'[t] = (IF left[t] = 0 THEN "done" ELSE "name") /\ \A u \in (Setups \cup {Manager}) \ {t} : pc'[u] = pc[u]
  BY <1>0, <1>1 DEF RollingTypeOK, RollingThreads
<1>4. left[t] # 0 => left[t] > 0
  BY <1>0, WindowAssumption
<1> QED
  BY <1>1, <1>2, <1>3, <1>4, MovesOn, RolesAssumption DEF NotYetOffered

\* The manager replaces the collection at the front.
LEMMA ManagingOK ==
  ASSUME WindowInv, Manage \/ TakeFront \/ PopFront \/ Drop
  PROVE  WindowInv'
<1>0. RollingTypeOK /\ Manager \in RollingThreads /\ names \in Seq(Name)
  BY DEF WindowInv, RollingThreads, RollingTypeOK
<1>m. \A t \in Setups : t # Manager /\ t \in RollingThreads
  BY RolesAssumption DEF RollingThreads
<1>1. CASE Manage
  <2>1. /\ Running /\ pc[Manager] = "idle"
        /\ pc' = [pc EXCEPT ![Manager] = IF names = <<>> THEN "name" ELSE "front"]
        /\ UNCHANGED <<clock, id, names, db, mine, left, index>>
    BY <1>1 DEF Manage, RollingStep, RollingGoto, shared
  <2>2. RollingTypeOK'
    BY <1>0, <2>1 DEF RollingTypeOK
  <2>3. pc'[Manager] = (IF names = <<>> THEN "name" ELSE "front") /\ \A u \in Setups : pc'[u] = pc[u]
    BY <1>0, <1>m, <2>1 DEF RollingTypeOK
  <2>4. Running'
    BY <2>1, <2>3 DEF Running
  <2>5. OfferedOnce' /\ SetupsOK'
    BY <1>m, <2>1, <2>3 DEF WindowInv, OfferedOnce, SetupsOK
  <2>6. ManagerOK'
    BY <2>1, <2>3, <2>4 DEF ManagerOK, NotYetOffered
  <2>7. SizeOK'
    <3>1. Made' = Made /\ WindowSize' = WindowSize
      BY <2>1 DEF Made, WindowSize
    <3>2. Cardinality(Made) = WindowSize
      BY <1>0, <2>1, MadeAll DEF WindowInv
    <3>3. names = <<>> => Len(names) = 0
      OBVIOUS
    <3>4. names = <<>> => WindowSize = 0
      BY <2>1, <3>2, <3>3 DEF WindowInv, SizeOK, NotYetOffered
    <3> QED
      BY <2>1, <2>3, <2>4, <3>1, <3>4 DEF WindowInv, SizeOK, NotYetOffered
  <2> QED
    BY <2>2, <2>5, <2>6, <2>7 DEF WindowInv
<1>2. CASE TakeFront
  <2>1. /\ pc[Manager] = "front" /\ pc' = [pc EXCEPT ![Manager] = "pop"]
        /\ mine' = [mine EXCEPT ![Manager] = Head(names)]
        /\ UNCHANGED <<clock, id, names, db, left, index>>
    BY <1>2 DEF TakeFront, RollingStep, RollingGoto, shared
  <2>2. names # <<>> /\ Running
    BY <2>1 DEF WindowInv, ManagerOK
  <2>3. Head(names) = names[1] /\ Head(names) \in Name
    BY <1>0, <2>2
  <2>4. RollingTypeOK'
    BY <1>0, <2>1, <2>3 DEF RollingTypeOK
  <2>5. /\ pc'[Manager] = "pop" /\ mine'[Manager] = names[1]
        /\ \A u \in Setups : pc'[u] = pc[u] /\ mine'[u] = mine[u]
    BY <1>0, <1>m, <2>1, <2>3 DEF RollingTypeOK
  <2>6. Running'
    BY <2>2, <2>5 DEF Running
  <2>7. ManagerOK'
    BY <2>1, <2>2, <2>5, <2>6 DEF ManagerOK
  <2> QED
    BY <1>m, <2>1, <2>4, <2>5, <2>7, MovesOn, RolesAssumption DEF NotYetOffered
<1>3. CASE PopFront
  <2>1. /\ pc[Manager] = "pop" /\ pc' = [pc EXCEPT ![Manager] = "drop"]
        /\ names' = Tail(names) /\ UNCHANGED <<clock, id, db, mine, left, index>>
    BY <1>3 DEF PopFront, RollingStep, RollingGoto
  <2>2. names # <<>> /\ Running /\ mine[Manager] = names[1]
    BY <2>1 DEF WindowInv, ManagerOK
  <2>3. /\ names' \in Seq(Name) /\ Len(names) \in Nat /\ Len(names') = Len(names) - 1
        /\ \A i \in 1..Len(names') : names'[i] = names[i + 1] /\ i + 1 \in 1..Len(names)
        /\ 1 \in 1..Len(names)
    BY <1>0, <2>1, <2>2
  <2>4. RollingTypeOK'
    BY <1>0, <2>1, <2>3 DEF RollingTypeOK
  <2>5. pc'[Manager] = "drop" /\ \A u \in Setups : pc'[u] = pc[u] /\ pc'[u] = "done"
    BY <1>0, <1>m, <2>1, <2>2 DEF RollingTypeOK, Running
  <2>6. OfferedOnce'
    BY <2>1, <2>3, <2>5 DEF WindowInv, OfferedOnce
  <2>7. \A i \in 1..Len(names') : names'[i] # mine'[Manager]
    BY <2>1, <2>2, <2>3 DEF WindowInv, OfferedOnce
  <2>8. Running'
    BY <2>5 DEF Running
  <2>9. ManagerOK' /\ SetupsOK'
    BY <2>1, <2>5, <2>7, <2>8 DEF WindowInv, ManagerOK, SetupsOK
  <2>10. SizeOK'
    <3>1. Made' = Made /\ WindowSize' = WindowSize
      BY <2>1 DEF Made, WindowSize
    <3>2. Cardinality(Made) \in Nat
      BY <1>0, MadeFinite
    <3>3. Len(names') = 0 => names' = <<>>
      BY <2>3
    <3> QED
      BY <2>1, <2>3, <2>5, <2>8, <3>1, <3>2, <3>3 DEF WindowInv, SizeOK, NotYetOffered
  <2> QED
    BY <2>4, <2>6, <2>9, <2>10 DEF WindowInv
<1>4. CASE Drop
  <2>1. PICK to \in {"name", "failed"} :
          /\ pc[Manager] = "drop" /\ pc' = [pc EXCEPT ![Manager] = to]
          /\ db' \in {db, db \ {mine[Manager]}} /\ UNCHANGED <<clock, id, names, mine, left, index>>
    BY <1>4 DEF Drop, RollingStep, RollingGoto
  <2>2. Running /\ \A i \in 1..Len(names) : names[i] # mine[Manager]
    BY <2>1 DEF WindowInv, ManagerOK
  <2>3. RollingTypeOK'
    BY <1>0, <2>1 DEF RollingTypeOK
  <2>4. pc'[Manager] = to /\ \A u \in Setups : pc'[u] = pc[u] /\ pc'[u] = "done"
    BY <1>0, <1>m, <2>1, <2>2 DEF RollingTypeOK, Running
  <2>5. OfferedOnce'
    BY <2>1, <2>2, <2>4 DEF WindowInv, OfferedOnce
  <2>6. Running'
    BY <2>4 DEF Running
  <2>7. ManagerOK' /\ SetupsOK'
    BY <2>1, <2>4, <2>6 DEF WindowInv, ManagerOK, SetupsOK, NotYetOffered
  <2>8. SizeOK'
    <3>1. Made' = Made /\ WindowSize' = WindowSize
      BY <2>1 DEF Made, WindowSize
    <3> QED
      BY <2>1, <2>4, <2>6, <3>1 DEF WindowInv, SizeOK, NotYetOffered
  <2> QED
    BY <2>3, <2>5, <2>7, <2>8 DEF WindowInv
<1> QED
  BY <1>1, <1>2, <1>3, <1>4

\* Who writes, reads or waits leaves the window as it is; an insert can only
\* create.
LEMMA WindowKept ==
  ASSUME WindowInv, RollingTypeOK', UNCHANGED <<names, left>>, db \subseteq db',
         \A t \in Setups \cup {Manager} : pc'[t] = pc[t] /\ mine'[t] = mine[t]
  PROVE  WindowInv'
<1>1. OfferedOnce' /\ SetupsOK'
  BY DEF WindowInv, OfferedOnce, SetupsOK
<1>2. Running' = Running /\ Made' = Made /\ WindowSize' = WindowSize
  BY DEF Running, Made, WindowSize
<1>3. ManagerOK' /\ SizeOK'
  BY <1>2 DEF WindowInv, ManagerOK, SizeOK
<1> QED
  BY <1>1, <1>3 DEF WindowInv

LEMMA UsersOK ==
  ASSUME WindowInv,
         \/ \E t \in Writers : Write(t) \/ Back(t) \/ CopyName(t, "insert") \/ InsertOne(t)
         \/ \E t \in Readers : Read(t) \/ Draw(t) \/ At(t) \/ CopyName(t, "find") \/ FindOne(t)
  PROVE  WindowInv'
<1>0. RollingTypeOK /\ names \in Seq(Name)
  BY DEF WindowInv, RollingTypeOK
<1> USE <1>0 DEF RollingStep, RollingGoto, shared
<1>1. ASSUME NEW t \in Writers, Write(t) \/ Back(t) \/ CopyName(t, "insert") \/ InsertOne(t)
      PROVE  WindowInv'
  <2>1. t \in RollingThreads /\ \A u \in Setups \cup {Manager} : u # t /\ u \in RollingThreads
    BY RolesAssumption DEF RollingThreads
  <2>2. CASE Write(t) \/ CopyName(t, "insert")
    <3>1. RollingTypeOK'
      BY <2>1, <2>2 DEF Write, CopyName, RollingTypeOK
    <3> QED
      BY <2>1, <2>2, <3>1, WindowKept DEF Write, CopyName, RollingTypeOK
  <2>3. CASE Back(t)
    <3>1. names # <<>> => Last(names) \in Name
      BY DEF Last
    <3>2. RollingTypeOK'
      BY <2>1, <2>3, <3>1 DEF Back, RollingTypeOK
    <3> QED
      BY <2>1, <2>3, <3>2, WindowKept DEF Back, RollingTypeOK
  <2>4. CASE InsertOne(t)
    <3>1. RollingTypeOK'
      BY <2>1, <2>4 DEF InsertOne, RollingTypeOK
    <3> QED
      BY <2>1, <2>4, <3>1, WindowKept DEF InsertOne, RollingTypeOK
  <2> QED
    BY <1>1, <2>2, <2>3, <2>4
<1>2. ASSUME NEW t \in Readers, Read(t) \/ Draw(t) \/ At(t) \/ CopyName(t, "find") \/ FindOne(t)
      PROVE  WindowInv'
  <2>1. t \in RollingThreads /\ \A u \in Setups \cup {Manager} : u # t /\ u \in RollingThreads
    BY RolesAssumption DEF RollingThreads
  <2>2. CASE Read(t)
    <3>1. RollingTypeOK'
      BY <2>1, <2>2 DEF Read, RollingTypeOK
    <3> QED
      BY <2>1, <2>2, <3>1, WindowKept DEF Read, RollingTypeOK
  <2>3. CASE Draw(t)
    <3>1. RollingTypeOK'
      BY <2>1, <2>3 DEF Draw, RollingTypeOK, NextCollectionIds
    <3> QED
      BY <2>1, <2>3, <3>1, WindowKept DEF Draw, RollingTypeOK
  <2>4. CASE At(t)
    <3>1. index[t] \in Nat
      BY <2>1 DEF RollingTypeOK
    <3>2. index[t] < Len(names) => names[index[t] + 1] \in Name
      BY <3>1
    <3>3. RollingTypeOK'
      BY <2>1, <2>4, <3>2 DEF At, RollingTypeOK
    <3> QED
      BY <2>1, <2>4, <3>3, WindowKept DEF At, RollingTypeOK
  <2>5. CASE CopyName(t, "find") \/ FindOne(t)
    <3>1. RollingTypeOK'
      BY <2>1, <2>5 DEF CopyName, FindOne, RollingTypeOK
    <3> QED
      BY <2>1, <2>5, <3>1, WindowKept DEF CopyName, FindOne, RollingTypeOK
  <2> QED
    BY <1>2, <2>2, <2>3, <2>4, <2>5
<1> QED
  BY <1>1, <1>2

\* WindowHolds: every name the window offers is that of a collection, though
\* writers, readers and the manager use the deque call by call; and the window
\* has the size the Setup threads gave it, or one less while a collection is
\* replaced, for any number of Setup threads.
THEOREM WindowAlwaysHolds == RollingSpec => []WindowHolds
<1>1. WindowInv /\ [RollingNext]_rollingVars => WindowInv'
  <2> SUFFICES ASSUME WindowInv, [RollingNext]_rollingVars PROVE WindowInv'
    OBVIOUS
  <2>1. CASE \E t \in Setups \cup {Manager} : NewCollection(t)
    BY <2>1, NamingOK, CreatingOK, OfferingOK DEF NewCollection
  <2>2. CASE (\E t \in Setups : Setup(t)) \/ Manage \/ TakeFront \/ PopFront \/ Drop
    BY <2>2, SettingUpOK, ManagingOK
  <2>3. CASE Tick
    <3>1. RollingTypeOK'
      BY <2>3, WindowAssumption DEF Tick, WindowInv, RollingTypeOK, shared
    <3> QED
      BY <2>3, <3>1, WindowKept DEF Tick, shared
  <2>4. CASE UNCHANGED rollingVars
    <3>1. RollingTypeOK'
      BY <2>4 DEF rollingVars, WindowInv, RollingTypeOK, shared
    <3> QED
      BY <2>4, <3>1, WindowKept DEF rollingVars, shared
  <2> QED
    BY <2>1, <2>2, <2>3, <2>4, UsersOK DEF RollingNext
<1>2. WindowInv => WindowHolds
  <2> SUFFICES ASSUME WindowInv PROVE WindowHolds
    OBVIOUS
  <2>0. names \in Seq(Name) /\ Len(names) \in Nat /\ DOMAIN names = 1..Len(names)
    BY DEF WindowInv, RollingTypeOK
  <2>1. NamesExist
    BY <2>0 DEF WindowInv, OfferedOnce, NamesExist, ToSet
  <2>2. Running => Cardinality(Made) = WindowSize /\ WindowSize \in Nat
    BY MadeAll, MadeFinite DEF WindowInv
  <2>3. WindowRolls
    BY <2>0, <2>2 DEF WindowInv, SizeOK, WindowRolls
  <2> QED
    BY <2>1, <2>3 DEF WindowHolds
<1> QED
  BY <1>1, <1>2, WindowInit, PTL DEF RollingSpec

-----------------------------------------------------------------------------
(* Sums.                                                                   *)

\* S[k] is the sum of f[0] .. f[k-1].
PartialSums(S, f, n) ==
  /\ S \in [0..n -> Nat]
  /\ S[0] = 0
  /\ \A k \in 0..(n - 1) : S[k + 1] = S[k] + f[k]

\* The sum of f[0] .. f[n-1] is v.
SumsTo(f, n, v) == \E S : PartialSums(S, f, n) /\ S[n] = v

LEMMA SumOfNothing ==
  ASSUME NEW f, NEW n \in Nat, \A k \in 0..(n - 1) : f[k] = 0
  PROVE  SumsTo(f, n, 0)
<1>1. PICK S : S = [k \in 0..n |-> 0]
  OBVIOUS
<1>2. PartialSums(S, f, n) /\ S[n] = 0
  BY <1>1 DEF PartialSums
<1> QED
  BY <1>2 DEF SumsTo

\* What is added to one of the terms is added to the sum.
LEMMA SumFollows ==
  ASSUME NEW f, NEW g, NEW n \in Nat, NEW v, SumsTo(f, n, v),
         NEW j \in 0..(n - 1), NEW d \in Nat,
         \A k \in 0..(n - 1) : f[k] \in Nat,
         g[j] = f[j] + d,
         \A k \in 0..(n - 1) : k # j => g[k] = f[k]
  PROVE  SumsTo(g, n, v + d)
<1>1. PICK S : PartialSums(S, f, n) /\ S[n] = v
  BY DEF SumsTo
<1>2. S \in [0..n -> Nat] /\ S[0] = 0
  BY <1>1 DEF PartialSums
<1>3. PICK R : R = [k \in 0..n |-> IF k > j THEN S[k] + d ELSE S[k]]
  OBVIOUS
<1>4. R \in [0..n -> Nat] /\ R[0] = 0 /\ R[n] = v + d
  BY <1>1, <1>2, <1>3
<1>5. ASSUME NEW k \in 0..(n - 1)
      PROVE  R[k + 1] = R[k] + g[k]
  <2>1. S[k + 1] = S[k] + f[k] /\ S[k] \in Nat /\ S[k + 1] \in Nat
    BY <1>1, <1>2 DEF PartialSums
  <2>2. CASE k = j
    <3>1. R[k + 1] = S[k + 1] + d /\ R[k] = S[k]
      BY <1>3, <2>2
    <3> QED
      BY <2>1, <2>2, <3>1
  <2>3. CASE k > j
    <3>1. R[k + 1] = S[k + 1] + d /\ R[k] = S[k] + d /\ g[k] = f[k]
      BY <1>3, <2>3
    <3> QED
      BY <2>1, <3>1
  <2>4. CASE k < j
    <3>1. R[k + 1] = S[k + 1] /\ R[k] = S[k] /\ g[k] = f[k]
      BY <1>3, <2>4
    <3> QED
      BY <2>1, <3>1
  <2> QED
    BY <2>2, <2>3, <2>4
<1>6. PartialSums(R, g, n)
  BY <1>4, <1>5 DEF PartialSums
<1> QED
  BY <1>4, <1>6 DEF SumsTo

\* Terms of zero leave the sum alone.
LEMMA SumStays ==
  ASSUME NEW S, NEW f, NEW n \in Nat, PartialSums(S, f, n),
         NEW a \in 0..n, NEW b \in a..n, \A k \in a..(b - 1) : f[k] = 0
  PROVE  S[b] = S[a]
<1> SUFFICES ASSUME S[b] # S[a] PROVE FALSE
  OBVIOUS
<1>1. PICK T : T = {k \in a..b : S[k] # S[a]}
  OBVIOUS
<1>2. T \subseteq Nat /\ b \in T
  BY <1>1
<1>3. PICK l \in T : \A k \in T : l <= k
  BY <1>2, LeastNumber
<1>4. l \in a..b /\ S[l] # S[a] /\ l # a
  BY <1>1, <1>3
<1>5. PICK k \in a..(b - 1) : l = k + 1
  BY <1>4
<1>6. k \notin T
  BY <1>3, <1>5
<1>7. S[k] = S[a] /\ k \in 0..(n - 1)
  BY <1>1, <1>5, <1>6
<1>8. S[l] = S[k] + 0 /\ S[k] \in Nat
  BY <1>5, <1>7 DEF PartialSums
<1> QED
  BY <1>4, <1>7, <1>8

\* A sum with one term.
LEMMA SumOfOne ==
  ASSUME NEW f, NEW n \in Nat, NEW v, SumsTo(f, n, v), NEW j \in 0..(n - 1),
         \A k \in 0..(n - 1) : k # j => f[k] = 0
  PROVE  v = 0 + f[j]
<1>1. PICK S : PartialSums(S, f, n) /\ S[n] = v
  BY DEF SumsTo
<1>2. S[0] = 0 /\ S[j + 1] = S[j] + f[j]
  BY <1>1 DEF PartialSums
<1>3. S[j] = S[0]
  <2>1. 0 \in 0..n /\ j \in 0..n /\ \A k \in 0..(j - 1) : f[k] = 0
    OBVIOUS
  <2> QED
    BY <1>1, <2>1, SumStays
<1>4. S[n] = S[j + 1]
  <2>1. j + 1 \in 0..n /\ n \in (j + 1)..n /\ \A k \in (j + 1)..(n - 1) : f[k] = 0
    OBVIOUS
  <2> QED
    BY <1>1, <2>1, SumStays
<1> QED
  BY <1>1, <1>2, <1>3, <1>4

\* n blocks of b terms, of which the c-th alone counts: q of each block, and r
\* more of the first.
InBlocks(f, n, b, c, q, r) ==
  \A j \in 0..(n - 1), i \in 0..(b - 1) :
    f[b * j + i] = IF i = c THEN (IF j = 0 THEN q + r ELSE q) ELSE 0

LEMMA SumOfBlocks ==
  ASSUME NEW f, NEW n \in Nat \ {0}, NEW b \in Nat \ {0}, NEW v, SumsTo(f, b * n, v),
         NEW c \in 0..(b - 1), NEW q \in Nat, NEW r \in Nat, InBlocks(f, n, b, c, q, r)
  PROVE  v = q * n + r
<1> USE DEF InBlocks
<1>0. PICK N \in Nat : N = b * n
  BY Times
<1>1. PICK S : PartialSums(S, f, N) /\ S[N] = v
  BY <1>0 DEF SumsTo
<1>2. S[0] = 0 /\ S \in [0..N -> Nat] /\ \A k \in 0..(N - 1) : S[k + 1] = S[k] + f[k]
  BY <1>1 DEF PartialSums
<1>3. ASSUME NEW j \in 0..(n - 1)
      PROVE  b * j \in Nat /\ b * j + b <= N
  <2>1. b * (j + 1) <= b * n /\ b * (j + 1) = b * j + b
    BY Times, TimesGrows
  <2> QED
    BY <1>0, <2>1, Times
<1>4. ASSUME NEW j \in 0..(n - 1)
      PROVE  S[b * j + c + 1] = q * (j + 1) + r
  <2> SUFFICES ASSUME S[b * j + c + 1] # q * (j + 1) + r PROVE FALSE
    OBVIOUS
  <2>1. PICK T : T = {i \in 0..(n - 1) : S[b * i + c + 1] # q * (i + 1) + r}
    OBVIOUS
  <2>2. T \subseteq Nat /\ j \in T
    BY <2>1
  <2>3. PICK l \in T : \A k \in T : l <= k
    BY <2>2, LeastNumber
  <2>4. l \in 0..(n - 1) /\ S[b * l + c + 1] # q * (l + 1) + r
    BY <2>1, <2>3
  <2>5. PICK hi \in Nat : hi = b * l /\ hi + b <= N
    BY <1>3, <2>4
  <2>a. PICK e \in 0..(N - 1) : e = hi + c
    BY <2>5
  <2>6. e = hi + c /\ S[hi + c + 1] = S[hi + c] + f[hi + c] /\ S[hi + c] \in Nat
    BY <1>2, <2>a
  <2>7. f[hi + c] = IF l = 0 THEN q + r ELSE q
    BY <2>4, <2>5
  <2>8. CASE l = 0
    <3>1. hi = 0
      BY <2>5, <2>8, Times
    <3>2. \A k \in 0..(c - 1) : f[k] = 0
      <4>1. b * 0 = 0 /\ 0 \in 0..(n - 1)
        BY Times
      <4>2. ASSUME NEW k \in 0..(c - 1) PROVE f[k] = 0
        <5>1. k \in 0..(b - 1) /\ k # c /\ b * 0 + k = k
          BY <4>1
        <5>2. f[b * 0 + k] = 0
          BY <4>1, <5>1
        <5> QED
          BY <5>1, <5>2
      <4> QED
        BY <4>2
    <3>3. 0 \in 0..N /\ c \in 0..N
      BY <2>5
    <3>4. S[c] = S[0]
      BY <1>1, <3>2, <3>3, SumStays
    <3>5. S[hi + c + 1] = q + r
      BY <1>2, <2>6, <2>7, <2>8, <3>1, <3>4
    <3>6. q * (l + 1) = q
      BY <2>8
    <3> QED
      BY <2>4, <2>5, <3>5, <3>6
  <2>9. CASE l # 0
    <3>1. PICK p \in 0..(n - 1) : l = p + 1
      BY <2>4, <2>9
    <3>2. p \notin T
      BY <2>3, <3>1
    <3>3. PICK lo \in Nat : lo = b * p /\ hi = lo + b
      BY <1>3, <2>5, <3>1, Times
    <3>4. S[lo + c + 1] = q * l + r
      BY <2>1, <3>1, <3>2, <3>3
    <3>5. ASSUME NEW k \in (lo + c + 1)..(hi + c - 1)
          PROVE  f[k] = 0
      <4>1. CASE k < hi
        <5>1. PICK i \in 0..(b - 1) : i = k - lo /\ i # c
          BY <3>3, <4>1
        <5>2. f[b * p + i] = 0
          BY <3>1, <5>1
        <5> QED
          BY <3>3, <5>1, <5>2
      <4>2. CASE k >= hi
        <5>1. PICK i \in 0..(b - 1) : i = k - hi /\ i # c
          BY <3>3, <4>2
        <5>2. f[b * l + i] = 0
          BY <2>4, <5>1
        <5> QED
          BY <2>5, <5>1, <5>2
      <4> QED
        BY <4>1, <4>2
    <3>6. lo + c + 1 \in 0..N /\ hi + c \in (lo + c + 1)..N
      BY <2>5, <3>3
    <3>7. S[hi + c] = S[lo + c + 1]
      BY <1>1, <3>5, <3>6, SumStays
    <3>8. PICK w \in Int : w = q * l /\ q * (l + 1) = w + q
      BY <2>4, Times
    <3> QED
      BY <2>4, <2>5, <2>6, <2>7, <2>9, <3>4, <3>7, <3>8
  <2> QED
    BY <2>8, <2>9
<1>5. PICK p \in 0..(n - 1) : n = p + 1
  OBVIOUS
<1>6. PICK lo \in Nat : lo = b * p /\ N = lo + b
  BY <1>0, <1>3, <1>5, Times
<1>7. S[lo + c + 1] = q * n + r
  BY <1>4, <1>5, <1>6
<1>8. ASSUME NEW k \in (lo + c + 1)..(N - 1)
      PROVE  f[k] = 0
  <2>1. PICK i \in 0..(b - 1) : i = k - lo /\ i # c
    BY <1>6
  <2>2. f[b * p + i] = 0
    BY <1>5, <2>1
  <2> QED
    BY <1>6, <2>1, <2>2
<1>9. lo + c + 1 \in 0..N /\ N \in (lo + c + 1)..N
  BY <1>6
<1>10. S[N] = S[lo + c + 1]
  BY <1>1, <1>8, <1>9, SumStays
<1> QED
  BY <1>1, <1>7, <1>10

-----------------------------------------------------------------------------
(* The loaders.                                                            *)

Loading == {"Loader", "MonotonicLoader"}

LoadingPlaces == {"construct", "ready", "invalid", "collection", "batch", "index", "dead", "done"}
SinglePlaces == {"construct", "take", "insert", "done"}
SamplingPlaces == {"construct", "getSample", "gather", "sampled", "dead", "done"}

LoaderParts == [offset : Nat, count : Nat, documents : Nat, indexes : BOOLEAN]

\* What the provers need of types, with the places of each kind of actor.
LoaderTypes ==
  /\ load \in Loads
  /\ \/ load.actor \in Loading /\ loaderAt \in [LoaderThreads -> LoadingPlaces]
     \/ load.actor = "MonotonicSingleLoader" /\ loaderAt \in [LoaderThreads -> SinglePlaces]
     \/ load.actor = "SamplingLoader" /\ loaderAt \in [LoaderThreads -> SamplingPlaces]
  /\ part \in [LoaderThreads -> LoaderParts]
  /\ current \in [LoaderThreads -> Nat] /\ remaining \in [LoaderThreads -> Nat]
  /\ stored \in [CollectionNumbers -> Nat] /\ indexed \in [CollectionNumbers -> Nat]
  /\ docIdCounter \in Nat /\ low \in [LoaderThreads -> Nat]
  /\ inserted \in [Ids -> Nat] /\ closed \in [LoaderThreads -> 0..2]

LEMMA LoadFacts ==
  ASSUME load \in Loads
  PROVE  /\ load.actor \in Loading \cup {"MonotonicSingleLoader", "SamplingLoader"}
         /\ load.threads \in Nat \ {0} /\ load.phaseThreads \in Nat /\ (~load.multiple => load.phaseThreads \in Nat \ {0})
         /\ load.multiple \in BOOLEAN
         /\ load.multiple => load.actor = "Loader" /\ load.collections \in Nat \ {0}
         /\ load.collections \in Nat /\ load.documents \in Nat /\ load.batch \in Nat
         /\ load.actor = "MonotonicSingleLoader" => load.documents <= MaxDocumentId + 1
         /\ load.sampleSize \in Nat /\ load.batches \in Nat
         /\ Threads = 0..(load.threads - 1) /\ Threads \subseteq LoaderThreads
BY LoadersAssumption, LoadsAssumption DEF Threads, Loading

LEMMA PartTypes ==
  ASSUME load \in Loads, ValidLoad, NEW t \in LoaderThreads, load.actor \in Loading
  PROVE  (IF load.multiple THEN SharedPart(t) ELSE OwnPart(t)) \in LoaderParts
<1>1. t \in Nat
  BY LoadersAssumption
<1>2. CASE load.multiple
  <2>1. load.threads % load.collections = 0
    BY <1>2, LoadFacts DEF ValidLoad
  <2>2. PICK n \in Nat \ {0} : n = load.threads \div load.collections
    BY <1>2, <2>1, LoadFacts, EvenDivision
  <2>a. PICK d \in Nat : d = load.documents
    BY LoadFacts
  <2>b. d \div n \in Nat /\ d % n \in Nat
    OBVIOUS
  <2>3. load.documents \div n \in Nat /\ load.documents % n \in Nat
    BY <2>a, <2>b
  <2>4. t % load.collections \in Nat
    BY <1>1, <1>2, LoadFacts
  <2>5. SharedPart(t) \in LoaderParts
    BY <2>2, <2>3, <2>4 DEF SharedPart, LoaderParts
  <2> QED
    BY <1>2, <2>5
<1>3. CASE ~load.multiple
  <2>a. PICK k \in Nat, b \in Nat \ {0} : k = load.collections /\ b = load.phaseThreads
    BY <1>3, LoadFacts
  <2>b. k \div b \in Nat /\ k % b \in Nat
    OBVIOUS
  <2>1. PICK n \in Nat : n = load.collections \div load.phaseThreads
    BY <2>a, <2>b
  <2>2. load.collections % load.phaseThreads \in Nat
    BY <2>a, <2>b
  <2>3. n * t \in Nat
    BY <1>1, Times
  <2>4. OwnPart(t) \in LoaderParts
    BY <2>1, <2>2, <2>3, LoadFacts DEF OwnPart, LoaderParts
  <2> QED
    BY <1>3, <2>4
<1> QED
  BY <1>2, <1>3, LoadFacts

LEMMA LoaderTypesInit == LoaderInit => LoaderTypes
<1> SUFFICES ASSUME LoaderInit PROVE LoaderTypes
  OBVIOUS
<1>1. load.actor \in Loading \cup {"MonotonicSingleLoader", "SamplingLoader"}
  BY LoadFacts DEF LoaderInit
<1> QED
  BY <1>1 DEF LoaderInit, LoaderTypes, LoaderParts, LoadingPlaces, SinglePlaces, SamplingPlaces, Loading

LEMMA LoaderTypesStep ==
  ASSUME LoaderTypes, [LoaderNext]_loaderVars
  PROVE  LoaderTypes'
<1>0. load.batch \in Nat /\ load.batches \in Nat /\ load.documents \in Nat
  BY LoadFacts DEF LoaderTypes
<1>1. CASE UNCHANGED loaderVars
  BY <1>1 DEF loaderVars, loadVars, singleVars, LoaderTypes
<1>2. ASSUME NEW t \in LoaderThreads, ConstructLoader(t)
      PROVE  LoaderTypes'
  <2>1. load' = load /\ load.actor \in Loading
    BY <1>2 DEF ConstructLoader, Loading
  <2>2. part' \in [LoaderThreads -> LoaderParts]
    <3>1. CASE ValidLoad
      <4>1. PICK p \in LoaderParts : p = IF load.multiple THEN SharedPart(t) ELSE OwnPart(t)
        BY <2>1, <3>1, PartTypes DEF LoaderTypes
      <4>2. part' = [part EXCEPT ![t] = p]
        BY <1>2, <3>1, <4>1 DEF ConstructLoader
      <4> QED
        BY <4>2 DEF LoaderTypes
    <3>2. CASE ~ValidLoad
      BY <1>2, <3>2 DEF ConstructLoader, LoaderTypes
    <3> QED
      BY <3>1, <3>2
  <2>3. loaderAt' \in [LoaderThreads -> LoadingPlaces]
    BY <1>2, <2>1 DEF ConstructLoader, Move, LoaderTypes, LoadingPlaces, Loading
  <2> QED
    BY <1>2, <2>1, <2>2, <2>3 DEF ConstructLoader, LoaderTypes, singleVars
<1>3. ASSUME NEW t \in LoaderThreads, BeginLoad(t)
      PROVE  LoaderTypes'
  <2>1. part[t].offset \in Nat
    BY DEF LoaderTypes, LoaderParts
  <2> QED
    BY <1>3, <2>1 DEF BeginLoad, Move, LoaderTypes, LoadingPlaces, SinglePlaces, SamplingPlaces, singleVars
<1>4. ASSUME NEW t \in LoaderThreads, NextCollection(t)
      PROVE  LoaderTypes'
  <2>1. part[t].documents \in Nat
    BY DEF LoaderTypes, LoaderParts
  <2> QED
    BY <1>4, <2>1 DEF NextCollection, Move, LoaderTypes, LoadingPlaces, SinglePlaces, SamplingPlaces, singleVars
<1>5. ASSUME NEW t \in LoaderThreads, InsertBatch(t)
      PROVE  LoaderTypes'
  <2>1. PICK n \in Nat : n = BatchOf(remaining[t])
    BY <1>0 DEF BatchOf, Least, LoaderTypes
  <2>2. /\ UNCHANGED <<load, part, indexed, current, singleVars>>
        /\ \/ Move(t, "batch", "dead") /\ UNCHANGED <<stored, remaining>>
           \/ /\ Move(t, "batch", "batch")
              /\ stored' = [stored EXCEPT ![current[t]] = @ + n]
              /\ remaining' = [remaining EXCEPT ![t] = IF @ < n THEN 0 ELSE @ - n]
    BY <1>5, <2>1 DEF InsertBatch
  <2>3. stored' \in [CollectionNumbers -> Nat] /\ remaining' \in [LoaderThreads -> Nat]
    BY <2>2 DEF LoaderTypes
  <2> QED
    BY <2>2, <2>3 DEF Move, LoaderTypes, LoadingPlaces, SinglePlaces, SamplingPlaces, singleVars
<1>6. ASSUME NEW t \in LoaderThreads, CollectionLoaded(t) \/ LoaderFails(t)
      PROVE  LoaderTypes'
  BY <1>6 DEF CollectionLoaded, LoaderFails, Move, LoaderTypes, LoadingPlaces, SinglePlaces, SamplingPlaces,
              singleVars, loadVars
<1>7. ASSUME NEW t \in LoaderThreads, BuildIndexes(t)
      PROVE  LoaderTypes'
  <2>a. current' = [current EXCEPT ![t] = @ + 1]
        /\ (indexed' = indexed \/ indexed' = [indexed EXCEPT ![current[t]] = @ + 1])
    BY <1>7 DEF BuildIndexes
  <2>1. indexed' \in [CollectionNumbers -> Nat] /\ current' \in [LoaderThreads -> Nat]
    BY <2>a DEF LoaderTypes
  <2> QED
    BY <1>7, <2>1 DEF BuildIndexes, Move, LoaderTypes, LoadingPlaces, SinglePlaces, SamplingPlaces, singleVars
<1>8. ASSUME NEW t \in LoaderThreads, ConstructSingle(t) \/ ConstructSampling(t)
      PROVE  LoaderTypes'
  BY <1>8 DEF ConstructSingle, ConstructSampling, Move, LoaderTypes, LoadingPlaces, SinglePlaces, SamplingPlaces,
              singleVars, loadVars, Loading
<1>9. ASSUME NEW t \in LoaderThreads, TakeIds(t)
      PROVE  LoaderTypes'
  BY <1>0, <1>9 DEF TakeIds, Move, LoaderTypes, LoadingPlaces, SinglePlaces, SamplingPlaces, loadVars
<1>10. ASSUME NEW t \in LoaderThreads, InsertIds(t)
       PROVE  LoaderTypes'
  <2>1. inserted' \in [Ids -> Nat] /\ closed' \in [LoaderThreads -> 0..2]
    BY <1>10 DEF InsertIds, LoaderTypes
  <2> QED
    BY <1>10, <2>1 DEF InsertIds, Move, LoaderTypes, LoadingPlaces, SinglePlaces, SamplingPlaces, loadVars
<1>11. ASSUME NEW t \in LoaderThreads, getSample(t)
       PROVE  LoaderTypes'
  BY <1>0, <1>11 DEF getSample, Move, LoaderTypes, LoadingPlaces, SinglePlaces, SamplingPlaces, singleVars
<1>12. ASSUME NEW t \in LoaderThreads, gatherSample(t)
       PROVE  LoaderTypes'
  BY <1>12 DEF gatherSample, SampleFails, Move, LoaderTypes, LoadingPlaces, SinglePlaces, SamplingPlaces,
               singleVars, loadVars
<1>13. ASSUME NEW t \in LoaderThreads, InsertCopies(t)
       PROVE  LoaderTypes'
  <2>1. stored' \in [CollectionNumbers -> Nat] /\ remaining' \in [LoaderThreads -> Nat]
    BY <1>0, <1>13 DEF InsertCopies, LoaderTypes
  <2> QED
    BY <1>13, <2>1 DEF InsertCopies, Move, LoaderTypes, LoadingPlaces, SinglePlaces, SamplingPlaces, singleVars
<1> QED
  BY <1>1, <1>2, <1>3, <1>4, <1>5, <1>6, <1>7, <1>8, <1>9, <1>10, <1>11, <1>12, <1>13 DEF LoaderNext

\* Each id below the counter was taken by one thread.  No batch is inserted in
\* part twice, two threads never have the same ids in hand, and an id that is
\* neither inserted nor in hand was lost with a batch that failed.
InHand(t, i) == loaderAt[t] = "insert" /\ low[t] <= i /\ i < low[t] + load.batch

IdsInv ==
  /\ \A i \in Ids : inserted[i] <= 1 /\ (i >= docIdCounter => inserted[i] = 0)
  /\ \A t \in LoaderThreads : loaderAt[t] = "insert" => low[t] + load.batch <= docIdCounter
  /\ \A t \in LoaderThreads, i \in Ids : InHand(t, i) => inserted[i] = 0
  /\ \A t, u \in LoaderThreads, i \in Ids : InHand(t, i) /\ InHand(u, i) => t = u
  /\ \A i \in Ids :
       i < docIdCounter /\ i < load.documents =>
         \/ inserted[i] = 1
         \/ \E t \in Threads : InHand(t, i)
         \/ \E t \in Threads : closed[t] = 2
  /\ load.actor = "MonotonicSingleLoader" =>
       \A t \in LoaderThreads : loaderAt[t] = "done" => docIdCounter >= load.documents

LEMMA IdsFrame ==
  ASSUME IdsInv, UNCHANGED <<load, singleVars>>,
         \A t \in LoaderThreads : (loaderAt'[t] = "insert") <=> (loaderAt[t] = "insert"),
         load.actor = "MonotonicSingleLoader" =>
           \A t \in LoaderThreads : loaderAt'[t] = "done" => loaderAt[t] = "done"
  PROVE  IdsInv'
<1>1. \A t \in LoaderThreads, i \in Ids : InHand(t, i)' <=> InHand(t, i)
  BY DEF InHand, singleVars
<1>2. Threads' = Threads
  BY DEF Threads
<1>3. Threads \subseteq LoaderThreads
  BY DEF Threads
<1> QED
  BY <1>1, <1>2, <1>3 DEF IdsInv, singleVars

LEMMA IdsStep ==
  ASSUME LoaderTypes, IdsInv, [LoaderNext]_loaderVars
  PROVE  IdsInv'
<1>0. load.batch \in Nat /\ load.documents \in Nat /\ Threads \subseteq LoaderThreads
  BY LoadFacts DEF LoaderTypes
<1>1. CASE UNCHANGED loaderVars
  BY <1>1, IdsFrame DEF loaderVars
<1>2. ASSUME NEW t \in LoaderThreads,
             \/ ConstructLoader(t) \/ BeginLoad(t) \/ NextCollection(t) \/ InsertBatch(t) \/ CollectionLoaded(t)
             \/ BuildIndexes(t) \/ ConstructSingle(t) \/ ConstructSampling(t) \/ getSample(t) \/ gatherSample(t)
             \/ InsertCopies(t) \/ LoaderFails(t)
      PROVE  IdsInv'
  <2>1. UNCHANGED <<load, singleVars>>
    BY <1>2 DEF ConstructLoader, BeginLoad, NextCollection, InsertBatch, CollectionLoaded, BuildIndexes,
                ConstructSingle, ConstructSampling, getSample, gatherSample, InsertCopies, LoaderFails
  <2>2. \A from, to : Move(t, from, to) => loaderAt[t] = from /\ loaderAt' = [loaderAt EXCEPT ![t] = to]
    BY DEF Move
  <2>3. \/ \E to \in {"ready", "invalid", "collection", "batch", "index", "take", "getSample", "gather", "sampled", "dead"} :
             loaderAt[t] # "insert" /\ loaderAt' = [loaderAt EXCEPT ![t] = to]
        \/ loaderAt[t] \in {"collection", "sampled"} /\ loaderAt' = [loaderAt EXCEPT ![t] = "done"]
    <3>1. CASE ConstructLoader(t)
      BY <2>2, <3>1 DEF ConstructLoader
    <3>2. CASE BeginLoad(t) \/ CollectionLoaded(t) \/ BuildIndexes(t) \/ ConstructSingle(t) \/ ConstructSampling(t)
      BY <2>2, <3>2 DEF BeginLoad, CollectionLoaded, BuildIndexes, ConstructSingle, ConstructSampling
    <3>3. CASE NextCollection(t)
      BY <2>2, <3>3 DEF NextCollection
    <3>4. CASE InsertBatch(t)
      <4>1. Move(t, "batch", "dead") \/ Move(t, "batch", "batch")
        BY <3>4 DEF InsertBatch
      <4> QED
        BY <2>2, <4>1
    <3>5. CASE getSample(t) \/ gatherSample(t) \/ InsertCopies(t) \/ LoaderFails(t)
      BY <2>2, <3>5 DEF getSample, gatherSample, SampleFails, InsertCopies, LoaderFails
    <3> QED
      BY <1>2, <3>1, <3>2, <3>3, <3>4, <3>5
  <2>5. \A u \in LoaderThreads : (loaderAt'[u] = "insert") <=> (loaderAt[u] = "insert")
    BY <2>3 DEF LoaderTypes
  <2>6. load.actor = "MonotonicSingleLoader" =>
          \A u \in LoaderThreads : loaderAt'[u] = "done" => loaderAt[u] = "done"
    BY <2>3 DEF LoaderTypes, Loading, SinglePlaces
  <2> QED
    BY <2>1, <2>5, <2>6, IdsFrame
<1>3. ASSUME NEW t \in LoaderThreads, TakeIds(t)
      PROVE  IdsInv'
  <2>1. PICK n \in Nat : n = docIdCounter
    BY DEF LoaderTypes
  <2>2. PICK place \in {"insert", "done"} :
          /\ loaderAt' = [loaderAt EXCEPT ![t] = place]
          /\ place = "done" => n >= load.documents
          /\ loaderAt[t] = "take" /\ t \in Threads
    <3>1. Move(t, "take", IF n < load.documents THEN "insert" ELSE "done")
      BY <1>3, <2>1 DEF TakeIds
    <3>2. CASE n < load.documents
      BY <1>0, <3>1, <3>2 DEF Move
    <3>3. CASE ~(n < load.documents)
      <4>1. Move(t, "take", "done") /\ n >= load.documents
        BY <1>0, <3>1, <3>3
      <4> QED
        BY <4>1 DEF Move
    <3> QED
      BY <3>2, <3>3
  <2>3. /\ docIdCounter' = n + load.batch /\ low' = [low EXCEPT ![t] = n]
        /\ UNCHANGED <<load, inserted, closed>>
    BY <1>3, <2>1 DEF TakeIds
  <2>4. ASSUME NEW u \in LoaderThreads, NEW i \in Ids
        PROVE  /\ InHand(u, i) => InHand(u, i)' /\ i < n
               /\ InHand(u, i)' => InHand(u, i) \/ (u = t /\ i >= n)
    BY <1>0, <2>1, <2>2, <2>3 DEF InHand, IdsInv, LoaderTypes, Ids
  <2>5. \A i \in Ids : inserted'[i] <= 1 /\ (i >= docIdCounter' => inserted'[i] = 0)
    BY <1>0, <2>1, <2>3 DEF IdsInv, Ids
  <2>6. \A u \in LoaderThreads : loaderAt'[u] = "insert" => low'[u] + load'.batch <= docIdCounter'
    BY <1>0, <2>1, <2>2, <2>3 DEF IdsInv, LoaderTypes
  <2>7. \A u \in LoaderThreads, i \in Ids : InHand(u, i)' => inserted'[i] = 0
    BY <2>1, <2>3, <2>4 DEF IdsInv
  <2>8. \A u, v \in LoaderThreads, i \in Ids : InHand(u, i)' /\ InHand(v, i)' => u = v
    BY <2>1, <2>4 DEF IdsInv, Ids
  <2>9. Threads' = Threads
    BY <2>3 DEF Threads
  <2>10. ASSUME NEW i \in Ids, i < docIdCounter', i < load.documents
         PROVE  \/ inserted'[i] = 1
                \/ \E u \in Threads : InHand(u, i)'
                \/ \E u \in Threads : closed'[u] = 2
    <3>1. CASE i < n
      <4>1. inserted[i] = 1 \/ (\E u \in Threads : InHand(u, i)) \/ (\E u \in Threads : closed[u] = 2)
        BY <2>1, <2>10, <3>1 DEF IdsInv
      <4> QED
        BY <1>0, <2>3, <2>4, <4>1
    <3>2. CASE i >= n
      <4>1. place = "insert"
        BY <1>0, <2>1, <2>2, <2>10, <3>2 DEF Ids
      <4>2. loaderAt'[t] = "insert" /\ low'[t] = n
        BY <2>2, <2>3, <4>1 DEF LoaderTypes
      <4> QED
        BY <2>2, <2>3, <2>10, <3>2, <4>2 DEF InHand
    <3> QED
      BY <2>1, <3>1, <3>2 DEF Ids
  <2>11. load'.actor = "MonotonicSingleLoader" =>
           \A u \in LoaderThreads : loaderAt'[u] = "done" => docIdCounter' >= load'.documents
    BY <1>0, <2>1, <2>2, <2>3 DEF IdsInv, LoaderTypes
  <2> QED
    BY <2>3, <2>5, <2>6, <2>7, <2>8, <2>9, <2>10, <2>11 DEF IdsInv
<1>4. ASSUME NEW t \in LoaderThreads, InsertIds(t)
      PROVE  IdsInv'
  <2>1. /\ loaderAt[t] = "insert" /\ loaderAt' = [loaderAt EXCEPT ![t] = "take"] /\ t \in Threads
        /\ UNCHANGED <<load, docIdCounter, low>>
    BY <1>4 DEF InsertIds, Move
  <2>2. \A i \in Ids : i \in low[t]..highId(t) <=> InHand(t, i) /\ i < load.documents
    BY <1>0, <2>1 DEF highId, Least, InHand, Ids, LoaderTypes
  <2>3. PICK some \in SUBSET (low[t]..highId(t)) :
          /\ inserted' = [i \in Ids |-> IF i \in some THEN inserted[i] + 1 ELSE inserted[i]]
          /\ closed' = [closed EXCEPT ![t] = 2] \/ (some = low[t]..highId(t) /\ \A u \in LoaderThreads : closed'[u] = 2 <=> closed[u] = 2)
    <3>1. CASE /\ inserted' = [i \in Ids |-> IF i \in low[t]..highId(t) THEN inserted[i] + 1 ELSE inserted[i]]
               /\ closed' = [closed EXCEPT ![t] = IF @ = 2 THEN 2 ELSE 1]
      <4>1. \A u \in LoaderThreads : closed'[u] = 2 <=> closed[u] = 2
        BY <3>1 DEF LoaderTypes
      <4> QED
        BY <3>1, <4>1
    <3>2. CASE /\ \E some \in SUBSET (low[t]..highId(t)) :
                    inserted' = [i \in Ids |-> IF i \in some THEN inserted[i] + 1 ELSE inserted[i]]
               /\ closed' = [closed EXCEPT ![t] = 2]
      BY <3>2
    <3> QED
      BY <1>4, <3>1, <3>2 DEF InsertIds
  <2>4. \A i \in Ids : /\ i \in some => InHand(t, i) /\ inserted[i] = 0 /\ inserted'[i] = 1
                       /\ i \notin some => inserted'[i] = inserted[i]
    <3>1. \A i \in Ids : i \in some => InHand(t, i)
      BY <2>2, <2>3
    <3>2. \A i \in Ids : i \in some => inserted[i] = 0
      BY <3>1 DEF IdsInv
    <3>3. \A i \in Ids : inserted'[i] = IF i \in some THEN inserted[i] + 1 ELSE inserted[i]
      BY <2>3
    <3> QED
      BY <3>1, <3>2, <3>3
  <2>5. \A u \in LoaderThreads, i \in Ids : InHand(u, i)' <=> InHand(u, i) /\ u # t
    BY <2>1 DEF InHand, LoaderTypes
  <2>6. \A i \in Ids : inserted'[i] <= 1 /\ (i >= docIdCounter' => inserted'[i] = 0)
    <3>1. \A i \in Ids : InHand(t, i) => i < docIdCounter
      BY <1>0 DEF InHand, IdsInv, Ids, LoaderTypes
    <3> QED
      BY <2>1, <2>4, <3>1 DEF IdsInv, Ids, LoaderTypes
  <2>7. \A u \in LoaderThreads : loaderAt'[u] = "insert" => low'[u] + load'.batch <= docIdCounter'
    BY <2>1 DEF IdsInv, LoaderTypes
  <2>8. \A u \in LoaderThreads, i \in Ids : InHand(u, i)' => inserted'[i] = 0
    BY <2>4, <2>5 DEF IdsInv
  <2>9. \A u, v \in LoaderThreads, i \in Ids : InHand(u, i)' /\ InHand(v, i)' => u = v
    BY <2>5 DEF IdsInv
  <2>10. Threads' = Threads
    BY <2>1 DEF Threads
  <2>11. ASSUME NEW i \in Ids, i < docIdCounter', i < load.documents
         PROVE  \/ inserted'[i] = 1
                \/ \E u \in Threads : InHand(u, i)'
                \/ \E u \in Threads : closed'[u] = 2
    <3>1. CASE closed' = [closed EXCEPT ![t] = 2]
      BY <1>0, <2>1, <3>1 DEF LoaderTypes
    <3>2. CASE some = low[t]..highId(t) /\ \A u \in LoaderThreads : closed'[u] = 2 <=> closed[u] = 2
      <4>1. CASE InHand(t, i)
        BY <2>2, <2>4, <2>11, <3>2, <4>1
      <4>2. CASE ~InHand(t, i)
        BY <1>0, <2>1, <2>4, <2>5, <2>11, <3>2, <4>2 DEF IdsInv
      <4> QED
        BY <4>1, <4>2
    <3> QED
      BY <2>3, <3>1, <3>2
  <2>12. load'.actor = "MonotonicSingleLoader" =>
           \A u \in LoaderThreads : loaderAt'[u] = "done" => docIdCounter' >= load'.documents
    BY <2>1 DEF IdsInv, LoaderTypes
  <2> QED
    BY <2>1, <2>6, <2>7, <2>8, <2>9, <2>10, <2>11, <2>12 DEF IdsInv
<1> QED
  BY <1>1, <1>2, <1>3, <1>4 DEF LoaderNext

LEMMA IdsOnce ==
  ASSUME LoaderTypes, IdsInv
  PROVE  IdsLoadedOnce
<1>1. \A i \in Ids : inserted[i] <= 1
  BY DEF IdsInv
<1>2. ASSUME AllDone, load.actor = "MonotonicSingleLoader", \A t \in Threads : closed[t] <= 1,
             NEW i \in 0..(load.documents - 1)
      PROVE  inserted[i] = 1
  <2>1. load.documents \in Nat /\ load.documents <= MaxDocumentId + 1 /\ load.threads \in Nat \ {0}
        /\ Threads = 0..(load.threads - 1) /\ Threads \subseteq LoaderThreads
    BY <1>2, LoadFacts DEF LoaderTypes
  <2>2. i \in Ids /\ i < load.documents
    BY <1>2, <2>1, LoadersAssumption DEF Ids
  <2>3. 0 \in Threads /\ loaderAt[0] = "done"
    BY <1>2, <2>1 DEF AllDone
  <2>4. docIdCounter >= load.documents
    BY <1>2, <2>1, <2>3 DEF IdsInv
  <2>5. \A t \in Threads : ~InHand(t, i)
    BY <1>2 DEF InHand, AllDone
  <2> QED
    <3>1. i < docIdCounter
      BY <2>1, <2>2, <2>4 DEF LoaderTypes, Ids
    <3>2. inserted[i] = 1 \/ \E t \in Threads : closed[t] = 2
      BY <2>2, <2>5, <3>1 DEF IdsInv
    <3> QED
      BY <1>2, <3>2
<1> QED
  BY <1>1, <1>2 DEF IdsLoadedOnce

\* Who gathers has the mutex, and found no sample.
GatherInv ==
  /\ gathered \in 0..1 /\ (sample = 0 => gathered = 0)
  /\ sample # 0 => sample >= load.sampleSize
  /\ \A t \in LoaderThreads : loaderAt[t] = "gather" => sampleMutex = t /\ sample = 0

LEMMA GatherStep ==
  ASSUME LoaderTypes, GatherInv, [LoaderNext]_loaderVars
  PROVE  GatherInv'
<1>0. load.sampleSize \in Nat /\ NoThread \notin LoaderThreads
  BY LoadFacts, LoadersAssumption DEF LoaderTypes, NoThread
<1>1. CASE UNCHANGED loaderVars
  BY <1>1 DEF loaderVars, sampleVars, GatherInv
<1>2. ASSUME NEW t \in LoaderThreads,
             \/ ConstructLoader(t) \/ BeginLoad(t) \/ NextCollection(t) \/ InsertBatch(t) \/ CollectionLoaded(t)
             \/ BuildIndexes(t) \/ ConstructSingle(t) \/ TakeIds(t) \/ InsertIds(t) \/ ConstructSampling(t)
             \/ InsertCopies(t) \/ LoaderFails(t)
      PROVE  GatherInv'
  <2>1. UNCHANGED <<load, sampleVars>>
    BY <1>2 DEF ConstructLoader, BeginLoad, NextCollection, InsertBatch, CollectionLoaded, BuildIndexes,
                ConstructSingle, TakeIds, InsertIds, ConstructSampling, InsertCopies, LoaderFails
  <2>2. \A from, to : Move(t, from, to) => loaderAt' = [loaderAt EXCEPT ![t] = to]
    BY DEF Move
  <2>3. \E to \in {"ready", "invalid", "collection", "batch", "index", "take", "insert", "getSample", "sampled", "dead", "done"} :
          loaderAt' = [loaderAt EXCEPT ![t] = to]
    <3>1. CASE ConstructLoader(t)
      BY <2>2, <3>1 DEF ConstructLoader
    <3>2. CASE BeginLoad(t) \/ CollectionLoaded(t) \/ BuildIndexes(t) \/ ConstructSingle(t) \/ ConstructSampling(t)
      BY <2>2, <3>2 DEF BeginLoad, CollectionLoaded, BuildIndexes, ConstructSingle, ConstructSampling
    <3>3. CASE NextCollection(t)
      BY <2>2, <3>3 DEF NextCollection
    <3>4. CASE InsertBatch(t)
      <4>1. Move(t, "batch", "dead") \/ Move(t, "batch", "batch")
        BY <3>4 DEF InsertBatch
      <4> QED
        BY <2>2, <4>1
    <3>5. CASE TakeIds(t)
      BY <2>2, <3>5 DEF TakeIds
    <3>6. CASE InsertIds(t) \/ InsertCopies(t) \/ LoaderFails(t)
      BY <2>2, <3>6 DEF InsertIds, InsertCopies, LoaderFails
    <3> QED
      BY <1>2, <3>1, <3>2, <3>3, <3>4, <3>5, <3>6
  <2> QED
    BY <2>1, <2>3 DEF GatherInv, sampleVars, LoaderTypes
<1>3. ASSUME NEW t \in LoaderThreads, getSample(t)
      PROVE  GatherInv'
  <2>1. \A u \in LoaderThreads : loaderAt[u] # "gather"
    BY <1>0, <1>3 DEF getSample, GatherInv
  <2> QED
    BY <1>3, <2>1 DEF getSample, Move, GatherInv, LoaderTypes
<1>4. ASSUME NEW t \in LoaderThreads, gatherSample(t)
      PROVE  GatherInv'
  <2>1. loaderAt[t] = "gather" /\ \A u \in LoaderThreads : loaderAt[u] = "gather" => u = t
    BY <1>4 DEF gatherSample, SampleFails, Move, GatherInv
  <2> QED
    BY <1>0, <1>4, <2>1 DEF gatherSample, SampleFails, Move, GatherInv, LoaderTypes
<1> QED
  BY <1>1, <1>2, <1>3, <1>4 DEF LoaderNext

-----------------------------------------------------------------------------
(* What each thread has made.                                              *)

PartOf(t) == IF load.multiple THEN SharedPart(t) ELSE OwnPart(t)

AtWork == {"collection", "batch", "index", "dead", "done"}

\* How far a thread is with its part.
ProgressOf(t) ==
  /\ load.actor \in Loading =>
       /\ loaderAt[t] \notin {"construct", "invalid"} => ValidLoad /\ part[t] = PartOf(t)
       /\ loaderAt[t] \in AtWork => part[t].offset <= current[t] /\ current[t] <= part[t].offset + part[t].count
       /\ loaderAt[t] \in {"batch", "index"} => current[t] < part[t].offset + part[t].count
       /\ loaderAt[t] \in {"batch", "index", "dead"} => remaining[t] <= part[t].documents
       /\ loaderAt[t] = "index" => remaining[t] = 0
       /\ loaderAt[t] = "done" => current[t] = part[t].offset + part[t].count
  /\ load.actor = "SamplingLoader" =>
       /\ loaderAt[t] \in {"gather", "sampled", "dead", "done"} => remaining[t] <= load.batches
       /\ loaderAt[t] = "done" => remaining[t] = 0

\* The documents that a thread has put into a collection, and the indexes.
Given(t, c) ==
  IF load.actor = "SamplingLoader"
  THEN IF c = 0 /\ loaderAt[t] \in {"gather", "sampled", "dead", "done"}
       THEN (load.batches - remaining[t]) * load.batch ELSE 0
  ELSE IF load.actor \in Loading /\ loaderAt[t] \in AtWork /\ part[t].offset <= c /\ c <= current[t]
       THEN IF c < current[t] THEN part[t].documents
            ELSE IF loaderAt[t] \in {"batch", "index", "dead"} THEN part[t].documents - remaining[t] ELSE 0
       ELSE 0

Built(t, c) ==
  IF /\ load.actor \in Loading /\ loaderAt[t] \in AtWork
     /\ part[t].indexes /\ part[t].offset <= c /\ c < current[t]
  THEN 1 ELSE 0

GivenTo(c) == [t \in LoaderThreads |-> Given(t, c)]
BuiltFor(c) == [t \in LoaderThreads |-> Built(t, c)]

\* The server has what the threads gave, of each collection.
Accounts ==
  \A c \in CollectionNumbers :
    SumsTo(GivenTo(c), load.threads, stored[c]) /\ SumsTo(BuiltFor(c), load.threads, indexed[c])

AccountInv == (\A t \in LoaderThreads : ProgressOf(t)) /\ Accounts

LEMMA GivenNat ==
  ASSUME LoaderTypes, NEW t \in LoaderThreads, ProgressOf(t), NEW c \in CollectionNumbers
  PROVE  Given(t, c) \in Nat /\ Built(t, c) \in Nat
<1>0. load.batch \in Nat /\ load.batches \in Nat
  BY LoadFacts DEF LoaderTypes
<1>1. part[t].documents \in Nat /\ remaining[t] \in Nat /\ current[t] \in Nat
  BY DEF LoaderTypes, LoaderParts
<1>2. Built(t, c) \in Nat
  BY DEF Built
<1>3. CASE load.actor = "SamplingLoader"
  <2>1. loaderAt[t] \in {"gather", "sampled", "dead", "done"} => (load.batches - remaining[t]) * load.batch \in Nat
    <3>1. ASSUME loaderAt[t] \in {"gather", "sampled", "dead", "done"}
          PROVE  (load.batches - remaining[t]) * load.batch \in Nat
      <4>1. PICK d \in Nat : d = load.batches - remaining[t]
        BY <1>0, <1>1, <1>3, <3>1 DEF ProgressOf
      <4>2. d * load.batch \in Nat
        BY <1>0, Times
      <4> QED
        BY <4>1, <4>2
    <3> QED
      BY <3>1
  <2> QED
    BY <1>2, <1>3, <2>1 DEF Given
<1>4. CASE load.actor # "SamplingLoader"
  BY <1>1, <1>2, <1>4 DEF Given, ProgressOf, Loading
<1> QED
  BY <1>3, <1>4

\* A step of one thread that gives d documents and builds e indexes.
LEMMA AccountsFollow ==
  ASSUME LoaderTypes, AccountInv, NEW t \in Threads, load' = load,
         \A u \in LoaderThreads : u # t =>
            /\ loaderAt'[u] = loaderAt[u] /\ part'[u] = part[u]
            /\ current'[u] = current[u] /\ remaining'[u] = remaining[u],
         \A c \in CollectionNumbers :
            /\ \E d \in Nat : stored'[c] = stored[c] + d /\ Given(t, c)' = Given(t, c) + d
            /\ \E e \in Nat : indexed'[c] = indexed[c] + e /\ Built(t, c)' = Built(t, c) + e,
         ProgressOf(t)'
  PROVE  AccountInv'
<1>1. /\ t \in LoaderThreads /\ load.threads \in Nat /\ t \in 0..(load.threads - 1)
      /\ 0..(load.threads - 1) \subseteq LoaderThreads
  BY LoadFacts DEF LoaderTypes
<1>2. ASSUME NEW u \in LoaderThreads, u # t
      PROVE  /\ ProgressOf(u)' <=> ProgressOf(u)
             /\ \A c \in CollectionNumbers : Given(u, c)' = Given(u, c) /\ Built(u, c)' = Built(u, c)
  <2>1. ValidLoad' = ValidLoad /\ PartOf(u)' = PartOf(u)
    BY DEF ValidLoad, PartOf, SharedPart, OwnPart
  <2> QED
    BY <1>2, <2>1 DEF ProgressOf, Given, Built
<1>3. \A u \in LoaderThreads : ProgressOf(u)'
  BY <1>2 DEF AccountInv
<1>4. ASSUME NEW c \in CollectionNumbers
      PROVE  SumsTo(GivenTo(c)', load.threads, stored'[c]) /\ SumsTo(BuiltFor(c)', load.threads, indexed'[c])
  <2>1. PICK d \in Nat : stored'[c] = stored[c] + d /\ Given(t, c)' = Given(t, c) + d
    OBVIOUS
  <2>2. PICK e \in Nat : indexed'[c] = indexed[c] + e /\ Built(t, c)' = Built(t, c) + e
    OBVIOUS
  <2>3. PICK f : f = GivenTo(c) /\ SumsTo(f, load.threads, stored[c])
    BY DEF AccountInv, Accounts
  <2>4. PICK g : g = BuiltFor(c) /\ SumsTo(g, load.threads, indexed[c])
    BY DEF AccountInv, Accounts
  <2>5. PICK ff : ff = GivenTo(c)'
    OBVIOUS
  <2>6. PICK gg : gg = BuiltFor(c)'
    OBVIOUS
  <2>7. \A u \in LoaderThreads : f[u] \in Nat /\ g[u] \in Nat
    BY <2>3, <2>4, GivenNat DEF AccountInv, GivenTo, BuiltFor
  <2>8. /\ ff[t] = f[t] + d /\ gg[t] = g[t] + e
        /\ \A u \in LoaderThreads : u # t => ff[u] = f[u] /\ gg[u] = g[u]
    BY <1>1, <1>2, <2>1, <2>2, <2>3, <2>4, <2>5, <2>6 DEF GivenTo, BuiltFor
  <2>v. PICK v, w : v = stored[c] /\ w = indexed[c]
    OBVIOUS
  <2>a. PICK n \in Nat : n = load.threads /\ v = stored[c] /\ w = indexed[c]
    BY <1>1, <2>v
  <2>b. /\ \A k \in 0..(n - 1) : f[k] \in Nat /\ g[k] \in Nat
        /\ \A k \in 0..(n - 1) : k # t => ff[k] = f[k] /\ gg[k] = g[k]
        /\ t \in 0..(n - 1)
    BY <1>1, <2>7, <2>8, <2>a
  <2>9. SumsTo(ff, n, v + d)
    <3>1. SumsTo(f, n, v)
      BY <2>3, <2>a
    <3> QED
      BY <2>8, <2>b, <3>1, SumFollows
  <2>10. SumsTo(gg, n, w + e)
    <3>1. SumsTo(g, n, w)
      BY <2>4, <2>a
    <3> QED
      BY <2>8, <2>b, <3>1, SumFollows
  <2> QED
    BY <2>1, <2>2, <2>5, <2>6, <2>9, <2>10, <2>a
<1>5. Accounts'
  BY <1>4 DEF Accounts
<1> QED
  BY <1>3, <1>5 DEF AccountInv

\* The steps that only move a thread on.
LEMMA AccountMoves ==
  ASSUME LoaderTypes, AccountInv, NEW t \in Threads,
         UNCHANGED <<load, loadVars>>,
         NEW to, loaderAt' = [loaderAt EXCEPT ![t] = to],
         \A c \in CollectionNumbers : Given(t, c)' = Given(t, c) /\ Built(t, c)' = Built(t, c),
         ProgressOf(t)'
  PROVE  AccountInv'
<1>1. t \in LoaderThreads
  BY DEF Threads
<1>2. \A c \in CollectionNumbers : Given(t, c) \in Nat /\ Built(t, c) \in Nat /\ stored[c] \in Nat /\ indexed[c] \in Nat
  BY <1>1, GivenNat DEF AccountInv, LoaderTypes
<1>3. \A c \in CollectionNumbers :
            /\ \E d \in Nat : stored'[c] = stored[c] + d /\ Given(t, c)' = Given(t, c) + d
            /\ \E e \in Nat : indexed'[c] = indexed[c] + e /\ Built(t, c)' = Built(t, c) + e
  <2>1. \A c \in CollectionNumbers : stored'[c] = stored[c] + 0 /\ Given(t, c)' = Given(t, c) + 0
                                     /\ indexed'[c] = indexed[c] + 0 /\ Built(t, c)' = Built(t, c) + 0
    BY <1>2 DEF loadVars
  <2> QED
    BY <2>1
<1>4. \A u \in LoaderThreads : u # t =>
            /\ loaderAt'[u] = loaderAt[u] /\ part'[u] = part[u]
            /\ current'[u] = current[u] /\ remaining'[u] = remaining[u]
  BY DEF loadVars, LoaderTypes
<1> QED
  BY <1>3, <1>4, AccountsFollow

\* The steps of Loader and MonotonicLoader.
LEMMA LoadingSteps ==
  ASSUME LoaderTypes, AccountInv, NEW t \in LoaderThreads,
         \/ ConstructLoader(t) \/ BeginLoad(t) \/ NextCollection(t) \/ InsertBatch(t) \/ CollectionLoaded(t)
         \/ BuildIndexes(t) \/ LoaderFails(t)
  PROVE  AccountInv'
<1>1. t \in Threads /\ load.actor \in Loading /\ load' = load /\ load.actor # "SamplingLoader"
  <2>1. \A from, to : Move(t, from, to) => t \in Threads /\ loaderAt[t] = from
    BY DEF Move
  <2>2. CASE ConstructLoader(t)
    BY <2>1, <2>2 DEF ConstructLoader, Loading
  <2>3. CASE InsertBatch(t)
    <3>1. load' = load /\ (Move(t, "batch", "dead") \/ Move(t, "batch", "batch"))
      BY <2>3 DEF InsertBatch
    <3> QED
      BY <2>1, <3>1 DEF LoaderTypes, SinglePlaces, SamplingPlaces, Loading
  <2>4. CASE NextCollection(t)
    <3>1. load' = load /\ (Move(t, "collection", "batch") \/ Move(t, "collection", "done"))
      BY <2>4 DEF NextCollection
    <3> QED
      BY <2>1, <3>1 DEF LoaderTypes, SinglePlaces, SamplingPlaces, Loading
  <2>5. CASE BeginLoad(t) \/ CollectionLoaded(t) \/ BuildIndexes(t) \/ LoaderFails(t)
    BY <2>1, <2>5 DEF BeginLoad, CollectionLoaded, BuildIndexes, LoaderFails, LoaderTypes, SinglePlaces, SamplingPlaces, Loading
  <2> QED
    BY <2>2, <2>3, <2>4, <2>5
<1>2. PICK p \in LoaderParts : p = part[t]
  BY DEF LoaderTypes
<1>3. p.offset \in Nat /\ p.count \in Nat /\ p.documents \in Nat /\ p.indexes \in BOOLEAN
  BY DEF LoaderParts
<1>4. PICK cur \in Nat, rem \in Nat : cur = current[t] /\ rem = remaining[t]
  BY DEF LoaderTypes
<1>5. ValidLoad' = ValidLoad /\ PartOf(t)' = PartOf(t)
  BY <1>1 DEF ValidLoad, PartOf, SharedPart, OwnPart
<1>6. ProgressOf(t)
  BY DEF AccountInv
<1>7. \A c \in CollectionNumbers : stored[c] \in Nat /\ indexed[c] \in Nat /\ c \in Nat
  BY LoadersAssumption DEF LoaderTypes, CollectionNumbers
<1>8. loaderAt \in [LoaderThreads -> LoadingPlaces]
  BY <1>1 DEF LoaderTypes, Loading
<1>9. CASE CollectionLoaded(t) \/ LoaderFails(t)
  <2>1. PICK to \in {"index", "dead"} :
          /\ UNCHANGED loadVars
          /\ loaderAt[t] \in {"batch", "index"} /\ loaderAt' = [loaderAt EXCEPT ![t] = to]
          /\ to = "index" => rem = 0
    BY <1>4, <1>9 DEF CollectionLoaded, LoaderFails, Move
  <2>2. loaderAt'[t] = to
    BY <1>8, <2>1
  <2>3. ProgressOf(t)'
    BY <1>1, <1>2, <1>3, <1>4, <1>5, <1>6, <2>1, <2>2 DEF ProgressOf, loadVars, AtWork
  <2>4. \A c \in CollectionNumbers : Given(t, c)' = Given(t, c) /\ Built(t, c)' = Built(t, c)
    BY <1>1, <2>1, <2>2 DEF Given, Built, AtWork, loadVars
  <2> QED
    BY <1>1, <2>1, <2>3, <2>4, AccountMoves
<1>10. CASE ConstructLoader(t)
  <2>1. PICK to \in {"ready", "invalid"} :
          /\ UNCHANGED <<stored, indexed, current, remaining>>
          /\ loaderAt[t] = "construct" /\ loaderAt' = [loaderAt EXCEPT ![t] = to]
          /\ to = "ready" => ValidLoad
    BY <1>10 DEF ConstructLoader, Move
  <2>2. loaderAt'[t] = to /\ \A u \in LoaderThreads : u # t => loaderAt'[u] = loaderAt[u]
    BY <1>8, <2>1
  <2>3. (ValidLoad => part' = [part EXCEPT ![t] = PartOf(t)]) /\ (~ValidLoad => part' = part)
    BY <1>10 DEF ConstructLoader, PartOf
  <2>4. (ValidLoad => part'[t] = PartOf(t)) /\ \A u \in LoaderThreads : u # t => part'[u] = part[u]
    BY <2>3 DEF LoaderTypes
  <2>5. ProgressOf(t)'
    BY <1>1, <1>5, <2>1, <2>2, <2>4 DEF ProgressOf, AtWork
  <2>6. \A c \in CollectionNumbers : Given(t, c)' = 0 /\ Given(t, c) = 0 /\ Built(t, c)' = 0 /\ Built(t, c) = 0
    BY <1>1, <2>1, <2>2 DEF Given, Built, AtWork
  <2>7. \A c \in CollectionNumbers :
            /\ \E d \in Nat : stored'[c] = stored[c] + d /\ Given(t, c)' = Given(t, c) + d
            /\ \E e \in Nat : indexed'[c] = indexed[c] + e /\ Built(t, c)' = Built(t, c) + e
    BY <1>7, <2>1, <2>6
  <2> QED
    BY <1>1, <2>1, <2>2, <2>4, <2>5, <2>7, AccountsFollow
<1>11. CASE BeginLoad(t)
  <2>1. /\ UNCHANGED <<stored, indexed, part, remaining>> /\ current' = [current EXCEPT ![t] = p.offset]
        /\ loaderAt[t] = "ready" /\ loaderAt' = [loaderAt EXCEPT ![t] = "collection"]
    BY <1>2, <1>11 DEF BeginLoad, Move
  <2>2. /\ loaderAt'[t] = "collection" /\ current'[t] = p.offset
        /\ \A u \in LoaderThreads : u # t => loaderAt'[u] = loaderAt[u] /\ current'[u] = current[u]
    BY <1>8, <2>1 DEF LoaderTypes
  <2>3. ProgressOf(t)'
    BY <1>1, <1>2, <1>3, <1>5, <1>6, <2>1, <2>2 DEF ProgressOf, AtWork
  <2>4. \A c \in CollectionNumbers : Given(t, c)' = 0 /\ Given(t, c) = 0 /\ Built(t, c)' = 0 /\ Built(t, c) = 0
    BY <1>1, <1>2, <1>3, <1>7, <2>1, <2>2 DEF Given, Built, AtWork
  <2>5. \A c \in CollectionNumbers :
            /\ \E d \in Nat : stored'[c] = stored[c] + d /\ Given(t, c)' = Given(t, c) + d
            /\ \E e \in Nat : indexed'[c] = indexed[c] + e /\ Built(t, c)' = Built(t, c) + e
    BY <1>7, <2>1, <2>4
  <2> QED
    BY <1>1, <2>1, <2>2, <2>3, <2>5, AccountsFollow
<1>12. CASE NextCollection(t)
  <2>1. PICK to \in {"batch", "done"} :
          /\ UNCHANGED <<stored, indexed, part, current>>
          /\ loaderAt[t] = "collection" /\ loaderAt' = [loaderAt EXCEPT ![t] = to]
          /\ to = "batch" => cur < p.offset + p.count /\ remaining' = [remaining EXCEPT ![t] = p.documents]
          /\ to = "done" => ~(cur < p.offset + p.count) /\ remaining' = remaining
    <3>1. CASE cur < p.offset + p.count
      BY <1>2, <1>4, <1>12, <3>1 DEF NextCollection, Move
    <3>2. CASE ~(cur < p.offset + p.count)
      BY <1>2, <1>4, <1>12, <3>2 DEF NextCollection, Move
    <3> QED
      BY <3>1, <3>2
  <2>2. /\ loaderAt'[t] = to /\ (to = "batch" => remaining'[t] = p.documents)
        /\ \A u \in LoaderThreads : u # t => loaderAt'[u] = loaderAt[u] /\ remaining'[u] = remaining[u]
    BY <1>8, <2>1 DEF LoaderTypes
  <2>3. ProgressOf(t)'
    BY <1>1, <1>2, <1>3, <1>4, <1>5, <1>6, <2>1, <2>2 DEF ProgressOf, AtWork
  <2>4. ASSUME NEW c \in CollectionNumbers
        PROVE  Given(t, c)' = Given(t, c) /\ Built(t, c)' = Built(t, c) /\ Given(t, c) \in Nat /\ Built(t, c) \in Nat
    <3>1. Given(t, c) = IF p.offset <= c /\ c < cur THEN p.documents ELSE 0
      BY <1>1, <1>2, <1>3, <1>4, <1>7, <2>1 DEF Given, AtWork
    <3>2. Given(t, c)' = IF p.offset <= c /\ c < cur THEN p.documents ELSE 0
      BY <1>1, <1>2, <1>3, <1>4, <1>7, <2>1, <2>2 DEF Given, AtWork
    <3>3. Built(t, c)' = Built(t, c) /\ Built(t, c) \in Nat
      BY <1>1, <2>1, <2>2 DEF Built, AtWork
    <3> QED
      BY <1>3, <3>1, <3>2, <3>3
  <2>5. \A c \in CollectionNumbers :
            /\ \E d \in Nat : stored'[c] = stored[c] + d /\ Given(t, c)' = Given(t, c) + d
            /\ \E e \in Nat : indexed'[c] = indexed[c] + e /\ Built(t, c)' = Built(t, c) + e
    <3>1. \A c \in CollectionNumbers : stored'[c] = stored[c] + 0 /\ Given(t, c)' = Given(t, c) + 0
                                       /\ indexed'[c] = indexed[c] + 0 /\ Built(t, c)' = Built(t, c) + 0
      BY <1>7, <2>1, <2>4
    <3> QED
      BY <3>1
  <2> QED
    BY <1>1, <2>1, <2>2, <2>3, <2>5, AccountsFollow
<1>13. CASE InsertBatch(t)
  <2>1. PICK n \in Nat : n = BatchOf(rem) /\ n <= rem
    BY LoadFacts DEF BatchOf, Least, LoaderTypes
  <2>2. CASE Move(t, "batch", "dead") /\ UNCHANGED <<stored, remaining>>
    <3>1. UNCHANGED loadVars /\ loaderAt[t] = "batch" /\ loaderAt' = [loaderAt EXCEPT ![t] = "dead"]
      BY <1>13, <2>2 DEF InsertBatch, Move, loadVars
    <3>2. loaderAt'[t] = "dead"
      BY <1>8, <3>1
    <3>3. ProgressOf(t)'
      BY <1>1, <1>2, <1>3, <1>4, <1>5, <1>6, <3>1, <3>2 DEF ProgressOf, loadVars, AtWork
    <3>4. \A c \in CollectionNumbers : Given(t, c)' = Given(t, c) /\ Built(t, c)' = Built(t, c)
      BY <1>1, <3>1, <3>2 DEF Given, Built, AtWork, loadVars
    <3> QED
      BY <1>1, <3>1, <3>3, <3>4, AccountMoves
  <2>3. CASE /\ Move(t, "batch", "batch")
             /\ stored' = [stored EXCEPT ![cur] = @ + n]
             /\ remaining' = [remaining EXCEPT ![t] = IF @ < n THEN 0 ELSE @ - n]
    <3>1. /\ UNCHANGED <<indexed, part, current>>
          /\ loaderAt[t] = "batch" /\ loaderAt' = [loaderAt EXCEPT ![t] = "batch"]
      BY <1>13, <2>3 DEF InsertBatch, Move
    <3>2. /\ loaderAt'[t] = "batch" /\ remaining'[t] = rem - n
          /\ \A u \in LoaderThreads : u # t => loaderAt'[u] = loaderAt[u] /\ remaining'[u] = remaining[u]
      BY <1>4, <1>8, <2>1, <2>3, <3>1 DEF LoaderTypes
    <3>3. p.offset <= cur /\ rem <= p.documents
      BY <1>1, <1>2, <1>4, <1>6, <3>1 DEF ProgressOf, AtWork
    <3>4. ProgressOf(t)'
      BY <1>1, <1>2, <1>3, <1>4, <1>5, <1>6, <2>1, <3>1, <3>2, <3>3 DEF ProgressOf, AtWork
    <3>5. ASSUME NEW c \in CollectionNumbers
          PROVE  /\ \E d \in Nat : stored'[c] = stored[c] + d /\ Given(t, c)' = Given(t, c) + d
                 /\ \E e \in Nat : indexed'[c] = indexed[c] + e /\ Built(t, c)' = Built(t, c) + e
      <4>1. Built(t, c)' = Built(t, c) /\ Built(t, c) \in Nat /\ indexed'[c] = indexed[c]
        BY <1>1, <3>1, <3>2 DEF Built, AtWork
      <4>2. CASE c = cur
        <5>1. Given(t, c) = p.documents - rem /\ Given(t, c)' = p.documents - (rem - n)
          BY <1>1, <1>2, <1>3, <1>4, <1>7, <3>1, <3>2, <3>3, <4>2 DEF Given, AtWork
        <5>2. stored'[c] = stored[c] + n
          BY <2>3, <4>2 DEF LoaderTypes
        <5>3. Given(t, c)' = Given(t, c) + n
          BY <1>3, <2>1, <5>1
        <5> QED
          BY <1>7, <4>1, <5>2, <5>3
      <4>3. CASE c # cur
        <5>1. Given(t, c) = IF p.offset <= c /\ c < cur THEN p.documents ELSE 0
          BY <1>1, <1>2, <1>3, <1>4, <1>7, <3>1, <4>3 DEF Given, AtWork
        <5>2. Given(t, c)' = IF p.offset <= c /\ c < cur THEN p.documents ELSE 0
          BY <1>1, <1>2, <1>3, <1>4, <1>7, <3>1, <3>2, <4>3 DEF Given, AtWork
        <5>3. stored'[c] = stored[c] + 0 /\ Given(t, c)' = Given(t, c) + 0
          BY <1>3, <1>7, <2>3, <4>3, <5>1, <5>2 DEF LoaderTypes
        <5> QED
          BY <1>7, <4>1, <5>3
      <4> QED
        BY <4>2, <4>3
    <3> QED
      BY <1>1, <3>1, <3>2, <3>4, <3>5, AccountsFollow
  <2> QED
    BY <1>4, <1>13, <2>1, <2>2, <2>3 DEF InsertBatch
<1>14. CASE BuildIndexes(t)
  <2>1. /\ UNCHANGED <<stored, part, remaining>> /\ current' = [current EXCEPT ![t] = cur + 1]
        /\ loaderAt[t] = "index" /\ loaderAt' = [loaderAt EXCEPT ![t] = "collection"]
    BY <1>4, <1>14 DEF BuildIndexes, Move
  <2>2. /\ loaderAt'[t] = "collection" /\ current'[t] = cur + 1
        /\ \A u \in LoaderThreads : u # t => loaderAt'[u] = loaderAt[u] /\ current'[u] = current[u]
    BY <1>4, <1>8, <2>1 DEF LoaderTypes
  <2>3. p.offset <= cur /\ rem = 0 /\ cur < p.offset + p.count
    BY <1>1, <1>2, <1>4, <1>6, <2>1 DEF ProgressOf, AtWork
  <2>4. ProgressOf(t)'
    BY <1>1, <1>2, <1>3, <1>4, <1>5, <1>6, <2>1, <2>2, <2>3 DEF ProgressOf, AtWork
  <2>5. ASSUME NEW c \in CollectionNumbers
        PROVE  /\ \E d \in Nat : stored'[c] = stored[c] + d /\ Given(t, c)' = Given(t, c) + d
               /\ \E e \in Nat : indexed'[c] = indexed[c] + e /\ Built(t, c)' = Built(t, c) + e
    <3>1. Given(t, c) = IF p.offset <= c /\ c <= cur THEN p.documents ELSE 0
      BY <1>1, <1>2, <1>3, <1>4, <1>7, <2>1, <2>3 DEF Given, AtWork
    <3>2. Given(t, c)' = IF p.offset <= c /\ c <= cur THEN p.documents ELSE 0
      BY <1>1, <1>2, <1>3, <1>4, <1>7, <2>1, <2>2, <2>3 DEF Given, AtWork
    <3>3. stored'[c] = stored[c] + 0 /\ Given(t, c)' = Given(t, c) + 0
      BY <1>3, <1>7, <2>1, <3>1, <3>2
    <3>4. Built(t, c) = IF p.indexes /\ p.offset <= c /\ c < cur THEN 1 ELSE 0
      BY <1>1, <1>2, <1>4, <2>1 DEF Built, AtWork
    <3>5. Built(t, c)' = IF p.indexes /\ p.offset <= c /\ c < cur + 1 THEN 1 ELSE 0
      BY <1>1, <1>2, <2>1, <2>2 DEF Built, AtWork
    <3>6. CASE p.indexes /\ c = cur
      <4>1. indexed' = [indexed EXCEPT ![cur] = @ + 1]
        BY <1>2, <1>4, <1>14, <3>6 DEF BuildIndexes
      <4>2. indexed'[c] = indexed[c] + 1
        BY <3>6, <4>1 DEF LoaderTypes
      <4>3. Built(t, c)' = Built(t, c) + 1
        BY <1>7, <2>3, <3>4, <3>5, <3>6
      <4> QED
        BY <3>3, <4>2, <4>3
    <3>7. CASE ~(p.indexes /\ c = cur)
      <4>1. indexed' = indexed \/ (p.indexes /\ indexed' = [indexed EXCEPT ![cur] = @ + 1])
        BY <1>2, <1>4, <1>14 DEF BuildIndexes
      <4>2. indexed'[c] = indexed[c] + 0
        BY <1>7, <3>7, <4>1 DEF LoaderTypes
      <4>3. Built(t, c)' = Built(t, c) + 0
        BY <1>7, <2>3, <3>4, <3>5, <3>7
      <4> QED
        BY <3>3, <4>2, <4>3
    <3> QED
      BY <3>6, <3>7
  <2> QED
    BY <1>1, <2>1, <2>2, <2>4, <2>5, AccountsFollow
<1> QED
  BY <1>9, <1>10, <1>11, <1>12, <1>13, <1>14

\* The steps of MonotonicSingleLoader give nothing to a collection of number.
LEMMA SingleSteps ==
  ASSUME LoaderTypes, AccountInv, NEW t \in LoaderThreads, ConstructSingle(t) \/ TakeIds(t) \/ InsertIds(t)
  PROVE  AccountInv'
<1>1. /\ t \in Threads /\ load.actor = "MonotonicSingleLoader" /\ UNCHANGED <<load, loadVars>>
      /\ \E to : loaderAt' = [loaderAt EXCEPT ![t] = to]
  <2>1. CASE ConstructSingle(t) \/ InsertIds(t)
    BY <2>1 DEF ConstructSingle, InsertIds, Move, LoaderTypes, LoadingPlaces, SamplingPlaces
  <2>2. CASE TakeIds(t)
    <3>1. UNCHANGED <<load, loadVars>> /\ \E to : Move(t, "take", to)
      BY <2>2 DEF TakeIds
    <3> QED
      BY <3>1 DEF Move, LoaderTypes, LoadingPlaces, SamplingPlaces
  <2> QED
    BY <2>1, <2>2
<1>2. PICK to : loaderAt' = [loaderAt EXCEPT ![t] = to]
  BY <1>1
<1>3. ProgressOf(t)'
  BY <1>1 DEF ProgressOf, Loading
<1>4. \A c \in CollectionNumbers : Given(t, c)' = Given(t, c) /\ Built(t, c)' = Built(t, c)
  BY <1>1 DEF Given, Built, Loading
<1> QED
  BY <1>1, <1>2, <1>3, <1>4, AccountMoves

\* The steps of SamplingLoader.
LEMMA SamplingSteps ==
  ASSUME LoaderTypes, AccountInv, NEW t \in LoaderThreads,
         ConstructSampling(t) \/ getSample(t) \/ gatherSample(t) \/ InsertCopies(t)
  PROVE  AccountInv'
<1>1. t \in Threads /\ load.actor = "SamplingLoader" /\ load' = load
  <2>1. CASE ConstructSampling(t)
    BY <2>1 DEF ConstructSampling, Move
  <2>2. CASE getSample(t)
    BY <2>2 DEF getSample, Move, LoaderTypes, LoadingPlaces, SinglePlaces
  <2>3. CASE gatherSample(t)
    BY <2>3 DEF gatherSample, SampleFails, Move, LoaderTypes, LoadingPlaces, SinglePlaces
  <2>4. CASE InsertCopies(t)
    BY <2>4 DEF InsertCopies, Move, LoaderTypes, LoadingPlaces, SinglePlaces
  <2> QED
    BY <2>1, <2>2, <2>3, <2>4
<1>2. PICK batches \in Nat, batch \in Nat : batches = load.batches /\ batch = load.batch
  BY LoadFacts DEF LoaderTypes
<1>3. PICK rem \in Nat : rem = remaining[t]
  BY DEF LoaderTypes
<1>4. ProgressOf(t)
  BY DEF AccountInv
<1>5. loaderAt \in [LoaderThreads -> SamplingPlaces]
  BY <1>1 DEF LoaderTypes, Loading
<1>6. \A c \in CollectionNumbers : stored[c] \in Nat /\ indexed[c] \in Nat
  BY DEF LoaderTypes
<1>7. \A c \in CollectionNumbers : Built(t, c)' = 0 /\ Built(t, c) = 0
  BY <1>1 DEF Built, Loading
<1>8. CASE ConstructSampling(t) \/ gatherSample(t)
  <2>1. PICK to \in {"getSample", "gather", "sampled", "dead"} :
          /\ UNCHANGED loadVars /\ loaderAt' = [loaderAt EXCEPT ![t] = to]
          /\ \/ loaderAt[t] = "construct" /\ to = "getSample"
             \/ loaderAt[t] = "gather" /\ to # "getSample"
    BY <1>8 DEF ConstructSampling, gatherSample, SampleFails, Move
  <2>2. loaderAt'[t] = to
    BY <1>5, <2>1
  <2>3. ProgressOf(t)'
    BY <1>1, <1>4, <2>1, <2>2 DEF ProgressOf, loadVars, Loading
  <2>4. \A c \in CollectionNumbers : Given(t, c)' = Given(t, c)
    BY <1>1, <2>1, <2>2 DEF Given, loadVars
  <2> QED
    BY <1>1, <1>7, <2>1, <2>3, <2>4, AccountMoves
<1>9. CASE getSample(t)
  <2>1. PICK to \in {"gather", "sampled"} :
          /\ UNCHANGED <<stored, indexed, part, current>> /\ remaining' = [remaining EXCEPT ![t] = batches]
          /\ loaderAt[t] = "getSample" /\ loaderAt' = [loaderAt EXCEPT ![t] = to]
    BY <1>2, <1>9 DEF getSample, Move
  <2>2. /\ loaderAt'[t] = to /\ remaining'[t] = batches
        /\ \A u \in LoaderThreads : u # t => loaderAt'[u] = loaderAt[u] /\ remaining'[u] = remaining[u]
    BY <1>5, <2>1 DEF LoaderTypes
  <2>3. ProgressOf(t)'
    BY <1>1, <1>2, <2>1, <2>2 DEF ProgressOf, Loading
  <2>4. (batches - batches) * batch = 0
    OBVIOUS
  <2>5. \A c \in CollectionNumbers : Given(t, c)' = 0 /\ Given(t, c) = 0
    BY <1>1, <1>2, <2>1, <2>2, <2>4 DEF Given
  <2>6. \A c \in CollectionNumbers :
            /\ \E d \in Nat : stored'[c] = stored[c] + d /\ Given(t, c)' = Given(t, c) + d
            /\ \E e \in Nat : indexed'[c] = indexed[c] + e /\ Built(t, c)' = Built(t, c) + e
    <3>1. \A c \in CollectionNumbers : stored'[c] = stored[c] + 0 /\ Given(t, c)' = Given(t, c) + 0
                                       /\ indexed'[c] = indexed[c] + 0 /\ Built(t, c)' = Built(t, c) + 0
      BY <1>6, <1>7, <2>1, <2>5
    <3> QED
      BY <3>1
  <2> QED
    BY <1>1, <2>1, <2>2, <2>3, <2>6, AccountsFollow
<1>10. CASE InsertCopies(t)
  <2>1. CASE UNCHANGED <<stored, remaining>>
    <3>1. PICK to \in {"done", "dead"} :
            /\ UNCHANGED loadVars /\ loaderAt' = [loaderAt EXCEPT ![t] = to]
            /\ loaderAt[t] = "sampled" /\ (to = "done" => rem = 0)
      <4>1. CASE rem = 0
        BY <1>3, <1>10, <2>1, <4>1 DEF InsertCopies, Move, loadVars
      <4>2. CASE rem # 0
        <5>1. remaining' # [remaining EXCEPT ![t] = @ - 1]
          BY <1>3, <2>1, <4>2 DEF LoaderTypes
        <5> QED
          BY <1>3, <1>10, <2>1, <4>2, <5>1 DEF InsertCopies, Move, loadVars
      <4> QED
        BY <4>1, <4>2
    <3>2. loaderAt'[t] = to
      BY <1>5, <3>1
    <3>3. ProgressOf(t)'
      BY <1>1, <1>3, <1>4, <3>1, <3>2 DEF ProgressOf, loadVars, Loading
    <3>4. \A c \in CollectionNumbers : Given(t, c)' = Given(t, c)
      BY <1>1, <3>1, <3>2 DEF Given, loadVars
    <3> QED
      BY <1>1, <1>7, <3>1, <3>3, <3>4, AccountMoves
  <2>2. CASE ~UNCHANGED <<stored, remaining>>
    <3>1. /\ rem # 0 /\ loaderAt[t] = "sampled" /\ loaderAt' = [loaderAt EXCEPT ![t] = "sampled"]
          /\ stored' = [stored EXCEPT ![0] = @ + batch]
          /\ remaining' = [remaining EXCEPT ![t] = @ - 1]
          /\ UNCHANGED <<indexed, part, current>>
      BY <1>2, <1>3, <1>10, <2>2 DEF InsertCopies, Move
    <3>2. /\ loaderAt'[t] = "sampled" /\ remaining'[t] = rem - 1
          /\ \A u \in LoaderThreads : u # t => loaderAt'[u] = loaderAt[u] /\ remaining'[u] = remaining[u]
      BY <1>3, <1>5, <3>1 DEF LoaderTypes
    <3>3. rem <= batches
      BY <1>1, <1>2, <1>3, <1>4, <3>1 DEF ProgressOf
    <3>4. ProgressOf(t)'
      BY <1>1, <1>2, <3>1, <3>2, <3>3 DEF ProgressOf, Loading
    <3>5. PICK gone \in Nat : gone = batches - rem /\ gone + 1 = batches - (rem - 1)
      BY <3>3
    <3>6. PICK given \in Nat : given = gone * batch /\ (gone + 1) * batch = given + batch
      BY Times
    <3>7. ASSUME NEW c \in CollectionNumbers
          PROVE  \E d \in Nat : stored'[c] = stored[c] + d /\ Given(t, c)' = Given(t, c) + d
      <4>1. CASE c = 0
        <5>1. Given(t, c) = gone * batch
          BY <1>1, <1>2, <1>3, <3>1, <3>5, <4>1 DEF Given
        <5>2. Given(t, c)' = (gone + 1) * batch
          BY <1>1, <1>2, <3>1, <3>2, <3>5, <4>1 DEF Given
        <5>3. stored'[c] = stored[c] + batch
          BY <3>1, <4>1 DEF LoaderTypes
        <5> QED
          BY <3>6, <5>1, <5>2, <5>3
      <4>2. CASE c # 0
        <5>1. Given(t, c)' = 0 /\ Given(t, c) = 0
          BY <1>1, <4>2 DEF Given
        <5>2. stored'[c] = stored[c]
          BY <3>1, <4>2 DEF LoaderTypes
        <5> QED
          <6>1. stored'[c] = stored[c] + 0 /\ Given(t, c)' = Given(t, c) + 0
            BY <1>6, <5>1, <5>2
          <6> QED
            BY <6>1
      <4> QED
        BY <4>1, <4>2
    <3>8. \A c \in CollectionNumbers : \E e \in Nat : indexed'[c] = indexed[c] + e /\ Built(t, c)' = Built(t, c) + e
      BY <1>6, <1>7, <3>1
    <3> QED
      BY <1>1, <3>1, <3>2, <3>4, <3>7, <3>8, AccountsFollow
  <2> QED
    BY <2>1, <2>2
<1> QED
  BY <1>8, <1>9, <1>10

LoaderInv == LoaderTypes /\ IdsInv /\ GatherInv /\ AccountInv

LEMMA LoaderInvInit == LoaderInit => LoaderInv
<1> SUFFICES ASSUME LoaderInit PROVE LoaderInv
  OBVIOUS
<1>1. LoaderTypes
  BY LoaderTypesInit
<1>2. load.threads \in Nat /\ 0..(load.threads - 1) \subseteq LoaderThreads
  BY <1>1, LoadFacts DEF LoaderTypes
<1>3. IdsInv
  BY LoadersAssumption DEF LoaderInit, IdsInv, InHand, Ids
<1>4. GatherInv
  BY DEF LoaderInit, GatherInv
<1>5. \A t \in LoaderThreads : ProgressOf(t)
  BY DEF LoaderInit, ProgressOf, AtWork
<1>6. \A t \in LoaderThreads, c \in CollectionNumbers : Given(t, c) = 0 /\ Built(t, c) = 0
  BY DEF LoaderInit, Given, Built, AtWork
<1>7. ASSUME NEW c \in CollectionNumbers
      PROVE  SumsTo(GivenTo(c), load.threads, stored[c]) /\ SumsTo(BuiltFor(c), load.threads, indexed[c])
  <2>1. stored[c] = 0 /\ indexed[c] = 0
    BY DEF LoaderInit
  <2>2. PICK f : f = GivenTo(c)
    OBVIOUS
  <2>3. PICK g : g = BuiltFor(c)
    OBVIOUS
  <2>4. \A k \in 0..(load.threads - 1) : f[k] = 0 /\ g[k] = 0
    BY <1>2, <1>6, <2>2, <2>3 DEF GivenTo, BuiltFor
  <2>5. SumsTo(f, load.threads, 0) /\ SumsTo(g, load.threads, 0)
    BY <1>2, <2>4, SumOfNothing
  <2> QED
    BY <2>1, <2>2, <2>3, <2>5
<1> QED
  BY <1>1, <1>3, <1>4, <1>5, <1>7 DEF LoaderInv, AccountInv, Accounts

LEMMA LoaderInvStep == LoaderInv /\ [LoaderNext]_loaderVars => LoaderInv'
<1> SUFFICES ASSUME LoaderInv, [LoaderNext]_loaderVars PROVE LoaderInv'
  OBVIOUS
<1>1. LoaderTypes' /\ IdsInv' /\ GatherInv'
  BY LoaderTypesStep, IdsStep, GatherStep DEF LoaderInv
<1>2. AccountInv'
  <2>1. CASE UNCHANGED loaderVars
    <3>1. /\ \A t \in LoaderThreads : ProgressOf(t)' = ProgressOf(t)
          /\ \A c \in CollectionNumbers : GivenTo(c)' = GivenTo(c) /\ BuiltFor(c)' = BuiltFor(c)
      BY <2>1 DEF loaderVars, loadVars, ProgressOf, PartOf, SharedPart, OwnPart, ValidLoad, GivenTo, BuiltFor, Given, Built
    <3>2. UNCHANGED <<load, stored, indexed>>
      BY <2>1 DEF loaderVars, loadVars
    <3> QED
      BY <3>1, <3>2 DEF LoaderInv, AccountInv, Accounts
  <2>2. CASE LoaderNext
    BY <2>2, LoadingSteps, SingleSteps, SamplingSteps DEF LoaderNext, LoaderInv
  <2> QED
    BY <2>1, <2>2
<1> QED
  BY <1>1, <1>2 DEF LoaderInv

LEMMA SumIsNothing ==
  ASSUME NEW f, NEW n \in Nat, NEW v, SumsTo(f, n, v), \A k \in 0..(n - 1) : f[k] = 0
  PROVE  v = 0
<1>1. PICK S : PartialSums(S, f, n) /\ S[n] = v
  BY DEF SumsTo
<1>2. 0 \in 0..n /\ n \in 0..n
  OBVIOUS
<1>3. S[n] = S[0]
  BY <1>1, <1>2, SumStays
<1>4. S[0] = 0
  BY <1>1 DEF PartialSums
<1> QED
  BY <1>1, <1>3, <1>4

\* The sample is gathered once, and the copies are those of all threads.
LEMMA SampleOnce ==
  ASSUME LoaderInv
  PROVE  SampleGatheredOnce
<1>1. gathered <= 1 /\ (sample # 0 => sample >= load.sampleSize)
  BY DEF LoaderInv, GatherInv
<1>2. ASSUME AllDone, load.actor = "SamplingLoader"
      PROVE  stored[0] = load.threads * load.batches * load.batch
  <2>1. PICK n \in Nat \ {0}, batches \in Nat, batch \in Nat :
          /\ n = load.threads /\ batches = load.batches /\ batch = load.batch
          /\ Threads = 0..(n - 1) /\ 0..(n - 1) \subseteq LoaderThreads
    BY LoadFacts DEF LoaderInv, LoaderTypes
  <2>2. 0 \in CollectionNumbers
    BY LoadersAssumption DEF CollectionNumbers
  <2>3. PICK f : f = GivenTo(0) /\ SumsTo(f, n, stored[0])
    BY <2>1, <2>2 DEF LoaderInv, AccountInv, Accounts
  <2>4. PICK q \in Nat : q = batches * batch
    BY Times
  <2>5. \A t \in 0..(n - 1) : f[t] = q
    <3>1. ASSUME NEW t \in 0..(n - 1)
          PROVE  f[t] = q
      <4>1. t \in LoaderThreads /\ loaderAt[t] = "done" /\ remaining[t] = 0
        BY <1>2, <2>1 DEF AllDone, LoaderInv, AccountInv, ProgressOf
      <4>2. f[t] = (batches - 0) * batch
        BY <1>2, <2>1, <2>3, <4>1 DEF GivenTo, Given
      <4> QED
        BY <2>4, <4>2
    <3> QED
      BY <3>1
  <2>6. stored[0] = q * n + 0
    <3>1. PICK b \in Nat \ {0} : b = 1
      OBVIOUS
    <3>2. PICK z \in 0..(b - 1) : z = 0
      BY <3>1
    <3>3. PICK r \in Nat : r = 0
      OBVIOUS
    <3>4. ASSUME NEW j \in 0..(n - 1), NEW i \in 0..(b - 1)
          PROVE  f[b * j + i] = IF i = z THEN (IF j = 0 THEN q + r ELSE q) ELSE 0
      <4>1. i = z /\ b * j + i = j
        BY <3>1, <3>2
      <4>2. f[j] = q /\ q + r = q
        BY <2>5, <3>3
      <4> QED
        BY <4>1, <4>2
    <3>5. SumsTo(f, b * n, stored[0])
      <4>1. b * n = n
        BY <3>1
      <4> QED
        BY <2>3, <4>1
    <3>6. PICK v : v = stored[0]
      OBVIOUS
    <3>7. SumsTo(f, b * n, v)
      BY <3>5, <3>6
    <3>a. InBlocks(f, n, b, z, q, r)
      BY <3>4 DEF InBlocks
    <3>8. v = q * n + r
      BY <3>7, <3>a, SumOfBlocks
    <3> QED
      BY <3>3, <3>6, <3>8
  <2>7. q * n + 0 = n * batches * batch
    BY <2>4
  <2> QED
    BY <2>1, <2>6, <2>7
<1> QED
  BY <1>1, <1>2 DEF SampleGatheredOnce

\* What a load that is done has made of a collection.
LEMMA DoneFacts ==
  ASSUME LoaderInv, AllDone, load.actor \in Loading, NEW t \in Threads, NEW c \in CollectionNumbers
  PROVE  /\ ValidLoad
         /\ GivenTo(c)[t] = IF PartOf(t).offset <= c /\ c < PartOf(t).offset + PartOf(t).count
                            THEN PartOf(t).documents ELSE 0
         /\ BuiltFor(c)[t] = IF PartOf(t).indexes /\ PartOf(t).offset <= c /\ c < PartOf(t).offset + PartOf(t).count
                             THEN 1 ELSE 0
<1>1. t \in LoaderThreads /\ loaderAt[t] = "done"
  BY DEF AllDone, Threads
<1>2. /\ ValidLoad /\ part[t] = PartOf(t) /\ current[t] = part[t].offset + part[t].count
  BY <1>1 DEF LoaderInv, AccountInv, ProgressOf
<1>3. PICK p \in LoaderParts : p = part[t]
  BY <1>1 DEF LoaderInv, LoaderTypes
<1>4. p.offset \in Nat /\ p.count \in Nat /\ c \in Nat
  BY LoadersAssumption DEF LoaderParts, CollectionNumbers
<1>5. Given(t, c) = IF p.offset <= c /\ c < p.offset + p.count THEN p.documents ELSE 0
  BY <1>1, <1>2, <1>3, <1>4 DEF Given, AtWork, Loading
<1>6. Built(t, c) = IF p.indexes /\ p.offset <= c /\ c < p.offset + p.count THEN 1 ELSE 0
  BY <1>1, <1>2, <1>3 DEF Built, AtWork
<1> QED
  BY <1>1, <1>2, <1>3, <1>5, <1>6 DEF GivenTo, BuiltFor

\* n threads have s collections each, and the last one those that are left of m.
CountsOf(m, n, s) == [t \in 0..(n - 1) |-> s + (IF t = n - 1 THEN m % n ELSE 0)]

Covers(R, s, t, c) == s * t <= c /\ c < s * t + R[t]

CoveredOnce(R, s, n, c) ==
  \E t \in 0..(n - 1) : Covers(R, s, t, c) /\ \A u \in 0..(n - 1) : u # t => ~Covers(R, s, u, c)

LEMMA OneForEach ==
  ASSUME NEW m \in Nat, NEW n \in Nat \ {0}, NEW s \in Nat, s = m \div n,
         NEW R, R = CountsOf(m, n, s), NEW c \in Nat
  PROVE  /\ c < m => CoveredOnce(R, s, n, c)
         /\ c >= m => \A u \in 0..(n - 1) : ~Covers(R, s, u, c)
<1> USE DEF CountsOf, Covers, CoveredOnce
<1>1. PICK r \in Nat : r = m % n
  OBVIOUS
<1>2. PICK l \in 0..(n - 1) : n = l + 1
  OBVIOUS
<1>3. PICK begins \in Nat : begins = s * l /\ m = begins + s + r
  <2>1. m = n * s + r
    BY <1>1
  <2>2. n * s = s * l + s
    BY <1>2
  <2>3. s * l \in Nat
    BY Times
  <2> QED
    BY <2>1, <2>2, <2>3
<1>4. R[l] = s + r /\ \A u \in 0..(n - 1) : u # l => R[u] = s
  BY <1>1, <1>2
<1>5. ASSUME NEW u \in 0..(n - 1), u # l
      PROVE  s * u \in Nat /\ s * u + s <= begins
  <2>1. u + 1 <= l
    BY <1>2, <1>5
  <2>2. s * (u + 1) <= s * l
    BY <2>1, TimesGrows
  <2>3. s * (u + 1) = s * u + s /\ s * u \in Nat
    BY Times
  <2> QED
    BY <1>3, <2>2, <2>3
<1>6. ASSUME c < m
      PROVE  \E t \in 0..(n - 1) :
                       /\ s * t <= c /\ c < s * t + R[t]
                       /\ \A u \in 0..(n - 1) : u # t => ~(s * u <= c /\ c < s * u + R[u])
  <2>1. CASE c >= begins
    <3>1. s * l <= c /\ c < s * l + R[l]
      <4>1. c < begins + (s + r)
        BY <1>3, <1>6
      <4>2. begins + (s + r) = s * l + R[l]
        BY <1>3, <1>4
      <4> QED
        BY <1>3, <2>1, <4>1, <4>2
    <3>2. ASSUME NEW u \in 0..(n - 1), u # l
          PROVE  ~(s * u <= c /\ c < s * u + R[u])
      <4>1. PICK x \in Nat : x = s * u /\ x + s <= begins
        BY <1>5, <3>2
      <4>2. R[u] = s
        BY <1>4, <3>2
      <4> QED
        BY <2>1, <4>1, <4>2
    <3> QED
      BY <3>1, <3>2
  <2>2. CASE c < begins
    <3>1. s \in Nat \ {0}
      BY <1>3, <2>2
    <3>3. PICK t \in Nat, e \in 0..(s - 1) : c = s * t + e
      BY <3>1, Divided
    <3>4. t < l
      <4>1. CASE t >= l
        <5>1. s * l <= s * t
          BY <4>1, TimesGrows
        <5> QED
          <6>1. PICK x \in Nat : x = s * t /\ begins <= x
            BY <1>3, <5>1, Times
          <6> QED
            BY <2>2, <3>3, <6>1
      <4> QED
        BY <4>1
    <3>5. PICK low1 \in Nat : low1 = s * t
      BY Times
    <3>6. t \in 0..(n - 1) /\ R[t] = s /\ low1 <= c /\ c < low1 + s
      BY <1>2, <1>4, <3>3, <3>4, <3>5
    <3>7. ASSUME NEW u \in 0..(n - 1), u # t
          PROVE  ~(s * u <= c /\ c < s * u + R[u])
      <4>1. CASE u = l
        BY <1>3, <2>2, <4>1
      <4>2. CASE u # l /\ u < t
        <5>1. s * (u + 1) <= s * t /\ s * (u + 1) = s * u + s /\ s * u \in Nat
          BY <4>2, TimesGrows, Times
        <5> QED
          BY <1>4, <3>5, <3>6, <4>2, <5>1
      <4>3. CASE u # l /\ u > t
        <5>1. s * (t + 1) <= s * u /\ s * (t + 1) = s * t + s /\ s * u \in Nat
          BY <4>3, TimesGrows, Times
        <5> QED
          BY <3>5, <3>6, <5>1
      <4> QED
        BY <3>7, <4>1, <4>2, <4>3
    <3> QED
      BY <3>5, <3>6, <3>7
  <2> QED
    BY <1>3, <2>1, <2>2
<1>7. ASSUME c >= m, NEW u \in 0..(n - 1)
      PROVE  ~(s * u <= c /\ c < s * u + R[u])
  <2>1. CASE u = l
    BY <1>3, <1>4, <1>7, <2>1
  <2>2. CASE u # l
    <3>1. PICK x \in Nat : x = s * u /\ x + s <= begins
      BY <1>5, <2>2
    <3>2. R[u] = s /\ begins <= m
      BY <1>3, <1>4, <2>2
    <3> QED
      BY <1>7, <3>1, <3>2
  <2> QED
    BY <2>1, <2>2
<1> QED
  BY <1>6, <1>7

\* A collection for a thread, or several.
LEMMA OwnLoaded ==
  ASSUME LoaderInv, AllDone, load.actor \in Loading, ~load.multiple, load.phaseThreads = load.threads,
         NEW c \in CollectionNumbers
  PROVE  /\ stored[c] = IF c < load.collections THEN load.documents ELSE 0
         /\ indexed[c] = IF c < load.collections THEN 1 ELSE 0
<1>1. PICK n \in Nat \ {0}, m \in Nat, total \in Nat :
        /\ n = load.threads /\ m = load.collections /\ total = load.documents
        /\ Threads = 0..(n - 1) /\ 0..(n - 1) \subseteq LoaderThreads
  BY LoadFacts DEF LoaderInv, LoaderTypes
<1>2. PICK s \in Nat : s = m \div n
  OBVIOUS
<1>3. PICK R : R = CountsOf(m, n, s)
  OBVIOUS
<1>4. PICK f, g : /\ f = GivenTo(c) /\ SumsTo(f, n, stored[c])
                  /\ g = BuiltFor(c) /\ SumsTo(g, n, indexed[c])
  BY <1>1 DEF LoaderInv, AccountInv, Accounts
<1>5. ASSUME NEW t \in 0..(n - 1)
      PROVE  /\ f[t] = IF Covers(R, s, t, c) THEN total ELSE 0
             /\ g[t] = IF Covers(R, s, t, c) THEN 1 ELSE 0
  <2>1. /\ PartOf(t).offset = s * t /\ PartOf(t).count = R[t]
        /\ PartOf(t).documents = total /\ PartOf(t).indexes = TRUE
    BY <1>1, <1>2, <1>3 DEF PartOf, OwnPart, CountsOf
  <2>2. /\ f[t] = IF PartOf(t).offset <= c /\ c < PartOf(t).offset + PartOf(t).count
                  THEN PartOf(t).documents ELSE 0
        /\ g[t] = IF PartOf(t).indexes /\ PartOf(t).offset <= c /\ c < PartOf(t).offset + PartOf(t).count
                  THEN 1 ELSE 0
    BY <1>1, <1>4, DoneFacts
  <2> QED
    BY <2>1, <2>2 DEF Covers
<1>6. c \in Nat
  BY LoadersAssumption DEF CollectionNumbers
<1>7. CASE c < m
  <2>0. CoveredOnce(R, s, n, c)
    BY <1>2, <1>3, <1>6, <1>7, OneForEach
  <2>1. PICK t \in 0..(n - 1) :
          Covers(R, s, t, c) /\ \A u \in 0..(n - 1) : u # t => ~Covers(R, s, u, c)
    BY <2>0 DEF CoveredOnce
  <2>2. f[t] = total /\ g[t] = 1 /\ \A u \in 0..(n - 1) : u # t => f[u] = 0 /\ g[u] = 0
    BY <1>5, <2>1
  <2>3. stored[c] = 0 + f[t] /\ indexed[c] = 0 + g[t]
    BY <1>4, <2>2, SumOfOne
  <2> QED
    BY <1>1, <1>7, <2>2, <2>3
<1>8. CASE c >= m
  <2>1. \A u \in 0..(n - 1) : ~Covers(R, s, u, c)
    BY <1>2, <1>3, <1>6, <1>8, OneForEach
  <2>2. \A u \in 0..(n - 1) : f[u] = 0 /\ g[u] = 0
    BY <1>5, <2>1
  <2>3. stored[c] = 0 /\ indexed[c] = 0
    BY <1>4, <2>2, SumIsNothing
  <2> QED
    BY <1>1, <1>6, <1>8, <2>3
<1> QED
  BY <1>6, <1>7, <1>8

\* The thread of number b * j + i.
LEMMA Remainder ==
  ASSUME NEW b \in Nat \ {0}, NEW j \in Nat, NEW i \in 0..(b - 1)
  PROVE  (b * j + i) % b = i /\ ((b * j + i) \div b = 0 <=> j = 0)
<1>1. PICK n \in Nat : n = b * j + i
  BY Times
<1>2. n % b = i
  BY <1>1
<1>3. PICK q \in Nat : q = n \div b
  OBVIOUS
<1>4. n = b * q + i
  BY <1>2, <1>3, Quotient
<1>5. b * q = b * j
  <2>1. PICK x \in Int, y \in Int : x = b * q /\ y = b * j
    BY Times
  <2> QED
    BY <1>1, <1>4, <2>1
<1>6. q = 0 <=> j = 0
  <2>1. q # 0 => b * q > 0
    BY <1>3
  <2>2. j # 0 => b * j > 0
    OBVIOUS
  <2>3. b * 0 = 0
    OBVIOUS
  <2> QED
    BY <1>5, <2>1, <2>2, <2>3
<1> QED
  BY <1>1, <1>2, <1>3, <1>6

\* Several threads for a collection.
LEMMA SharedLoaded ==
  ASSUME LoaderInv, AllDone, load.actor \in Loading, load.multiple, NEW c \in CollectionNumbers
  PROVE  /\ stored[c] = IF c < load.collections THEN load.documents ELSE 0
         /\ indexed[c] = IF c < load.collections THEN 1 ELSE 0
<1>1. PICK threads \in Nat \ {0}, b \in Nat \ {0}, total \in Nat :
        /\ threads = load.threads /\ b = load.collections /\ total = load.documents /\ load.actor = "Loader"
        /\ Threads = 0..(threads - 1) /\ 0..(threads - 1) \subseteq LoaderThreads
  BY LoadFacts DEF LoaderInv, LoaderTypes
<1>2. 0 \in Threads
  BY <1>1
<1>3. threads % b = 0
  BY <1>1, <1>2, DoneFacts DEF ValidLoad
<1>4. PICK n \in Nat \ {0} : n = threads \div b /\ threads = b * n
  BY <1>3, EvenDivision
<1>5. PICK q \in Nat, r \in Nat : q = total \div n /\ r = total % n /\ total = q * n + r
  <2>1. PICK q \in Nat, r \in Nat : q = total \div n /\ r = total % n
    OBVIOUS
  <2>2. total = n * q + r
    BY <2>1, Quotient
  <2>3. n * q = q * n
    OBVIOUS
  <2> QED
    BY <2>1, <2>2, <2>3
<1>6. PICK f, g : /\ f = GivenTo(c) /\ SumsTo(f, threads, stored[c])
                  /\ g = BuiltFor(c) /\ SumsTo(g, threads, indexed[c])
  BY <1>1 DEF LoaderInv, AccountInv, Accounts
<1>7. c \in Nat
  BY LoadersAssumption DEF CollectionNumbers
<1>8. ASSUME NEW t \in 0..(threads - 1)
      PROVE  /\ f[t] = IF c = t % b THEN q + (IF t \div b = 0 THEN r ELSE 0) ELSE 0
             /\ g[t] = IF t \div b = 0 /\ c = t % b THEN 1 ELSE 0
  <2>1. /\ PartOf(t).offset = t % b /\ PartOf(t).count = 1
        /\ PartOf(t).documents = q + (IF t \div b = 0 THEN r ELSE 0) /\ PartOf(t).indexes = (t \div b = 0)
    BY <1>1, <1>4, <1>5 DEF PartOf, SharedPart
  <2>2. /\ f[t] = IF PartOf(t).offset <= c /\ c < PartOf(t).offset + PartOf(t).count
                  THEN PartOf(t).documents ELSE 0
        /\ g[t] = IF PartOf(t).indexes /\ PartOf(t).offset <= c /\ c < PartOf(t).offset + PartOf(t).count
                  THEN 1 ELSE 0
    BY <1>1, <1>6, DoneFacts
  <2>3. t % b \in Nat
    OBVIOUS
  <2>4. t % b <= c /\ c < (t % b) + 1 <=> c = t % b
    BY <1>7, <2>3
  <2> QED
    BY <2>1, <2>2, <2>4
<1>9. ASSUME NEW j \in 0..(n - 1), NEW i \in 0..(b - 1)
      PROVE  /\ f[b * j + i] = IF i = c THEN (IF j = 0 THEN q + r ELSE q) ELSE 0
             /\ g[b * j + i] = IF i = c THEN (IF j = 0 THEN 0 + 1 ELSE 0) ELSE 0
  <2>1. b * (j + 1) <= b * n /\ b * (j + 1) = b * j + b /\ b * j \in Nat
    BY Times, TimesGrows
  <2>2. PICK t \in 0..(threads - 1) : t = b * j + i
    BY <1>4, <2>1
  <2>3. t % b = i /\ (t \div b = 0 <=> j = 0)
    BY <2>2, Remainder
  <2> QED
    BY <1>8, <2>2, <2>3
<1>10. CASE c < b
  <2>1. c \in 0..(b - 1)
    BY <1>7, <1>10
  <2>2. stored[c] = q * n + r
    <3>1. InBlocks(f, n, b, c, q, r)
      BY <1>9 DEF InBlocks
    <3>2. SumsTo(f, b * n, stored[c])
      BY <1>4, <1>6
    <3> QED
      BY <2>1, <3>1, <3>2, SumOfBlocks
  <2>3. indexed[c] = 0 * n + 1
    <3>1. InBlocks(g, n, b, c, 0, 1)
      BY <1>9 DEF InBlocks
    <3>2. SumsTo(g, b * n, indexed[c])
      BY <1>4, <1>6
    <3> QED
      BY <2>1, <3>1, <3>2, SumOfBlocks
  <2>4. 0 * n + 1 = 1
    OBVIOUS
  <2> QED
    BY <1>1, <1>5, <1>10, <2>2, <2>3, <2>4
<1>11. CASE c >= b
  <2>1. \A t \in 0..(threads - 1) : f[t] = 0 /\ g[t] = 0
    <3>1. \A t \in 0..(threads - 1) : t % b < b /\ t % b \in Nat
      OBVIOUS
    <3> QED
      BY <1>7, <1>8, <1>11, <3>1
  <2>2. stored[c] = 0 /\ indexed[c] = 0
    BY <1>6, <2>1, SumIsNothing
  <2> QED
    BY <1>1, <1>7, <1>11, <2>2
<1> QED
  BY <1>7, <1>10, <1>11

\* LoadedExactly: however the collections and documents divide among the
\* threads, and whatever batch of whichever thread fails, a load that all threads
\* have done has every document and every index once, no id is inserted twice,
\* and the sample is gathered once.
THEOREM AllIsLoadedOnce == LoaderSpec => []LoadedExactly
<1>1. LoaderInv => LoadedExactly
  <2> SUFFICES ASSUME LoaderInv PROVE LoadedExactly
    OBVIOUS
  <2>1. IdsLoadedOnce /\ SampleGatheredOnce
    BY IdsOnce, SampleOnce DEF LoaderInv
  <2>2. ASSUME AllDone, load.actor \in Loading, load.multiple \/ load.phaseThreads = load.threads, NEW c \in CollectionNumbers
        PROVE  /\ stored[c] = IF c < load.collections THEN load.documents ELSE 0
               /\ indexed[c] = IF c < load.collections THEN 1 ELSE 0
    <3>1. CASE load.multiple
      BY <2>2, <3>1, SharedLoaded
    <3>2. CASE ~load.multiple
      BY <2>2, <3>2, OwnLoaded
    <3> QED
      BY <3>1, <3>2
  <2>3. CollectionsLoaded
    BY <2>2 DEF CollectionsLoaded, Loading
  <2> QED
    BY <2>1, <2>3 DEF LoadedExactly
<1> QED
  BY <1>1, LoaderInvInit, LoaderInvStep, PTL DEF LoaderSpec

=============================================================================
