--------------------------- MODULE CrudActor_proofs ---------------------------
(***************************************************************************)
(* A thread of a CrudActor, for every workload: what its constructor       *)
(* accepts is run without falling off the state machine or into a state    *)
(* that no weight leads to, every operation is reported once, and of a     *)
(* withTransaction all is seen or nothing.                                 *)
(***************************************************************************)
EXTENDS CrudActor, SequenceTheorems, WellFoundedInduction, TLAPS

(***************************************************************************)
(* What a request leaves of the collection: a recursion over its steps.    *)
(***************************************************************************)

\* A set of numbers has a least one.
LEMMA LeastNumber ==
  ASSUME NEW T, T \subseteq Nat, T # {}
  PROVE  \E m \in T : \A k \in T : m <= k
<1>1. PICK R : R = OpToRel(<, Nat)
  OBVIOUS
<1>2. IsWellFoundedOn(R, Nat)
  BY <1>1, NatLessThanWellFounded
<1>3. PICK x \in T : \A y \in T : ~(<<y, x>> \in R)
  BY <1>2, WFMin
<1>4. \A y \in T : ~(y < x)
  BY <1>1, <1>3 DEF OpToRel
<1> QED
  BY <1>4

AfterStep(op, i, c) == After(StepName(op, i), c)

\* The recursive definition of AfterSteps, as an equation on 0..n.
Recursion(g, op, n, c) ==
  g = [i \in 0..n |-> IF i = 0 THEN c ELSE AfterStep(op, i, g[i - 1])]

\* It has a solution: the least n without one would be behind one with one.
LEMMA RecursionSolved ==
  ASSUME NEW op, NEW c, NEW n \in Nat
  PROVE  \E g : Recursion(g, op, n, c)
<1>1. PICK T : T = {m \in Nat : ~\E g : Recursion(g, op, m, c)}
  OBVIOUS
<1>2. CASE T # {}
  <2>1. PICK m \in T : \A k \in T : m <= k
    BY <1>1, <1>2, LeastNumber
  <2>2. m \in Nat /\ ~\E g : Recursion(g, op, m, c)
    BY <1>1, <2>1
  <2>3. CASE m = 0
    <3>1. Recursion([i \in 0..0 |-> c], op, 0, c)
      BY DEF Recursion
    <3> QED
      BY <2>2, <2>3, <3>1
  <2>4. CASE m # 0
    <3>1. m - 1 \in Nat /\ m - 1 \notin T
      BY <2>1, <2>2, <2>4
    <3>2. PICK g : Recursion(g, op, m - 1, c)
      BY <1>1, <3>1
    <3>3. PICK h : h = [i \in 0..m |-> IF i = m THEN AfterStep(op, m, g[m - 1]) ELSE g[i]]
      OBVIOUS
    <3>4. \A i \in 0..(m - 1) : h[i] = g[i]
      BY <2>2, <3>3
    <3>5. ASSUME NEW i \in 0..m
          PROVE  h[i] = IF i = 0 THEN c ELSE AfterStep(op, i, h[i - 1])
      <4>1. CASE i = m
        <5>1. h[m] = AfterStep(op, m, g[m - 1]) /\ h[m - 1] = g[m - 1]
          BY <2>2, <2>4, <3>3, <3>4
        <5> QED
          BY <2>4, <4>1, <5>1
      <4>2. CASE i # m
        <5>1. i \in 0..(m - 1) /\ (i # 0 => i - 1 \in 0..(m - 1))
          BY <2>2, <4>2
        <5>2. g[i] = IF i = 0 THEN c ELSE AfterStep(op, i, g[i - 1])
          BY <3>2, <5>1 DEF Recursion
        <5> QED
          BY <3>4, <5>1, <5>2
      <4> QED
        BY <4>1, <4>2
    <3>6. Recursion(h, op, m, c)
      BY <3>3, <3>5 DEF Recursion
    <3> QED
      BY <2>2, <3>6
  <2> QED
    BY <2>3, <2>4
<1> QED
  BY <1>1, <1>2

\* AfterSteps is the value of a solution at n.
LEMMA AfterStepsIs ==
  ASSUME NEW op, NEW c, NEW n \in Nat
  PROVE  \E g : Recursion(g, op, n, c) /\ AfterSteps(op, n, c) = g[n]
<1> DEFINE G == CHOOSE g : Recursion(g, op, n, c)
<1>1. Recursion(G, op, n, c)
  BY RecursionSolved
<1>2. AfterSteps(op, n, c) = G[n]
  BY DEF AfterSteps, Recursion, AfterStep
<1> QED
  BY <1>1, <1>2

(***************************************************************************)
(* And over the operations of a transaction.                               *)
(***************************************************************************)

AfterOperation(s, i, c) == AfterSteps(s[i], Steps(s[i]), c)

Sequel(g, s, n, c) ==
  g = [i \in 0..n |-> IF i = 0 THEN c ELSE AfterOperation(s, i, g[i - 1])]

LEMMA SequelSolved ==
  ASSUME NEW s, NEW c, NEW n \in Nat
  PROVE  \E g : Sequel(g, s, n, c)
<1>1. PICK T : T = {m \in Nat : ~\E g : Sequel(g, s, m, c)}
  OBVIOUS
<1>2. CASE T # {}
  <2>1. PICK m \in T : \A k \in T : m <= k
    BY <1>1, <1>2, LeastNumber
  <2>2. m \in Nat /\ ~\E g : Sequel(g, s, m, c)
    BY <1>1, <2>1
  <2>3. CASE m = 0
    <3>1. Sequel([i \in 0..0 |-> c], s, 0, c)
      BY DEF Sequel
    <3> QED
      BY <2>2, <2>3, <3>1
  <2>4. CASE m # 0
    <3>1. m - 1 \in Nat /\ m - 1 \notin T
      BY <2>1, <2>2, <2>4
    <3>2. PICK g : Sequel(g, s, m - 1, c)
      BY <1>1, <3>1
    <3>3. PICK h : h = [i \in 0..m |-> IF i = m THEN AfterOperation(s, m, g[m - 1]) ELSE g[i]]
      OBVIOUS
    <3>4. \A i \in 0..(m - 1) : h[i] = g[i]
      BY <2>2, <3>3
    <3>5. ASSUME NEW i \in 0..m
          PROVE  h[i] = IF i = 0 THEN c ELSE AfterOperation(s, i, h[i - 1])
      <4>1. CASE i = m
        <5>1. h[m] = AfterOperation(s, m, g[m - 1]) /\ h[m - 1] = g[m - 1]
          BY <2>2, <2>4, <3>3, <3>4
        <5> QED
          BY <2>4, <4>1, <5>1
      <4>2. CASE i # m
        <5>1. i \in 0..(m - 1) /\ (i # 0 => i - 1 \in 0..(m - 1))
          BY <2>2, <4>2
        <5>2. g[i] = IF i = 0 THEN c ELSE AfterOperation(s, i, g[i - 1])
          BY <3>2, <5>1 DEF Sequel
        <5> QED
          BY <3>4, <5>1, <5>2
      <4> QED
        BY <4>1, <4>2
    <3>6. Sequel(h, s, m, c)
      BY <3>3, <3>5 DEF Sequel
    <3> QED
      BY <2>2, <3>6
  <2> QED
    BY <2>3, <2>4
<1> QED
  BY <1>1, <1>2

LEMMA AfterOperationsIs ==
  ASSUME NEW s, NEW c, NEW n \in Nat
  PROVE  \E g : Sequel(g, s, n, c) /\ AfterOperations(s, n, c) = g[n]
<1> DEFINE G == CHOOSE g : Sequel(g, s, n, c)
<1>1. Sequel(G, s, n, c)
  BY SequelSolved
<1>2. AfterOperations(s, n, c) = G[n]
  BY DEF AfterOperations, Sequel, AfterOperation
<1> QED
  BY <1>1, <1>2

\* Solutions for n and for n + 1 agree as far as both go, so one operation more
\* works on what the others left.
LEMMA AfterOneMore ==
  ASSUME NEW s, NEW c, NEW n \in Nat
  PROVE  /\ AfterOperations(s, 0, c) = c
         /\ AfterOperations(s, n + 1, c) = AfterOperation(s, n + 1, AfterOperations(s, n, c))
<1>1. AfterOperations(s, 0, c) = c
  <2>1. PICK g : Sequel(g, s, 0, c) /\ AfterOperations(s, 0, c) = g[0]
    BY AfterOperationsIs
  <2> QED
    BY <2>1 DEF Sequel
<1>2. PICK g : Sequel(g, s, n, c) /\ AfterOperations(s, n, c) = g[n]
  BY AfterOperationsIs
<1>3. PICK h : Sequel(h, s, n + 1, c) /\ AfterOperations(s, n + 1, c) = h[n + 1]
  BY AfterOperationsIs
<1>4. /\ \A i \in 0..n : g[i] = IF i = 0 THEN c ELSE AfterOperation(s, i, g[i - 1])
      /\ \A i \in 0..(n + 1) : h[i] = IF i = 0 THEN c ELSE AfterOperation(s, i, h[i - 1])
  BY <1>2, <1>3 DEF Sequel
<1>5. PICK T : T = {i \in 0..n : g[i] # h[i]}
  OBVIOUS
<1>6. CASE T # {}
  <2>1. PICK m \in T : \A k \in T : m <= k
    BY <1>5, <1>6, LeastNumber
  <2>2. m \in 0..n /\ m \in 0..(n + 1) /\ g[m] # h[m] /\ m # 0
    BY <1>4, <1>5, <2>1
  <2>3. m - 1 \in 0..n /\ m - 1 \notin T
    BY <2>1, <2>2
  <2>4. g[m - 1] = h[m - 1]
    BY <1>5, <2>3
  <2> QED
    BY <1>4, <2>2, <2>4
<1>7. CASE T = {}
  <2>1. g[n] = h[n] /\ n + 1 \in 0..(n + 1) /\ n + 1 # 0 /\ (n + 1) - 1 = n
    BY <1>5, <1>7
  <2> QED
    BY <1>1, <1>2, <1>3, <1>4, <2>1
<1> QED
  BY <1>6, <1>7

(***************************************************************************)
(* The operations that the constructor accepts.                            *)
(***************************************************************************)

ValidOperations ==
  {op \in Operation :
     /\ ~InvalidOperation(op, OnSession(op))
     /\ op.name = "withTransaction" => \A j \in 1..Len(op.inner) : ~InvalidTxnOperation(op.inner[j])}

ValidTxnOperations == {op \in TxnOperation : ~InvalidTxnOperation(op)}

\* The requests of the driver: what has an entry in After.
Requests == (OpConstructors \ TransactionOps) \ {"bulkWrite", "insertMany"}

LEMMA RequestType ==
  ASSUME NEW name \in Requests, NEW c \in Nat
  PROVE  After(name, c) \in Nat
<1>1. c - Lesser(1, c) \in Nat
  BY DEF Lesser
<1> QED
  BY <1>1 DEF Requests, OpConstructors, TransactionOps, WriteOps, After, insertOne, updateOne, updateMany,
     deleteOne, deleteMany, replaceOne, drop, findOneAndDelete, findOneAndReplace, findOneAndUpdate,
     createIndex, countDocuments, estimatedDocumentCount, find, findOne, aggregate, setReadConcern

\* What the server is asked to do for an operation that may stand here.
Servable(op) ==
  /\ Steps(op) \in Nat
  /\ \A i \in 1..Steps(op) : StepName(op, i) \in Requests

LEMMA PlainServable ==
  ASSUME NEW op \in ValidOperations, Plain(op)
  PROVE  Servable(op)
<1>1. op.name \in OpConstructors \ TransactionOps /\ Len(op.inner) \in Nat
  BY DEF ValidOperations, Plain, InvalidOperation, Operation, OperationOf
<1>2. CASE op.name = "bulkWrite"
  BY <1>1, <1>2 DEF ValidOperations, InvalidOperation, Servable, Steps, StepName, Requests, WriteOps,
     OpConstructors, TransactionOps
<1>3. CASE op.name # "bulkWrite"
  BY <1>1, <1>3 DEF Servable, Steps, StepName, Requests, WriteOps, OpConstructors, TransactionOps
<1> QED
  BY <1>2, <1>3

LEMMA TxnServable ==
  ASSUME NEW op \in ValidTxnOperations
  PROVE  Servable(op)
<1>1. op.name \in OpConstructors \ TransactionOps /\ Len(op.inner) \in Nat
  BY DEF ValidTxnOperations, InvalidTxnOperation, InvalidOperation, TxnOperation, OperationOf
<1>2. CASE op.name = "bulkWrite"
  BY <1>1, <1>2 DEF ValidTxnOperations, InvalidTxnOperation, InvalidOperation, Servable, Steps, StepName,
     Requests, WriteOps, OpConstructors, TransactionOps
<1>3. CASE op.name # "bulkWrite"
  BY <1>1, <1>3 DEF Servable, Steps, StepName, Requests, WriteOps, OpConstructors, TransactionOps
<1> QED
  BY <1>2, <1>3

\* However many of its steps ran, an operation leaves a number of documents.
LEMMA AfterStepsType ==
  ASSUME NEW op, Servable(op), NEW n \in 0..Steps(op), NEW c \in Nat
  PROVE  AfterSteps(op, n, c) \in Nat
<1>n. n \in Nat
  BY DEF Servable
<1>1. PICK g : Recursion(g, op, n, c) /\ AfterSteps(op, n, c) = g[n]
  BY <1>n, AfterStepsIs
<1>2. \A i \in 0..n : g[i] = IF i = 0 THEN c ELSE AfterStep(op, i, g[i - 1])
  BY <1>1 DEF Recursion
<1>3. PICK T : T = {i \in 0..n : g[i] \notin Nat}
  OBVIOUS
<1>4. CASE T # {}
  <2>1. PICK m \in T : \A k \in T : m <= k
    BY <1>3, <1>4, <1>n, LeastNumber
  <2>2. m \in 0..n /\ g[m] \notin Nat /\ m # 0
    BY <1>2, <1>3, <1>n, <2>1
  <2>3. m - 1 \in 0..n /\ m - 1 \notin T
    BY <1>n, <2>1, <2>2
  <2>4. g[m - 1] \in Nat
    BY <1>3, <2>3
  <2>5. StepName(op, m) \in Requests
    BY <1>n, <2>2 DEF Servable
  <2>6. g[m] \in Nat
    BY <1>2, <2>2, <2>4, <2>5, RequestType DEF AfterStep
  <2> QED
    BY <2>2, <2>6
<1>5. CASE T = {}
  BY <1>1, <1>3, <1>5, <1>n
<1> QED
  BY <1>4, <1>5

(***************************************************************************)
(* The inductive invariant.                                                *)
(***************************************************************************)

MachineState == [currentState : Nat, nextState : Nat, skip : BOOLEAN]

InPhase == crudPc \in {"iterate", "ops", "txn"}

\* The state machines are where a state is, and a phase is run only if the
\* constructor has accepted it.
MachineInv ==
  /\ crudPc \in {"construct", "phase", "iterate", "ops", "txn", "done", "failed", "threw", "invalid"}
  /\ phases \in Workloads /\ phase \in 0..Len(phases)
  /\ fsm \in [1..Len(phases) -> MachineState]
  /\ \A p \in 1..Len(phases) :
       phases[p].states # <<>> => /\ fsm[p].currentState \in 1..Len(phases[p].states)
                                  /\ fsm[p].nextState \in 1..Len(phases[p].states)
  /\ crudPc \notin {"construct", "invalid"} =>
       \A p \in 1..Len(phases) : ~InvalidPhase(phases[p], p - 1)
  /\ InPhase => phase # 0 /\ ~Config.nop

\* Only the first iteration of a phase may be one without operations.
SkipInv ==
  /\ visits \in 0..MaxVisits /\ ran \in 0..visits
  /\ InPhase =>
       /\ visits = 0 => (Machine.skip <=> Given(Config.skipFirstOperations, FALSE))
       /\ visits # 0 => /\ ~Machine.skip
                        /\ visits - ran = IF Given(Config.skipFirstOperations, FALSE) THEN 1 ELSE 0

\* What is still to be run was accepted.
QueueInv ==
  /\ ops \in Seq(ValidOperations)
  /\ txnOps \in Seq(ValidTxnOperations)
  /\ crudPc = "txn" => txnOp \in ValidOperations /\ txnOp.name = "withTransaction"
  /\ retries \in 0..MaxRetries

DataInv ==
  /\ session \in {"none", "active", "aborted"}
  /\ coll \in 0..MaxDocs /\ snapshot \in 0..MaxDocs

AccountInv ==
  /\ started \in Nat /\ succeeded \in Nat /\ failed \in Nat /\ errors \in Nat /\ lost \in Nat
  /\ OperationsAccounted

\* The machine of the phase is where its graph leads; before its first phase
\* it is in its first state.
ReachInv ==
  /\ \A p \in 1..Len(phases) : p > phase => fsm[p].currentState = 1
  /\ crudPc \in {"ops", "txn"} => visits # 0
  /\ OnlyReachableStates

\* A withTransaction has run its first k operations; if all of them are on its
\* session they are what its transaction sees, but for one that was aborted.
AllOnSession(op) == \A i \in 1..Len(op.inner) : op.inner[i].onSession # "false"
RanFirst(k) ==
  /\ Len(txnOps) = Len(txnOp.inner) - k
  /\ \A i \in 1..Len(txnOps) : txnOps[i] = txnOp.inner[k + i]
  /\ session = "active" /\ AllOnSession(txnOp) => snapshot = AfterOperations(txnOp.inner, k, coll)
WholeInv ==
  crudPc = "txn" => session # "none" /\ \E k \in 0..Len(txnOp.inner) : RanFirst(k)

CrudInv == MachineInv /\ SkipInv /\ QueueInv /\ DataInv /\ AccountInv /\ ReachInv /\ WholeInv

LEMMA CrudInitInv == CrudInit => CrudInv
<1> SUFFICES ASSUME CrudInit PROVE CrudInv
  OBVIOUS
<1>w. phases \in Seq(PhaseConfig) /\ Len(phases) \in Nat
  BY WorkloadsAssumption DEF CrudInit
<1>1. MachineInv
  <2>1. fsm \in [1..Len(phases) -> MachineState]
    BY DEF CrudInit, MachineState
  <2>2. \A p \in 1..Len(phases) : fsm[p].currentState = 1 /\ fsm[p].nextState = 1
    BY DEF CrudInit
  <2>3. ASSUME NEW p \in 1..Len(phases), phases[p].states # <<>>
        PROVE  1 \in 1..Len(phases[p].states)
    <3>1. phases[p] \in PhaseConfig
      BY <1>w
    <3>2. phases[p].states \in Seq([operations : Seq(Operation), transitions : Seq(Transition)])
      BY <3>1 DEF PhaseConfig
    <3>3. Len(phases[p].states) \in Nat /\ Len(phases[p].states) # 0
      BY <2>3, <3>2, EmptySeq
    <3> QED
      BY <3>3
  <2> QED
    BY <1>w, <2>1, <2>2, <2>3 DEF CrudInit, MachineInv, InPhase
<1>2. SkipInv
  BY CrudBoundsAssumption DEF CrudInit, SkipInv, InPhase
<1>3. QueueInv
  BY CrudBoundsAssumption, EmptySeq DEF CrudInit, QueueInv
<1>4. DataInv
  BY CrudBoundsAssumption DEF CrudInit, DataInv
<1>5. AccountInv
  BY DEF CrudInit, AccountInv, OperationsAccounted, Running
<1>6. ReachInv
  BY <1>w DEF CrudInit, ReachInv, OnlyReachableStates
<1>7. WholeInv
  BY DEF CrudInit, WholeInv
<1> QED
  BY <1>1, <1>2, <1>3, <1>4, <1>5, <1>6, <1>7 DEF CrudInv

\* What the configuration of a phase is made of.
LEMMA ConfigType ==
  ASSUME MachineInv
  PROVE  /\ Len(phases) \in Nat
         /\ \A p \in 1..Len(phases) :
              /\ phases[p] \in PhaseConfig
              /\ Len(phases[p].states) \in Nat
              /\ \A i \in 1..Len(phases[p].states) :
                   /\ phases[p].states[i].operations \in Seq(Operation)
                   /\ phases[p].states[i].transitions \in Seq(Transition)
<1>1. phases \in Seq(PhaseConfig) /\ Len(phases) \in Nat
  BY WorkloadsAssumption DEF MachineInv
<1>2. ASSUME NEW p \in 1..Len(phases)
      PROVE  phases[p] \in PhaseConfig
  BY <1>1
<1>3. ASSUME NEW c \in PhaseConfig
      PROVE  /\ Len(c.states) \in Nat
             /\ \A i \in 1..Len(c.states) : /\ c.states[i].operations \in Seq(Operation)
                                            /\ c.states[i].transitions \in Seq(Transition)
  <2>1. PICK S : S = [operations : Seq(Operation), transitions : Seq(Transition)]
    OBVIOUS
  <2>2. c.states \in Seq(S)
    BY <2>1 DEF PhaseConfig
  <2>3. Len(c.states) \in Nat /\ \A i \in 1..Len(c.states) : c.states[i] \in S
    BY <2>2
  <2> QED
    BY <2>1, <2>3
<1> QED
  BY <1>1, <1>2, <1>3

(***************************************************************************)
(* The state machine.                                                      *)
(***************************************************************************)

\* The steps that leave the machine alone.
MachineRests ==
  \/ LastPhase \/ EndPhase \/ RunOperation \/ RunTransactionOperation
  \/ WithTransaction \/ WithTransactionFails \/ RunTxnOperation \/ Commit \/ Retry \/ CommitFails

LEMMA RestsEffect ==
  ASSUME MachineInv, MachineRests
  PROVE  /\ UNCHANGED <<phases, phase, fsm, visits, ran>>
         /\ crudPc \in {"phase", "iterate", "ops", "txn"}
         /\ crudPc' \in {"phase", "ops", "txn", "done", "failed", "threw"}
         /\ InPhase' => InPhase
<1>1. UNCHANGED <<phases, phase, fsm, visits, ran>>
  BY Zenon DEF MachineRests, LastPhase, EndPhase, RunOperation, RunTransactionOperation, WithTransaction,
     WithTransactionFails, RunTxnOperation, Commit, Retry, CommitFails, fsmVars
<1>2. CASE LastPhase \/ EndPhase \/ WithTransaction \/ Commit \/ Retry \/ CommitFails
  <2>1. /\ crudPc \in {"phase", "iterate", "ops", "txn"}
        /\ crudPc' \in {"phase", "ops", "txn", "done", "failed"}
        /\ crudPc = "phase" => crudPc' = "done"
    BY <1>2 DEF LastPhase, EndPhase, WithTransaction, Commit, Retry, CommitFails, EndTransaction
  <2> QED
    BY <1>1, <2>1 DEF InPhase
<1>3. CASE RunOperation \/ RunTransactionOperation \/ WithTransactionFails \/ RunTxnOperation
  <2>1. crudPc \in {"ops", "txn"} /\ crudPc' \in {crudPc, "failed", "threw"}
    <3>1. ASSUME NEW mode, Handled(mode) PROVE crudPc' \in {crudPc, "failed"}
      BY <3>1 DEF Handled
    <3>2. ASSUME NEW op, NEW own, Escapes(op, own) PROVE crudPc' = "threw"
      BY <3>2 DEF Escapes
    <3>3. Completed => crudPc' = crudPc
      BY DEF Completed
    <3> QED
      BY <1>3, <3>1, <3>2, <3>3, Zenon DEF RunOperation, RunTransactionOperation, WithTransactionFails, RunTxnOperation
  <2> QED
    BY <1>1, <2>1 DEF InPhase
<1> QED
  BY <1>2, <1>3 DEF MachineRests

LEMMA RestsInv ==
  ASSUME MachineInv, SkipInv, MachineRests
  PROVE  MachineInv' /\ SkipInv'
<1>1. MachineInv'
  BY RestsEffect DEF MachineInv, Config
<1>2. SkipInv'
  BY RestsEffect DEF SkipInv, Config, Machine
<1> QED
  BY <1>1, <1>2

LEMMA ConstructInv ==
  ASSUME MachineInv, SkipInv, Construct
  PROVE  MachineInv' /\ SkipInv'
<1>1. /\ crudPc = "construct"
      /\ UNCHANGED <<phases, phase, fsm, visits, ran>>
  BY DEF Construct, fsmVars
<1>2. CASE crudPc' = "invalid"
  BY <1>1, <1>2 DEF MachineInv, SkipInv, InPhase, Config, Machine
<1>3. CASE crudPc' = "phase" /\ \A p \in 1..Len(phases) : ~InvalidPhase(phases[p], p - 1)
  <2>1. (\A p \in 1..Len(phases) : ~InvalidPhase(phases[p], p - 1))'
    BY <1>1, <1>3
  <2> QED
    BY <1>1, <1>3, <2>1 DEF MachineInv, SkipInv, InPhase, Config, Machine
<1> QED
  BY <1>2, <1>3 DEF Construct

\* A machine in a new state, in its current phase.
LEMMA MachineMoves ==
  ASSUME MachineInv, NEW p \in 1..Len(phases), NEW m \in MachineState,
         phases[p].states # <<>> => /\ m.currentState \in 1..Len(phases[p].states)
                                    /\ m.nextState \in 1..Len(phases[p].states),
         fsm' = [fsm EXCEPT ![p] = m], UNCHANGED phases
  PROVE  /\ (fsm \in [1..Len(phases) -> MachineState])'
         /\ (\A q \in 1..Len(phases) :
              phases[q].states # <<>> => /\ fsm[q].currentState \in 1..Len(phases[q].states)
                                         /\ fsm[q].nextState \in 1..Len(phases[q].states))'
         /\ fsm'[p] = m
<1>1. fsm' \in [1..Len(phases) -> MachineState]
  BY DEF MachineInv
<1>2. fsm'[p] = m /\ \A q \in 1..Len(phases) \ {p} : fsm'[q] = fsm[q]
  BY DEF MachineInv
<1> QED
  BY <1>1, <1>2 DEF MachineInv

LEMMA StartInv ==
  ASSUME MachineInv, SkipInv, StartIteration
  PROVE  MachineInv' /\ SkipInv'
<1>1. /\ crudPc = "iterate" /\ crudPc' = "ops" /\ visits < MaxVisits
      /\ visits' = visits + 1 /\ ran' = IF Machine.skip THEN ran ELSE ran + 1
      /\ UNCHANGED <<phases, phase>>
  BY DEF StartIteration
<1>2. phase \in 1..Len(phases) /\ ~Config.nop
  BY <1>1, ConfigType DEF MachineInv, InPhase
<1>3. PICK m \in MachineState : m = Machine
  BY <1>2 DEF MachineInv, Machine
<1>4. PICK n : n = [m EXCEPT !.currentState = m.nextState, !.skip = FALSE]
  OBVIOUS
<1>5. n \in MachineState /\ n.currentState = m.nextState /\ n.nextState = m.nextState /\ n.skip = FALSE
  BY <1>4 DEF MachineState
<1>6. fsm' = [fsm EXCEPT ![phase] = n]
  BY <1>3, <1>4 DEF StartIteration, Machine
<1>7. PICK p \in 1..Len(phases) : p = phase
  BY <1>2
<1>8. /\ (fsm \in [1..Len(phases) -> MachineState])'
      /\ (\A q \in 1..Len(phases) :
           phases[q].states # <<>> => /\ fsm[q].currentState \in 1..Len(phases[q].states)
                                      /\ fsm[q].nextState \in 1..Len(phases[q].states))'
      /\ fsm'[p] = n
  <2>1. phases[p].states # <<>> => m.nextState \in 1..Len(phases[p].states)
    BY <1>3, <1>7 DEF MachineInv, Machine
  <2>2. fsm' = [fsm EXCEPT ![p] = n]
    BY <1>6, <1>7
  <2> QED
    BY <1>1, <1>5, <2>1, <2>2, MachineMoves
<1>9. MachineInv'
  BY <1>1, <1>2, <1>8 DEF MachineInv, Config, InPhase
<1>10. SkipInv'
  <2>1. Machine'.skip = FALSE
    BY <1>1, <1>5, <1>7, <1>8 DEF Machine
  <2>2. Config' = Config
    BY <1>1 DEF Config
  <2>3. visits \in Nat /\ ran \in Nat /\ MaxVisits \in Nat
    BY CrudBoundsAssumption DEF SkipInv
  <2>4. PICK k \in BOOLEAN : k = Given(Config.skipFirstOperations, FALSE)
    BY DEF Given
  <2>5. Given(Config.skipFirstOperations, FALSE)' = k
    BY <2>2, <2>4 DEF Given
  <2>r. ran <= visits
    BY <2>3 DEF SkipInv
  <2>i. InPhase
    BY <1>1 DEF InPhase
  <2>6. /\ visits = 0 => (Machine.skip <=> k)
        /\ visits # 0 => ~Machine.skip /\ visits - ran = IF k THEN 1 ELSE 0
    BY <2>i, <2>4, Zenon DEF SkipInv
  <2>7. visits' \in 0..MaxVisits /\ ran' \in 0..visits' /\ visits' # 0
    BY <1>1, <2>3, <2>r, <2>6
  <2>8. visits' - ran' = IF k THEN 1 ELSE 0
    <3>1. CASE visits = 0 /\ Machine.skip
      BY <1>1, <2>3, <2>r, <2>6, <3>1
    <3>2. CASE ~Machine.skip
      BY <1>1, <2>3, <2>r, <2>6, <3>2
    <3> QED
      BY <2>6, <3>1, <3>2
  <2> QED
    BY <2>1, <2>5, <2>7, <2>8 DEF SkipInv
<1> QED
  BY <1>9, <1>10

\* The machine moves on along a transition, which leads to a state.
LEMMA EndInv ==
  ASSUME MachineInv, SkipInv, EndIteration
  PROVE  /\ MachineInv' /\ SkipInv'
         /\ Config.states # <<>> =>
              \E i \in 1..Len(Config.states[Machine.currentState].transitions) :
                LET t == Config.states[Machine.currentState].transitions[i] IN
                t.weight > 0 /\ t.to = fsm'[phase].nextState
<1>1. /\ crudPc = "ops" /\ crudPc' = "iterate"
      /\ UNCHANGED <<phases, phase, visits, ran>>
  BY DEF EndIteration
<1>2. phase \in 1..Len(phases) /\ ~Config.nop
  BY <1>1, ConfigType DEF MachineInv, InPhase
<1>3. CASE Config.states = <<>>
  <2>1. UNCHANGED fsm
    BY <1>3 DEF EndIteration
  <2> QED
    BY <1>1, <1>3, <2>1 DEF MachineInv, SkipInv, Config, Machine, InPhase
<1>4. CASE Config.states # <<>>
  <2>1. PICK p \in 1..Len(phases) : p = phase
    BY <1>2
  <2>2. PICK m \in MachineState : m = Machine
    BY <1>2 DEF MachineInv, Machine
  <2>3. PICK c : c = phases[p]
    OBVIOUS
  <2>4. /\ c.states # <<>> /\ ~c.nop
        /\ m.currentState \in 1..Len(c.states) /\ m.nextState \in 1..Len(c.states)
        /\ ~InvalidPhase(c, p - 1)
    BY <1>1, <1>2, <1>4, <2>1, <2>2, <2>3 DEF MachineInv, Config, Machine
  <2>5. PICK i \in 1..Len(c.states[m.currentState].transitions) :
          /\ c.states[m.currentState].transitions[i].weight > 0
          /\ fsm' = [fsm EXCEPT ![phase].nextState = c.states[m.currentState].transitions[i].to]
    BY <1>4, <2>1, <2>2, <2>3 DEF EndIteration, pickNext, Config
  <2>6. PICK s : s = c.states[m.currentState].transitions[i].to
    OBVIOUS
  <2>7. s \in 1..Len(c.states) /\ s \in Nat
    <3>1. s \in 1..Len(c.states)
      BY <2>4, <2>5, <2>6 DEF InvalidPhase, InvalidStates
    <3>2. Len(c.states) \in Nat
      BY <2>3, ConfigType
    <3> QED
      BY <3>1, <3>2
  <2>8. PICK n : n = [m EXCEPT !.nextState = s]
    OBVIOUS
  <2>9. n \in MachineState /\ n.currentState = m.currentState /\ n.nextState = s /\ n.skip = m.skip
    BY <2>7, <2>8 DEF MachineState
  <2>10. fsm' = [fsm EXCEPT ![p] = n]
    BY <2>1, <2>2, <2>5, <2>6, <2>8 DEF Machine
  <2>11. /\ (fsm \in [1..Len(phases) -> MachineState])'
         /\ (\A q \in 1..Len(phases) :
              phases[q].states # <<>> => /\ fsm[q].currentState \in 1..Len(phases[q].states)
                                         /\ fsm[q].nextState \in 1..Len(phases[q].states))'
         /\ fsm'[p] = n
    BY <1>1, <2>3, <2>4, <2>7, <2>9, <2>10, MachineMoves
  <2>12. MachineInv'
    BY <1>1, <1>2, <2>11 DEF MachineInv, Config, InPhase
  <2>13. SkipInv'
    <3>1. Machine'.skip = Machine.skip /\ Config' = Config /\ InPhase /\ InPhase'
      BY <1>1, <2>1, <2>2, <2>9, <2>11 DEF Machine, Config, InPhase
    <3> QED
      BY <1>1, <3>1 DEF SkipInv
  <2>14. Config = c /\ Machine = m /\ fsm'[phase].nextState = s
    BY <2>1, <2>2, <2>3, <2>9, <2>11 DEF Config
  <2> QED
    BY <2>5, <2>6, <2>12, <2>13, <2>14
<1> QED
  BY <1>3, <1>4

\* A new phase: its machine stays, or begins in an initial state.
LEMMA NewPhaseInv ==
  ASSUME MachineInv, SkipInv, onNewPhase
  PROVE  MachineInv' /\ SkipInv'
<1>1. /\ crudPc = "phase" /\ phase < Len(phases) /\ phase' = phase + 1
      /\ visits' = 0 /\ ran' = 0
      /\ UNCHANGED phases
  BY DEF onNewPhase
<1>2. PICK p \in 1..Len(phases) : p = phase'
  BY <1>1, ConfigType DEF MachineInv
<1>3. PICK c \in PhaseConfig : c = phases[p]
  BY <1>2, ConfigType
<1>4. CASE c.nop
  <2>1. crudPc' = "phase" /\ UNCHANGED fsm
    BY <1>1, <1>2, <1>3, <1>4 DEF onNewPhase
  <2>2. phase' \in 0..Len(phases)
    BY <1>2, ConfigType
  <2> QED
    BY <1>1, <2>1, <2>2, CrudBoundsAssumption DEF MachineInv, SkipInv, Config, Machine, InPhase
<1>5. CASE ~c.nop
  <2>1. crudPc' = "iterate"
    BY <1>1, <1>2, <1>3, <1>5 DEF onNewPhase
  <2>2. PICK m \in MachineState : m = fsm[p]
    BY DEF MachineInv
  <2>3. PICK k \in BOOLEAN : k = (c.states # <<>> /\ Given(c.skipFirstOperations, FALSE))
    OBVIOUS
  <2>4. PICK s \in (IF c.states = <<>> \/ Given(c.continue, FALSE) THEN {m.currentState}
                    ELSE {i \in 1..Len(c.states) : c.initialStates[i] > 0}) :
          fsm' = [fsm EXCEPT ![p] = [m EXCEPT !.nextState = s, !.skip = k]]
    BY <1>1, <1>2, <1>3, <1>5, <2>2, <2>3 DEF onNewPhase
  <2>5. /\ c.states # <<>> => m.currentState \in 1..Len(c.states)
        /\ Len(c.states) \in Nat
    BY <1>2, <1>3, <2>2, ConfigType DEF MachineInv
  <2>6. s \in Nat /\ (c.states # <<>> => s \in 1..Len(c.states))
    <3>1. m.currentState \in Nat
      BY DEF MachineState
    <3>2. CASE c.states = <<>> \/ Given(c.continue, FALSE)
      BY <2>4, <2>5, <3>1, <3>2
    <3>3. CASE ~(c.states = <<>> \/ Given(c.continue, FALSE))
      <4>1. s \in 1..Len(c.states)
        BY <2>4, <3>3
      <4> QED
        BY <2>5, <4>1
    <3> QED
      BY <3>2, <3>3
  <2>7. PICK n : n = [m EXCEPT !.nextState = s, !.skip = k]
    OBVIOUS
  <2>8. n \in MachineState /\ n.currentState = m.currentState /\ n.nextState = s /\ n.skip = k
    BY <2>6, <2>7 DEF MachineState
  <2>9. fsm' = [fsm EXCEPT ![p] = n]
    BY <2>4, <2>7
  <2>10. /\ (fsm \in [1..Len(phases) -> MachineState])'
         /\ (\A q \in 1..Len(phases) :
              phases[q].states # <<>> => /\ fsm[q].currentState \in 1..Len(phases[q].states)
                                         /\ fsm[q].nextState \in 1..Len(phases[q].states))'
         /\ fsm'[p] = n
    BY <1>1, <1>3, <2>5, <2>6, <2>8, <2>9, MachineMoves
  <2>11. ~InvalidPhase(c, p - 1)
    BY <1>1, <1>3 DEF MachineInv
  <2>12. Config' = c /\ Machine'.skip = k
    BY <1>1, <1>2, <1>3, <2>8, <2>10 DEF Config, Machine
  <2>13. MachineInv'
    <3>1. phase' \in 0..Len(phases) /\ phase' # 0
      BY <1>2, ConfigType
    <3> QED
      BY <1>1, <1>5, <2>1, <2>10, <2>12, <3>1 DEF MachineInv, InPhase
  <2>14. k <=> Given(c.skipFirstOperations, FALSE)
    <3>1. CASE c.states # <<>>
      BY <2>3, <3>1
    <3>2. CASE c.states = <<>>
      <4>1. c.skipFirstOperations = "unset"
        BY <1>5, <2>11, <3>2 DEF InvalidPhase
      <4> QED
        BY <2>3, <3>2, <4>1 DEF Given
    <3> QED
      BY <3>1, <3>2
  <2>15. SkipInv'
    <3>1. Given(Config.skipFirstOperations, FALSE)' <=> k
      BY <2>12, <2>14 DEF Given
    <3> QED
      <4>1. (visits \in 0..MaxVisits /\ ran \in 0..visits)' /\ visits' = 0
        BY <1>1, CrudBoundsAssumption
      <4>2. Machine'.skip <=> Given(Config.skipFirstOperations, FALSE)'
        BY <2>12, <3>1
      <4> QED
        BY <4>1, <4>2, Zenon DEF SkipInv
  <2> QED
    BY <2>13, <2>15
<1> QED
  BY <1>4, <1>5

(***************************************************************************)
(* The operations to run.                                                  *)
(***************************************************************************)

LEMMA SeqOfPart ==
  ASSUME NEW S, NEW s \in Seq(S), NEW T, \A i \in 1..Len(s) : s[i] \in T
  PROVE  s \in Seq(T)
<1>1. Len(s) \in Nat /\ s \in [1..Len(s) -> S]
  BY LenProperties
<1>2. s \in [1..Len(s) -> T]
  BY <1>1
<1> QED
  BY <1>1, <1>2, SeqDef

LEMMA ValidSequence ==
  ASSUME NEW s \in Seq(Operation), ~InvalidOperations(s)
  PROVE  s \in Seq(ValidOperations)
<1>1. ASSUME NEW i \in 1..Len(s) PROVE s[i] \in ValidOperations
  BY DEF InvalidOperations, ValidOperations
<1> QED
  BY <1>1, SeqOfPart

LEMMA ValidInner ==
  ASSUME NEW op \in ValidOperations, op.name = "withTransaction"
  PROVE  op.inner \in Seq(ValidTxnOperations)
<1>1. op.inner \in Seq(TxnOperation)
  BY DEF ValidOperations, Operation, OperationOf
<1>2. ASSUME NEW i \in 1..Len(op.inner) PROVE op.inner[i] \in ValidTxnOperations
  BY <1>1 DEF ValidOperations, ValidTxnOperations
<1> QED
  BY <1>1, <1>2, SeqOfPart

LEMMA StartQueue ==
  ASSUME CrudInv, StartIteration
  PROVE  QueueInv'
<1> USE DEF CrudInv
<1>1. crudPc = "iterate" /\ crudPc' = "ops" /\ UNCHANGED <<txnOp, txnOps, retries>>
  BY DEF StartIteration, txnVars
<1>2. phase \in 1..Len(phases) /\ ~Config.nop /\ ~InvalidPhase(Config, phase - 1)
  BY <1>1, ConfigType DEF MachineInv, InPhase, Config
<1>3. Config.operations \in Seq(Operation)
  BY <1>2, ConfigType DEF Config, PhaseConfig
<1>4. ops' \in Seq(ValidOperations)
  <2>1. CASE Machine.skip
    BY <2>1, EmptySeq DEF StartIteration
  <2>2. CASE ~Machine.skip /\ Config.states = <<>>
    <3>1. ops' = Config.operations
      BY <2>2 DEF StartIteration
    <3>2. ~InvalidOperations(Config.operations)
      BY <1>2, <2>2 DEF InvalidPhase
    <3> QED
      BY <1>3, <3>1, <3>2, ValidSequence
  <2>3. CASE ~Machine.skip /\ Config.states # <<>>
    <3>1. ops' = Config.states[Machine.nextState].operations
      BY <2>3 DEF StartIteration
    <3>2. Machine.nextState \in 1..Len(Config.states)
      BY <1>2, <2>3 DEF MachineInv, Config, Machine
    <3>3. ~InvalidOperations(Config.states[Machine.nextState].operations)
      BY <1>2, <2>3, <3>2 DEF InvalidPhase, InvalidStates
    <3>4. Config.states[Machine.nextState].operations \in Seq(Operation)
      BY <1>2, <3>2, ConfigType DEF Config
    <3> QED
      BY <3>1, <3>3, <3>4, ValidSequence
  <2> QED
    BY <2>1, <2>2, <2>3
<1> QED
  BY <1>1, <1>4 DEF QueueInv

\* An operation that is not a withTransaction does not enter one.
LEMMA OutOfOps ==
  ASSUME crudPc = "ops", RunOperation \/ RunTransactionOperation \/ WithTransactionFails
  PROVE  crudPc' # "txn"
<1>1. ASSUME NEW mode, Handled(mode) PROVE crudPc' # "txn"
  BY <1>1 DEF Handled
<1>2. ASSUME NEW op, NEW own, Escapes(op, own) PROVE crudPc' # "txn"
  BY <1>2 DEF Escapes
<1>3. Completed => crudPc' # "txn"
  BY DEF Completed
<1> QED
  BY <1>1, <1>2, <1>3, Zenon DEF RunOperation, RunTransactionOperation, WithTransactionFails

LEMMA QueueStep ==
  ASSUME CrudInv, CrudNext
  PROVE  QueueInv'
<1> USE DEF CrudInv
<1>1. CASE StartIteration
  BY <1>1, StartQueue
<1>2. CASE \/ Construct \/ onNewPhase \/ LastPhase \/ EndIteration \/ EndPhase \/ CrudOver
  <2>1. UNCHANGED <<ops, txnOp, txnOps, retries>> /\ (crudPc' = "txn" => crudPc = "txn")
    BY <1>2 DEF Construct, onNewPhase, LastPhase, EndIteration, EndPhase, CrudOver, txnVars, crudVars
  <2> QED
    BY <2>1 DEF QueueInv
<1>3. CASE RunOperation \/ RunTransactionOperation \/ WithTransactionFails
  <2>1. /\ crudPc = "ops" /\ crudPc' # "txn" /\ ops # <<>> /\ ops' = Tail(ops)
        /\ UNCHANGED <<txnOp, txnOps, retries>>
    <3>1. crudPc = "ops" /\ ops # <<>> /\ ops' = Tail(ops) /\ UNCHANGED <<txnOp, txnOps, retries>>
      BY <1>3, Zenon DEF RunOperation, RunTransactionOperation, WithTransactionFails, txnVars
    <3> QED
      BY <1>3, <3>1, OutOfOps
  <2>2. Tail(ops) \in Seq(ValidOperations)
    BY <2>1, HeadTailProperties DEF QueueInv
  <2> QED
    BY <2>1, <2>2 DEF QueueInv
<1>4. CASE WithTransaction
  <2>1. /\ ops # <<>> /\ Head(ops).name = "withTransaction" /\ ops' = Tail(ops)
        /\ txnOp' = Head(ops) /\ txnOps' = Head(ops).inner /\ retries' = 0
    BY <1>4 DEF WithTransaction
  <2>2. Head(ops) \in ValidOperations /\ Tail(ops) \in Seq(ValidOperations)
    BY <2>1, HeadTailProperties DEF QueueInv
  <2> QED
    BY <2>1, <2>2, ValidInner, CrudBoundsAssumption DEF QueueInv
<1>5. CASE RunTxnOperation
  <2>1. /\ crudPc = "txn" /\ txnOps # <<>> /\ txnOps' = Tail(txnOps)
        /\ UNCHANGED <<ops, txnOp, retries>>
    BY <1>5 DEF RunTxnOperation
  <2>2. Tail(txnOps) \in Seq(ValidTxnOperations)
    BY <2>1, HeadTailProperties DEF QueueInv
  <2> QED
    BY <2>1, <2>2 DEF QueueInv
<1>6. CASE Retry
  <2>1. /\ crudPc = "txn" /\ retries < MaxRetries /\ retries' = retries + 1 /\ txnOps' = txnOp.inner
        /\ UNCHANGED <<crudPc, ops, txnOp>>
    BY <1>6 DEF Retry
  <2>2. retries' \in 0..MaxRetries
    BY <2>1, CrudBoundsAssumption DEF QueueInv
  <2> QED
    BY <2>1, <2>2, ValidInner DEF QueueInv
<1>7. CASE Commit \/ CommitFails
  <2>1. crudPc' # "txn" /\ UNCHANGED <<ops, txnOps, retries>>
    BY <1>7 DEF Commit, CommitFails, EndTransaction, txnVars
  <2> QED
    BY <2>1 DEF QueueInv
<1> QED
  BY <1>1, <1>2, <1>3, <1>4, <1>5, <1>6, <1>7 DEF CrudNext, CrudStep

(***************************************************************************)
(* The collection and the transaction.                                     *)
(***************************************************************************)

LEMMA DocumentsType ==
  ASSUME DataInv, NEW onSession
  PROVE  Documents(onSession) \in Nat
BY CrudBoundsAssumption DEF DataInv, Documents

\* A request leaves the collection and the transaction's view of it in bounds.
LEMMA HalfwayData ==
  ASSUME DataInv, NEW op, Servable(op), NEW onSession \in BOOLEAN, FailsHalfway(op, onSession)
  PROVE  (coll \in 0..MaxDocs /\ snapshot \in 0..MaxDocs)'
<1>s. Steps(op) \in Nat /\ MaxDocs \in Nat
  BY CrudBoundsAssumption DEF Servable
<1>1. CASE onSession /\ session # "none"
  BY <1>1 DEF FailsHalfway, DataInv
<1>2. CASE ~(onSession /\ session # "none")
  <2>1. PICK n \in 0..(Steps(op) - 1) :
          AfterSteps(op, n, coll) <= MaxDocs /\ coll' = AfterSteps(op, n, coll)
    BY <1>2 DEF FailsHalfway
  <2>2. n \in 0..Steps(op) /\ coll \in Nat
    BY <1>s DEF DataInv
  <2>3. AfterSteps(op, n, coll) \in Nat
    BY <2>2, AfterStepsType
  <2> QED
    BY <1>s, <2>1, <2>3 DEF FailsHalfway, DataInv
<1> QED
  BY <1>1, <1>2

LEMMA RequestData ==
  ASSUME DataInv, NEW op, Servable(op), NEW onSession \in BOOLEAN,
         Succeeds(op, onSession) \/ Fails(op, onSession)
  PROVE  DataInv'
<1>s. Steps(op) \in Nat /\ MaxDocs \in Nat
  BY CrudBoundsAssumption DEF Servable
<1>1. ASSUME NEW b, NEW c \in Nat, c <= MaxDocs, Write(b, c)
      PROVE  DataInv' /\ session' = session
  BY <1>1, <1>s DEF Write, DataInv
<1>2. CASE Succeeds(op, onSession)
  <2>1. Steps(op) \in 0..Steps(op)
    BY <1>s
  <2>2. AfterSteps(op, Steps(op), Documents(onSession)) \in Nat
    BY <2>1, DocumentsType, AfterStepsType
  <2> QED
    BY <1>1, <1>2, <2>2 DEF Succeeds
<1>3. CASE Fails(op, onSession)
  BY <1>3, HalfwayData DEF Fails, DataInv
<1> QED
  BY <1>2, <1>3

LEMMA OnSessionType ==
  ASSUME NEW op
  PROVE  OnSession(op) \in BOOLEAN /\ OnSessionInTxn(op) \in BOOLEAN
<1>1. CASE op.onSession = "unset"
  BY <1>1 DEF OnSession, OnSessionInTxn, Given
<1>2. CASE op.onSession # "unset"
  BY <1>2 DEF OnSession, OnSessionInTxn, Given
<1> QED
  BY <1>1, <1>2

LEMMA DataStep ==
  ASSUME CrudInv, CrudNext
  PROVE  DataInv'
<1> USE DEF CrudInv
<1>1. CASE \/ Construct \/ LastPhase \/ StartIteration \/ EndIteration \/ EndPhase \/ CrudOver
  <2>1. UNCHANGED <<session, coll, snapshot>>
    BY <1>1 DEF Construct, LastPhase, StartIteration, EndIteration, EndPhase, CrudOver, dataVars, crudVars
  <2> QED
    BY <2>1 DEF DataInv
<1>2. CASE RunOperation
  <2>1. PICK op : op = Head(ops)
    OBVIOUS
  <2>2. op \in ValidOperations /\ Plain(op)
    BY <1>2, <2>1, HeadTailProperties DEF QueueInv, RunOperation
  <2>3. Succeeds(op, OnSession(op)) \/ Fails(op, OnSession(op)) \/ UNCHANGED <<session, coll, snapshot>>
    BY <1>2, <2>1, Zenon DEF RunOperation, dataVars
  <2>4. CASE Succeeds(op, OnSession(op)) \/ Fails(op, OnSession(op))
    BY <2>2, <2>4, PlainServable, OnSessionType, RequestData
  <2>5. CASE UNCHANGED <<session, coll, snapshot>>
    BY <2>5 DEF DataInv
  <2> QED
    BY <2>3, <2>4, <2>5
<1>3. CASE RunTransactionOperation
  <2>1. \/ /\ session = "none" /\ session' = "active" /\ snapshot' = coll /\ UNCHANGED coll
        \/ /\ session = "active" /\ session' = "none" /\ coll' = snapshot /\ UNCHANGED snapshot
        \/ /\ session' = session \/ session' = "none"
           /\ UNCHANGED <<coll, snapshot>>
    BY <1>3, Zenon DEF RunTransactionOperation, dataVars
  <2> QED
    BY <2>1 DEF DataInv
<1>4. CASE RunTxnOperation
  <2>1. PICK op : op = Head(txnOps)
    OBVIOUS
  <2>2. op \in ValidTxnOperations
    BY <1>4, <2>1, HeadTailProperties DEF QueueInv, RunTxnOperation
  <2>3. \/ Succeeds(op, OnSessionInTxn(op)) \/ Fails(op, OnSessionInTxn(op))
        \/ session' = "none" /\ UNCHANGED <<coll, snapshot>>
        \/ session' = "none" /\ FailsHalfway(op, OnSessionInTxn(op))
    BY <1>4, <2>1, Zenon DEF RunTxnOperation
  <2>6. CASE session' = "none" /\ FailsHalfway(op, OnSessionInTxn(op))
    BY <2>2, <2>6, TxnServable, OnSessionType, HalfwayData DEF DataInv
  <2>4. CASE Succeeds(op, OnSessionInTxn(op)) \/ Fails(op, OnSessionInTxn(op))
    BY <2>2, <2>4, TxnServable, OnSessionType, RequestData
  <2>5. CASE session' = "none" /\ UNCHANGED <<coll, snapshot>>
    BY <2>5 DEF DataInv
  <2> QED
    BY <2>3, <2>4, <2>5, <2>6
<1>5. CASE onNewPhase \/ WithTransaction \/ WithTransactionFails \/ Commit \/ Retry \/ CommitFails
  BY <1>5 DEF onNewPhase, WithTransaction, WithTransactionFails, Commit, Retry, CommitFails, EndTransaction,
     DataInv, dataVars
<1> QED
  BY <1>1, <1>2, <1>3, <1>4, <1>5 DEF CrudNext, CrudStep

(***************************************************************************)
(* The metrics.                                                            *)
(***************************************************************************)

\* decodeThrowMode has three outcomes.
LEMMA ThrowModes ==
  ASSUME NEW op, NEW config
  PROVE  decodeThrowMode(op, config) \in {"swallow", "swallowAndRecord", "rethrow"}
BY DEF decodeThrowMode

\* The catch clause reports the operation once, as a success if it swallows
\* the exception silently, and as a failure otherwise.
LEMMA CaughtEffect ==
  ASSUME NEW mode \in {"swallow", "swallowAndRecord", "rethrow"}, Caught(mode),
         succeeded \in Nat, failed \in Nat, errors \in Nat
  PROVE  \/ /\ mode = "swallow"
            /\ succeeded' = succeeded + 1 /\ failed' = failed /\ errors' = errors
         \/ /\ mode = "swallowAndRecord"
            /\ succeeded' = succeeded /\ failed' = failed + 1 /\ errors' = errors + 1
         \/ /\ mode = "rethrow"
            /\ succeeded' = succeeded /\ failed' = failed + 1 /\ errors' = errors
BY DEF Caught, Success

\* How a step may count: what it starts, and how what it ends is reported.
Counted(s, ok, bad, recorded, passed) ==
  /\ started' = started + s /\ succeeded' = succeeded + ok /\ failed' = failed + bad
  /\ errors' = errors + recorded /\ lost' = lost + passed

LEMMA CountedInv ==
  ASSUME AccountInv,
         NEW s \in Nat, NEW ok \in Nat, NEW bad \in Nat, NEW recorded \in Nat, NEW passed \in Nat,
         Counted(s, ok, bad, recorded, passed),
         NEW before \in Nat, before = Running, NEW after \in Nat, after = Running',
         s + before = ok + bad + passed + after,
         crudPc \notin {"failed", "threw"},
         NEW g \in Nat, g = (IF crudPc' = "failed" THEN 1 ELSE 0),
         bad = recorded + g,
         passed # 0 <=> crudPc' \in {"failed", "threw"}
  PROVE  AccountInv'
<1>1. /\ started \in Nat /\ succeeded \in Nat /\ failed \in Nat /\ errors \in Nat /\ lost \in Nat
      /\ started = succeeded + failed + lost + before
      /\ failed = errors /\ lost = 0
  BY DEF AccountInv, OperationsAccounted
<1>2. /\ started' \in Nat /\ succeeded' \in Nat /\ failed' \in Nat /\ errors' \in Nat /\ lost' \in Nat
  BY <1>1 DEF Counted
<1>3. started' = succeeded' + failed' + lost' + after
  <2>1. PICK a \in Nat, b \in Nat, c \in Nat, d \in Nat :
          started = a /\ succeeded = b /\ failed = c /\ lost = d
    BY <1>1
  <2>2. a = b + c + d + before /\ s + before = ok + bad + passed + after
    BY <1>1, <2>1
  <2>3. a + s = (b + ok) + (c + bad) + (d + passed) + after
    <3>1. PICK x \in Nat : x = s + before
      OBVIOUS
    <3>2. a + s = b + c + d + x
      BY <2>2, <3>1
    <3>3. x = ok + bad + passed + after
      BY <3>1
    <3>4. b + c + d + x = (b + ok) + (c + bad) + (d + passed) + after
      BY <3>3
    <3> QED
      BY <3>2, <3>4
  <2>4. /\ started' = a + s /\ succeeded' = b + ok /\ failed' = c + bad /\ lost' = d + passed
    BY <2>1 DEF Counted
  <2> QED
    BY <2>3, <2>4
<1>4. failed' = errors' + g
  BY <1>1 DEF Counted
<1>5. lost' # 0 <=> crudPc' \in {"failed", "threw"}
  BY <1>1 DEF Counted
<1> QED
  BY <1>2, <1>3, <1>4, <1>5 DEF AccountInv, OperationsAccounted

\* An operation that runs and is reported, or that ends the actor.
LEMMA ReportedInv ==
  ASSUME AccountInv, crudPc \in {"ops", "txn"},
         NEW mode \in {"swallow", "swallowAndRecord", "rethrow"}, NEW op, NEW own \in {0, 1},
         Completed \/ Handled(mode) \/ Escapes(op, own)
  PROVE  AccountInv'
<1>n. started \in Nat /\ succeeded \in Nat /\ failed \in Nat /\ errors \in Nat /\ lost \in Nat
  BY DEF AccountInv
<1>r. PICK r \in {1, 2} : r = Running
  BY DEF Running
<1>1. \/ Counted(1, 1, 0, 0, 0) /\ crudPc' = crudPc
      \/ Counted(1, 0, 1, 1, 0) /\ crudPc' = crudPc
      \/ Counted(1, 0, 1, 0, r) /\ crudPc' = "failed"
      \/ Counted(own, 0, 0, 0, r + own) /\ crudPc' = "threw"
  <2>1. CASE Completed
    BY <1>n, <2>1 DEF Completed, Success, Counted
  <2>2. CASE Handled(mode)
    <3>1. /\ Caught(mode) /\ started' = started + 1
          /\ crudPc' = IF mode = "rethrow" THEN "failed" ELSE crudPc
          /\ lost' = IF mode = "rethrow" THEN lost + r ELSE lost
      BY <1>r, <2>2 DEF Handled
    <3> QED
      BY <1>n, <3>1, CaughtEffect DEF Counted
  <2>3. CASE Escapes(op, own)
    <3>1. /\ started' = started + own /\ lost' = lost + r + own
          /\ crudPc' = "threw" /\ UNCHANGED <<succeeded, failed, errors>>
      BY <1>r, <2>3 DEF Escapes
    <3> QED
      BY <1>n, <3>1 DEF Counted
  <2> QED
    BY <2>1, <2>2, <2>3
<1>2. /\ crudPc' = crudPc => Running' = r
      /\ crudPc' \in {"failed", "threw"} => Running' = 0
  BY <1>r DEF Running
<1>3. CASE Counted(1, 1, 0, 0, 0) /\ crudPc' = crudPc
  BY <1>r, <1>2, <1>3, CountedInv
<1>4. CASE Counted(1, 0, 1, 1, 0) /\ crudPc' = crudPc
  BY <1>r, <1>2, <1>4, CountedInv
<1>5. CASE Counted(1, 0, 1, 0, r) /\ crudPc' = "failed"
  BY <1>r, <1>2, <1>5, CountedInv
<1>6. CASE Counted(own, 0, 0, 0, r + own) /\ crudPc' = "threw"
  BY <1>r, <1>2, <1>6, CountedInv
<1> QED
  BY <1>1, <1>3, <1>4, <1>5, <1>6

LEMMA AccountStep ==
  ASSUME CrudInv, CrudNext
  PROVE  AccountInv'
<1>1. CASE \/ Construct \/ onNewPhase \/ LastPhase \/ EndPhase \/ Retry \/ CrudOver
  <2>1. UNCHANGED <<started, succeeded, failed, errors, lost>>
    BY <1>1 DEF Construct, onNewPhase, LastPhase, EndPhase, Retry, CrudOver, crudMetrics, crudVars
  <2>2. /\ Running' = Running /\ (crudPc' = "failed" <=> crudPc = "failed")
        /\ crudPc' = "threw" <=> crudPc = "threw"
    BY <1>1 DEF Construct, onNewPhase, LastPhase, EndPhase, Retry, CrudOver, crudVars, Running
  <2> QED
    BY <2>1, <2>2 DEF CrudInv, AccountInv, OperationsAccounted
<1>2. CASE StartIteration
  <2>1. Counted(1, 0, 0, 0, 0) /\ crudPc = "iterate" /\ crudPc' = "ops"
    BY <1>2 DEF StartIteration, Counted, CrudInv, AccountInv
  <2>2. Running = 0 /\ Running' = 1
    BY <2>1 DEF Running
  <2> QED
    BY <2>1, <2>2, CountedInv DEF CrudInv
<1>3. CASE EndIteration
  <2>1. Counted(0, 1, 0, 0, 0) /\ crudPc = "ops" /\ crudPc' = "iterate"
    BY <1>3 DEF EndIteration, Counted, CrudInv, AccountInv
  <2>2. Running = 1 /\ Running' = 0
    BY <2>1 DEF Running
  <2> QED
    BY <2>1, <2>2, CountedInv DEF CrudInv
<1>4. CASE RunOperation \/ RunTransactionOperation \/ WithTransactionFails
  <2>1. PICK mode \in {"swallow", "swallowAndRecord", "rethrow"} : mode = decodeThrowMode(Head(ops), Config)
    BY ThrowModes
  <2>2. /\ crudPc = "ops"
        /\ \/ Completed \/ Handled(mode)
           \/ Escapes(Head(ops), 0) \/ Escapes(Head(ops), 1)
    BY <1>4, <2>1, Zenon DEF RunOperation, RunTransactionOperation, WithTransactionFails
  <2> QED
    BY <2>2, ReportedInv DEF CrudInv
<1>5. CASE WithTransaction
  <2>1. Counted(1, 0, 0, 0, 0) /\ crudPc = "ops" /\ crudPc' = "txn"
    BY <1>5 DEF WithTransaction, Counted, CrudInv, AccountInv
  <2>2. Running = 1 /\ Running' = 2
    BY <2>1 DEF Running
  <2> QED
    BY <2>1, <2>2, CountedInv DEF CrudInv
<1>6. CASE RunTxnOperation
  <2>1. PICK mode \in {"swallow", "swallowAndRecord", "rethrow"} : mode = decodeThrowMode(Head(txnOps), Config)
    BY ThrowModes
  <2>2. /\ crudPc = "txn"
        /\ \/ Completed \/ Handled(mode)
           \/ Escapes(Head(txnOps), 0) \/ Escapes(Head(txnOps), 1)
    BY <1>6, <2>1, Zenon DEF RunTxnOperation
  <2> QED
    BY <2>2, ReportedInv DEF CrudInv
<1>7. CASE Commit
  <2>1. Counted(0, 1, 0, 0, 0) /\ crudPc = "txn" /\ crudPc' = "ops"
    BY <1>7 DEF Commit, EndTransaction, Success, Counted, CrudInv, AccountInv
  <2>2. Running = 2 /\ Running' = 1
    BY <2>1 DEF Running
  <2> QED
    BY <2>1, <2>2, CountedInv DEF CrudInv
<1>8. CASE CommitFails
  <2>1. PICK mode \in {"swallow", "swallowAndRecord", "rethrow"} : mode = decodeThrowMode(txnOp, Config)
    BY ThrowModes
  <2>2. /\ crudPc = "txn" /\ started' = started /\ Caught(mode)
        /\ IF mode = "rethrow" THEN crudPc' = "failed" /\ lost' = lost + 1
           ELSE crudPc' = "ops" /\ lost' = lost
    BY <1>8, <2>1 DEF CommitFails, EndTransaction
  <2>n. started \in Nat /\ succeeded \in Nat /\ failed \in Nat /\ errors \in Nat /\ lost \in Nat
    BY DEF CrudInv, AccountInv
  <2>3. \/ Counted(0, 1, 0, 0, 0) /\ crudPc' = "ops"
        \/ Counted(0, 0, 1, 1, 0) /\ crudPc' = "ops"
        \/ Counted(0, 0, 1, 0, 1) /\ crudPc' = "failed"
    BY <2>2, <2>n, CaughtEffect DEF Counted
  <2>4. Running = 2 /\ (crudPc' = "ops" => Running' = 1) /\ (crudPc' = "failed" => Running' = 0)
    BY <2>2 DEF Running
  <2>5. CASE Counted(0, 1, 0, 0, 0) /\ crudPc' = "ops"
    BY <2>2, <2>4, <2>5, CountedInv DEF CrudInv
  <2>6. CASE Counted(0, 0, 1, 1, 0) /\ crudPc' = "ops"
    BY <2>2, <2>4, <2>6, CountedInv DEF CrudInv
  <2>7. CASE Counted(0, 0, 1, 0, 1) /\ crudPc' = "failed"
    BY <2>2, <2>4, <2>7, CountedInv DEF CrudInv
  <2> QED
    BY <2>3, <2>5, <2>6, <2>7
<1> QED
  BY <1>1, <1>2, <1>3, <1>4, <1>5, <1>6, <1>7, <1>8 DEF CrudNext, CrudStep

(***************************************************************************)
(* The states of a phase's machine.                                        *)
(***************************************************************************)

LEMMA StartReachable ==
  ASSUME NEW c, NEW s \in StartStates(c), s \in 1..Len(c.states)
  PROVE  s \in Reachable(c)
BY DEF Reachable

LEMMA NextReachable ==
  ASSUME NEW c, NEW s \in Reachable(c), NEW i \in 1..Len(c.states[s].transitions),
         c.states[s].transitions[i].weight > 0, c.states[s].transitions[i].to \in 1..Len(c.states)
  PROVE  c.states[s].transitions[i].to \in Reachable(c)
<1>1. PICK t : t = c.states[s].transitions[i].to
  OBVIOUS
<1>2. ASSUME NEW S \in SUBSET (1..Len(c.states)), StartStates(c) \subseteq S, ClosedUnderTransitions(c, S)
      PROVE  t \in S
  <2>1. s \in S
    BY <1>2 DEF Reachable
  <2> QED
    BY <1>1, <1>2, <2>1 DEF ClosedUnderTransitions
<1> QED
  BY <1>1, <1>2 DEF Reachable

LEMMA EndsOutside ==
  ASSUME LastPhase \/ EndPhase
  PROVE  crudPc' \notin {"ops", "txn"}
BY DEF LastPhase, EndPhase

LEMMA ReachStep ==
  ASSUME CrudInv, CrudNext, MachineInv'
  PROVE  ReachInv'
<1> USE DEF CrudInv
<1>n. /\ phase \in Nat /\ Len(phases) \in Nat /\ visits \in Nat
      /\ fsm \in [1..Len(phases) -> MachineState]
  BY ConfigType, CrudBoundsAssumption DEF MachineInv, SkipInv
<1>1. CASE CrudOver
  BY <1>1 DEF CrudOver, crudVars, fsmVars, ReachInv, OnlyReachableStates, Config, Machine
<1>2. CASE MachineRests
  <2>1. /\ UNCHANGED <<phases, phase, fsm, visits>>
        /\ crudPc \in {"phase", "iterate", "ops", "txn"}
        /\ InPhase' => InPhase
    BY <1>2, RestsEffect
  <2>2. crudPc' \in {"ops", "txn"} => crudPc \in {"ops", "txn"}
    <3>1. CASE LastPhase \/ EndPhase
      BY <3>1, EndsOutside
    <3>2. CASE ~(LastPhase \/ EndPhase)
      BY <1>2, <3>2 DEF MachineRests, RunOperation, RunTransactionOperation, WithTransaction,
         WithTransactionFails, RunTxnOperation, Commit, Retry, CommitFails
    <3> QED
      BY <3>1, <3>2
  <2>3. OnlyReachableStates'
    BY <2>1 DEF ReachInv, OnlyReachableStates, InPhase, Config, Machine
  <2> QED
    BY <2>1, <2>2, <2>3 DEF ReachInv
<1>3. CASE Construct
  <2>1. crudPc' \in {"invalid", "phase"} /\ UNCHANGED <<phases, phase, fsm>>
    BY <1>3 DEF Construct, fsmVars
  <2> QED
    BY <2>1 DEF ReachInv, OnlyReachableStates
<1>4. CASE StartIteration
  <2>1. /\ crudPc = "iterate" /\ crudPc' = "ops" /\ visits' = visits + 1 /\ UNCHANGED <<phases, phase>>
        /\ fsm' = [fsm EXCEPT ![phase] = [@ EXCEPT !.currentState = Machine.nextState, !.skip = FALSE]]
    BY <1>4 DEF StartIteration
  <2>2. phase \in 1..Len(phases)
    BY <1>n, <2>1 DEF MachineInv, InPhase
  <2>3. /\ Machine'.currentState = Machine.nextState /\ Machine'.nextState = Machine.nextState
        /\ \A p \in 1..Len(phases) : p # phase => fsm'[p] = fsm[p]
    BY <1>n, <2>1, <2>2 DEF Machine, MachineState
  <2>4. Config' = Config
    BY <2>1 DEF Config
  <2>5. OnlyReachableStates'
    BY <2>1, <2>3, <2>4 DEF ReachInv, OnlyReachableStates, Reachable, StartStates, ClosedUnderTransitions
  <2> QED
    BY <1>n, <2>1, <2>3, <2>5 DEF ReachInv
<1>5. CASE EndIteration
  <2>1. crudPc = "ops" /\ crudPc' = "iterate" /\ UNCHANGED <<phases, phase, visits>>
    BY <1>5 DEF EndIteration
  <2>2. phase \in 1..Len(phases) /\ visits # 0
    BY <1>n, <2>1 DEF MachineInv, InPhase, ReachInv
  <2>3. Config' = Config
    BY <2>1 DEF Config
  <2>4. CASE Config.states = <<>>
    <3>1. UNCHANGED fsm
      BY <1>5, <2>4 DEF EndIteration
    <3> QED
      BY <2>1, <2>3, <2>4, <3>1 DEF ReachInv, OnlyReachableStates
  <2>5. CASE Config.states # <<>>
    <3>1. PICK i \in 1..Len(Config.states[Machine.currentState].transitions) :
            /\ Config.states[Machine.currentState].transitions[i].weight > 0
            /\ fsm' = [fsm EXCEPT ![phase].nextState = Config.states[Machine.currentState].transitions[i].to]
      BY <1>5, <2>5 DEF EndIteration, pickNext
    <3>2. /\ Machine'.currentState = Machine.currentState
          /\ Machine'.nextState = Config.states[Machine.currentState].transitions[i].to
          /\ \A p \in 1..Len(phases) : p # phase => fsm'[p] = fsm[p]
      BY <1>n, <2>1, <2>2, <3>1 DEF Machine, MachineState
    <3>3. Machine.currentState \in Reachable(Config)
      BY <2>1, <2>2, <2>5, <1>n DEF ReachInv, OnlyReachableStates
    <3>4. Machine'.nextState \in 1..Len(Config.states)
      BY <2>1, <2>2, <2>3, <2>5 DEF MachineInv, Config, Machine
    <3>5. Machine'.nextState \in Reachable(Config)
      BY <3>1, <3>2, <3>3, <3>4, NextReachable
    <3>6. Reachable(Config)' = Reachable(Config)
      BY <2>3 DEF Reachable, StartStates, ClosedUnderTransitions
    <3>7. OnlyReachableStates'
      BY <3>2, <3>3, <3>5, <3>6 DEF OnlyReachableStates
    <3> QED
      BY <1>n, <2>1, <3>2, <3>7 DEF ReachInv
  <2> QED
    BY <2>4, <2>5
<1>6. CASE onNewPhase
  <2>1. /\ crudPc = "phase" /\ phase < Len(phases) /\ phase' = phase + 1 /\ visits' = 0
        /\ UNCHANGED phases
    BY <1>6 DEF onNewPhase
  <2>2. PICK q \in 1..Len(phases) : q = phase' /\ q = phase + 1
    BY <1>n, <2>1
  <2>3. PICK c : c = phases[q]
    OBVIOUS
  <2>4. fsm[q].currentState = 1
    BY <1>n, <2>2 DEF ReachInv
  <2>5. CASE c.nop
    <3>1. crudPc' = "phase" /\ UNCHANGED fsm
      BY <1>6, <2>1, <2>2, <2>3, <2>5 DEF onNewPhase
    <3> QED
      BY <1>n, <2>1, <3>1 DEF ReachInv, OnlyReachableStates
  <2>6. CASE ~c.nop
    <3>1. PICK s \in (IF c.states = <<>> \/ Given(c.continue, FALSE) THEN {fsm[q].currentState}
                      ELSE {i \in 1..Len(c.states) : c.initialStates[i] > 0}) :
            /\ crudPc' = "iterate"
            /\ fsm' = [fsm EXCEPT ![q] = [@ EXCEPT !.nextState = s,
                         !.skip = c.states # <<>> /\ Given(c.skipFirstOperations, FALSE)]]
      BY <1>6, <2>1, <2>2, <2>3, <2>6 DEF onNewPhase
    <3>2. /\ fsm'[q].nextState = s
          /\ \A p \in 1..Len(phases) : p # q => fsm'[p] = fsm[p]
      BY <1>n, <3>1 DEF MachineState
    <3>3. Config' = c /\ Machine'.nextState = s
      BY <2>1, <2>2, <2>3, <3>2 DEF Config, Machine
    <3>4. c.states # <<>> => s \in Reachable(c)
      <4>1. c.states # <<>> => s \in StartStates(c)
        BY <2>4, <3>1 DEF StartStates
      <4>2. c.states # <<>> => s \in 1..Len(c.states)
        BY <2>1, <2>2, <2>3, <3>2 DEF MachineInv
      <4> QED
        BY <4>1, <4>2, StartReachable
    <3>5. Reachable(Config)' = Reachable(c)
      BY <3>3 DEF Reachable, StartStates, ClosedUnderTransitions
    <3>6. OnlyReachableStates'
      BY <2>1, <3>3, <3>4, <3>5 DEF OnlyReachableStates
    <3> QED
      BY <1>n, <2>1, <2>2, <3>1, <3>2, <3>6 DEF ReachInv
  <2> QED
    BY <2>5, <2>6
<1> QED
  BY <1>1, <1>2, <1>3, <1>4, <1>5, <1>6 DEF CrudNext, CrudStep, MachineRests

(***************************************************************************)
(* What is seen of a withTransaction.                                      *)
(***************************************************************************)

\* It begins, again or for the first time.
LEMMA WholeBegins ==
  ASSUME NEW op \in ValidOperations, op.name = "withTransaction",
         txnOp' = op, txnOps' = op.inner, session' = "active", snapshot' = coll'
  PROVE  WholeInv'
<1>1. op.inner \in Seq(ValidTxnOperations) /\ Len(op.inner) \in Nat
  BY ValidInner
<1>2. AfterOperations(op.inner, 0, coll') = coll'
  BY AfterOneMore
<1>3. RanFirst(0)'
  BY <1>1, <1>2 DEF RanFirst
<1>4. 0 \in 0..Len(txnOp'.inner)
  BY <1>1
<1> QED
  BY <1>3, <1>4 DEF WholeInv

\* An operation of it runs, and the transaction goes on or is aborted.
LEMMA WholeRuns ==
  ASSUME CrudInv, RunTxnOperation
  PROVE  /\ WholeInv'
         /\ AllOnSession(txnOp) => coll' = coll
<1> USE DEF CrudInv
<1>1. /\ crudPc = "txn" /\ txnOps # <<>> /\ txnOps' = Tail(txnOps) /\ txnOp' = txnOp
  BY DEF RunTxnOperation
<1>2. /\ session \in {"active", "aborted"}
      /\ txnOp \in ValidOperations /\ txnOp.name = "withTransaction"
  BY <1>1 DEF WholeInv, QueueInv, DataInv
<1>3. txnOp.inner \in Seq(ValidTxnOperations) /\ Len(txnOp.inner) \in Nat
  BY <1>2, ValidInner
<1>4. PICK k \in 0..Len(txnOp.inner) : RanFirst(k)
  BY <1>1 DEF WholeInv
<1>5. PICK op : op = Head(txnOps)
  OBVIOUS
<1>6. txnOps \in Seq(ValidTxnOperations) /\ Len(txnOps) \in Nat /\ Len(txnOps) > 0
  BY <1>1 DEF QueueInv
<1>7. op = txnOps[1] /\ op = txnOp.inner[k + 1] /\ k + 1 \in 0..Len(txnOp.inner) /\ k + 1 \in 1..Len(txnOp.inner)
  BY <1>3, <1>4, <1>5, <1>6 DEF RanFirst
<1>8. /\ Len(txnOps') = Len(txnOp.inner) - (k + 1)
      /\ \A i \in 1..Len(txnOps') : txnOps'[i] = txnOp.inner[(k + 1) + i]
  <2>1. Len(txnOps') = Len(txnOps) - 1 /\ \A i \in 1..(Len(txnOps) - 1) : txnOps'[i] = txnOps[i + 1]
    BY <1>1, <1>6, HeadTailProperties
  <2>2. Len(txnOps) = Len(txnOp.inner) - k
    BY <1>4 DEF RanFirst
  <2>3. ASSUME NEW i \in 1..Len(txnOps') PROVE txnOps'[i] = txnOp.inner[(k + 1) + i]
    <3>1. i + 1 \in 1..Len(txnOps) /\ txnOps'[i] = txnOps[i + 1]
      BY <1>6, <2>1
    <3>2. txnOps[i + 1] = txnOp.inner[k + (i + 1)]
      BY <1>4, <3>1 DEF RanFirst
    <3>3. k + (i + 1) = (k + 1) + i
      BY <1>3, <1>6, <2>1
    <3> QED
      BY <3>1, <3>2, <3>3
  <2> QED
    BY <1>3, <1>4, <2>1, <2>2, <2>3
<1>9. AllOnSession(txnOp) => OnSessionInTxn(op) = TRUE
  <2>1. op \in ValidTxnOperations
    BY <1>3, <1>7
  <2>2. op.onSession \in Option
    BY <2>1 DEF ValidTxnOperations, TxnOperation, OperationOf
  <2> QED
    BY <1>7, <2>2 DEF AllOnSession, OnSessionInTxn, Given, Option
<1>10. \/ Succeeds(op, OnSessionInTxn(op))
       \/ Fails(op, OnSessionInTxn(op))
       \/ /\ crudPc' \in {"failed", "threw"}
          /\ UNCHANGED <<coll, snapshot>> \/ FailsHalfway(op, OnSessionInTxn(op))
  <2>1. ASSUME Handled("rethrow") PROVE crudPc' = "failed"
    BY <2>1 DEF Handled
  <2>2. ASSUME NEW own, Escapes(op, own) PROVE crudPc' = "threw"
    BY <2>2 DEF Escapes
  <2> QED
    BY <1>5, <2>1, <2>2, Zenon DEF RunTxnOperation
<1>11. ASSUME AllOnSession(txnOp) PROVE coll' = coll
  <2>1. ASSUME FailsHalfway(op, TRUE) PROVE coll' = coll
    BY <1>2, <2>1 DEF FailsHalfway
  <2>2. ASSUME Succeeds(op, TRUE) PROVE coll' = coll
    BY <1>2, <2>2 DEF Succeeds, Write, InTransaction
  <2> QED
    BY <1>9, <1>10, <1>11, <2>1, <2>2 DEF Fails
<1>12. WholeInv'
  <2>1. CASE Succeeds(op, OnSessionInTxn(op))
    <3>1. session' = session
      BY <2>1 DEF Succeeds, Write
    <3>2. ASSUME session = "active", AllOnSession(txnOp)
          PROVE  snapshot' = AfterOperations(txnOp.inner, k + 1, coll)
      <4>1. snapshot' = AfterSteps(op, Steps(op), snapshot)
        BY <1>9, <2>1, <3>2 DEF Succeeds, Write, InTransaction, Documents
      <4>2. snapshot = AfterOperations(txnOp.inner, k, coll)
        BY <1>4, <3>2 DEF RanFirst
      <4>3. k \in Nat
        BY <1>3
      <4> QED
        BY <1>7, <4>1, <4>2, <4>3, AfterOneMore DEF AfterOperation
    <3>4. RanFirst(k + 1)'
      <4>1. AllOnSession(txnOp)' = AllOnSession(txnOp)
        BY <1>1 DEF AllOnSession
      <4> QED
        BY <1>1, <1>8, <1>11, <3>1, <3>2, <4>1 DEF RanFirst
    <3> QED
      BY <1>1, <1>2, <1>7, <3>1, <3>4 DEF WholeInv
  <2>2. CASE Fails(op, OnSessionInTxn(op)) /\ OnSessionInTxn(op)
    <3>1. session' = "aborted"
      BY <1>2, <2>2 DEF Fails
    <3>2. RanFirst(k + 1)'
      BY <1>1, <1>8, <3>1 DEF RanFirst
    <3> QED
      BY <1>1, <1>7, <3>1, <3>2 DEF WholeInv
  <2>3. CASE Fails(op, OnSessionInTxn(op)) /\ ~OnSessionInTxn(op)
    <3>1. session' = session
      BY <2>3 DEF Fails
    <3>2. ~AllOnSession(txnOp)'
      BY <1>1, <1>9, <2>3 DEF AllOnSession
    <3>3. RanFirst(k + 1)'
      BY <1>1, <1>8, <3>2 DEF RanFirst
    <3> QED
      BY <1>1, <1>2, <1>7, <3>1, <3>3 DEF WholeInv
  <2>4. CASE crudPc' \in {"failed", "threw"}
    BY <2>4 DEF WholeInv
  <2> QED
    BY <1>10, <2>1, <2>2, <2>3, <2>4
<1> QED
  BY <1>11, <1>12

LEMMA WholeStep ==
  ASSUME CrudInv, CrudNext
  PROVE  /\ WholeInv'
         /\ (crudPc = "txn" /\ coll' # coll /\ AllOnSession(txnOp)) =>
              coll' = AfterOperations(txnOp.inner, Len(txnOp.inner), coll)
<1> USE DEF CrudInv
<1>1. CASE Construct \/ onNewPhase \/ LastPhase \/ StartIteration \/ EndIteration \/ EndPhase
  <2>1. crudPc # "txn" /\ crudPc' # "txn"
    BY <1>1 DEF Construct, onNewPhase, LastPhase, StartIteration, EndIteration, EndPhase
  <2> QED
    BY <2>1 DEF WholeInv
<1>2. CASE RunOperation \/ RunTransactionOperation \/ WithTransactionFails
  <2>1. crudPc = "ops"
    BY <1>2 DEF RunOperation, RunTransactionOperation, WithTransactionFails
  <2> QED
    BY <1>2, <2>1, OutOfOps DEF WholeInv
<1>3. CASE WithTransaction
  <2>1. /\ crudPc = "ops" /\ ops # <<>> /\ Head(ops).name = "withTransaction"
        /\ txnOp' = Head(ops) /\ txnOps' = Head(ops).inner
        /\ session' = "active" /\ snapshot' = coll /\ coll' = coll
    BY <1>3 DEF WithTransaction
  <2>2. Head(ops) \in ValidOperations
    BY <2>1, HeadTailProperties DEF QueueInv
  <2> QED
    BY <2>1, <2>2, WholeBegins
<1>4. CASE Retry
  <2>1. /\ crudPc = "txn" /\ txnOp' = txnOp /\ txnOps' = txnOp.inner
        /\ session' = "active" /\ snapshot' = coll /\ coll' = coll
    BY <1>4 DEF Retry
  <2>2. txnOp \in ValidOperations /\ txnOp.name = "withTransaction"
    BY <2>1 DEF QueueInv
  <2> QED
    BY <2>1, <2>2, WholeBegins
<1>5. CASE RunTxnOperation
  BY <1>5, WholeRuns
<1>6. CASE Commit
  <2>1. crudPc = "txn" /\ crudPc' = "ops" /\ txnOps = <<>> /\ session = "active" /\ coll' = snapshot
    BY <1>6 DEF Commit, EndTransaction
  <2>2. PICK k \in 0..Len(txnOp.inner) : RanFirst(k)
    BY <2>1 DEF WholeInv
  <2>3. txnOp.inner \in Seq(ValidTxnOperations) /\ Len(txnOp.inner) \in Nat
    BY <2>1, ValidInner DEF QueueInv
  <2>4. k = Len(txnOp.inner)
    BY <2>1, <2>2, <2>3 DEF RanFirst
  <2> QED
    BY <2>1, <2>2, <2>4 DEF RanFirst, WholeInv
<1>7. CASE CommitFails
  <2>1. crudPc' # "txn" /\ coll' = coll
    BY <1>7 DEF CommitFails, EndTransaction
  <2> QED
    BY <2>1 DEF WholeInv
<1>8. CASE CrudOver
  <2>1. crudPc # "txn" /\ crudPc' = crudPc
    BY <1>8 DEF CrudOver, crudVars
  <2> QED
    BY <2>1 DEF WholeInv
<1> QED
  BY <1>1, <1>2, <1>3, <1>4, <1>5, <1>6, <1>7, <1>8 DEF CrudNext, CrudStep

(***************************************************************************)
(* The theorems.                                                           *)
(***************************************************************************)

LEMMA CrudStepInv ==
  ASSUME CrudInv, CrudNext
  PROVE  CrudInv'
<1>1. MachineInv' /\ SkipInv'
  <2>1. CASE CrudOver
    BY <2>1 DEF CrudOver, crudVars, fsmVars, CrudInv, MachineInv, SkipInv, InPhase, Config, Machine
  <2>2. CASE CrudStep
    BY <2>2, RestsInv, ConstructInv, StartInv, EndInv, NewPhaseInv DEF CrudInv, CrudStep, MachineRests
  <2> QED
    BY <2>1, <2>2 DEF CrudNext
<1> QED
  BY <1>1, QueueStep, DataStep, AccountStep, ReachStep, WholeStep DEF CrudInv

LEMMA CrudStutter ==
  ASSUME CrudInv, UNCHANGED crudVars
  PROVE  CrudInv'
<1>1. MachineInv' /\ SkipInv'
  BY DEF crudVars, fsmVars, CrudInv, MachineInv, SkipInv, InPhase, Config, Machine
<1>2. QueueInv' /\ DataInv' /\ AccountInv'
  BY DEF crudVars, txnVars, dataVars, crudMetrics, CrudInv, QueueInv, DataInv, AccountInv,
     OperationsAccounted, Running
<1>3. ReachInv'
  BY DEF crudVars, fsmVars, CrudInv, ReachInv, OnlyReachableStates, Config, Machine
<1>4. WholeInv'
  BY DEF crudVars, txnVars, dataVars, CrudInv, WholeInv, RanFirst, AllOnSession
<1> QED
  BY <1>1, <1>2, <1>3, <1>4 DEF CrudInv

LEMMA CrudAlways == CrudSpec => []CrudInv
<1>1. CrudInv /\ [CrudNext]_crudVars => CrudInv'
  BY CrudStepInv, CrudStutter
<1> QED
  BY <1>1, CrudInitInv, PTL DEF CrudSpec

\* CrudTypeOK: whatever workload the constructor accepts, the machines of its
\* phases stay on their states and the collection a number of documents.
THEOREM CrudTypes == CrudSpec => []CrudTypeOK
<1>1. CrudInv => CrudTypeOK
  <2> SUFFICES ASSUME CrudInv PROVE CrudTypeOK
    OBVIOUS
  <2>1. ran <= visits /\ visits <= MaxVisits
    BY CrudBoundsAssumption DEF CrudInv, SkipInv
  <2> QED
    BY <2>1 DEF CrudInv, MachineInv, QueueInv, DataInv, CrudTypeOK
<1> QED
  BY <1>1, CrudAlways, PTL

\* ReportedOnce: doBlock() reports each operation it started once, and run()
\* skips the operations of no iteration but a phase's first.
THEOREM OperationsAreReportedOnce == CrudSpec => []ReportedOnce
<1>1. CrudInv => ReportedOnce
  <2> SUFFICES ASSUME CrudInv PROVE ReportedOnce
    OBVIOUS
  <2>1. SkipsOnlyFirst
    <3> SUFFICES ASSUME crudPc = "iterate"
                 PROVE  visits - ran = IF Given(Config.skipFirstOperations, FALSE)
                                       THEN Lesser(1, visits) ELSE 0
      BY DEF SkipsOnlyFirst
    <3>1. visits \in Nat /\ ran \in Nat /\ ran <= visits /\ InPhase
      BY CrudBoundsAssumption DEF CrudInv, SkipInv, InPhase
    <3>2. CASE visits = 0
      BY <3>1, <3>2 DEF Lesser
    <3>3. CASE visits # 0
      <4>1. Lesser(1, visits) = 1
        BY <3>1, <3>3 DEF Lesser
      <4>2. visits - ran = IF Given(Config.skipFirstOperations, FALSE) THEN 1 ELSE 0
        BY <3>1, <3>3 DEF CrudInv, SkipInv
      <4> QED
        BY <4>1, <4>2
    <3> QED
      BY <3>2, <3>3
  <2> QED
    BY <2>1 DEF ReportedOnce, CrudInv, AccountInv
<1> QED
  BY <1>1, CrudAlways, PTL

\* OnlyReachableStates: pickNext() and onNewPhase() never take the machine of a
\* phase to a state that its weights do not lead to.
THEOREM StatesAreReachable == CrudSpec => []OnlyReachableStates
<1>1. CrudInv => OnlyReachableStates
  BY DEF CrudInv, ReachInv
<1> QED
  BY <1>1, CrudAlways, PTL

\* WholeTransactions: what createTxnOps() has put on the session becomes visible
\* by the commit of all of it, whatever fails, is swallowed or is retried.
THEOREM TransactionsAreWhole == CrudSpec => WholeTransactions
<1> DEFINE Whole ==
      (crudPc = "txn" /\ coll' # coll /\ \A i \in 1..Len(txnOp.inner) : txnOp.inner[i].onSession # "false") =>
      coll' = AfterOperations(txnOp.inner, Len(txnOp.inner), coll)
<1>1. CrudInv /\ CrudNext => Whole
  BY WholeStep DEF AllOnSession
<1>2. CrudInv /\ [CrudNext]_crudVars => [Whole]_crudVars
  BY <1>1
<1>3. []CrudInv /\ [][CrudNext]_crudVars => [][Whole]_crudVars
  BY <1>2, PTL
<1> QED
  BY <1>3, CrudAlways, PTL DEF CrudSpec, WholeTransactions

=============================================================================
