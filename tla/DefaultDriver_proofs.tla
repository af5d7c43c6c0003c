------------------------ MODULE DefaultDriver_proofs ------------------------
(***************************************************************************)
(* Proofs about the composition of Orchestrator, PhaseLoop and             *)
(* DefaultDriver, for any number of threads and any phase maps.            *)
(***************************************************************************)
EXTENDS DefaultDriver, FiniteSetTheorems, SequenceTheorems, TLAPS

(***************************************************************************)
(* Types.                                                                  *)
(***************************************************************************)

\* The condition variable's places are closed under notify_all.
LEMMA NotifyAllType ==
  ASSUME OrchestratorTypeOK
  PROVE  NotifyAll \in [Threads -> CvPlace]
BY DEF OrchestratorTypeOK, NotifyAll, CvPlace

\* The history of the hooks grows by entries of its kind.
LEMMA HookLogType ==
  ASSUME OrchestratorTypeOK, NEW kind \in {"pre", "post"}
  PROVE  Append(hookLog, <<kind, current>>) \in Seq(HookCall)
<1>1. <<kind, current>> \in HookCall
  BY DEF OrchestratorTypeOK, HookCall
<1>2. QED
  BY <1>1, AppendProperties DEF OrchestratorTypeOK

\* A phase number is a natural number, and so is the number of phases of an
\* actor less one, if it has any and they are finitely many.
LEMMA PhaseCount ==
  ASSUME NEW S, IsFiniteSet(S), S # {}
  PROVE  Cardinality(S) - 1 \in Nat
<1>1. Cardinality(S) \in Nat
  BY FS_CardinalityType
<1>2. Cardinality(S) # 0
  BY FS_EmptySet
<1>3. QED
  BY <1>1, <1>2

LEMMA InitTypeOK == Init => TypeOK
<1> SUFFICES ASSUME Init PROVE TypeOK
  OBVIOUS
<1>1. OrchestratorTypeOK
  <2>1. hookLog \in Seq(HookCall)
    BY EmptySeq DEF Init, OrchestratorInit
  <2>2. waiting \in [Threads -> CvPlace]
    BY DEF Init, OrchestratorInit, CvPlace
  <2>3. /\ requireTokens \in Int /\ currentTokens \in Int /\ maxPhase \in Nat
        /\ current \in Nat
    BY DEF Init, OrchestratorInit
  <2>4. errors \in BOOLEAN /\ state \in State
    BY Zenon DEF Init, OrchestratorInit, State
  <2>5. QED
    BY <2>1, <2>2, <2>3, <2>4 DEF OrchestratorTypeOK
<1>2. LoopTypeOK
  BY IterCapAssumption DEF Init, LoopInit, LoopTypeOK, PC, Exception
<1>3. DriverTypeOK
  BY DEF Init, DriverTypeOK, OutcomeCode
<1>4. QED
  BY <1>1, <1>2, <1>3 DEF TypeOK

\* The main thread's steps keep the types.
LEMMA MainTypeOK ==
  ASSUME TypeOK, MainStep
  PROVE  TypeOK'
<1> USE DEF TypeOK, OrchestratorTypeOK, LoopTypeOK, DriverTypeOK, orchestratorVars, loopVars
<1>1. CASE ListActors \/ NoWorkloadSource \/ LoadYaml \/ SetupThrows \/ DryRun
           \/ WorkloadConstructed \/ AllSpawned
  BY <1>1 DEF ListActors, NoWorkloadSource, LoadYaml, SetupThrows, DryRun,
              WorkloadConstructed, AllSpawned, Return, OutcomeCode
<1>2. ASSUME NEW t \in Threads, ConstructActor(t)
      PROVE  TypeOK'
  <2>1. DOMAIN plan[t] # {} => Cardinality(DOMAIN plan[t]) - 1 \in Nat
    BY PhaseCount, PlansAssumption
  <2>2. maxPhase' \in Nat
    BY <1>2, <2>1 DEF ConstructActor, phasesAtLeastTo
  <2>3. QED
    BY <1>2, <2>2 DEF ConstructActor, phasesAtLeastTo, Goto, PC
<1>3. CASE RequireTokens
  <2>1. Cardinality(Threads) \in Nat
    BY ThreadsAssumption, FS_CardinalityType
  <2>2. QED
    BY <1>3, <2>1 DEF RequireTokens, addRequiredTokens
<1>4. ASSUME NEW t \in Threads, SpawnThread(t)
      PROVE  TypeOK'
  BY <1>4 DEF SpawnThread, Goto, PC
<1>5. CASE JoinThreads
  BY <1>5 DEF JoinThreads, Return, OutcomeCode
<1>6. QED
  BY <1>1, <1>2, <1>3, <1>4, <1>5 DEF MainStep

\* An actor thread's steps, and the passing of time, keep the types.
LEMMA ActorTypeOK ==
  ASSUME TypeOK, NEW t \in Threads, ActorStep(t) \/ TimePasses(t)
  PROVE  TypeOK'
<1> USE DEF TypeOK, OrchestratorTypeOK, LoopTypeOK, DriverTypeOK, orchestratorVars, loopVars
<1>n. NotifyAll \in [Threads -> CvPlace]
  BY NotifyAllType
<1>h. /\ Append(hookLog, <<"pre", current>>) \in Seq(HookCall)
      /\ Append(hookLog, <<"post", current>>) \in Seq(HookCall)
  BY HookLogType
<1>1. CASE RunPhaseLoop(t)
  <2> UNCHANGED <<mainPc, outcomeCode, result>>
    BY <1>1 DEF RunPhaseLoop
  <2>1. CASE CheckMorePhases(t) \/ RecordPhase(t) \/ DoNotSleep(t) \/ LeaveInBackground(t)
    BY <2>1 DEF CheckMorePhases, RecordPhase, DoNotSleep, LeaveInBackground, Goto, PC
  <2>2. CASE CallAwaitPhaseStart(t)
    <3>1. hookLog' \in Seq(HookCall)
      BY <2>2, <1>h DEF CallAwaitPhaseStart, StartsPhase, JoinsPhase
    <3>2. waiting' \in [Threads -> CvPlace]
      BY <2>2, <1>n DEF CallAwaitPhaseStart, StartsPhase, JoinsPhase, WaitAt, CvPlace
    <3>b. currentTokens' = currentTokens + 1
      BY <2>2, Zenon DEF CallAwaitPhaseStart, StartsPhase, JoinsPhase
    <3>3. currentTokens' \in Int
      BY <3>b
    <3>a. state' \in State /\ UNCHANGED <<requireTokens, maxPhase, current, errors>>
      BY <2>2, Zenon DEF CallAwaitPhaseStart, StartsPhase, JoinsPhase, State
    <3>4. LoopTypeOK'
      BY <2>2 DEF CallAwaitPhaseStart, Goto, PC
    <3>5. QED
      BY <3>1, <3>2, <3>3, <3>a, <3>4
  <2>3. CASE WakeInAwaitPhaseStart(t) \/ WakeInAwaitPhaseEnd(t) \/ WakeFromSleep(t) \/ SleepToPhaseEnd(t)
    <3>1. CASE WakeInAwaitPhaseStart(t)
      <4>1. PICK label \in {"awaitStart", "started"} : pc' = [pc EXCEPT ![t] = label]
        BY <3>1 DEF WakeInAwaitPhaseStart, Goto
      <4>2. PICK place \in CvPlace : waiting' = [waiting EXCEPT ![t] = place]
        BY <3>1 DEF WakeInAwaitPhaseStart, AwaitPhaseStartWakes, WaitAgain, WaitAt, Resume, CvPlace
      <4>3. QED
        BY <3>1, <4>1, <4>2 DEF WakeInAwaitPhaseStart, AwaitPhaseStartWakes, PC
    <3>a. CASE WakeInAwaitPhaseEnd(t)
      <4>1. PICK label \in {"ending", "check"} : pc' = [pc EXCEPT ![t] = label]
        BY <3>a DEF WakeInAwaitPhaseEnd, Goto
      <4>2. PICK place \in CvPlace : waiting' = [waiting EXCEPT ![t] = place]
        BY <3>a DEF WakeInAwaitPhaseEnd, AwaitPhaseEndWakes, WaitAgain, WaitAt, Resume, CvPlace
      <4>3. QED
        BY <3>a, <4>1, <4>2 DEF WakeInAwaitPhaseEnd, AwaitPhaseEndWakes, PC
    <3>2. CASE WakeFromSleep(t)
      BY <3>2 DEF WakeFromSleep, SleepWakes, SleepTimesOut, WaitAgain, WaitAt, Resume, Goto, PC, CvPlace
    <3>3. CASE SleepToPhaseEnd(t)
      BY <3>3 DEF SleepToPhaseEnd, SleepBegins, WaitAt, Resume, Goto, PC, CvPlace
    <3>4. QED
      BY <2>3, <3>1, <3>a, <3>2, <3>3
  <2>4. CASE EnterInBackground(t)
    <3>1. hookLog' \in Seq(HookCall)
      BY <2>4, <1>h DEF EnterInBackground, EndsPhase, LeavesPhase
    <3>2. LoopTypeOK'
      BY <2>4, IterCapAssumption DEF EnterInBackground, BeginInnerLoop, Goto, PC
    <3>3. CASE EndsPhase(1)
      BY <3>1, <3>2, <3>3, <1>n DEF EndsPhase, State
    <3>4. CASE LeavesPhase(t, FALSE, 1)
      <4>1. UNCHANGED waiting
        BY <3>4 DEF LeavesPhase, WaitsForEnd
      <4>2. QED
        BY <3>1, <3>2, <3>4, <4>1 DEF LeavesPhase
    <3>5. QED
      BY <2>4, <3>3, <3>4 DEF EnterInBackground
  <2>5. CASE EnterBlocking(t)
    BY <2>5, IterCapAssumption DEF EnterBlocking, BeginInnerLoop, Goto, PC
  <2>6. CASE PhaseNotFound(t) \/ BodyThrows(t)
    <3>1. CASE PhaseNotFound(t)
      BY <3>1 DEF PhaseNotFound, Goto, PC, Exception
    <3>2. CASE BodyThrows(t)
      BY <3>2 DEF BodyThrows, Goto, PC
    <3>3. QED
      BY <2>6, <3>1, <3>2
  <2>7. CASE TestInnerLoop(t)
    BY <2>7 DEF TestInnerLoop, Goto, PC
  <2>8. CASE Iterate(t)
    BY <2>8, IterCapAssumption DEF Iterate, Goto, PC
  <2>9. CASE CallAwaitPhaseEnd(t)
    <3>1. hookLog' \in Seq(HookCall)
      BY <2>9, <1>h DEF CallAwaitPhaseEnd, EndsPhase, LeavesPhase
    <3>2. waiting' \in [Threads -> CvPlace]
      BY <2>9, <1>n DEF CallAwaitPhaseEnd, EndsPhase, LeavesPhase, WaitAt, CvPlace
    <3>b. currentTokens' = currentTokens - 1 /\ current' \in {current, current + 1}
      BY <2>9, Zenon DEF CallAwaitPhaseEnd, EndsPhase, LeavesPhase
    <3>3. currentTokens' \in Int /\ current' \in Nat
      BY <3>b
    <3>a. state' \in State /\ UNCHANGED <<requireTokens, maxPhase, errors>>
      BY <2>9, Zenon DEF CallAwaitPhaseEnd, EndsPhase, LeavesPhase, State
    <3>4. LoopTypeOK'
      BY <2>9 DEF CallAwaitPhaseEnd, Goto, PC
    <3>5. QED
      BY <3>1, <3>2, <3>3, <3>a, <3>4
  <2>10. QED
    BY <1>1, <2>1, <2>2, <2>3, <2>4, <2>5, <2>6, <2>7, <2>8, <2>9 DEF RunPhaseLoop, PhaseLoopStep
<1>2. CASE CatchException(t)
  BY <1>2 DEF CatchException, Goto, PC, Exception
<1>3. CASE GuardAborts(t)
  BY <1>3, <1>n DEF GuardAborts, abort, Goto, PC
<1>4. CASE TimePasses(t)
  BY <1>4 DEF TimePasses, DurationElapses
<1>5. QED
  BY <1>1, <1>2, <1>3, <1>4 DEF ActorStep

LEMMA StutterTypeOK ==
  ASSUME TypeOK, UNCHANGED vars
  PROVE  TypeOK'
BY DEF vars, orchestratorVars, loopVars, TypeOK, OrchestratorTypeOK, LoopTypeOK, DriverTypeOK

\* Every variable of the composed system keeps its type: in particular phase
\* numbers stay natural numbers for any phase maps.
THEOREM TypeCorrect == Spec => []TypeOK
<1>1. Init => TypeOK
  BY InitTypeOK
<1>2. TypeOK /\ [Next]_vars => TypeOK'
  BY MainTypeOK, ActorTypeOK, StutterTypeOK DEF Next, Terminated
<1>3. QED
  BY <1>1, <1>2, PTL DEF Spec

(***************************************************************************)
(* The inductive invariant.                                                *)
(***************************************************************************)

\* Until the tokens are required no actor runs, and run() returns only when
\* none is left running.
SetupInv ==
  /\ mainPc \in {"begin", "construct", "run"} =>
       requireTokens = 0 /\ \A t \in Threads : pc[t] \in {"unbuilt", "built"}
  /\ mainPc = "run" => \A t \in Threads : pc[t] = "built"
  /\ mainPc \in {"spawn", "join"} =>
       requireTokens = Cardinality(Threads) /\ \A t \in Threads : pc[t] # "unbuilt"
  /\ mainPc = "returned" =>
       \A t \in Threads : pc[t] \in {"unbuilt", "built", "exited", "crashed"}

\* Between two phases the threads that are still busy with the phase that
\* ended hold no token; they are in the background.
BetweenPhases(t) ==
  /\ pc[t] # "started"
  /\ pc[t] = "awaitStart" => inPhase[t] = current
  /\ pc[t] \in InLoop \cup {"threw", "unwinding"} =>
       ~doesBlockOn(t, inPhase[t]) /\ inPhase[t] + 1 = current

\* During a phase every thread is in it, or waits for it to end; and one that
\* leaves it has its token.
DuringPhase(t) ==
  \/ pc[t] = "ending"
  \/ /\ pc[t] \in {"awaitStart", "started", "threw", "unwinding"} \cup InLoop
     /\ inPhase[t] = current
     /\ pc[t] = "plusplus" => doesBlockOn(t, inPhase[t])

PhaseInv ==
  ~errors => \A t \in Threads :
    /\ pc[t] \notin {"exited", "crashed"}
    /\ state = "PhaseEnded" => BetweenPhases(t)
    /\ state = "PhaseStarted" => DuringPhase(t)

IInv == TypeOK /\ SetupInv /\ TokenConservation /\ PhaseInv /\ PhaseExclusion

(***************************************************************************)
(* What the three calls that move a token do, hooks aside.                 *)
(***************************************************************************)

LEMMA ArriveEffect ==
  ASSUME NEW t \in Threads, CallAwaitPhaseStart(t)
  PROVE  /\ pc[t] = "start"
         /\ currentTokens' = currentTokens + 1
         /\ inPhase' = [inPhase EXCEPT ![t] = current]
         /\ UNCHANGED <<plan, requireTokens, current, errors>>
         /\ \/ /\ currentTokens + 1 >= requireTokens
               /\ state' = "PhaseStarted"
               /\ waiting' = NotifyAll
               /\ pc' = [pc EXCEPT ![t] = "started"]
            \/ /\ currentTokens + 1 < requireTokens
               /\ state' = state
               /\ state # "PhaseStarted" /\ ~errors
               /\ waiting' = [waiting EXCEPT ![t] = "waiting"]
               /\ pc' = [pc EXCEPT ![t] = "awaitStart"]
            \/ /\ currentTokens + 1 < requireTokens
               /\ state' = state
               /\ state = "PhaseStarted" \/ errors
               /\ waiting' = waiting
               /\ pc' = [pc EXCEPT ![t] = "started"]
BY Zenon DEF CallAwaitPhaseStart, StartsPhase, JoinsPhase, WaitsForStart, WaitAt, Goto

LEMMA LeaveEffect ==
  ASSUME NEW t \in Threads, CallAwaitPhaseEnd(t)
  PROVE  /\ pc[t] = "plusplus"
         /\ doesBlockOn(t, inPhase[t])
         /\ currentTokens' = currentTokens - 1
         /\ UNCHANGED <<plan, inPhase, requireTokens, errors>>
         /\ \/ /\ currentTokens - 1 <= 0
               /\ state' = "PhaseEnded"
               /\ current' = current + 1
               /\ waiting' = NotifyAll
               /\ pc' = [pc EXCEPT ![t] = "check"]
            \/ /\ currentTokens - 1 > 0
               /\ state # "PhaseEnded" /\ ~errors
               /\ UNCHANGED <<state, current>>
               /\ waiting' = [waiting EXCEPT ![t] = "waiting"]
               /\ pc' = [pc EXCEPT ![t] = "ending"]
            \/ /\ currentTokens - 1 > 0
               /\ state = "PhaseEnded" \/ errors
               /\ UNCHANGED <<state, current, waiting>>
               /\ pc' = [pc EXCEPT ![t] = "check"]
BY Zenon DEF CallAwaitPhaseEnd, EndsPhase, LeavesPhase, WaitsForEnd, WaitAt, Goto

LEMMA BackgroundEffect ==
  ASSUME NEW t \in Threads, EnterInBackground(t)
  PROVE  /\ pc[t] = "started"
         /\ ~doesBlockOn(t, inPhase[t])
         /\ currentTokens' = currentTokens - 1
         /\ pc' = [pc EXCEPT ![t] = "loop"]
         /\ UNCHANGED <<plan, inPhase, requireTokens, errors>>
         /\ \/ /\ currentTokens - 1 <= 0
               /\ state' = "PhaseEnded"
               /\ current' = current + 1
               /\ waiting' = NotifyAll
            \/ /\ currentTokens - 1 > 0
               /\ UNCHANGED <<state, current, waiting>>
BY Zenon DEF EnterInBackground, BeginInnerLoop, EndsPhase, LeavesPhase, WaitsForEnd, Goto

(***************************************************************************)
(* Tokens.                                                                 *)
(***************************************************************************)

\* The steps of an actor thread that move no token.
QuietStep(t) ==
  \/ CheckMorePhases(t) \/ WakeInAwaitPhaseStart(t) \/ EnterBlocking(t)
  \/ PhaseNotFound(t) \/ RecordPhase(t) \/ DoNotSleep(t) \/ SleepToPhaseEnd(t)
  \/ WakeFromSleep(t) \/ TestInnerLoop(t) \/ Iterate(t) \/ BodyThrows(t)
  \/ LeaveInBackground(t) \/ WakeInAwaitPhaseEnd(t) \/ CatchException(t)
  \/ GuardAborts(t)

\* A PhaseTimingRecorder blocks every phase: it has no phase map.
LEMMA RecorderBlocks ==
  ASSUME TypeOK, NEW t \in Recorders, NEW p
  PROVE  doesBlockOn(t, p)
BY PlansAssumption, RecordersAssumption DEF TypeOK, LoopTypeOK, doesBlockOn

LEMMA QuietEffect ==
  ASSUME TypeOK, NEW t \in Threads, QuietStep(t)
  PROVE  /\ UNCHANGED <<plan, inPhase, requireTokens, currentTokens, current, state>>
         /\ \A u \in Threads \ {t} : pc'[u] = pc[u]
         /\ Holds(t)' <=> Holds(t)
<1> USE DEF TypeOK, LoopTypeOK, orchestratorVars, loopVars, Goto, Holds, InLoop, doesBlockOn
<1>1. CASE CheckMorePhases(t) \/ DoNotSleep(t) \/ TestInnerLoop(t) \/ Iterate(t) \/ BodyThrows(t)
           \/ LeaveInBackground(t)
  BY <1>1 DEF CheckMorePhases, DoNotSleep, TestInnerLoop, Iterate, BodyThrows, LeaveInBackground
<1>2. CASE WakeInAwaitPhaseStart(t) \/ SleepToPhaseEnd(t) \/ WakeFromSleep(t) \/ WakeInAwaitPhaseEnd(t)
  BY <1>2 DEF WakeInAwaitPhaseStart, SleepToPhaseEnd, WakeFromSleep, WakeInAwaitPhaseEnd,
              AwaitPhaseStartWakes, SleepBegins, SleepWakes, SleepTimesOut, AwaitPhaseEndWakes
<1>3. CASE EnterBlocking(t) \/ PhaseNotFound(t)
  BY <1>3 DEF EnterBlocking, PhaseNotFound, BeginInnerLoop
<1>4. CASE RecordPhase(t)
  <2>1. doesBlockOn(t, inPhase[t])
    BY <1>4, RecorderBlocks DEF RecordPhase
  <2>2. QED
    BY <1>4, <2>1 DEF RecordPhase
<1>5. CASE CatchException(t) \/ GuardAborts(t)
  BY <1>5 DEF CatchException, GuardAborts, abort
<1>6. QED
  BY <1>1, <1>2, <1>3, <1>4, <1>5 DEF QuietStep

LEMMA HoldersFinite == IsFiniteSet(Holders) /\ Cardinality(Holders) \in Nat
<1>1. Holders \subseteq Threads
  BY DEF Holders
<1>2. QED
  BY <1>1, ThreadsAssumption, FS_Subset, FS_CardinalityType

\* A token more makes one more holder.
LEMMA HoldersGain ==
  ASSUME TokenConservation, NEW t \in Threads, ~Holds(t), Holds(t)',
         \A u \in Threads \ {t} : Holds(u)' <=> Holds(u),
         currentTokens' = currentTokens + 1
  PROVE  TokenConservation'
<1>1. Holders' = Holders \cup {t} /\ t \notin Holders
  BY DEF Holders
<1>2. Cardinality(Holders \cup {t}) = Cardinality(Holders) + 1
  BY <1>1, HoldersFinite, FS_AddElement
<1>3. QED
  BY <1>1, <1>2 DEF TokenConservation

\* A token less makes one less holder.
LEMMA HoldersLoss ==
  ASSUME TokenConservation, NEW t \in Threads, Holds(t), ~Holds(t)',
         \A u \in Threads \ {t} : Holds(u)' <=> Holds(u),
         currentTokens' = currentTokens - 1
  PROVE  TokenConservation'
<1>1. Holders' = Holders \ {t} /\ t \in Holders
  BY DEF Holders
<1>2. Cardinality(Holders \ {t}) = Cardinality(Holders) - 1
  BY <1>1, HoldersFinite, FS_RemoveElement
<1>3. QED
  BY <1>1, <1>2 DEF TokenConservation

LEMMA HoldersKept ==
  ASSUME TokenConservation, \A u \in Threads : Holds(u)' <=> Holds(u),
         UNCHANGED currentTokens
  PROVE  TokenConservation'
<1>1. Holders' = Holders
  BY DEF Holders
<1>2. QED
  BY <1>1 DEF TokenConservation

\* When the last token is in, everybody holds the phase.
LEMMA AllArrived ==
  ASSUME TokenConservation, requireTokens = Cardinality(Threads),
         NEW t \in Threads, ~Holds(t), currentTokens + 1 >= requireTokens
  PROVE  \A u \in Threads \ {t} : Holds(u)
<1>1. Holders \subseteq Threads \ {t}
  BY DEF Holders
<1>2. /\ IsFiniteSet(Threads \ {t})
      /\ Cardinality(Threads \ {t}) = Cardinality(Threads) - 1
  BY ThreadsAssumption, FS_RemoveElement
<1>3. Cardinality(Threads) \in Nat
  BY ThreadsAssumption, FS_CardinalityType
<1>4. Cardinality(Holders) <= Cardinality(Threads \ {t})
  BY <1>1, <1>2, FS_Subset
<1>5. Cardinality(Holders) = Cardinality(Threads \ {t})
  BY <1>2, <1>3, <1>4, HoldersFinite DEF TokenConservation
<1>6. Threads \ {t} = Holders
  BY <1>1, <1>2, <1>5, FS_Subset
<1>7. QED
  BY <1>6 DEF Holders

\* When the last token is out, nobody holds the phase.
LEMMA AllLeft ==
  ASSUME TokenConservation, NEW t \in Threads, Holds(t), currentTokens - 1 <= 0
  PROVE  \A u \in Threads \ {t} : ~Holds(u)
<1>1. /\ IsFiniteSet(Holders \ {t})
      /\ Cardinality(Holders \ {t}) = Cardinality(Holders) - 1
  BY HoldersFinite, FS_RemoveElement DEF Holders
<1>2. Cardinality(Holders \ {t}) \in Nat
  BY <1>1, FS_CardinalityType
<1>3. Cardinality(Holders \ {t}) = 0
  BY <1>1, <1>2, HoldersFinite DEF TokenConservation
<1>4. Holders \ {t} = {}
  BY <1>1, <1>3, FS_EmptySet
<1>5. QED
  BY <1>4 DEF Holders

(***************************************************************************)
(* The invariant is inductive.                                             *)
(***************************************************************************)

\* An actor thread takes a step only while the tokens are required.
LEMMA ActorRuns ==
  ASSUME IInv, NEW t \in Threads, pc[t] \notin {"unbuilt", "built", "exited", "crashed"}
  PROVE  mainPc \in {"spawn", "join"} /\ requireTokens = Cardinality(Threads)
BY DEF IInv, SetupInv, TypeOK, DriverTypeOK

LEMMA InitIInv == Init => IInv
<1> SUFFICES ASSUME Init PROVE IInv
  OBVIOUS
<1>1. TypeOK
  BY InitTypeOK
<1>2. SetupInv /\ PhaseInv /\ PhaseExclusion
  BY DEF Init, OrchestratorInit, LoopInit, SetupInv, PhaseInv, PhaseExclusion,
         BetweenPhases, InLoop
<1>3. TokenConservation
  <2>1. Holders = {}
    BY DEF Init, LoopInit, Holders, Holds, InLoop
  <2>2. QED
    BY <2>1, FS_EmptySet DEF Init, OrchestratorInit, TokenConservation
<1>4. QED
  BY <1>1, <1>2, <1>3 DEF IInv

\* A thread hands in its token.
LEMMA ArriveIInv ==
  ASSUME IInv, NEW t \in Threads, CallAwaitPhaseStart(t),
         UNCHANGED <<mainPc, outcomeCode, result>>, TypeOK'
  PROVE  IInv'
<1> USE DEF IInv, TypeOK, LoopTypeOK, OrchestratorTypeOK
<1>e. /\ pc[t] = "start" /\ UNCHANGED <<plan, requireTokens, current, errors>>
      /\ \A u \in Threads \ {t} : pc'[u] = pc[u] /\ inPhase'[u] = inPhase[u]
      /\ pc'[t] \in {"started", "awaitStart"} /\ inPhase'[t] = current
      /\ currentTokens' = currentTokens + 1
  BY ArriveEffect
<1>1. SetupInv'
  BY <1>e, ActorRuns DEF SetupInv
<1>2. TokenConservation'
  <2>1. ~Holds(t) /\ Holds(t)'
    BY <1>e DEF Holds, InLoop
  <2>2. \A u \in Threads \ {t} : Holds(u)' <=> Holds(u)
    BY <1>e DEF Holds, doesBlockOn
  <2>3. QED
    BY <1>e, <2>1, <2>2, HoldersGain
<1>3. PhaseInv'
  <2> SUFFICES ASSUME ~errors, NEW u \in Threads
               PROVE  /\ pc'[u] \notin {"exited", "crashed"}
                      /\ state' = "PhaseEnded" => BetweenPhases(u)'
                      /\ state' = "PhaseStarted" => DuringPhase(u)'
    BY <1>e DEF PhaseInv
  <2>1. state = "PhaseEnded"
    BY <1>e DEF PhaseInv, DuringPhase, InLoop, State
  <2>2. CASE state' = "PhaseStarted"
    <3>1. currentTokens + 1 >= requireTokens /\ pc'[t] = "started"
      BY <2>1, <2>2, ArriveEffect
    <3>2. u # t => Holds(u)
      BY <1>e, <3>1, ActorRuns, AllArrived DEF Holds, InLoop
    <3>3. u # t => pc[u] = "awaitStart" /\ inPhase[u] = current
      BY <2>1, <3>2 DEF PhaseInv, BetweenPhases, Holds
    <3>4. QED
      BY <1>e, <2>2, <3>1, <3>3 DEF DuringPhase, InLoop
  <2>3. CASE state' = "PhaseEnded"
    <3>1. pc'[t] = "awaitStart"
      BY <2>1, <2>3, ArriveEffect
    <3>2. QED
      BY <1>e, <2>1, <2>3, <3>1 DEF PhaseInv, BetweenPhases, InLoop, doesBlockOn
  <2>4. QED
    BY <2>2, <2>3 DEF State
<1>4. PhaseExclusion'
  <2>1. ASSUME NEW u \in Threads, pc'[u] = "body"
        PROVE  pc[u] = "body" /\ inPhase'[u] = inPhase[u]
    BY <1>e, <2>1
  <2>2. QED
    BY <2>1 DEF PhaseExclusion
<1>5. QED
  BY <1>1, <1>2, <1>3, <1>4

\* A thread takes its token back at the end of its work in the phase.
LEMMA LeaveIInv ==
  ASSUME IInv, NEW t \in Threads, CallAwaitPhaseEnd(t),
         UNCHANGED <<mainPc, outcomeCode, result>>, TypeOK'
  PROVE  IInv'
<1> USE DEF IInv, TypeOK, LoopTypeOK, OrchestratorTypeOK
<1>e. /\ pc[t] = "plusplus" /\ doesBlockOn(t, inPhase[t])
      /\ UNCHANGED <<plan, inPhase, requireTokens, errors>>
      /\ \A u \in Threads \ {t} : pc'[u] = pc[u]
      /\ pc'[t] \in {"check", "ending"}
      /\ currentTokens' = currentTokens - 1
  BY LeaveEffect
<1>h. Holds(t)
  BY <1>e DEF Holds, InLoop
<1>1. SetupInv'
  BY <1>e, ActorRuns DEF SetupInv
<1>2. TokenConservation'
  <2>1. ~Holds(t)'
    BY <1>e DEF Holds, InLoop
  <2>2. \A u \in Threads \ {t} : Holds(u)' <=> Holds(u)
    BY <1>e DEF Holds, doesBlockOn
  <2>3. QED
    BY <1>e, <1>h, <2>1, <2>2, HoldersLoss
<1>3. PhaseInv'
  <2> SUFFICES ASSUME ~errors, NEW u \in Threads
               PROVE  /\ pc'[u] \notin {"exited", "crashed"}
                      /\ state' = "PhaseEnded" => BetweenPhases(u)'
                      /\ state' = "PhaseStarted" => DuringPhase(u)'
    BY <1>e DEF PhaseInv
  <2>1. state = "PhaseStarted"
    BY <1>e DEF PhaseInv, BetweenPhases, InLoop, State
  <2>2. CASE state' = "PhaseEnded"
    <3>1. currentTokens - 1 <= 0 /\ current' = current + 1 /\ pc'[t] = "check"
      BY <2>1, <2>2, LeaveEffect
    <3>2. u # t => ~Holds(u)
      BY <1>h, <3>1, AllLeft
    <3>3. u # t => DuringPhase(u) /\ pc[u] \notin {"exited", "crashed"}
      BY <2>1 DEF PhaseInv
    <3>4. u # t => \/ pc[u] = "ending"
                   \/ /\ pc[u] \in InLoop \cup {"threw", "unwinding"}
                      /\ inPhase[u] = current
                      /\ ~doesBlockOn(u, inPhase[u])
      BY <3>2, <3>3 DEF DuringPhase, Holds, InLoop
    <3>5. QED
      BY <1>e, <2>2, <3>1, <3>3, <3>4 DEF BetweenPhases, InLoop, doesBlockOn
  <2>3. CASE state' = "PhaseStarted"
    <3>1. pc'[t] = "ending" /\ UNCHANGED current
      BY <2>1, <2>3, LeaveEffect
    <3>2. QED
      BY <1>e, <2>1, <2>3, <3>1 DEF PhaseInv, DuringPhase, InLoop, doesBlockOn
  <2>4. QED
    BY <2>2, <2>3 DEF State
<1>4. PhaseExclusion'
  BY <1>e DEF PhaseExclusion
<1>5. QED
  BY <1>1, <1>2, <1>3, <1>4

\* A background thread takes its token back as soon as the phase has begun.
LEMMA BackgroundIInv ==
  ASSUME IInv, NEW t \in Threads, EnterInBackground(t),
         UNCHANGED <<mainPc, outcomeCode, result>>, TypeOK'
  PROVE  IInv'
<1> USE DEF IInv, TypeOK, LoopTypeOK, OrchestratorTypeOK
<1>e. /\ pc[t] = "started" /\ ~doesBlockOn(t, inPhase[t])
      /\ UNCHANGED <<plan, inPhase, requireTokens, errors>>
      /\ \A u \in Threads \ {t} : pc'[u] = pc[u]
      /\ pc'[t] = "loop"
      /\ currentTokens' = currentTokens - 1
  BY BackgroundEffect
<1>h. Holds(t)
  BY <1>e DEF Holds
<1>1. SetupInv'
  BY <1>e, ActorRuns DEF SetupInv
<1>2. TokenConservation'
  <2>1. ~Holds(t)'
    BY <1>e DEF Holds, InLoop, doesBlockOn
  <2>2. \A u \in Threads \ {t} : Holds(u)' <=> Holds(u)
    BY <1>e DEF Holds, doesBlockOn
  <2>3. QED
    BY <1>e, <1>h, <2>1, <2>2, HoldersLoss
<1>3. PhaseInv'
  <2> SUFFICES ASSUME ~errors, NEW u \in Threads
               PROVE  /\ pc'[u] \notin {"exited", "crashed"}
                      /\ state' = "PhaseEnded" => BetweenPhases(u)'
                      /\ state' = "PhaseStarted" => DuringPhase(u)'
    BY <1>e DEF PhaseInv
  <2>1. state = "PhaseStarted" /\ inPhase[t] = current
    BY <1>e DEF PhaseInv, BetweenPhases, DuringPhase, State
  <2>2. CASE state' = "PhaseEnded"
    <3>1. currentTokens - 1 <= 0 /\ current' = current + 1
      BY <2>1, <2>2, BackgroundEffect
    <3>2. u # t => ~Holds(u)
      BY <1>h, <3>1, AllLeft
    <3>3. u # t => DuringPhase(u) /\ pc[u] \notin {"exited", "crashed"}
      BY <2>1 DEF PhaseInv
    <3>4. u # t => \/ pc[u] = "ending"
                   \/ /\ pc[u] \in InLoop \cup {"threw", "unwinding"}
                      /\ inPhase[u] = current
                      /\ ~doesBlockOn(u, inPhase[u])
      BY <3>2, <3>3 DEF DuringPhase, Holds, InLoop
    <3>5. QED
      BY <1>e, <2>1, <2>2, <3>1, <3>3, <3>4 DEF BetweenPhases, InLoop, doesBlockOn
  <2>3. CASE state' = "PhaseStarted"
    <3>1. UNCHANGED current
      BY <2>1, <2>3, BackgroundEffect
    <3>2. QED
      BY <1>e, <2>1, <2>3, <3>1 DEF PhaseInv, DuringPhase, InLoop, doesBlockOn
  <2>4. QED
    BY <2>2, <2>3 DEF State
<1>4. PhaseExclusion'
  BY <1>e DEF PhaseExclusion
<1>5. QED
  BY <1>1, <1>2, <1>3, <1>4

\* The other steps of a thread keep it where PhaseInv wants it.
LEMMA QuietPhaseInv ==
  ASSUME IInv, NEW t \in Threads, QuietStep(t), TypeOK'
  PROVE  PhaseInv'
<1> USE DEF IInv, TypeOK, LoopTypeOK, OrchestratorTypeOK
<1>e. /\ UNCHANGED <<plan, inPhase, current, state>>
      /\ \A u \in Threads \ {t} : pc'[u] = pc[u]
  BY QuietEffect
<1>1. CASE GuardAborts(t)
  BY <1>1, Zenon DEF GuardAborts, abort, PhaseInv
<1>2. CASE ~GuardAborts(t)
  <2>a. UNCHANGED errors
    BY <1>2, Zenon DEF QuietStep, CheckMorePhases, WakeInAwaitPhaseStart, EnterBlocking,
       PhaseNotFound, RecordPhase, DoNotSleep, SleepToPhaseEnd, WakeFromSleep, TestInnerLoop,
       Iterate, BodyThrows, LeaveInBackground, WakeInAwaitPhaseEnd, CatchException,
       AwaitPhaseStartWakes, AwaitPhaseEndWakes, SleepBegins, SleepWakes, SleepTimesOut,
       orchestratorVars
  <2> SUFFICES ASSUME ~errors
               PROVE  /\ pc'[t] \notin {"exited", "crashed"}
                      /\ state = "PhaseEnded" => BetweenPhases(t)'
                      /\ state = "PhaseStarted" => DuringPhase(t)'
    BY <1>e, <2>a DEF PhaseInv, BetweenPhases, DuringPhase, InLoop, doesBlockOn
  <2>b. /\ state = "PhaseEnded" => BetweenPhases(t)
        /\ state = "PhaseStarted" => DuringPhase(t)
        /\ state \in {"PhaseEnded", "PhaseStarted"}
    BY DEF PhaseInv, State
  <2> USE <1>e, <2>b DEF BetweenPhases, DuringPhase, InLoop, doesBlockOn, Goto
  <2>1. CASE CheckMorePhases(t) \/ DoNotSleep(t) \/ SleepToPhaseEnd(t) \/ WakeFromSleep(t)
             \/ Iterate(t) \/ BodyThrows(t)
    BY <2>1 DEF CheckMorePhases, DoNotSleep, SleepToPhaseEnd, WakeFromSleep, Iterate, BodyThrows
  <2>2. CASE WakeInAwaitPhaseStart(t) \/ WakeInAwaitPhaseEnd(t)
    BY <2>2 DEF WakeInAwaitPhaseStart, WakeInAwaitPhaseEnd, WaitsForStart, WaitsForEnd
  <2>3. CASE EnterBlocking(t) \/ PhaseNotFound(t)
    BY <2>3 DEF EnterBlocking, BeginInnerLoop, PhaseNotFound
  <2>4. CASE RecordPhase(t)
    <3>1. doesBlockOn(t, inPhase[t])
      BY <2>4, RecorderBlocks DEF RecordPhase
    <3>2. QED
      BY <2>4, <3>1 DEF RecordPhase
  <2>5. CASE TestInnerLoop(t) \/ LeaveInBackground(t)
    BY <2>5 DEF TestInnerLoop, LeaveInBackground, InnerLoopOver, continueRunning
  <2>6. CASE CatchException(t)
    BY <2>6 DEF CatchException
  <2>7. QED
    BY <1>2, <2>1, <2>2, <2>3, <2>4, <2>5, <2>6 DEF QuietStep
<1>3. QED
  BY <1>1, <1>2

\* A thread begins an iteration only if nobody aborted, and then the threads
\* that are in the middle of one are in the same phase.
LEMMA QuietPhaseExclusion ==
  ASSUME IInv, NEW t \in Threads, QuietStep(t), TypeOK'
  PROVE  PhaseExclusion'
<1> USE DEF IInv, TypeOK, LoopTypeOK, OrchestratorTypeOK
<1>e. /\ UNCHANGED <<plan, inPhase, current, state>>
      /\ \A u \in Threads \ {t} : pc'[u] = pc[u]
  BY QuietEffect
<1>1. CASE pc'[t] = "body"
  <2>1. TestInnerLoop(t)
    BY <1>1 DEF QuietStep, CheckMorePhases, WakeInAwaitPhaseStart, EnterBlocking,
       PhaseNotFound, RecordPhase, DoNotSleep, SleepToPhaseEnd, WakeFromSleep, BeginInnerLoop,
       Iterate, BodyThrows, LeaveInBackground, WakeInAwaitPhaseEnd, CatchException,
       GuardAborts, Goto
  <2>2. ~errors /\ pc[t] = "test"
    BY <1>1, <2>1 DEF TestInnerLoop, InnerLoopOver, continueRunning, Goto
  <2>3. ASSUME NEW u \in Threads, pc[u] = "body"
        PROVE  inPhase[u] = inPhase[t]
    <3>1. CASE state = "PhaseEnded"
      <4>1. BetweenPhases(t) /\ BetweenPhases(u)
        BY <2>2, <3>1 DEF PhaseInv
      <4>2. inPhase[t] + 1 = current
        BY <2>2, <2>3, <4>1 DEF BetweenPhases, InLoop
      <4>3. inPhase[u] + 1 = current
        BY <2>2, <2>3, <4>1 DEF BetweenPhases, InLoop
      <4>4. QED
        BY <4>2, <4>3
    <3>2. CASE state = "PhaseStarted"
      <4>1. DuringPhase(t) /\ DuringPhase(u)
        BY <2>2, <3>2 DEF PhaseInv
      <4>2. QED
        BY <2>2, <2>3, <4>1 DEF DuringPhase
    <3>3. QED
      BY <3>1, <3>2 DEF State
  <2>4. QED
    BY <1>e, <2>3 DEF PhaseExclusion
<1>2. CASE pc'[t] # "body"
  BY <1>e, <1>2 DEF PhaseExclusion
<1>3. QED
  BY <1>1, <1>2

LEMMA QuietIInv ==
  ASSUME IInv, NEW t \in Threads, QuietStep(t), UNCHANGED mainPc, TypeOK'
  PROVE  IInv'
<1>e. /\ UNCHANGED <<plan, inPhase, requireTokens, currentTokens, current, state>>
      /\ \A u \in Threads \ {t} : pc'[u] = pc[u]
      /\ Holds(t)' <=> Holds(t)
  BY QuietEffect DEF IInv
<1>p. pc[t] \notin {"unbuilt", "built", "exited", "crashed"} /\ pc'[t] # "unbuilt"
  BY DEF IInv, TypeOK, LoopTypeOK, QuietStep, CheckMorePhases, WakeInAwaitPhaseStart, EnterBlocking,
     PhaseNotFound, RecordPhase, DoNotSleep, SleepToPhaseEnd, WakeFromSleep, TestInnerLoop,
     BeginInnerLoop, Iterate, BodyThrows, LeaveInBackground, WakeInAwaitPhaseEnd, CatchException,
     GuardAborts, Goto
<1>1. SetupInv'
  BY <1>e, <1>p, ActorRuns DEF IInv, SetupInv
<1>2. TokenConservation'
  <2>1. \A u \in Threads \ {t} : Holds(u)' <=> Holds(u)
    BY <1>e DEF Holds, doesBlockOn
  <2>2. QED
    BY <1>e, <2>1, HoldersKept DEF IInv
<1>3. PhaseInv' /\ PhaseExclusion'
  BY QuietPhaseInv, QuietPhaseExclusion
<1>4. QED
  BY <1>1, <1>2, <1>3 DEF IInv

\* The main thread touches tokens and threads only around the run.
LEMMA MainIInv ==
  ASSUME IInv, MainStep, TypeOK'
  PROVE  IInv'
<1> USE DEF IInv, TypeOK, LoopTypeOK, OrchestratorTypeOK, DriverTypeOK
<1>1. CASE ListActors \/ NoWorkloadSource \/ LoadYaml \/ SetupThrows \/ DryRun
           \/ WorkloadConstructed \/ AllSpawned \/ JoinThreads
  <2>1. UNCHANGED <<orchestratorVars, loopVars>>
    BY <1>1, Zenon DEF ListActors, NoWorkloadSource, LoadYaml, SetupThrows, DryRun,
       WorkloadConstructed, AllSpawned, JoinThreads, Return
  <2>2. SetupInv'
    BY <1>1, <2>1 DEF ListActors, NoWorkloadSource, LoadYaml, SetupThrows, DryRun,
       WorkloadConstructed, AllSpawned, JoinThreads, Return, SetupInv, orchestratorVars, loopVars
  <2>3. TokenConservation'
    <3>1. \A u \in Threads : Holds(u)' <=> Holds(u)
      BY <2>1 DEF Holds, doesBlockOn, loopVars
    <3>2. QED
      BY <2>1, <3>1, HoldersKept DEF orchestratorVars
  <2>4. PhaseInv' /\ PhaseExclusion'
    BY <2>1 DEF PhaseInv, PhaseExclusion, BetweenPhases, DuringPhase, doesBlockOn,
                orchestratorVars, loopVars
  <2>5. QED
    BY <2>2, <2>3, <2>4
<1>2. ASSUME NEW t \in Threads, ConstructActor(t) \/ SpawnThread(t)
      PROVE  IInv'
  <2>1. /\ pc[t] \in {"unbuilt", "built"} /\ pc'[t] \in {"built", "check"}
        /\ pc'[t] = "check" => mainPc = "spawn"
        /\ mainPc \in {"construct", "spawn"}
        /\ \A u \in Threads \ {t} : pc'[u] = pc[u]
        /\ UNCHANGED <<plan, inPhase, mainPc, requireTokens, currentTokens, current, errors, state>>
    BY <1>2 DEF ConstructActor, SpawnThread, phasesAtLeastTo, Goto, orchestratorVars
  <2>2. SetupInv'
    BY <2>1 DEF SetupInv
  <2>3. TokenConservation'
    <3>1. \A u \in Threads : Holds(u)' <=> Holds(u)
      BY <2>1 DEF Holds, InLoop, doesBlockOn
    <3>2. QED
      BY <2>1, <3>1, HoldersKept
  <2>4. PhaseInv'
    <3>1. ASSUME NEW u \in Threads, ~errors
          PROVE  /\ pc'[u] \notin {"exited", "crashed"}
                 /\ state = "PhaseEnded" => BetweenPhases(u)'
                 /\ state = "PhaseStarted" => DuringPhase(u)'
      <4>1. CASE u = t
        BY <2>1, <3>1, <4>1 DEF PhaseInv, BetweenPhases, DuringPhase, InLoop
      <4>2. CASE u # t
        BY <2>1, <3>1, <4>2 DEF PhaseInv, BetweenPhases, DuringPhase, doesBlockOn
      <4>3. QED
        BY <4>1, <4>2
    <3>2. QED
      BY <2>1, <3>1 DEF PhaseInv
  <2>5. PhaseExclusion'
    <3>1. PhaseExclusion /\ pc'[t] # "body"
      BY <2>1
    <3>2. QED
      BY <2>1, <3>1 DEF PhaseExclusion
  <2>6. QED
    BY <2>2, <2>3, <2>4, <2>5
<1>3. CASE RequireTokens
  <2>1. /\ mainPc = "run" /\ mainPc' = "spawn"
        /\ requireTokens' = requireTokens + Cardinality(Threads)
        /\ UNCHANGED <<plan, pc, inPhase, currentTokens, current, errors, state>>
        /\ \A t \in Threads : pc[t] = "built"
    BY <1>3 DEF RequireTokens, addRequiredTokens, loopVars, SetupInv
  <2>2. SetupInv'
    BY <2>1, ThreadsAssumption, FS_CardinalityType DEF SetupInv
  <2>3. TokenConservation'
    <3>1. \A u \in Threads : Holds(u)' <=> Holds(u)
      BY <2>1 DEF Holds, doesBlockOn
    <3>2. QED
      BY <2>1, <3>1, HoldersKept
  <2>4. PhaseInv' /\ PhaseExclusion'
    BY <2>1 DEF PhaseInv, PhaseExclusion, BetweenPhases, DuringPhase, doesBlockOn
  <2>5. QED
    BY <2>2, <2>3, <2>4
<1>4. QED
  BY <1>1, <1>2, <1>3 DEF MainStep

\* The clock changes nothing the invariant speaks of; nor does a stutter.
LEMMA TimeIInv ==
  ASSUME IInv, TypeOK',
         UNCHANGED <<plan, pc, inPhase, mainPc, requireTokens, currentTokens, current, errors, state>>
  PROVE  IInv'
<1>1. SetupInv' /\ PhaseInv' /\ PhaseExclusion'
  BY DEF IInv, SetupInv, PhaseInv, PhaseExclusion, BetweenPhases, DuringPhase, doesBlockOn
<1>2. TokenConservation'
  <2>1. \A u \in Threads : Holds(u)' <=> Holds(u)
    BY DEF Holds, doesBlockOn
  <2>2. QED
    BY <2>1, HoldersKept DEF IInv
<1>3. QED
  BY <1>1, <1>2 DEF IInv

LEMMA ActorIInv ==
  ASSUME IInv, NEW t \in Threads, ActorStep(t) \/ TimePasses(t), TypeOK'
  PROVE  IInv'
<1>1. CASE TimePasses(t)
  BY <1>1, TimeIInv DEF TimePasses, DurationElapses, orchestratorVars
<1>2. CASE CatchException(t) \/ GuardAborts(t)
  BY <1>2, QuietIInv DEF QuietStep, CatchException, GuardAborts
<1>3. CASE RunPhaseLoop(t)
  BY <1>3, QuietIInv, ArriveIInv, LeaveIInv, BackgroundIInv DEF RunPhaseLoop, PhaseLoopStep, QuietStep
<1>4. QED
  BY <1>1, <1>2, <1>3 DEF ActorStep

THEOREM Invariance == Spec => []IInv
<1>1. Init => IInv
  BY InitIInv
<1>2. IInv /\ [Next]_vars => IInv'
  <2> SUFFICES ASSUME IInv, [Next]_vars PROVE IInv'
    OBVIOUS
  <2>1. TypeOK'
    BY MainTypeOK, ActorTypeOK, StutterTypeOK DEF IInv, Next, Terminated
  <2>2. CASE MainStep
    BY <2>1, <2>2, MainIInv
  <2>3. ASSUME NEW t \in Threads, ActorStep(t) \/ TimePasses(t)
        PROVE  IInv'
    BY <2>1, <2>3, ActorIInv
  <2>4. CASE UNCHANGED vars
    BY <2>1, <2>4, TimeIInv DEF vars, orchestratorVars, loopVars
  <2>5. QED
    BY <2>2, <2>3, <2>4 DEF Next, Terminated
<1>3. QED
  BY <1>1, <1>2, PTL DEF Spec

\* Once aborted, always aborted.
LEMMA AbortIsFinal ==
  ASSUME errors, [Next]_vars
  PROVE  errors'
<1>1. \A t \in Threads : CallAwaitPhaseStart(t) \/ CallAwaitPhaseEnd(t) \/ EnterInBackground(t) => errors'
  BY ArriveEffect, LeaveEffect, BackgroundEffect
<1>2. \A t \in Threads : GuardAborts(t) => errors'
  BY Zenon DEF GuardAborts, abort
<1>3. \A t \in Threads : QuietStep(t) /\ ~GuardAborts(t) => UNCHANGED errors
  BY Zenon DEF QuietStep, CheckMorePhases, WakeInAwaitPhaseStart, EnterBlocking,
       PhaseNotFound, RecordPhase, DoNotSleep, SleepToPhaseEnd, WakeFromSleep, TestInnerLoop,
       Iterate, BodyThrows, LeaveInBackground, WakeInAwaitPhaseEnd, CatchException,
       AwaitPhaseStartWakes, AwaitPhaseEndWakes, SleepBegins, SleepWakes, SleepTimesOut,
       orchestratorVars
<1>4. MainStep => UNCHANGED errors
  BY Zenon DEF MainStep, ListActors, NoWorkloadSource, LoadYaml, SetupThrows, DryRun,
       WorkloadConstructed, AllSpawned, JoinThreads, Return, ConstructActor, SpawnThread,
       RequireTokens, addRequiredTokens, phasesAtLeastTo, orchestratorVars
<1>5. \A t \in Threads : TimePasses(t) => UNCHANGED errors
  BY Zenon DEF TimePasses, DurationElapses, orchestratorVars
<1>6. QED
  BY <1>1, <1>2, <1>3, <1>4, <1>5
     DEF Next, ActorStep, RunPhaseLoop, PhaseLoopStep, QuietStep, Terminated, vars, orchestratorVars

(***************************************************************************)
(* What follows from it.                                                   *)
(***************************************************************************)

\* _currentTokens is the number of threads that hold the phase, always.
THEOREM TokensConserved == Spec => []TokenConservation
BY Invariance, PTL DEF IInv

\* No two actors run their code for different phases at the same time.
THEOREM PhasesExclude == Spec => []PhaseExclusion
BY Invariance, PTL DEF IInv

\* The asserts of awaitPhaseStart and awaitPhaseEnd never fail.
THEOREM AssertsNeverFail == Spec => []AssertionsHold
<1>1. IInv => AssertionsHold
  BY DEF IInv, TypeOK, OrchestratorTypeOK, State, PhaseInv, BetweenPhases, DuringPhase,
         InLoop, AssertionsHold
<1>2. QED
  BY <1>1, Invariance, PTL

(***************************************************************************)
(* No wakeup at _phaseChange is lost, the phase hooks run in order, the    *)
(* actors complete their phases in lock step, and a run that reports       *)
(* kSuccess is complete.                                                   *)
(***************************************************************************)

\* After a notify_all nobody waits.
LEMMA NobodyWaits ==
  ASSUME TypeOK, waiting' = NotifyAll
  PROVE  NoLostWakeup'
<1>1. \A t \in Threads : waiting'[t] # "waiting"
  BY DEF NotifyAll
<1>2. QED
  BY <1>1 DEF NoLostWakeup

\* A step that changes what one thread waits for leaves the others alone.
LEMMA OthersWait ==
  ASSUME TypeOK, NoLostWakeup, NEW t \in Threads,
         \A u \in Threads \ {t} : pc'[u] = pc[u] /\ inPhase'[u] = inPhase[u] /\ waiting'[u] = waiting[u],
         UNCHANGED <<current, state, errors>>,
         waiting'[t] = "waiting" =>
           \/ pc'[t] = "awaitStart" /\ WaitsForStart(TRUE)
           \/ pc'[t] = "ending" /\ WaitsForEnd(TRUE)
           \/ pc'[t] = "asleep" /\ SleepsOn(inPhase'[t])
  PROVE  NoLostWakeup'
BY DEF NoLostWakeup, WaitsForStart, WaitsForEnd, SleepsOn

LEMMA ActorNoLostWakeup ==
  ASSUME TypeOK, NoLostWakeup, NEW t \in Threads, ActorStep(t) \/ TimePasses(t)
  PROVE  NoLostWakeup'
<1> USE DEF TypeOK, LoopTypeOK, OrchestratorTypeOK
<1>w. waiting[t] = "waiting" => pc[t] \in {"awaitStart", "ending", "asleep"}
  BY DEF NoLostWakeup
<1>1. CASE CallAwaitPhaseStart(t)
  <2>1. CASE waiting' = NotifyAll
    BY <2>1, NobodyWaits
  <2>2. CASE waiting' # NotifyAll
    <3>1. /\ \A u \in Threads \ {t} : pc'[u] = pc[u] /\ inPhase'[u] = inPhase[u] /\ waiting'[u] = waiting[u]
          /\ UNCHANGED <<current, state, errors>>
          /\ waiting'[t] = "waiting" => pc'[t] = "awaitStart" /\ WaitsForStart(TRUE)
      BY <1>1, <1>w, <2>2, ArriveEffect DEF WaitsForStart
    <3>2. QED
      BY <3>1, OthersWait
  <2>3. QED
    BY <2>1, <2>2
<1>2. CASE CallAwaitPhaseEnd(t)
  <2>1. CASE waiting' = NotifyAll
    BY <2>1, NobodyWaits
  <2>2. CASE waiting' # NotifyAll
    <3>1. /\ \A u \in Threads \ {t} : pc'[u] = pc[u] /\ inPhase'[u] = inPhase[u] /\ waiting'[u] = waiting[u]
          /\ UNCHANGED <<current, state, errors>>
          /\ waiting'[t] = "waiting" => pc'[t] = "ending" /\ WaitsForEnd(TRUE)
      BY <1>2, <1>w, <2>2, LeaveEffect DEF WaitsForEnd
    <3>2. QED
      BY <3>1, OthersWait
  <2>3. QED
    BY <2>1, <2>2
<1>3. CASE EnterInBackground(t)
  <2>1. CASE waiting' = NotifyAll
    BY <2>1, NobodyWaits
  <2>2. CASE waiting' # NotifyAll
    <3>1. /\ \A u \in Threads \ {t} : pc'[u] = pc[u] /\ inPhase'[u] = inPhase[u] /\ waiting'[u] = waiting[u]
          /\ UNCHANGED <<current, state, errors>>
          /\ waiting'[t] # "waiting"
      BY <1>3, <1>w, <2>2, BackgroundEffect
    <3>2. QED
      BY <3>1, OthersWait
  <2>3. QED
    BY <2>1, <2>2
<1>4. CASE GuardAborts(t)
  BY <1>4, NobodyWaits DEF GuardAborts, abort
<1>5. CASE \/ CheckMorePhases(t) \/ EnterBlocking(t) \/ PhaseNotFound(t) \/ RecordPhase(t)
           \/ DoNotSleep(t) \/ TestInnerLoop(t) \/ Iterate(t) \/ BodyThrows(t)
           \/ LeaveInBackground(t) \/ CatchException(t)
  <2>1. /\ \A u \in Threads \ {t} : pc'[u] = pc[u] /\ inPhase'[u] = inPhase[u] /\ waiting'[u] = waiting[u]
        /\ UNCHANGED <<current, state, errors>>
        /\ pc[t] \notin {"awaitStart", "ending", "asleep"}
        /\ waiting' = waiting
    BY <1>5 DEF CheckMorePhases, EnterBlocking, PhaseNotFound, RecordPhase, DoNotSleep, TestInnerLoop,
       Iterate, BodyThrows, LeaveInBackground, CatchException, BeginInnerLoop, Goto, orchestratorVars
  <2>2. QED
    BY <1>w, <2>1, OthersWait
<1>6. CASE WakeInAwaitPhaseStart(t) \/ WakeInAwaitPhaseEnd(t) \/ SleepToPhaseEnd(t) \/ WakeFromSleep(t)
  <2>1. /\ \A u \in Threads \ {t} : pc'[u] = pc[u] /\ inPhase'[u] = inPhase[u] /\ waiting'[u] = waiting[u]
        /\ UNCHANGED <<current, state, errors>>
        /\ waiting'[t] = "waiting" =>
             \/ pc'[t] = "awaitStart" /\ WaitsForStart(TRUE)
             \/ pc'[t] = "ending" /\ WaitsForEnd(TRUE)
             \/ pc'[t] = "asleep" /\ SleepsOn(inPhase'[t])
    BY <1>6, <1>w DEF WakeInAwaitPhaseStart, WakeInAwaitPhaseEnd, SleepToPhaseEnd, WakeFromSleep,
       AwaitPhaseStartWakes, AwaitPhaseEndWakes, SleepBegins, SleepWakes, SleepTimesOut,
       WaitAgain, WaitAt, Resume, Goto
  <2>2. QED
    BY <2>1, OthersWait
<1>7. CASE TimePasses(t)
  BY <1>7, OthersWait DEF TimePasses, DurationElapses, orchestratorVars, NoLostWakeup
<1>8. QED
  BY <1>1, <1>2, <1>3, <1>4, <1>5, <1>6, <1>7 DEF ActorStep, RunPhaseLoop, PhaseLoopStep

LEMMA MainNoLostWakeup ==
  ASSUME TypeOK, NoLostWakeup, MainStep
  PROVE  NoLostWakeup'
<1> USE DEF TypeOK, LoopTypeOK, OrchestratorTypeOK
<1>1. UNCHANGED <<current, state, errors, inPhase, waiting>>
  BY Zenon DEF MainStep, ListActors, NoWorkloadSource, LoadYaml, SetupThrows, DryRun,
     WorkloadConstructed, AllSpawned, JoinThreads, Return, ConstructActor, SpawnThread,
     RequireTokens, addRequiredTokens, phasesAtLeastTo, orchestratorVars, loopVars
<1>2. \A u \in Threads : pc'[u] = pc[u] \/ pc[u] \in {"unbuilt", "built"}
  BY DEF MainStep, ListActors, NoWorkloadSource, LoadYaml, SetupThrows, DryRun,
     WorkloadConstructed, AllSpawned, JoinThreads, Return, ConstructActor, SpawnThread,
     RequireTokens, loopVars, Goto
<1>3. QED
  BY <1>1, <1>2 DEF NoLostWakeup, WaitsForStart, WaitsForEnd, SleepsOn

\* Nobody waits at _phaseChange for something that has already happened,
\* unless it has been notified: every change to what a waiter looks at is
\* followed by a notification in the same critical section.
THEOREM NoWakeupLost == Spec => []NoLostWakeup
<1>1. Init => NoLostWakeup
  BY DEF Init, OrchestratorInit, NoLostWakeup
<1>2. TypeOK /\ NoLostWakeup /\ [Next]_vars => NoLostWakeup'
  <2> SUFFICES ASSUME TypeOK, NoLostWakeup, [Next]_vars PROVE NoLostWakeup'
    OBVIOUS
  <2>1. CASE UNCHANGED vars
    BY <2>1 DEF vars, orchestratorVars, loopVars, NoLostWakeup, WaitsForStart, WaitsForEnd, SleepsOn
  <2>2. QED
    BY <2>1, ActorNoLostWakeup, MainNoLostWakeup DEF Next, Terminated
<1>3. QED
  BY <1>1, <1>2, TypeCorrect, PTL DEF Spec

(***************************************************************************)
(* The hooks.                                                              *)
(***************************************************************************)

\* The entry the hooks leave at place i while nothing has failed.
Expected(i) == IF i % 2 = 1 THEN <<"pre", (i - 1) \div 2>> ELSE <<"post", (i - 1) \div 2>>

LEMMA ExpectedAt ==
  ASSUME NEW n \in Nat
  PROVE  /\ Expected(2 * n + 1) = <<"pre", n>>
         /\ Expected(2 * n + 2) = <<"post", n>>
<1>1. (2 * n + 1) % 2 = 1 /\ (2 * n + 1 - 1) \div 2 = n
  OBVIOUS
<1>2. (2 * n + 2) % 2 = 0 /\ (2 * n + 2 - 1) \div 2 = n
  OBVIOUS
<1>3. QED
  BY <1>1, <1>2 DEF Expected

\* Only the start and the end of a phase run hooks.
LEMMA HookEffect ==
  ASSUME IInv, HooksInOrder, [Next]_vars, ~errors'
  PROVE  \/ UNCHANGED <<hookLog, current, state>>
         \/ /\ state = "PhaseEnded" /\ state' = "PhaseStarted" /\ current' = current
            /\ hookLog' = Append(hookLog, <<"pre", current>>)
         \/ /\ state = "PhaseStarted" /\ state' = "PhaseEnded" /\ current' = current + 1
            /\ hookLog' = Append(hookLog, <<"post", current>>)
<1>1. ASSUME NEW t \in Threads, CallAwaitPhaseStart(t)
      PROVE  \/ UNCHANGED <<hookLog, current, state>>
             \/ /\ state = "PhaseEnded" /\ state' = "PhaseStarted" /\ current' = current
                /\ hookLog' = Append(hookLog, <<"pre", current>>)
  <2>1. pc[t] = "start" /\ ~errors
    BY <1>1, ArriveEffect
  <2>2. state = "PhaseEnded"
    BY <2>1 DEF IInv, TypeOK, OrchestratorTypeOK, PhaseInv, DuringPhase, InLoop, State
  <2>3. QED
    BY <1>1, <2>2, Zenon DEF CallAwaitPhaseStart, StartsPhase, JoinsPhase
<1>2. ASSUME NEW t \in Threads, CallAwaitPhaseEnd(t) \/ EnterInBackground(t)
      PROVE  \/ UNCHANGED <<hookLog, current, state>>
             \/ /\ state = "PhaseStarted" /\ state' = "PhaseEnded" /\ current' = current + 1
                /\ hookLog' = Append(hookLog, <<"post", current>>)
  <2>1. /\ ~errors
        /\ \/ pc[t] = "plusplus" /\ doesBlockOn(t, inPhase[t])
           \/ pc[t] = "started"
    BY <1>2, LeaveEffect, BackgroundEffect
  <2>2. state = "PhaseStarted"
    BY <2>1 DEF IInv, TypeOK, OrchestratorTypeOK, PhaseInv, BetweenPhases, InLoop, State
  <2>3. QED
    BY <1>2, <2>2, Zenon DEF CallAwaitPhaseEnd, EnterInBackground, EndsPhase, LeavesPhase
<1>3. ASSUME NEW t \in Threads, QuietStep(t)
      PROVE  UNCHANGED <<hookLog, current, state>>
  BY <1>3, Zenon DEF QuietStep, CheckMorePhases, WakeInAwaitPhaseStart, EnterBlocking,
     PhaseNotFound, RecordPhase, DoNotSleep, SleepToPhaseEnd, WakeFromSleep, TestInnerLoop,
     Iterate, BodyThrows, LeaveInBackground, WakeInAwaitPhaseEnd, CatchException, GuardAborts,
     AwaitPhaseStartWakes, AwaitPhaseEndWakes, SleepBegins, SleepWakes, SleepTimesOut, abort,
     orchestratorVars
<1>4. MainStep => UNCHANGED <<hookLog, current, state>>
  BY Zenon DEF MainStep, ListActors, NoWorkloadSource, LoadYaml, SetupThrows, DryRun,
     WorkloadConstructed, AllSpawned, JoinThreads, Return, ConstructActor, SpawnThread,
     RequireTokens, addRequiredTokens, phasesAtLeastTo, orchestratorVars, loopVars
<1>5. ASSUME NEW t \in Threads, TimePasses(t)
      PROVE  UNCHANGED <<hookLog, current, state>>
  BY <1>5, Zenon DEF TimePasses, DurationElapses, orchestratorVars
<1>6. UNCHANGED vars => UNCHANGED <<hookLog, current, state>>
  BY Zenon DEF vars, orchestratorVars
<1>7. QED
  BY <1>1, <1>2, <1>3, <1>4, <1>5, <1>6
     DEF Next, ActorStep, RunPhaseLoop, PhaseLoopStep, QuietStep, Terminated

\* As long as nobody aborts, the hooks run for phases 0, 1, 2 ..., each first
\* at its start and then at its end, for any number of actors.
THEOREM HooksAreInOrder == Spec => []HooksInOrder
<1>1. Init => HooksInOrder
  BY EmptySeq DEF Init, OrchestratorInit, HooksInOrder
<1>2. IInv /\ IInv' /\ HooksInOrder /\ [Next]_vars => HooksInOrder'
  <2> SUFFICES ASSUME IInv, HooksInOrder, [Next]_vars, ~errors'
               PROVE  HooksInOrder'
    BY DEF HooksInOrder
  <2>t. hookLog \in Seq(HookCall) /\ current \in Nat
    BY DEF IInv, TypeOK, OrchestratorTypeOK
  <2>h. /\ Len(hookLog) = 2 * current + (IF state = "PhaseStarted" THEN 1 ELSE 0)
        /\ \A i \in 1..Len(hookLog) : hookLog[i] = Expected(i)
    BY AbortIsFinal DEF HooksInOrder, Expected
  <2> SUFFICES /\ Len(hookLog') = 2 * current' + (IF state' = "PhaseStarted" THEN 1 ELSE 0)
               /\ \A i \in 1..Len(hookLog') : hookLog'[i] = Expected(i)
    BY DEF HooksInOrder, Expected
  <2>1. CASE UNCHANGED <<hookLog, current, state>>
    BY <2>1, <2>h
  <2>2. ASSUME NEW kind \in {"pre", "post"},
               hookLog' = Append(hookLog, <<kind, current>>),
               <<kind, current>> = Expected(Len(hookLog) + 1)
        PROVE  /\ Len(hookLog') = Len(hookLog) + 1
               /\ \A i \in 1..Len(hookLog') : hookLog'[i] = Expected(i)
    <3>1. <<kind, current>> \in HookCall
      BY <2>t DEF HookCall
    <3>2. /\ Len(hookLog') = Len(hookLog) + 1
          /\ \A i \in 1..Len(hookLog) : hookLog'[i] = hookLog[i]
          /\ hookLog'[Len(hookLog) + 1] = <<kind, current>>
      BY <2>2, <2>t, <3>1, AppendProperties
    <3>3. Len(hookLog) \in Nat
      BY <2>t, LenProperties
    <3>4. QED
      BY <2>2, <2>h, <3>2, <3>3
  <2>3. CASE /\ state = "PhaseEnded" /\ state' = "PhaseStarted" /\ current' = current
             /\ hookLog' = Append(hookLog, <<"pre", current>>)
    <3>1. Len(hookLog) + 1 = 2 * current + 1
      BY <2>3, <2>h, <2>t
    <3>2. <<"pre", current>> = Expected(Len(hookLog) + 1)
      BY <3>1, <2>t, ExpectedAt
    <3>3. QED
      BY <2>2, <2>3, <2>t, <3>1, <3>2
  <2>4. CASE /\ state = "PhaseStarted" /\ state' = "PhaseEnded" /\ current' = current + 1
             /\ hookLog' = Append(hookLog, <<"post", current>>)
    <3>1. Len(hookLog) + 1 = 2 * current + 2
      BY <2>4, <2>h, <2>t
    <3>2. <<"post", current>> = Expected(Len(hookLog) + 1)
      BY <3>1, <2>t, ExpectedAt
    <3>3. QED
      BY <2>2, <2>4, <2>t, <3>1, <3>2
  <2>5. QED
    BY <2>1, <2>3, <2>4, HookEffect
<1>3. QED
  BY <1>1, <1>2, Invariance, PTL DEF Spec

(***************************************************************************)
(* The phases of all actors in lock step.                                  *)
(***************************************************************************)

\* The phases before p that u holds open are behind it.
DoneBefore(u, p) ==
  \A q \in DOMAIN plan[u] : q < p /\ doesBlockOn(u, q) => q \in completed[u]

\* While nobody aborted: what the Orchestrator went past was completed, by a
\* thread that waits for the phase to end too.
NothingSkipped ==
  ~errors => \A u \in Threads :
    /\ DoneBefore(u, current)
    /\ pc[u] = "plusplus" /\ inPhase[u] \in DOMAIN plan[u] => inPhase[u] \in completed[u]
    /\ pc[u] = "ending" /\ state = "PhaseStarted" => DoneBefore(u, current + 1)

LockInv == PhasesInLockStep /\ NothingSkipped

\* Nothing that was completed is forgotten.
LEMMA DoneStays ==
  ASSUME UNCHANGED plan, NEW u \in Threads, completed[u] \subseteq completed'[u],
         NEW p, DoneBefore(u, p)
  PROVE  DoneBefore(u, p)'
BY DEF DoneBefore, doesBlockOn

\* A step that completes nothing and keeps the phase.
LEMMA LockKept ==
  ASSUME LockInv, UNCHANGED <<plan, completed, current>>,
         NothingSkipped'
  PROVE  LockInv'
BY DEF LockInv, PhasesInLockStep, doesBlockOn

\* Where it matters the threads are where they were.
LEMMA NothingSkippedKept ==
  ASSUME NothingSkipped, UNCHANGED <<plan, completed, current, inPhase>>, errors => errors',
         \A u \in Threads :
           /\ pc'[u] = "plusplus" => pc[u] = "plusplus" \/ inPhase[u] \notin DOMAIN plan[u]
           /\ ~errors' /\ pc'[u] = "ending" /\ state' = "PhaseStarted"
                => pc[u] = "ending" /\ state = "PhaseStarted"
  PROVE  NothingSkipped'
BY DEF NothingSkipped, DoneBefore, doesBlockOn

LEMMA MainLock ==
  ASSUME IInv, LockInv, MainStep
  PROVE  LockInv'
<1> USE DEF IInv, TypeOK, LoopTypeOK
<1>1. UNCHANGED <<plan, completed, current, state, errors, inPhase>>
  BY Zenon DEF MainStep, ListActors, NoWorkloadSource, LoadYaml, SetupThrows, DryRun,
     WorkloadConstructed, AllSpawned, JoinThreads, Return, ConstructActor, SpawnThread,
     RequireTokens, addRequiredTokens, phasesAtLeastTo, orchestratorVars, loopVars
<1>2. \A u \in Threads : pc'[u] = pc[u] \/ pc'[u] \in {"built", "check"}
  BY DEF MainStep, ListActors, NoWorkloadSource, LoadYaml, SetupThrows, DryRun,
     WorkloadConstructed, AllSpawned, JoinThreads, Return, ConstructActor, SpawnThread,
     RequireTokens, loopVars, Goto
<1>3. NothingSkipped'
  BY <1>1, <1>2, NothingSkippedKept DEF LockInv
<1> QED
  BY <1>1, <1>3, LockKept

\* A phase begins when everybody waits for it, and so nobody for the last one.
LEMMA ArriveLock ==
  ASSUME IInv, LockInv, NEW t \in Threads, CallAwaitPhaseStart(t)
  PROVE  LockInv'
<1> USE DEF IInv, TypeOK, LoopTypeOK, OrchestratorTypeOK
<1>e. /\ pc[t] = "start" /\ UNCHANGED <<plan, requireTokens, current, errors>>
      /\ \A u \in Threads \ {t} : pc'[u] = pc[u] /\ inPhase'[u] = inPhase[u]
      /\ pc'[t] \in {"started", "awaitStart"}
  BY ArriveEffect
<1>c. UNCHANGED completed
  BY DEF CallAwaitPhaseStart
<1>1. ASSUME ~errors, state' = "PhaseStarted", NEW u \in Threads
      PROVE  pc'[u] # "ending"
  <2>1. state = "PhaseEnded"
    BY <1>e, <1>1 DEF PhaseInv, DuringPhase, InLoop, State
  <2>2. currentTokens + 1 >= requireTokens
    BY <1>1, <2>1, ArriveEffect
  <2>3. u # t => Holds(u)
    BY <1>e, <2>2, ActorRuns, AllArrived DEF Holds, InLoop
  <2> QED
    BY <1>e, <2>3 DEF Holds, InLoop
<1>2. NothingSkipped'
  BY <1>e, <1>c, <1>1 DEF LockInv, NothingSkipped, DoneBefore, doesBlockOn
<1> QED
  BY <1>e, <1>c, <1>2, LockKept

\* Who waits for the end of a phase, holds it no more, or is about to leave it
\* is through with it.
LEMMA DoneThrough ==
  ASSUME IInv, LockInv, ~errors, NEW u \in Threads,
         \/ pc[u] = "ending" /\ state = "PhaseStarted"
         \/ ~doesBlockOn(u, current)
         \/ pc[u] = "plusplus" /\ inPhase[u] = current
  PROVE  DoneBefore(u, current + 1)
<1>1. CASE pc[u] = "ending" /\ state = "PhaseStarted"
  BY <1>1 DEF LockInv, NothingSkipped
<1>2. CASE ~doesBlockOn(u, current) \/ (pc[u] = "plusplus" /\ inPhase[u] = current)
  <2> SUFFICES ASSUME NEW q \in DOMAIN plan[u], q < current + 1, doesBlockOn(u, q)
               PROVE  q \in completed[u]
    BY DEF DoneBefore
  <2>1. q \in Nat /\ current \in Nat
    BY PlansAssumption DEF IInv, TypeOK, LoopTypeOK, OrchestratorTypeOK
  <2>2. CASE q = current
    BY <1>2, <2>2 DEF LockInv, NothingSkipped
  <2>3. CASE q # current
    <3>1. q < current
      BY <2>1, <2>3
    <3> QED
      BY <3>1 DEF LockInv, NothingSkipped, DoneBefore
  <2> QED
    BY <2>2, <2>3
<1> QED
  BY <1>1, <1>2

\* The phase ends when the last thread that holds it is through with it.
LEMMA LeaveLock ==
  ASSUME IInv, LockInv, NEW t \in Threads, CallAwaitPhaseEnd(t) \/ EnterInBackground(t)
  PROVE  LockInv'
<1> USE DEF IInv, TypeOK, LoopTypeOK, OrchestratorTypeOK
<1>e. /\ UNCHANGED <<plan, inPhase, errors>>
      /\ \/ pc[t] = "plusplus" /\ doesBlockOn(t, inPhase[t])
         \/ pc[t] = "started" /\ ~doesBlockOn(t, inPhase[t])
      /\ \A u \in Threads \ {t} : pc'[u] = pc[u]
      /\ pc'[t] \in {"check", "ending", "loop"}
      /\ pc'[t] = "ending" => pc[t] = "plusplus"
      /\ \/ currentTokens - 1 <= 0 /\ state' = "PhaseEnded" /\ current' = current + 1
         \/ UNCHANGED <<state, current>>
  BY LeaveEffect, BackgroundEffect
<1>c. UNCHANGED completed
  BY DEF CallAwaitPhaseEnd, EnterInBackground, BeginInnerLoop
<1>h. Holds(t)
  BY <1>e DEF Holds, InLoop
<1>s. ~errors => state = "PhaseStarted" /\ inPhase[t] = current
  BY <1>e DEF PhaseInv, BetweenPhases, DuringPhase, InLoop, State
<1>d. \A u \in Threads, p \in Nat : DoneBefore(u, p) => DoneBefore(u, p)'
  BY <1>e, <1>c DEF DoneBefore, doesBlockOn
<1>1. CASE UNCHANGED <<state, current>>
  <2>1. ASSUME ~errors, pc'[t] = "ending"
        PROVE  DoneBefore(t, current + 1)
    BY <1>e, <1>s, <2>1, DoneThrough
  <2>2. NothingSkipped'
    <3> SUFFICES ASSUME ~errors, NEW u \in Threads
                 PROVE  /\ DoneBefore(u, current)'
                        /\ (pc[u] = "plusplus" /\ inPhase[u] \in DOMAIN plan[u] => inPhase[u] \in completed[u])'
                        /\ (pc[u] = "ending" /\ state = "PhaseStarted" => DoneBefore(u, current + 1))'
      BY <1>e DEF NothingSkipped
    <3>1. DoneBefore(u, current)'
      BY <1>d, <1>1, <1>e, <1>c DEF LockInv, NothingSkipped, DoneBefore, doesBlockOn
    <3>2. (pc[u] = "plusplus" /\ inPhase[u] \in DOMAIN plan[u] => inPhase[u] \in completed[u])'
      BY <1>e, <1>c DEF LockInv, NothingSkipped
    <3>3. ASSUME pc'[u] = "ending", state' = "PhaseStarted" PROVE DoneBefore(u, current + 1)
      <4>1. CASE u = t
        BY <2>1, <3>3, <4>1
      <4>2. CASE u # t
        BY <1>e, <1>1, <3>3, <4>2 DEF LockInv, NothingSkipped
      <4> QED
        BY <4>1, <4>2
    <3>4. DoneBefore(u, current + 1) => DoneBefore(u, current + 1)'
      BY <1>1, <1>e, <1>c DEF DoneBefore, doesBlockOn
    <3> QED
      BY <3>1, <3>2, <3>3, <3>4
  <2> QED
    BY <1>e, <1>c, <1>1, <2>2, LockKept
<1>2. CASE currentTokens - 1 <= 0 /\ state' = "PhaseEnded" /\ current' = current + 1
  <2>1. ASSUME ~errors, NEW u \in Threads
        PROVE  DoneBefore(u, current + 1)
    <3>1. CASE u = t
      BY <1>e, <1>s, <2>1, <3>1, DoneThrough
    <3>2. CASE u # t
      <4>1. ~Holds(u)
        BY <1>h, <1>2, <3>2, AllLeft
      <4>2. DuringPhase(u) /\ pc[u] \notin {"exited", "crashed"}
        BY <1>s, <2>1 DEF PhaseInv
      <4>3. pc[u] = "ending" \/ ~doesBlockOn(u, current)
        BY <4>1, <4>2 DEF DuringPhase, Holds, InLoop
      <4> QED
        BY <1>s, <2>1, <4>3, DoneThrough
    <3> QED
      BY <3>1, <3>2
  <2>2. NothingSkipped'
    <3> SUFFICES ASSUME ~errors, NEW u \in Threads
                 PROVE  /\ DoneBefore(u, current)'
                        /\ (pc[u] = "plusplus" /\ inPhase[u] \in DOMAIN plan[u] => inPhase[u] \in completed[u])'
      BY <1>e, <1>2 DEF NothingSkipped
    <3>1. DoneBefore(u, current)'
      BY <1>2, <1>e, <1>c, <2>1 DEF DoneBefore, doesBlockOn
    <3>2. (pc[u] = "plusplus" /\ inPhase[u] \in DOMAIN plan[u] => inPhase[u] \in completed[u])'
      BY <1>e, <1>c DEF LockInv, NothingSkipped
    <3> QED
      BY <3>1, <3>2
  <2>3. PhasesInLockStep'
    <3> SUFFICES ASSUME NEW v \in Threads, NEW p \in completed[v]
                 PROVE  /\ p <= current + 1
                        /\ \A u \in Threads : \A q \in DOMAIN plan[u] :
                             q < p /\ doesBlockOn(u, q) => q \in completed[u]
      BY <1>e, <1>c, <1>2 DEF PhasesInLockStep, doesBlockOn
    <3>1. p \in Nat /\ p <= current
      BY DEF LockInv, PhasesInLockStep
    <3> QED
      BY <3>1 DEF LockInv, PhasesInLockStep
  <2> QED
    BY <2>2, <2>3 DEF LockInv
<1> QED
  BY <1>e, <1>1, <1>2

\* A thread completes a phase only if nobody aborted, and then all others are
\* through with the phases before.
LEMMA TestLock ==
  ASSUME IInv, LockInv, NEW t \in Threads, TestInnerLoop(t)
  PROVE  LockInv'
<1> USE DEF IInv, TypeOK, LoopTypeOK, OrchestratorTypeOK
<1>e. /\ pc[t] = "test" /\ UNCHANGED <<plan, inPhase, current, state, errors>>
      /\ \A u \in Threads \ {t} : pc'[u] = pc[u]
      /\ pc'[t] \in {"plusplus", "body"}
  BY DEF TestInnerLoop, Goto, orchestratorVars
<1>c. /\ \A u \in Threads : completed[u] \subseteq completed'[u]
      /\ \A u \in Threads : \A p \in completed'[u] :
           p \in completed[u] \/ (u = t /\ p = inPhase[t] /\ ~errors)
      /\ ~errors /\ pc'[t] = "plusplus" => inPhase[t] \in completed'[t]
  BY DEF TestInnerLoop, Goto, continueRunning
<1>d. ASSUME NEW u \in Threads, NEW p, DoneBefore(u, p)
      PROVE  DoneBefore(u, p)'
  BY <1>e, <1>c, <1>d, DoneStays
<1>i. ~errors => inPhase[t] <= current /\ inPhase[t] \in Nat /\ current \in Nat
  BY <1>e DEF PhaseInv, BetweenPhases, DuringPhase, InLoop, State
<1>1. PhasesInLockStep'
  <2> SUFFICES ASSUME NEW v \in Threads, NEW p \in completed'[v]
               PROVE  p <= current /\ \A u \in Threads : DoneBefore(u, p)'
    BY <1>e DEF PhasesInLockStep, DoneBefore, doesBlockOn
  <2>1. CASE p \in completed[v]
    BY <1>d, <2>1 DEF LockInv, PhasesInLockStep, DoneBefore
  <2>2. CASE p = inPhase[t] /\ ~errors
    <3>1. p <= current /\ p \in Nat /\ current \in Nat
      BY <1>i, <2>2
    <3>2. ASSUME NEW u \in Threads PROVE DoneBefore(u, p)
      <4>1. DoneBefore(u, current) /\ DOMAIN plan[u] \subseteq Nat
        BY <2>2, PlansAssumption DEF LockInv, NothingSkipped
      <4> QED
        BY <3>1, <4>1 DEF DoneBefore
    <3> QED
      BY <1>d, <3>1, <3>2
  <2> QED
    BY <1>c, <2>1, <2>2
<1>2. NothingSkipped'
  <2> SUFFICES ASSUME ~errors, NEW u \in Threads
               PROVE  /\ DoneBefore(u, current)'
                      /\ (pc[u] = "plusplus" /\ inPhase[u] \in DOMAIN plan[u] => inPhase[u] \in completed[u])'
                      /\ (pc[u] = "ending" /\ state = "PhaseStarted" => DoneBefore(u, current + 1))'
    BY <1>e DEF NothingSkipped
  <2>n. PICK n \in Nat : n = current /\ n = current'
    BY <1>e
  <2>1. DoneBefore(u, current)'
    <3>1. DoneBefore(u, n)
      BY <2>n DEF LockInv, NothingSkipped
    <3>2. DoneBefore(u, n)'
      BY <1>d, <3>1
    <3> QED
      BY <2>n, <3>2 DEF DoneBefore
  <2>2. (pc[u] = "plusplus" /\ inPhase[u] \in DOMAIN plan[u] => inPhase[u] \in completed[u])'
    BY <1>e, <1>c DEF LockInv, NothingSkipped
  <2>3. ASSUME pc'[u] = "ending", state' = "PhaseStarted" PROVE DoneBefore(u, current + 1)'
    <3>1. DoneBefore(u, n + 1)
      BY <1>e, <2>n, <2>3 DEF LockInv, NothingSkipped
    <3>2. DoneBefore(u, n + 1)'
      BY <1>d, <3>1
    <3> QED
      BY <2>n, <3>2 DEF DoneBefore
  <2> QED
    BY <2>1, <2>2, <2>3
<1> QED
  BY <1>1, <1>2 DEF LockInv

\* The other steps move no phase on and complete nothing.
LEMMA QuietLock ==
  ASSUME IInv, LockInv, NEW t \in Threads, QuietStep(t), ~TestInnerLoop(t)
  PROVE  LockInv'
<1> USE DEF IInv, TypeOK, LoopTypeOK, OrchestratorTypeOK
<1>e. /\ UNCHANGED <<plan, inPhase, current, state>>
      /\ \A u \in Threads \ {t} : pc'[u] = pc[u]
  BY QuietEffect
<1>c. UNCHANGED completed /\ (errors => errors')
  BY Zenon DEF QuietStep, CheckMorePhases, WakeInAwaitPhaseStart, EnterBlocking,
     PhaseNotFound, RecordPhase, DoNotSleep, SleepToPhaseEnd, WakeFromSleep,
     BeginInnerLoop, Iterate, BodyThrows, LeaveInBackground, WakeInAwaitPhaseEnd, CatchException,
     GuardAborts, AwaitPhaseStartWakes, AwaitPhaseEndWakes, SleepBegins, SleepWakes, SleepTimesOut,
     abort, orchestratorVars
<1>p. /\ pc'[t] = "plusplus" => t \in Recorders
      /\ pc'[t] = "ending" => pc[t] = "ending"
  BY DEF QuietStep, CheckMorePhases, WakeInAwaitPhaseStart, EnterBlocking,
     PhaseNotFound, RecordPhase, DoNotSleep, SleepToPhaseEnd, WakeFromSleep,
     BeginInnerLoop, Iterate, BodyThrows, LeaveInBackground, WakeInAwaitPhaseEnd, CatchException,
     GuardAborts, Goto
<1>r. t \in Recorders => DOMAIN plan[t] = {}
  BY PlansAssumption, RecordersAssumption
<1>1. NothingSkipped'
  BY <1>e, <1>c, <1>p, <1>r, NothingSkippedKept DEF LockInv
<1> QED
  BY <1>e, <1>c, <1>1, LockKept

LEMMA LockAlways == Spec => []LockInv
<1>1. Init => LockInv
  BY PlansAssumption DEF Init, OrchestratorInit, LoopInit, LockInv, PhasesInLockStep, NothingSkipped, DoneBefore
<1>2. IInv /\ LockInv /\ [Next]_vars => LockInv'
  <2> SUFFICES ASSUME IInv, LockInv, [Next]_vars PROVE LockInv'
    OBVIOUS
  <2>1. CASE MainStep
    BY <2>1, MainLock
  <2>2. ASSUME NEW t \in Threads, ActorStep(t)
        PROVE  LockInv'
    BY <2>2, ArriveLock, LeaveLock, TestLock, QuietLock
       DEF ActorStep, RunPhaseLoop, PhaseLoopStep, QuietStep
  <2>3. ASSUME UNCHANGED <<plan, completed, current, inPhase, pc, errors, state>>
        PROVE  LockInv'
    BY <2>3 DEF LockInv, PhasesInLockStep, NothingSkipped, DoneBefore, doesBlockOn
  <2>4. ASSUME NEW t \in Threads, TimePasses(t)
        PROVE  LockInv'
    BY <2>3, <2>4 DEF TimePasses, DurationElapses, orchestratorVars
  <2>5. CASE UNCHANGED vars
    BY <2>3, <2>5 DEF vars, orchestratorVars, loopVars
  <2> QED
    BY <2>1, <2>2, <2>4, <2>5 DEF Next, Terminated
<1> QED
  BY <1>1, <1>2, Invariance, PTL DEF Spec

\* PhasesInLockStep: whatever the actors' phase maps, an actor is done with a
\* phase only after every actor that holds an earlier one open is done with it.
THEOREM PhasesAreInLockStep == Spec => []PhasesInLockStep
<1>1. LockInv => PhasesInLockStep
  BY DEF LockInv
<1> QED
  BY <1>1, LockAlways, PTL

(***************************************************************************)
(* What kSuccess means.                                                    *)
(***************************************************************************)

\* A thread has thrown from the moment it says so, and the outcome tells.
OutcomeTold ==
  \A t \in Threads :
    /\ thrown[t] # "none" <=> pc[t] \in {"threw", "unwinding", "crashed"}
    /\ thrown[t] \in {"boost", "std"} /\ pc[t] \in {"unwinding", "crashed"}
         => outcomeCode # "kSuccess"

\* Every actor that ran a phase to its end has that phase: one that lacks it
\* throws and never gives its token back.
PhasesKnown ==
  \A u \in Threads \ Recorders :
    /\ pc[u] \in InLoop => inPhase[u] \in DOMAIN plan[u]
    /\ ~errors => \A p \in 0..(current - 1) : p \in DOMAIN plan[u]
    /\ ~errors /\ pc[u] = "ending" /\ state = "PhaseStarted" => current \in DOMAIN plan[u]

\* The Orchestrator was told of as many phases as each actor has.
PhasesCounted ==
  \A u \in Threads : pc[u] # "unbuilt" /\ DOMAIN plan[u] # {} =>
    Cardinality(DOMAIN plan[u]) <= maxPhase + 1

\* All actors have completed the phases they hold open.
AllComplete ==
  \A u \in Threads : {p \in DOMAIN plan[u] : doesBlockOn(u, p)} \subseteq completed[u]

\* A thread returns without an abort only behind the last phase, and an abort
\* comes after a failure or after everything was done.
AbortReason ==
  /\ \A t \in Threads : pc[t] = "returned" /\ ~errors => current > maxPhase
  /\ errors => AllComplete \/ \E t \in Threads : thrown[t] # "none"

SuccessInv ==
  /\ OutcomeTold /\ PhasesKnown /\ PhasesCounted /\ AbortReason
  /\ mainPc # "returned" => result = "none"
  /\ SuccessMeansComplete

LEMMA SuccessInit == Init => SuccessInv
<1> SUFFICES ASSUME Init PROVE SuccessInv
  OBVIOUS
<1>1. OutcomeTold /\ PhasesCounted /\ AbortReason /\ SuccessMeansComplete
  BY DEF Init, OrchestratorInit, LoopInit, OutcomeTold, PhasesCounted, AbortReason, SuccessMeansComplete
<1>2. PhasesKnown
  BY DEF Init, OrchestratorInit, LoopInit, PhasesKnown, InLoop
<1> QED
  BY <1>1, <1>2 DEF Init, SuccessInv

\* Behind the last phase, an actor has no phases but those that are behind it:
\* it has all of these, and the Orchestrator was told of no fewer than it has.
LEMMA BehindTheLast ==
  ASSUME IInv, LockInv, SuccessInv, ~errors, current > maxPhase,
         \A u \in Threads : pc[u] # "unbuilt"
  PROVE  AllComplete
<1> SUFFICES ASSUME NEW u \in Threads
             PROVE  {p \in DOMAIN plan[u] : doesBlockOn(u, p)} \subseteq completed[u]
  BY DEF AllComplete
<1>1. CASE u \in Recorders
  <2>1. DOMAIN plan[u] = {}
    BY <1>1, PlansAssumption DEF IInv, TypeOK, LoopTypeOK
  <2> QED
    BY <2>1
<1>2. CASE u \notin Recorders
  <2>1. current \in Nat /\ maxPhase \in Nat
    BY DEF IInv, TypeOK, OrchestratorTypeOK
  <2>2. PICK n \in Nat : n = current
    BY <2>1
  <2>3. PICK phases : phases = DOMAIN plan[u]
    OBVIOUS
  <2>4. IsFiniteSet(phases) /\ Cardinality(phases) \in Nat
    BY <2>3, PlansAssumption, FS_CardinalityType DEF IInv, TypeOK, LoopTypeOK
  <2>5. 0..(n - 1) \subseteq phases
    BY <1>2, <2>2, <2>3 DEF SuccessInv, PhasesKnown
  <2>6. Cardinality(0..(n - 1)) = n
    BY FS_Interval
  <2>7. Cardinality(phases) <= n
    <3>1. CASE phases = {}
      BY <3>1, FS_EmptySet
    <3>2. CASE phases # {}
      BY <2>1, <2>2, <2>3, <2>4, <3>2 DEF SuccessInv, PhasesCounted
    <3> QED
      BY <3>1, <3>2
  <2>8. Cardinality(0..(n - 1)) <= Cardinality(phases)
    BY <2>4, <2>5, FS_Subset
  <2>9. Cardinality(0..(n - 1)) = Cardinality(phases)
    BY <2>4, <2>6, <2>7, <2>8
  <2>10. phases = 0..(n - 1)
    BY <2>4, <2>5, <2>9, FS_Subset
  <2>11. \A p \in DOMAIN plan[u] : p < current
    BY <2>2, <2>3, <2>10
  <2> QED
    BY <2>11 DEF LockInv, NothingSkipped, DoneBefore
<1> QED
  BY <1>1, <1>2

\* An actor's step says truly what was thrown.
LEMMA ActorOutcome ==
  ASSUME IInv, OutcomeTold, NEW t \in Threads, ActorStep(t)
  PROVE  OutcomeTold'
<1> USE DEF IInv, TypeOK, LoopTypeOK, DriverTypeOK
<1>1. CASE CallAwaitPhaseStart(t) \/ CallAwaitPhaseEnd(t) \/ EnterInBackground(t)
  <2>1. /\ pc[t] \in {"start", "plusplus", "started"}
        /\ pc'[t] \in {"started", "awaitStart", "check", "ending", "loop"}
        /\ \A u \in Threads \ {t} : pc'[u] = pc[u]
    BY <1>1, ArriveEffect, LeaveEffect, BackgroundEffect
  <2>2. UNCHANGED thrown
    BY <1>1 DEF CallAwaitPhaseStart, CallAwaitPhaseEnd, EnterInBackground, BeginInnerLoop
  <2>3. UNCHANGED outcomeCode
    BY <1>1, <2>1 DEF ActorStep, RunPhaseLoop, CatchException, GuardAborts
  <2> QED
    BY <2>1, <2>2, <2>3 DEF OutcomeTold
<1>2. CASE BodyThrows(t) \/ PhaseNotFound(t)
  <2>1. /\ pc[t] \in {"body", "started"} /\ pc'[t] = "threw" /\ thrown'[t] # "none"
        /\ \A u \in Threads \ {t} : pc'[u] = pc[u] /\ thrown'[u] = thrown[u]
    BY <1>2 DEF BodyThrows, PhaseNotFound, Goto, Exception
  <2>2. UNCHANGED outcomeCode
    BY <1>2, <2>1 DEF ActorStep, RunPhaseLoop, CatchException, GuardAborts
  <2> QED
    BY <2>1, <2>2 DEF OutcomeTold
<1>3. CASE CatchException(t)
  <2>1. /\ pc[t] = "threw" /\ pc'[t] = "unwinding" /\ UNCHANGED thrown
        /\ \A u \in Threads \ {t} : pc'[u] = pc[u]
    BY <1>3 DEF CatchException, Goto
  <2>2. /\ thrown[t] \in {"boost", "std"} => outcomeCode' # "kSuccess"
        /\ outcomeCode # "kSuccess" => outcomeCode' # "kSuccess"
    BY <1>3 DEF CatchException
  <2> QED
    BY <2>1, <2>2 DEF OutcomeTold
<1>4. CASE GuardAborts(t)
  <2>1. /\ \/ pc[t] = "returned" /\ pc'[t] = "exited"
           \/ pc[t] = "unwinding" /\ pc'[t] = "crashed"
        /\ UNCHANGED <<thrown, outcomeCode>>
        /\ \A u \in Threads \ {t} : pc'[u] = pc[u]
    BY <1>4 DEF GuardAborts, Goto
  <2> QED
    BY <2>1 DEF OutcomeTold
<1>5. CASE \/ CheckMorePhases(t) \/ WakeInAwaitPhaseStart(t) \/ EnterBlocking(t) \/ RecordPhase(t)
           \/ DoNotSleep(t) \/ SleepToPhaseEnd(t) \/ WakeFromSleep(t) \/ TestInnerLoop(t)
           \/ Iterate(t) \/ LeaveInBackground(t) \/ WakeInAwaitPhaseEnd(t)
  <2>1. /\ pc[t] \notin {"threw", "unwinding", "crashed", "returned"}
        /\ pc'[t] \notin {"threw", "unwinding", "crashed"}
        /\ UNCHANGED thrown
        /\ \A u \in Threads \ {t} : pc'[u] = pc[u]
    BY <1>5 DEF CheckMorePhases, WakeInAwaitPhaseStart, EnterBlocking, RecordPhase, DoNotSleep,
       SleepToPhaseEnd, WakeFromSleep, TestInnerLoop, Iterate, LeaveInBackground, WakeInAwaitPhaseEnd,
       BeginInnerLoop, Goto
  <2>2. UNCHANGED outcomeCode
    BY <2>1 DEF ActorStep, RunPhaseLoop, CatchException, GuardAborts
  <2> QED
    BY <2>1, <2>2 DEF OutcomeTold
<1> QED
  BY <1>1, <1>2, <1>3, <1>4, <1>5 DEF ActorStep, RunPhaseLoop, PhaseLoopStep

\* A phase ends only if all actors have it.
LEMMA LeaveKnown ==
  ASSUME IInv, PhasesKnown, NEW t \in Threads, CallAwaitPhaseEnd(t) \/ EnterInBackground(t)
  PROVE  PhasesKnown'
<1> USE DEF IInv, TypeOK, LoopTypeOK, OrchestratorTypeOK
<1>e. /\ UNCHANGED <<plan, inPhase, errors>>
      /\ \/ pc[t] = "plusplus" /\ doesBlockOn(t, inPhase[t])
         \/ pc[t] = "started" /\ ~doesBlockOn(t, inPhase[t])
      /\ \A u \in Threads \ {t} : pc'[u] = pc[u]
      /\ pc'[t] \in {"check", "ending", "loop"}
      /\ pc'[t] = "loop" => ~doesBlockOn(t, inPhase[t])
      /\ \/ currentTokens - 1 <= 0 /\ state' = "PhaseEnded" /\ current' = current + 1
         \/ UNCHANGED <<state, current>>
  BY LeaveEffect, BackgroundEffect
<1>k. t \notin Recorders => inPhase[t] \in DOMAIN plan[t]
  BY <1>e DEF PhasesKnown, InLoop, doesBlockOn
<1>h. Holds(t)
  BY <1>e DEF Holds, InLoop
<1>s. ~errors => state = "PhaseStarted" /\ inPhase[t] = current
  BY <1>e DEF PhaseInv, BetweenPhases, DuringPhase, InLoop, State
<1>1. ASSUME NEW u \in Threads \ Recorders
      PROVE  (pc[u] \in InLoop => inPhase[u] \in DOMAIN plan[u])'
  BY <1>e, <1>k DEF PhasesKnown, InLoop
<1>2. ASSUME UNCHANGED <<state, current>>, ~errors, NEW u \in Threads \ Recorders
      PROVE  /\ (\A p \in 0..(current - 1) : p \in DOMAIN plan[u])'
             /\ (pc[u] = "ending" /\ state = "PhaseStarted" => current \in DOMAIN plan[u])'
  BY <1>e, <1>k, <1>s, <1>2 DEF PhasesKnown
<1>3. ASSUME currentTokens - 1 <= 0, state' = "PhaseEnded", current' = current + 1, ~errors,
             NEW u \in Threads \ Recorders
      PROVE  (\A p \in 0..(current - 1) : p \in DOMAIN plan[u])'
  <2>1. current \in DOMAIN plan[u]
    <3>1. CASE u = t
      BY <1>k, <1>s, <1>3, <3>1
    <3>2. CASE u # t
      <4>1. ~Holds(u)
        BY <1>h, <1>3, <3>2, AllLeft
      <4>2. DuringPhase(u) /\ pc[u] \notin {"exited", "crashed"}
        BY <1>s, <1>3 DEF PhaseInv
      <4>3. pc[u] = "ending" \/ ~doesBlockOn(u, current)
        BY <4>1, <4>2 DEF DuringPhase, Holds, InLoop
      <4> QED
        BY <1>s, <1>3, <4>3 DEF PhasesKnown, doesBlockOn
    <3> QED
      BY <3>1, <3>2
  <2>2. \A p \in 0..(current - 1) : p \in DOMAIN plan[u]
    BY <1>3 DEF PhasesKnown
  <2>3. \A p \in 0..((current + 1) - 1) : p = current \/ p \in 0..(current - 1)
    OBVIOUS
  <2> QED
    BY <1>e, <1>3, <2>1, <2>2, <2>3
<1> QED
  BY <1>e, <1>1, <1>2, <1>3 DEF PhasesKnown

\* A phase begins, and nobody waits for the last one to end any more.
LEMMA ArriveKnown ==
  ASSUME IInv, PhasesKnown, NEW t \in Threads, CallAwaitPhaseStart(t)
  PROVE  PhasesKnown'
<1> USE DEF IInv, TypeOK, LoopTypeOK, OrchestratorTypeOK
<1>e. /\ pc[t] = "start" /\ UNCHANGED <<plan, requireTokens, current, errors>>
      /\ \A u \in Threads \ {t} : pc'[u] = pc[u] /\ inPhase'[u] = inPhase[u]
      /\ pc'[t] \in {"started", "awaitStart"}
  BY ArriveEffect
<1>1. ASSUME ~errors, state' = "PhaseStarted", NEW u \in Threads
      PROVE  pc'[u] # "ending"
  <2>1. state = "PhaseEnded"
    BY <1>e, <1>1 DEF PhaseInv, DuringPhase, InLoop, State
  <2>2. currentTokens + 1 >= requireTokens
    BY <1>1, <2>1, ArriveEffect
  <2>3. u # t => Holds(u)
    BY <1>e, <2>2, ActorRuns, AllArrived DEF Holds, InLoop
  <2> QED
    BY <1>e, <2>3 DEF Holds, InLoop
<1> QED
  BY <1>e, <1>1 DEF PhasesKnown, InLoop

LEMMA QuietKnown ==
  ASSUME IInv, PhasesKnown, NEW t \in Threads, QuietStep(t)
  PROVE  PhasesKnown'
<1> USE DEF IInv, TypeOK, LoopTypeOK, OrchestratorTypeOK
<1>e. /\ UNCHANGED <<plan, inPhase, current, state>>
      /\ \A u \in Threads \ {t} : pc'[u] = pc[u]
  BY QuietEffect
<1>c. errors => errors'
  BY Zenon DEF QuietStep, CheckMorePhases, WakeInAwaitPhaseStart, EnterBlocking,
     PhaseNotFound, RecordPhase, DoNotSleep, SleepToPhaseEnd, WakeFromSleep, TestInnerLoop,
     BeginInnerLoop, Iterate, BodyThrows, LeaveInBackground, WakeInAwaitPhaseEnd, CatchException,
     GuardAborts, AwaitPhaseStartWakes, AwaitPhaseEndWakes, SleepBegins, SleepWakes,
     SleepTimesOut, abort, orchestratorVars
<1>p. /\ pc'[t] \in InLoop => pc[t] \in InLoop \/ t \in Recorders \/ inPhase[t] \in DOMAIN plan[t]
      /\ pc'[t] = "ending" => pc[t] = "ending"
  BY DEF QuietStep, CheckMorePhases, WakeInAwaitPhaseStart, EnterBlocking,
     PhaseNotFound, RecordPhase, DoNotSleep, SleepToPhaseEnd, WakeFromSleep, TestInnerLoop,
     BeginInnerLoop, Iterate, BodyThrows, LeaveInBackground, WakeInAwaitPhaseEnd, CatchException,
     GuardAborts, Goto, InLoop
<1> QED
  BY <1>e, <1>c, <1>p DEF PhasesKnown

\* What an actor's step keeps: the workload, what was completed, what failed.
LEMMA ActorKeeps ==
  ASSUME IInv, NEW t \in Threads, ActorStep(t)
  PROVE  /\ UNCHANGED <<plan, maxPhase, requireTokens, mainPc, result>>
         /\ \A u \in Threads : completed[u] \subseteq completed'[u]
         /\ \A u \in Threads : thrown[u] # "none" => thrown'[u] # "none"
         /\ pc[t] \notin {"unbuilt", "built", "exited", "crashed"}
         /\ pc'[t] # "unbuilt"
         /\ \A u \in Threads \ {t} : pc'[u] = pc[u]
<1> USE DEF IInv, TypeOK, LoopTypeOK
<1>1. CASE CallAwaitPhaseStart(t) \/ CallAwaitPhaseEnd(t) \/ EnterInBackground(t)
  <2>1. /\ pc[t] \in {"start", "plusplus", "started"}
        /\ pc'[t] \in {"started", "awaitStart", "check", "ending", "loop"}
        /\ UNCHANGED <<plan, requireTokens>>
        /\ \A u \in Threads \ {t} : pc'[u] = pc[u]
    BY <1>1, ArriveEffect, LeaveEffect, BackgroundEffect
  <2>2. UNCHANGED <<thrown, completed, maxPhase>>
    BY <1>1, Zenon DEF CallAwaitPhaseStart, CallAwaitPhaseEnd, EnterInBackground, BeginInnerLoop,
       StartsPhase, JoinsPhase, EndsPhase, LeavesPhase
  <2>3. UNCHANGED <<mainPc, result>>
    BY <2>1 DEF ActorStep, RunPhaseLoop, CatchException, GuardAborts
  <2> QED
    BY <2>1, <2>2, <2>3
<1>2. CASE QuietStep(t)
  <2>1. /\ UNCHANGED <<plan, requireTokens>>
        /\ \A u \in Threads \ {t} : pc'[u] = pc[u]
    BY <1>2, QuietEffect
  <2>2. UNCHANGED maxPhase
    BY <1>2, Zenon DEF QuietStep, CheckMorePhases, WakeInAwaitPhaseStart, EnterBlocking,
       PhaseNotFound, RecordPhase, DoNotSleep, SleepToPhaseEnd, WakeFromSleep, TestInnerLoop,
       Iterate, BodyThrows, LeaveInBackground, WakeInAwaitPhaseEnd, CatchException,
       GuardAborts, AwaitPhaseStartWakes, AwaitPhaseEndWakes, SleepBegins,
       SleepWakes, SleepTimesOut, abort, orchestratorVars
  <2>3. UNCHANGED <<mainPc, result>>
    BY Zenon DEF ActorStep, RunPhaseLoop, CatchException, GuardAborts
  <2>4. \A u \in Threads : completed[u] \subseteq completed'[u]
    BY <1>2 DEF QuietStep, CheckMorePhases, WakeInAwaitPhaseStart, EnterBlocking,
       PhaseNotFound, RecordPhase, DoNotSleep, SleepToPhaseEnd, WakeFromSleep, TestInnerLoop,
       Iterate, BodyThrows, LeaveInBackground, WakeInAwaitPhaseEnd, CatchException,
       GuardAborts, BeginInnerLoop
  <2>5. \A u \in Threads : thrown[u] # "none" => thrown'[u] # "none"
    BY <1>2 DEF QuietStep, CheckMorePhases, WakeInAwaitPhaseStart, EnterBlocking,
       PhaseNotFound, RecordPhase, DoNotSleep, SleepToPhaseEnd, WakeFromSleep, TestInnerLoop,
       Iterate, BodyThrows, LeaveInBackground, WakeInAwaitPhaseEnd, CatchException,
       GuardAborts, BeginInnerLoop, Exception
  <2>6. pc[t] \notin {"unbuilt", "built", "exited", "crashed"} /\ pc'[t] # "unbuilt"
    BY <1>2 DEF QuietStep, CheckMorePhases, WakeInAwaitPhaseStart, EnterBlocking,
       PhaseNotFound, RecordPhase, DoNotSleep, SleepToPhaseEnd, WakeFromSleep, TestInnerLoop,
       Iterate, BodyThrows, LeaveInBackground, WakeInAwaitPhaseEnd, CatchException,
       GuardAborts, BeginInnerLoop, Goto
  <2> QED
    BY <2>1, <2>2, <2>3, <2>4, <2>5, <2>6
<1> QED
  BY <1>1, <1>2 DEF ActorStep, RunPhaseLoop, PhaseLoopStep, QuietStep

\* A thread returns behind the last phase, or after an abort.
LEMMA ActorReturns ==
  ASSUME IInv, AbortReason, NEW t \in Threads, ActorStep(t)
  PROVE  (\A u \in Threads : pc[u] = "returned" /\ ~errors => current > maxPhase)'
<1> USE DEF IInv, TypeOK, LoopTypeOK, OrchestratorTypeOK
<1>k. UNCHANGED maxPhase /\ \A u \in Threads \ {t} : pc'[u] = pc[u]
  BY ActorKeeps
<1>1. CASE CallAwaitPhaseStart(t) \/ CallAwaitPhaseEnd(t) \/ EnterInBackground(t)
  <2>1. /\ pc'[t] \in {"started", "awaitStart", "check", "ending", "loop"}
        /\ UNCHANGED errors
        /\ current' = current \/ current' = current + 1
    BY <1>1, ArriveEffect, LeaveEffect, BackgroundEffect
  <2> QED
    BY <1>k, <2>1 DEF AbortReason
<1>2. CASE CheckMorePhases(t)
  BY <1>2, <1>k DEF CheckMorePhases, morePhases, Goto, AbortReason, orchestratorVars
<1>3. CASE QuietStep(t) /\ ~CheckMorePhases(t)
  <2>1. UNCHANGED current
    BY <1>3, QuietEffect
  <2>2. pc'[t] # "returned"
    BY <1>3 DEF QuietStep, WakeInAwaitPhaseStart, EnterBlocking,
       PhaseNotFound, RecordPhase, DoNotSleep, SleepToPhaseEnd, WakeFromSleep, TestInnerLoop,
       Iterate, BodyThrows, LeaveInBackground, WakeInAwaitPhaseEnd, CatchException,
       GuardAborts, BeginInnerLoop, Goto
  <2>3. errors => errors'
    BY AbortIsFinal DEF Next
  <2> QED
    BY <1>k, <2>1, <2>2, <2>3 DEF AbortReason
<1> QED
  BY <1>1, <1>2, <1>3 DEF ActorStep, RunPhaseLoop, PhaseLoopStep, QuietStep

\* The scope guard aborts for a failure, or behind the last phase.
LEMMA ActorAborts ==
  ASSUME IInv, LockInv, SuccessInv, NEW t \in Threads, ActorStep(t)
  PROVE  (errors => AllComplete \/ \E u \in Threads : thrown[u] # "none")'
<1> USE DEF IInv, TypeOK, LoopTypeOK, OrchestratorTypeOK
<1>k. /\ UNCHANGED plan
      /\ \A u \in Threads : completed[u] \subseteq completed'[u]
      /\ \A u \in Threads : thrown[u] # "none" => thrown'[u] # "none"
      /\ pc[t] \notin {"unbuilt", "built", "exited", "crashed"}
  BY ActorKeeps
<1>1. ASSUME AllComplete PROVE AllComplete'
  BY <1>k, <1>1 DEF AllComplete, doesBlockOn
<1>2. CASE errors
  BY <1>k, <1>1, <1>2 DEF SuccessInv, AbortReason
<1>3. CASE ~errors /\ GuardAborts(t)
  <2>1. CASE pc[t] = "unwinding"
    BY <1>k, <2>1 DEF SuccessInv, OutcomeTold
  <2>2. CASE pc[t] = "returned"
    <3>1. current > maxPhase
      BY <1>3, <2>2 DEF SuccessInv, AbortReason
    <3>2. mainPc \in {"spawn", "join"}
      BY <1>k, ActorRuns
    <3>3. \A u \in Threads : pc[u] # "unbuilt"
      BY <3>2 DEF SetupInv
    <3>4. AllComplete
      BY <1>3, <3>1, <3>3, BehindTheLast
    <3> QED
      BY <1>1, <3>4
  <2> QED
    BY <1>3, <2>1, <2>2 DEF GuardAborts
<1>4. CASE ~errors /\ ~GuardAborts(t)
  <2>1. CASE CallAwaitPhaseStart(t) \/ CallAwaitPhaseEnd(t) \/ EnterInBackground(t)
    BY <1>4, <2>1, ArriveEffect, LeaveEffect, BackgroundEffect
  <2>2. CASE QuietStep(t)
    BY <1>4, <2>2, Zenon DEF QuietStep, CheckMorePhases, WakeInAwaitPhaseStart, EnterBlocking,
       PhaseNotFound, RecordPhase, DoNotSleep, SleepToPhaseEnd, WakeFromSleep, TestInnerLoop,
       Iterate, BodyThrows, LeaveInBackground, WakeInAwaitPhaseEnd, CatchException,
       AwaitPhaseStartWakes, AwaitPhaseEndWakes, SleepBegins, SleepWakes, SleepTimesOut,
       orchestratorVars
  <2> QED
    BY <2>1, <2>2 DEF ActorStep, RunPhaseLoop, PhaseLoopStep, QuietStep
<1> QED
  BY <1>2, <1>3, <1>4

LEMMA ActorSuccess ==
  ASSUME IInv, LockInv, SuccessInv, NEW t \in Threads, ActorStep(t)
  PROVE  SuccessInv'
<1> USE DEF IInv, TypeOK, LoopTypeOK, OrchestratorTypeOK
<1>k. /\ UNCHANGED <<plan, maxPhase, mainPc, result>>
      /\ pc[t] \notin {"unbuilt", "built", "exited", "crashed"}
      /\ \A u \in Threads \ {t} : pc'[u] = pc[u]
  BY ActorKeeps
<1>1. OutcomeTold'
  BY ActorOutcome DEF SuccessInv
<1>2. PhasesKnown'
  BY LeaveKnown, ArriveKnown, QuietKnown
     DEF SuccessInv, ActorStep, RunPhaseLoop, PhaseLoopStep, QuietStep
<1>3. PhasesCounted'
  BY <1>k DEF SuccessInv, PhasesCounted
<1>4. AbortReason'
  BY ActorReturns, ActorAborts DEF SuccessInv, AbortReason
<1>5. mainPc' # "returned" /\ result' = "none"
  BY <1>k, ActorRuns DEF SuccessInv
<1>6. SuccessMeansComplete'
  BY <1>5 DEF SuccessMeansComplete
<1> QED
  BY <1>1, <1>2, <1>3, <1>4, <1>5, <1>6 DEF SuccessInv

\* run() returns without having spawned the actors.
LEMMA EarlyReturn ==
  ASSUME IInv, SuccessInv, ListActors \/ NoWorkloadSource \/ SetupThrows \/ DryRun
  PROVE  SuccessInv'
<1>1. /\ mainPc \in {"begin", "construct", "run"} /\ mainPc' = "returned"
      /\ UNCHANGED <<orchestratorVars, loopVars, outcomeCode>>
  BY Zenon DEF ListActors, NoWorkloadSource, SetupThrows, DryRun, Return
<1>2. requireTokens' = 0
  BY <1>1 DEF IInv, SetupInv, orchestratorVars
<1>3. OutcomeTold' /\ PhasesKnown' /\ PhasesCounted' /\ AbortReason'
  BY <1>1 DEF SuccessInv, OutcomeTold, PhasesKnown, PhasesCounted, AbortReason, AllComplete,
     doesBlockOn, orchestratorVars, loopVars
<1> QED
  BY <1>1, <1>2, <1>3 DEF SuccessInv, SuccessMeansComplete

\* The main thread goes on, or starts a thread.
LEMMA SetupGoesOn ==
  ASSUME IInv, SuccessInv,
         \/ LoadYaml \/ WorkloadConstructed \/ RequireTokens \/ AllSpawned
         \/ \E t \in Threads : SpawnThread(t)
  PROVE  SuccessInv'
<1> USE DEF IInv, TypeOK, LoopTypeOK
<1>1. /\ mainPc # "returned" /\ mainPc' # "returned"
      /\ UNCHANGED <<plan, inPhase, thrown, completed, outcomeCode, result, maxPhase, current, errors, state>>
  BY Zenon DEF LoadYaml, WorkloadConstructed, RequireTokens, addRequiredTokens, AllSpawned,
     SpawnThread, orchestratorVars, loopVars
<1>2. \A u \in Threads : pc'[u] = pc[u] \/ (pc[u] = "built" /\ pc'[u] = "check")
  BY DEF LoadYaml, WorkloadConstructed, RequireTokens, AllSpawned, SpawnThread, Goto, loopVars
<1>3. OutcomeTold' /\ PhasesKnown' /\ PhasesCounted' /\ AbortReason'
  BY <1>1, <1>2 DEF SuccessInv, OutcomeTold, PhasesKnown, PhasesCounted, AbortReason, AllComplete,
     doesBlockOn, InLoop
<1> QED
  BY <1>1, <1>3 DEF SuccessInv, SuccessMeansComplete

\* An actor's constructor tells the Orchestrator of its phases.
LEMMA ConstructSuccess ==
  ASSUME IInv, SuccessInv, NEW t \in Threads, ConstructActor(t)
  PROVE  SuccessInv'
<1> USE DEF IInv, TypeOK, LoopTypeOK, OrchestratorTypeOK
<1>1. /\ mainPc = "construct" /\ pc[t] = "unbuilt" /\ pc'[t] = "built"
      /\ UNCHANGED <<plan, inPhase, thrown, completed, mainPc, outcomeCode, result, current, errors, state>>
      /\ \A u \in Threads \ {t} : pc'[u] = pc[u]
  BY DEF ConstructActor, phasesAtLeastTo, Goto, orchestratorVars
<1>2. \A u \in Threads : pc'[u] \in {"unbuilt", "built"}
  BY <1>1 DEF SetupInv
<1>3. OutcomeTold' /\ PhasesKnown' /\ AbortReason'
  BY <1>1, <1>2 DEF SuccessInv, OutcomeTold, PhasesKnown, AbortReason, AllComplete, doesBlockOn, InLoop
<1>4. PhasesCounted'
  <2> SUFFICES ASSUME NEW u \in Threads, pc'[u] # "unbuilt", DOMAIN plan[u] # {}
               PROVE  Cardinality(DOMAIN plan[u]) <= maxPhase' + 1
    BY <1>1 DEF PhasesCounted
  <2>1. PICK n \in Nat : n = Cardinality(DOMAIN plan[u])
    BY PlansAssumption, FS_CardinalityType
  <2>2. PICK m \in Nat : m = Cardinality(DOMAIN plan[t])
    BY PlansAssumption, FS_CardinalityType
  <2>3. CASE DOMAIN plan[t] = {}
    BY <1>1, <2>1, <2>3 DEF ConstructActor, orchestratorVars, SuccessInv, PhasesCounted
  <2>4. CASE DOMAIN plan[t] # {}
    <3>1. maxPhase' = IF m - 1 > maxPhase THEN m - 1 ELSE maxPhase
      BY <2>2, <2>4 DEF ConstructActor, phasesAtLeastTo
    <3>2. CASE u = t
      BY <2>1, <2>2, <3>1, <3>2
    <3>3. CASE u # t
      <4>1. n <= maxPhase + 1
        BY <1>1, <2>1, <3>3 DEF SuccessInv, PhasesCounted
      <4> QED
        BY <2>1, <2>2, <3>1, <4>1
    <3> QED
      BY <3>2, <3>3
  <2> QED
    BY <2>3, <2>4
<1> QED
  BY <1>1, <1>3, <1>4 DEF SuccessInv, SuccessMeansComplete

\* All threads are joined and nobody told of a failure: nobody failed, and so
\* the first one to leave had reached the end of the workload.
LEMMA JoinSuccess ==
  ASSUME IInv, SuccessInv, JoinThreads
  PROVE  SuccessInv'
<1> USE DEF IInv, TypeOK, LoopTypeOK
<1>1. /\ mainPc = "join" /\ mainPc' = "returned"
      /\ \A t \in Threads : pc[t] \in {"exited", "crashed"}
      /\ UNCHANGED <<orchestratorVars, loopVars, outcomeCode>>
      /\ result' = IF \E t \in Threads : thrown[t] = "unknown"
                   THEN "kInternalException" ELSE outcomeCode
  BY DEF JoinThreads, Return
<1>2. OutcomeTold' /\ PhasesKnown' /\ PhasesCounted' /\ AbortReason'
  BY <1>1 DEF SuccessInv, OutcomeTold, PhasesKnown, PhasesCounted, AbortReason, AllComplete,
     doesBlockOn, orchestratorVars, loopVars
<1>3. ASSUME result' = "kSuccess", requireTokens' > 0
      PROVE  AllComplete /\ \A t \in Threads : thrown[t] = "none"
  <2>1. outcomeCode = "kSuccess" /\ \A t \in Threads : thrown[t] # "unknown"
    BY <1>1, <1>3
  <2>2. ASSUME NEW t \in Threads PROVE thrown[t] = "none"
    <3>1. pc[t] \in {"exited", "crashed"}
      BY <1>1
    <3>2. thrown[t] \in {"boost", "std", "unknown", "none"}
      BY DEF Exception
    <3> QED
      BY <2>1, <3>1, <3>2 DEF SuccessInv, OutcomeTold
  <2>3. Cardinality(Threads) > 0
    BY <1>1, <1>3 DEF SetupInv, orchestratorVars
  <2>4. Threads # {}
    BY <2>3, FS_EmptySet
  <2>5. errors
    BY <1>1, <2>4 DEF PhaseInv
  <2> QED
    BY <2>2, <2>5 DEF SuccessInv, AbortReason
<1>4. SuccessMeansComplete'
  BY <1>1, <1>3 DEF SuccessMeansComplete, AllComplete, doesBlockOn, orchestratorVars, loopVars
<1> QED
  BY <1>1, <1>2, <1>4 DEF SuccessInv

\* SuccessMeansComplete: a run that spawned its actors and reports kSuccess
\* had no failure, and every actor completed every phase it holds open, for
\* every set of actors and every phase map.
THEOREM SuccessIsComplete == Spec => []SuccessMeansComplete
<1>1. IInv /\ LockInv /\ SuccessInv /\ [Next]_vars => SuccessInv'
  <2> SUFFICES ASSUME IInv, LockInv, SuccessInv, [Next]_vars PROVE SuccessInv'
    OBVIOUS
  <2>1. CASE MainStep
    BY <2>1, EarlyReturn, SetupGoesOn, ConstructSuccess, JoinSuccess DEF MainStep
  <2>2. ASSUME NEW t \in Threads, ActorStep(t)
        PROVE  SuccessInv'
    BY <2>2, ActorSuccess
  <2>3. ASSUME UNCHANGED <<plan, pc, inPhase, thrown, completed, mainPc, outcomeCode, result,
                           requireTokens, maxPhase, current, errors, state>>
        PROVE  SuccessInv'
    BY <2>3 DEF SuccessInv, OutcomeTold, PhasesKnown, PhasesCounted, AbortReason, AllComplete,
       SuccessMeansComplete, doesBlockOn
  <2>4. ASSUME NEW t \in Threads, TimePasses(t)
        PROVE  SuccessInv'
    BY <2>3, <2>4 DEF TimePasses, DurationElapses, orchestratorVars
  <2>5. CASE UNCHANGED vars
    BY <2>3, <2>5 DEF vars, orchestratorVars, loopVars
  <2> QED
    BY <2>1, <2>2, <2>4, <2>5 DEF Next, Terminated
<1>2. SuccessInv => SuccessMeansComplete
  BY DEF SuccessInv
<1> QED
  BY <1>1, <1>2, SuccessInit, Invariance, LockAlways, PTL DEF Spec

(***************************************************************************)
(* The composed system implements PhaseBarrier.                            *)
(***************************************************************************)

LEMMA BarrierInit == Init => Barrier!Init
<1>1. Init => Holders = {}
  BY DEF Init, LoopInit, Holders, Holds, InLoop
<1>2. QED
  BY <1>1 DEF Init, OrchestratorInit, Barrier!Init

\* An arrival is an arrival at the barrier, and starts the phase exactly if it
\* is the last one.
LEMMA ArriveRefines ==
  ASSUME IInv, NEW t \in Threads, CallAwaitPhaseStart(t), ~errors
  PROVE  Barrier!Arrive(t)
<1> USE DEF IInv, TypeOK, LoopTypeOK, OrchestratorTypeOK
<1>e. /\ pc[t] = "start" /\ UNCHANGED <<plan, requireTokens, current, errors>>
      /\ \A u \in Threads \ {t} : pc'[u] = pc[u] /\ inPhase'[u] = inPhase[u]
      /\ pc'[t] \in {"started", "awaitStart"}
  BY ArriveEffect
<1>1. state = "PhaseEnded"
  BY <1>e DEF PhaseInv, DuringPhase, InLoop, State
<1>2. ~Holds(t) /\ Holds(t)' /\ \A u \in Threads \ {t} : Holds(u)' <=> Holds(u)
  BY <1>e DEF Holds, InLoop, doesBlockOn
<1>3. t \notin Holders /\ Holders' = Holders \cup {t}
  BY <1>2 DEF Holders
<1>4. requireTokens = Cardinality(Threads)
  BY <1>e, ActorRuns
<1>5. (state' = "PhaseStarted") <=> (Holders' = Threads)
  <2>1. CASE currentTokens + 1 >= requireTokens
    <3>1. state' = "PhaseStarted"
      BY <2>1, ArriveEffect
    <3>2. \A u \in Threads \ {t} : Holds(u)
      BY <1>2, <1>4, <2>1, AllArrived
    <3>3. Holders' = Threads
      BY <1>3, <3>2 DEF Holders
    <3>4. QED
      BY <3>1, <3>3
  <2>2. CASE currentTokens + 1 < requireTokens
    <3>1. state' # "PhaseStarted"
      BY <1>1, <2>2, ArriveEffect
    <3>2. Cardinality(Holders \cup {t}) = currentTokens + 1
      BY <1>3, HoldersFinite, FS_AddElement DEF TokenConservation
    <3>3. Holders' # Threads
      <4>1. Cardinality(Holders \cup {t}) # Cardinality(Threads)
        BY <1>4, <2>2, <3>2
      <4>2. Holders \cup {t} # Threads
        BY <4>1
      <4>3. QED
        BY <1>3, <4>2
    <3>4. QED
      BY <3>1, <3>3
  <2>3. QED
    BY <2>1, <2>2
<1>6. QED
  BY <1>e, <1>1, <1>3, <1>5 DEF Barrier!Arrive

\* A departure, at once or at the end, is a departure from the barrier, and
\* ends the phase exactly if it is the last one.
LEMMA LeaveRefines ==
  ASSUME IInv, NEW t \in Threads, CallAwaitPhaseEnd(t) \/ EnterInBackground(t), ~errors
  PROVE  Barrier!Leave(t)
<1> USE DEF IInv, TypeOK, LoopTypeOK, OrchestratorTypeOK
<1>e. /\ UNCHANGED <<plan, inPhase, errors>>
      /\ \A u \in Threads \ {t} : pc'[u] = pc[u]
      /\ \/ pc[t] = "plusplus" /\ doesBlockOn(t, inPhase[t]) /\ pc'[t] \in {"check", "ending"}
         \/ pc[t] = "started" /\ ~doesBlockOn(t, inPhase[t]) /\ pc'[t] = "loop"
  BY LeaveEffect, BackgroundEffect
<1>1. state = "PhaseStarted"
  BY <1>e DEF PhaseInv, BetweenPhases, InLoop, State
<1>2. Holds(t) /\ ~Holds(t)' /\ \A u \in Threads \ {t} : Holds(u)' <=> Holds(u)
  BY <1>e DEF Holds, InLoop, doesBlockOn
<1>3. t \in Holders /\ Holders' = Holders \ {t}
  BY <1>2 DEF Holders
<1>4. CASE currentTokens - 1 <= 0
  <2>1. state' = "PhaseEnded" /\ current' = current + 1
    BY <1>4, LeaveEffect, BackgroundEffect
  <2>2. \A u \in Threads \ {t} : ~Holds(u)
    BY <1>2, <1>4, AllLeft
  <2>3. Holders' = {}
    BY <1>3, <2>2 DEF Holders
  <2>4. QED
    BY <1>e, <1>1, <1>3, <2>1, <2>3 DEF Barrier!Leave
<1>5. CASE currentTokens - 1 > 0
  <2>1. UNCHANGED <<state, current>>
    BY <1>1, <1>5, LeaveEffect, BackgroundEffect
  <2>2. Cardinality(Holders \ {t}) = currentTokens - 1
    BY <1>3, HoldersFinite, FS_RemoveElement DEF TokenConservation
  <2>3. Holders' # {}
    <3>1. Cardinality(Holders \ {t}) # 0
      BY <1>5, <2>2
    <3>2. Holders \ {t} # {}
      BY <3>1, FS_EmptySet
    <3>3. QED
      BY <1>3, <3>2
  <2>4. QED
    BY <1>e, <1>1, <1>3, <2>1, <2>3 DEF Barrier!Leave
<1>6. QED
  BY <1>4, <1>5

\* A step that moves no token and does not abort is invisible to the barrier.
LEMMA InvisibleStep ==
  ASSUME \A u \in Threads : Holds(u)' <=> Holds(u), UNCHANGED <<current, state, errors>>
  PROVE  UNCHANGED Barrier!vars
<1>1. Holders' = Holders
  BY DEF Holders
<1>2. QED
  BY <1>1 DEF Barrier!vars

LEMMA StepRefines ==
  ASSUME IInv, IInv', [Next]_vars
  PROVE  [Barrier!Next]_(Barrier!vars)
<1>1. CASE errors'
  BY <1>1 DEF Barrier!Next, Barrier!Abort
<1>2. CASE ~errors'
  <2>1. ~errors
    BY <1>2, AbortIsFinal
  <2>u. UNCHANGED errors
    BY <1>2, <2>1 DEF IInv, TypeOK, OrchestratorTypeOK
  <2>2. ASSUME NEW t \in Threads, CallAwaitPhaseStart(t) \/ CallAwaitPhaseEnd(t) \/ EnterInBackground(t)
        PROVE  Barrier!Next
    BY <2>1, <2>2, ArriveRefines, LeaveRefines DEF Barrier!Next
  <2>3. ASSUME NEW t \in Threads, QuietStep(t)
        PROVE  UNCHANGED Barrier!vars
    <3>1. /\ UNCHANGED <<plan, inPhase, current, state>>
          /\ \A u \in Threads \ {t} : pc'[u] = pc[u]
          /\ Holds(t)' <=> Holds(t)
      BY <2>3, QuietEffect DEF IInv
    <3>2. \A u \in Threads : Holds(u)' <=> Holds(u)
      BY <3>1 DEF Holds, doesBlockOn
    <3>3. QED
      BY <2>u, <3>1, <3>2, InvisibleStep
  <2>4. ASSUME NEW t \in Threads, TimePasses(t)
        PROVE  UNCHANGED Barrier!vars
    <3>1. \A u \in Threads : Holds(u)' <=> Holds(u)
      BY <2>4 DEF TimePasses, DurationElapses, Holds, doesBlockOn
    <3>2. QED
      BY <2>4, <3>1, InvisibleStep DEF TimePasses, DurationElapses, orchestratorVars
  <2>5. CASE MainStep
    <3>1. UNCHANGED <<current, state, errors, plan, inPhase>>
      BY <2>5, Zenon DEF MainStep, ListActors, NoWorkloadSource, LoadYaml, SetupThrows, DryRun,
         WorkloadConstructed, AllSpawned, JoinThreads, Return, ConstructActor, SpawnThread,
         RequireTokens, addRequiredTokens, phasesAtLeastTo, orchestratorVars, loopVars
    <3>2. \A u \in Threads : \/ pc'[u] = pc[u]
                             \/ pc[u] \in {"unbuilt", "built"} /\ pc'[u] \in {"built", "check"}
      BY <2>5 DEF MainStep, ListActors, NoWorkloadSource, LoadYaml, SetupThrows, DryRun,
         WorkloadConstructed, AllSpawned, JoinThreads, Return, ConstructActor, SpawnThread,
         RequireTokens, loopVars, Goto, IInv, TypeOK, LoopTypeOK
    <3>3. \A u \in Threads : Holds(u)' <=> Holds(u)
      BY <3>1, <3>2 DEF Holds, InLoop, doesBlockOn
    <3>4. QED
      BY <3>1, <3>3, InvisibleStep
  <2>6. CASE UNCHANGED vars
    <3>1. \A u \in Threads : Holds(u)' <=> Holds(u)
      BY <2>6 DEF vars, loopVars, Holds, doesBlockOn
    <3>2. QED
      BY <2>6, <3>1, InvisibleStep DEF vars, orchestratorVars
  <2>7. QED
    BY <2>2, <2>3, <2>4, <2>5, <2>6
       DEF Next, ActorStep, RunPhaseLoop, PhaseLoopStep, QuietStep, Terminated
<1>3. QED
  BY <1>1, <1>2

\* Orchestrator, PhaseLoop and driver together implement the two-sided
\* barrier, for any number of threads and any phase maps: a phase starts with
\* the last arrival and ends with the last departure, until someone aborts.
THEOREM Refinement == Spec => ImplementsBarrier
<1>1. Init => Barrier!Init
  BY BarrierInit
<1>2. IInv /\ IInv' /\ [Next]_vars => [Barrier!Next]_(Barrier!vars)
  BY StepRefines
<1>3. QED
  BY <1>1, <1>2, Invariance, PTL DEF Spec, ImplementsBarrier, Barrier!Spec
=============================================================================
