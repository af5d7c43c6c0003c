---------------------------- MODULE DefaultDriver ----------------------------
(***************************************************************************)
(* The driver: the main thread sets a workload up, starts one thread per   *)
(* actor and joins them; runActor() turns an exception of an actor into an *)
(* outcome code, and its scope guard aborts the Orchestrator whenever an   *)
(* actor ends, well or badly.  The composition of the three components is  *)
(* the specification of a run of genny.                                    *)
(***************************************************************************)
EXTENDS PhaseLoop

VARIABLES
  mainPc,       \* where the main thread is in DefaultDriver::run
  outcomeCode,  \* the atomic the actor threads write
  result        \* what run() returned, or "none"

vars == <<orchestratorVars, loopVars, mainPc, outcomeCode, result>>

ASSUME ThreadsAssumption == IsFiniteSet(Threads)

OutcomeCode == {"kSuccess", "kStandardException", "kBoostException",
                "kInternalException", "kUserException"}

DriverTypeOK ==
  /\ mainPc \in {"begin", "construct", "run", "spawn", "join", "returned"}
  /\ outcomeCode \in {"kSuccess", "kStandardException", "kBoostException"}
  /\ result \in OutcomeCode \cup {"none"}

Init ==
  /\ OrchestratorInit
  /\ LoopInit
  /\ mainPc = "begin"
  /\ outcomeCode = "kSuccess"
  /\ result = "none"

-----------------------------------------------------------------------------
(* The main thread.                                                        *)

Return(code) ==
  /\ mainPc' = "returned"
  /\ result' = code
  /\ UNCHANGED <<orchestratorVars, loopVars, outcomeCode>>

\* kListActors, or a run without a workload file.
ListActors == mainPc = "begin" /\ Return("kSuccess")

NoWorkloadSource == mainPc = "begin" /\ Return("kUserException")

LoadYaml ==
  /\ mainPc = "begin"
  /\ mainPc' = "construct"
  /\ UNCHANGED <<orchestratorVars, loopVars, outcomeCode, result>>

\* Anything that throws before the actors run, loading the file included.
SetupThrows == mainPc \in {"begin", "construct", "run"} /\ Return("kInternalException")

\* ActorContext's constructor builds the phase contexts.  It tells the
\* Orchestrator of as many phases as there are, whatever their numbers, and
\* says nothing for an actor without phases.
ConstructActor(t) ==
  /\ mainPc = "construct"
  /\ pc[t] = "unbuilt"
  /\ IF DOMAIN plan[t] = {}
     THEN UNCHANGED orchestratorVars
     ELSE phasesAtLeastTo(Cardinality(DOMAIN plan[t]) - 1)
  /\ Goto(t, "built")
  /\ UNCHANGED <<plan, inPhase, iter, elapsed, thrown, completed>>
  /\ UNCHANGED <<mainPc, outcomeCode, result>>

WorkloadConstructed ==
  /\ mainPc = "construct"
  /\ \A t \in Threads : pc[t] = "built"
  /\ mainPc' = "run"
  /\ UNCHANGED <<orchestratorVars, loopVars, outcomeCode, result>>

DryRun == mainPc = "run" /\ Return("kSuccess")

RequireTokens ==
  /\ mainPc = "run"
  /\ addRequiredTokens(Cardinality(Threads))
  /\ mainPc' = "spawn"
  /\ UNCHANGED <<loopVars, outcomeCode, result>>

\* parallelRun starts the threads one by one; the first ones already run.
SpawnThread(t) ==
  /\ mainPc = "spawn"
  /\ pc[t] = "built"
  /\ Goto(t, "check")
  /\ UNCHANGED <<orchestratorVars, plan, inPhase, iter, elapsed, thrown, completed>>
  /\ UNCHANGED <<mainPc, outcomeCode, result>>

AllSpawned ==
  /\ mainPc = "spawn"
  /\ \A t \in Threads : pc[t] # "built"
  /\ mainPc' = "join"
  /\ UNCHANGED <<orchestratorVars, loopVars, outcomeCode, result>>

\* All threads joined; an exception that got through runActor() is thrown
\* again here and becomes kInternalException.
JoinThreads ==
  /\ mainPc = "join"
  /\ \A t \in Threads : pc[t] \in {"exited", "crashed"}
  /\ Return(IF \E t \in Threads : thrown[t] = "unknown"
            THEN "kInternalException" ELSE outcomeCode)

MainStep ==
  \/ ListActors \/ NoWorkloadSource \/ LoadYaml \/ SetupThrows
  \/ (\E t \in Threads : ConstructActor(t))
  \/ WorkloadConstructed \/ DryRun \/ RequireTokens
  \/ (\E t \in Threads : SpawnThread(t))
  \/ AllSpawned \/ JoinThreads

-----------------------------------------------------------------------------
(* runActor() around the actor's run().                                    *)

CatchException(t) ==
  /\ pc[t] = "threw"
  /\ outcomeCode' = CASE thrown[t] = "boost" -> "kBoostException"
                      [] thrown[t] = "std"   -> "kStandardException"
                      [] OTHER               -> outcomeCode
  /\ Goto(t, "unwinding")
  /\ UNCHANGED <<orchestratorVars, plan, inPhase, iter, elapsed, thrown, completed>>
  /\ UNCHANGED <<mainPc, result>>

GuardAborts(t) ==
  /\ pc[t] \in {"returned", "unwinding"}
  /\ abort
  /\ Goto(t, IF pc[t] = "returned" THEN "exited" ELSE "crashed")
  /\ UNCHANGED <<plan, inPhase, iter, elapsed, thrown, completed>>
  /\ UNCHANGED <<mainPc, outcomeCode, result>>

RunPhaseLoop(t) == PhaseLoopStep(t) /\ UNCHANGED <<mainPc, outcomeCode, result>>

ActorStep(t) == RunPhaseLoop(t) \/ CatchException(t) \/ GuardAborts(t)

TimePasses(t) == DurationElapses(t) /\ UNCHANGED <<mainPc, outcomeCode, result>>

\* The process is over: no thread is left to run.
Terminated == mainPc = "returned" /\ UNCHANGED vars

Next ==
  \/ MainStep
  \/ \E t \in Threads : ActorStep(t) \/ TimePasses(t)
  \/ Terminated

Spec == Init /\ [][Next]_vars

\* Every thread is scheduled, the clock moves on, and an actor's own code and
\* the phase hooks do not run for ever.
Fairness ==
  /\ WF_vars(MainStep)
  /\ \A t \in Threads : WF_vars(ActorStep(t)) /\ WF_vars(TimePasses(t))

FairSpec == Spec /\ Fairness

-----------------------------------------------------------------------------
(* Properties.                                                             *)

TypeOK == OrchestratorTypeOK /\ LoopTypeOK /\ DriverTypeOK

InLoop == {"loop", "asleep", "test", "body", "plusplus"}

\* A thread's token is with the Orchestrator from the moment it asks for the
\* phase to start until it gives it back; a thread that dies leaves it there.
Holds(t) ==
  \/ pc[t] \in {"awaitStart", "started"}
  \/ /\ pc[t] \in InLoop \cup {"threw", "unwinding", "crashed"}
     /\ doesBlockOn(t, inPhase[t])

Holders == {t \in Threads : Holds(t)}

\* _currentTokens counts the threads that hold the phase, through aborts and
\* crashes too; so it never goes below zero or above _requireTokens, and the
\* `<=` and `>=` of awaitPhaseEnd and awaitPhaseStart could be `==`.
TokenConservation == currentTokens = Cardinality(Holders)

\* The asserts at the top of awaitPhaseStart and awaitPhaseEnd hold for every
\* call an actor makes.
AssertionsHold ==
  \A t \in Threads :
    /\ pc[t] = "start" => state = "PhaseEnded" \/ errors
    /\ \/ pc[t] = "started" /\ ~doesBlockOn(t, inPhase[t])
       \/ pc[t] = "plusplus" /\ doesBlockOn(t, inPhase[t])
       => state = "PhaseStarted" \/ errors

\* No two actors ever run their code for different phases at the same time:
\* not across the end of a phase that a background actor has not noticed yet,
\* and not after an abort.
PhaseExclusion ==
  \A t, u \in Threads :
    pc[t] = "body" /\ pc[u] = "body" => inPhase[t] = inPhase[u]

\* Whoever sleeps at _phaseChange without a notification on its way still has
\* something to wait for: the phase it waits for has not begun, or ended, and
\* nobody has aborted.
NoLostWakeup ==
  \A t \in Threads : waiting[t] = "waiting" =>
    \/ pc[t] = "awaitStart" /\ WaitsForStart(TRUE)
    \/ pc[t] = "ending" /\ WaitsForEnd(TRUE)
    \/ pc[t] = "asleep" /\ SleepsOn(inPhase[t])

\* While nothing failed the hooks run as start 0, stop 0, start 1, stop 1 ...
HooksInOrder ==
  ~errors =>
    /\ Len(hookLog) = 2 * current + (IF state = "PhaseStarted" THEN 1 ELSE 0)
    /\ \A i \in 1..Len(hookLog) :
         hookLog[i] = IF i % 2 = 1 THEN <<"pre", (i - 1) \div 2>>
                                   ELSE <<"post", (i - 1) \div 2>>

\* A run that spawned its actors and reports kSuccess did everything it was
\* configured to do: each blocking actor met its Repeat and Duration in each
\* of its phases, however the phases were numbered, and no actor failed.
SuccessMeansComplete ==
  (result = "kSuccess" /\ requireTokens > 0) =>
    \A t \in Threads :
      /\ thrown[t] = "none"
      /\ {p \in DOMAIN plan[t] : doesBlockOn(t, p)} \subseteq completed[t]

\* An actor is done with a phase only after every actor was done with all its
\* earlier phases, and then the Orchestrator has not yet gone past that phase
\* without it.
PhasesInLockStep ==
  \A t \in Threads : \A p \in completed[t] :
    /\ p <= current
    /\ \A u \in Threads : \A q \in DOMAIN plan[u] :
         q < p /\ doesBlockOn(u, q) => q \in completed[u]

\* Every run ends: no combination of phase maps, missing phases, background
\* actors, sleeps and exceptions leaves a thread waiting for ever.
Termination == <>(mainPc = "returned")

\* The comment on _postPhaseStopHooks: "These hooks fire just after the
\* current phase stops.  The phase number in the invocation is the phase that
\* just completed."
StopHookOnlyForStartedPhase ==
  \A i \in 1..Len(hookLog) :
    hookLog[i][1] = "post" =>
      \E j \in 1..(i - 1) : hookLog[j] = <<"pre", hookLog[i][2]>>

-----------------------------------------------------------------------------
(* The barrier the Orchestrator is meant to be.                            *)

Barrier == INSTANCE PhaseBarrier WITH
  phase <- current, running <- state = "PhaseStarted", holders <- Holders, aborted <- errors

\* The composed system implements the barrier until somebody aborts: a phase
\* starts with the last arrival and ends with the last departure.
ImplementsBarrier == Barrier!Spec
=============================================================================
