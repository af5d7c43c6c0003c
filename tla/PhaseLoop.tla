------------------------------ MODULE PhaseLoop ------------------------------
(***************************************************************************)
(* An actor thread that runs                                               *)
(*                                                                         *)
(*     for (auto&& config : phaseLoop)      outer loop, PhaseLoopIterator  *)
(*         for (auto _ : config)            inner loop, ActorPhaseIterator *)
(*             body                                                        *)
(*                                                                         *)
(* and the one actor that calls the Orchestrator without a PhaseLoop, the  *)
(* PhaseTimingRecorder.  pc[t] says which operator of which iterator the   *)
(* thread calls next:                                                      *)
(*                                                                         *)
(*   check       outer operator!=            loop    sleeps of inner ==    *)
(*   start       outer operator*             asleep  in a timed wait       *)
(*   awaitStart  in awaitPhaseStart          test    rest of inner ==      *)
(*   started     rest of outer operator*     body    the actor's own code  *)
(*   plusplus    outer operator++            returned, threw  end of run() *)
(*   ending      in awaitPhaseEnd                                          *)
(***************************************************************************)
EXTENDS Orchestrator, FiniteSets

CONSTANTS
  Recorders,    \* the threads that run a PhaseTimingRecorder
  Plans,        \* the workloads considered: per thread its phase map
  IterCap       \* iterations are counted up to here, and stay there

VARIABLES
  plan,         \* _phaseMap of each thread; never changes
  pc,
  inPhase,      \* _currentPhase of the outer, _inPhase of the inner iterator
  iter,         \* _currentIteration
  elapsed,      \* whether the Duration has passed since the phase began
  thrown,       \* the kind of exception that left run(), or "none"
  completed     \* history: the phases a thread left for no abort's sake

loopVars == <<plan, pc, inPhase, iter, elapsed, thrown, completed>>

Unset == -1     \* an empty std::optional

\* What an IterationChecker knows: Repeat, and whether there is a Duration.
\* A Nop phase is built with Repeat 0; `Blocking: None` gives neither.
IterationChecker == [repeat : Nat \cup {Unset}, duration : BOOLEAN]

ASSUME RecordersAssumption == Recorders \subseteq Threads

\* A phase map is defined on any finite set of phase numbers.  The cap on the
\* iteration count is beyond every Repeat, so isDone() never notices it, and
\* a PhaseTimingRecorder has no phase map.
ASSUME PlansAssumption ==
  \A p \in Plans :
    /\ DOMAIN p = Threads
    /\ \A t \in Threads :
         /\ IsFiniteSet(DOMAIN p[t])
         /\ DOMAIN p[t] \subseteq Nat
         /\ \A i \in DOMAIN p[t] : /\ p[t][i] \in IterationChecker
                                   /\ p[t][i].repeat <= IterCap
         /\ t \in Recorders => DOMAIN p[t] = {}

ASSUME IterCapAssumption == IterCap \in Nat

PC == {"unbuilt", "built", "check", "start", "awaitStart", "started", "loop",
       "asleep", "test", "body", "plusplus", "ending", "returned", "threw",
       "unwinding", "exited", "crashed"}

Exception == {"boost", "std", "unknown"}

LoopTypeOK ==
  /\ plan \in Plans
  /\ pc \in [Threads -> PC]
  /\ inPhase \in [Threads -> Nat]
  /\ iter \in [Threads -> 0..IterCap]
  /\ elapsed \in [Threads -> BOOLEAN]
  /\ thrown \in [Threads -> Exception \cup {"none"}]
  /\ completed \in [Threads -> SUBSET Nat]

LoopInit ==
  /\ plan \in Plans
  /\ pc = [t \in Threads |-> "unbuilt"]
  /\ inPhase = [t \in Threads |-> 0]
  /\ iter = [t \in Threads |-> 0]
  /\ elapsed = [t \in Threads |-> FALSE]
  /\ thrown = [t \in Threads |-> "none"]
  /\ completed = [t \in Threads |-> {}]

Goto(t, label) == pc' = [pc EXCEPT ![t] = label]

-----------------------------------------------------------------------------
(* IterationChecker and PhaseLoopIterator::doesBlockOn.                    *)

doesBlockCompletion(c) == c.repeat # Unset \/ c.duration

\* A phase the map does not have counts as blocking.
doesBlockOn(t, phase) ==
  phase \in DOMAIN plan[t] => doesBlockCompletion(plan[t][phase])

isDone(t) ==
  LET c == plan[t][inPhase[t]]
  IN  /\ c.repeat # Unset => iter[t] >= c.repeat
      /\ c.duration => elapsed[t]

-----------------------------------------------------------------------------
(* The outer loop.                                                         *)

\* operator!= of the outer loop; `while (morePhases())` of the recorder.
CheckMorePhases(t) ==
  /\ pc[t] = "check"
  /\ Goto(t, IF morePhases THEN "start" ELSE "returned")
  /\ UNCHANGED <<orchestratorVars, plan, inPhase, iter, elapsed, thrown, completed>>

\* Fault: the phase number is taken to be the last one, not the next one.
CallAwaitPhaseStart_OffByOne(t) ==
  /\ pc[t] = "start"
  /\ \/ StartsPhase(1) /\ Goto(t, "started")
     \/ /\ JoinsPhase(t, TRUE, 1)
        /\ Goto(t, IF WaitsForStart(TRUE) THEN "awaitStart" ELSE "started")
  /\ inPhase' = [inPhase EXCEPT ![t] = current - 1]
  /\ UNCHANGED <<plan, iter, elapsed, thrown, completed>>

\* operator* begins with awaitPhaseStart(), which returns the phase number it
\* read before it waited.
CallAwaitPhaseStart(t) ==
  /\ pc[t] = "start"
  /\ \/ StartsPhase(1) /\ Goto(t, "started")
     \/ /\ JoinsPhase(t, TRUE, 1)
        /\ Goto(t, IF WaitsForStart(TRUE) THEN "awaitStart" ELSE "started")
  /\ inPhase' = [inPhase EXCEPT ![t] = current]
  /\ UNCHANGED <<plan, iter, elapsed, thrown, completed>>

WakeInAwaitPhaseStart(t) ==
  /\ pc[t] = "awaitStart"
  /\ AwaitPhaseStartWakes(t)
  /\ Goto(t, IF WaitsForStart(TRUE) THEN "awaitStart" ELSE "started")
  /\ UNCHANGED <<plan, inPhase, iter, elapsed, thrown, completed>>

\* The inner iterator is built: begin() zeroes the count and notes the time.
BeginInnerLoop(t) ==
  /\ Goto(t, "loop")
  /\ iter' = [iter EXCEPT ![t] = 0]
  /\ elapsed' = [elapsed EXCEPT ![t] = FALSE]
  /\ UNCHANGED <<plan, inPhase, thrown, completed>>

\* A background actor gives its token back at once and runs on without it.
EnterInBackground(t) ==
  /\ pc[t] = "started"
  /\ ~doesBlockOn(t, inPhase[t])
  /\ EndsPhase(1) \/ LeavesPhase(t, FALSE, 1)
  /\ BeginInnerLoop(t)

EnterBlocking(t) ==
  /\ pc[t] = "started"
  /\ t \notin Recorders
  /\ inPhase[t] \in DOMAIN plan[t]
  /\ doesBlockOn(t, inPhase[t])
  /\ BeginInnerLoop(t)
  /\ UNCHANGED orchestratorVars

\* "No phase config found": InvalidConfigurationException, a std::exception.
PhaseNotFound(t) ==
  /\ pc[t] = "started"
  /\ t \notin Recorders
  /\ inPhase[t] \notin DOMAIN plan[t]
  /\ Goto(t, "threw")
  /\ thrown' = [thrown EXCEPT ![t] = "std"]
  /\ UNCHANGED <<orchestratorVars, plan, inPhase, iter, elapsed, completed>>

RecordPhase(t) ==
  /\ pc[t] = "started"
  /\ t \in Recorders
  /\ Goto(t, "plusplus")
  /\ UNCHANGED <<orchestratorVars, plan, inPhase, iter, elapsed, thrown, completed>>

\* Fault: operator++ does not ask whether the actor still has its token.
CallAwaitPhaseEnd_Always(t) ==
  /\ pc[t] = "plusplus"
  /\ \/ EndsPhase(1) /\ Goto(t, "check")
     \/ /\ LeavesPhase(t, TRUE, 1)
        /\ Goto(t, IF WaitsForEnd(TRUE) THEN "ending" ELSE "check")
  /\ UNCHANGED <<plan, inPhase, iter, elapsed, thrown, completed>>

\* operator++, with awaitPhaseEnd(true) if the actor still has its token.
CallAwaitPhaseEnd(t) ==
  /\ pc[t] = "plusplus"
  /\ doesBlockOn(t, inPhase[t])
  /\ \/ EndsPhase(1) /\ Goto(t, "check")
     \/ /\ LeavesPhase(t, TRUE, 1)
        /\ Goto(t, IF WaitsForEnd(TRUE) THEN "ending" ELSE "check")
  /\ UNCHANGED <<plan, inPhase, iter, elapsed, thrown, completed>>

LeaveInBackground(t) ==
  /\ pc[t] = "plusplus"
  /\ ~doesBlockOn(t, inPhase[t])
  /\ Goto(t, "check")
  /\ UNCHANGED <<orchestratorVars, plan, inPhase, iter, elapsed, thrown, completed>>

WakeInAwaitPhaseEnd(t) ==
  /\ pc[t] = "ending"
  /\ AwaitPhaseEndWakes(t)
  /\ Goto(t, IF WaitsForEnd(TRUE) THEN "ending" ELSE "check")
  /\ UNCHANGED <<plan, inPhase, iter, elapsed, thrown, completed>>

-----------------------------------------------------------------------------
(* The inner loop.  The sleeps of operator== (SleepBefore, the waits for   *)
(* the rate limiter, sleepNonBlocking) and SleepAfter change nothing but   *)
(* the time, and one wait of any length stands for all of them.  Those     *)
(* that end with the phase wait at _phaseChange.                           *)

DoNotSleep(t) ==
  /\ pc[t] = "loop"
  /\ Goto(t, "test")
  /\ UNCHANGED <<orchestratorVars, plan, inPhase, iter, elapsed, thrown, completed>>

SleepToPhaseEnd(t) ==
  /\ pc[t] = "loop"
  /\ SleepBegins(t, inPhase[t])
  /\ Goto(t, IF SleepsOn(inPhase[t]) THEN "asleep" ELSE "test")
  /\ UNCHANGED <<plan, inPhase, iter, elapsed, thrown, completed>>

WakeFromSleep(t) ==
  /\ pc[t] = "asleep"
  /\ \/ /\ SleepWakes(t, inPhase[t])
        /\ Goto(t, IF SleepsOn(inPhase[t]) THEN "asleep" ELSE "test")
     \/ SleepTimesOut(t) /\ Goto(t, "test")
  /\ UNCHANGED <<plan, inPhase, iter, elapsed, thrown, completed>>

\* Fault: the inner loop does not ask the Orchestrator whether to go on.
InnerLoopOver_IgnoresAbort(t) ==
  IF doesBlockOn(t, inPhase[t]) THEN isDone(t) ELSE current # inPhase[t]

\* operator== of the inner loop against end().  continueRunning() is read
\* without the mutex; as _errors is only ever set and _current only grows,
\* the two reads have the outcome they would have at one moment.
InnerLoopOver(t) ==
  \/ ~continueRunning
  \/ IF doesBlockOn(t, inPhase[t]) THEN isDone(t) ELSE current # inPhase[t]

TestInnerLoop(t) ==
  /\ pc[t] = "test"
  /\ Goto(t, IF InnerLoopOver(t) THEN "plusplus" ELSE "body")
  /\ completed' = IF InnerLoopOver(t) /\ continueRunning
                  THEN [completed EXCEPT ![t] = @ \cup {inPhase[t]}]
                  ELSE completed
  /\ UNCHANGED <<orchestratorVars, plan, inPhase, iter, elapsed, thrown>>

Iterate(t) ==
  /\ pc[t] = "body"
  /\ Goto(t, "loop")
  /\ iter' = [iter EXCEPT ![t] = IF @ < IterCap THEN @ + 1 ELSE @]
  /\ UNCHANGED <<orchestratorVars, plan, inPhase, elapsed, thrown, completed>>

\* The actor's own code lets an exception escape from run().
BodyThrows(t) ==
  /\ pc[t] = "body"
  /\ Goto(t, "threw")
  /\ \E e \in Exception : thrown' = [thrown EXCEPT ![t] = e]
  /\ UNCHANGED <<orchestratorVars, plan, inPhase, iter, elapsed, completed>>

\* The Duration of the phase passes while the thread is in its inner loop.
DurationElapses(t) ==
  /\ pc[t] \in {"loop", "asleep", "test", "body"}
  /\ plan[t][inPhase[t]].duration
  /\ ~elapsed[t]
  /\ elapsed' = [elapsed EXCEPT ![t] = TRUE]
  /\ UNCHANGED <<orchestratorVars, plan, pc, inPhase, iter, thrown, completed>>

-----------------------------------------------------------------------------
PhaseLoopStep(t) ==
  \/ CheckMorePhases(t)
  \/ CallAwaitPhaseStart(t)
  \/ WakeInAwaitPhaseStart(t)
  \/ EnterInBackground(t)
  \/ EnterBlocking(t)
  \/ PhaseNotFound(t)
  \/ RecordPhase(t)
  \/ DoNotSleep(t)
  \/ SleepToPhaseEnd(t)
  \/ WakeFromSleep(t)
  \/ TestInnerLoop(t)
  \/ Iterate(t)
  \/ BodyThrows(t)
  \/ CallAwaitPhaseEnd(t)
  \/ LeaveInBackground(t)
  \/ WakeInAwaitPhaseEnd(t)
=============================================================================
