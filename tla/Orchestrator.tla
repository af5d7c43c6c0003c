---------------------------- MODULE Orchestrator ----------------------------
(***************************************************************************)
(* The Orchestrator keeps every actor thread of a workload in the same     *)
(* phase.  A thread hands in a token when it is ready for the phase and    *)
(* takes it back when it no longer holds the phase open; the phase starts  *)
(* with the last token in and ends with the last token out.                *)
(*                                                                         *)
(* This module is the class: its fields and one operator per method.  All  *)
(* methods but continueRunning() run under _mutex, so a method is one      *)
(* step up to the point where it waits on _phaseChange; the wait gives the *)
(* mutex up and a second step re-tests the loop condition after a wakeup.  *)
(* A spurious wakeup re-tests the condition and waits again: it stutters.  *)
(***************************************************************************)
EXTENDS Integers, Sequences

CONSTANT Threads           \* the actor threads, each the owner of one token

VARIABLES
  requireTokens,           \* _requireTokens
  currentTokens,           \* _currentTokens
  maxPhase,                \* _max
  current,                 \* _current
  errors,                  \* _errors
  state,                   \* state: a State
  waiting,                 \* per thread: its place at _phaseChange
  hookLog                  \* history: the phase hooks that ran, in order

orchestratorVars ==
  <<requireTokens, currentTokens, maxPhase, current, errors, state, waiting, hookLog>>

State == {"PhaseEnded", "PhaseStarted"}

\* A thread is not at the condition variable, waits on it, or was notified
\* and still has to take the mutex and re-test its condition.
CvPlace == {"running", "waiting", "notified"}

\* A run of the pre-phase-start or post-phase-stop hooks, for a phase.
HookCall == {"pre", "post"} \X Nat

OrchestratorTypeOK ==
  /\ requireTokens \in Int
  /\ currentTokens \in Int
  /\ maxPhase \in Nat
  /\ current \in Nat
  /\ errors \in BOOLEAN
  /\ state \in State
  /\ waiting \in [Threads -> CvPlace]
  /\ hookLog \in Seq(HookCall)

OrchestratorInit ==
  /\ requireTokens = 0
  /\ currentTokens = 0
  /\ maxPhase = 0
  /\ current = 0
  /\ errors = FALSE
  /\ state = "PhaseEnded"
  /\ waiting = [t \in Threads |-> "running"]
  /\ hookLog = <<>>

-----------------------------------------------------------------------------
(* Setup, before any actor thread runs.                                    *)

addRequiredTokens(tokens) ==
  /\ requireTokens' = requireTokens + tokens
  /\ UNCHANGED <<currentTokens, maxPhase, current, errors, state, waiting, hookLog>>

\* Fault: the last caller wins instead of the largest phase.
phasesTo_LastCallerWins(minPhase) ==
  /\ maxPhase' = minPhase
  /\ UNCHANGED <<requireTokens, currentTokens, current, errors, state, waiting, hookLog>>

phasesAtLeastTo(minPhase) ==
  /\ maxPhase' = IF minPhase > maxPhase THEN minPhase ELSE maxPhase
  /\ UNCHANGED <<requireTokens, currentTokens, current, errors, state, waiting, hookLog>>

-----------------------------------------------------------------------------
(* Queries.                                                                *)

continueRunning == ~errors

morePhases == current <= maxPhase /\ ~errors

-----------------------------------------------------------------------------
(* The condition variable.                                                 *)

NotifyAll ==
  [t \in Threads |-> IF waiting[t] = "waiting" THEN "notified" ELSE waiting[t]]

WaitAt(t) == waiting' = [waiting EXCEPT ![t] = "waiting"]

\* A notified thread has the mutex again and its wait condition is over.
Resume(t) ==
  /\ waiting[t] = "notified"
  /\ waiting' = [waiting EXCEPT ![t] = "running"]

\* A notified thread has the mutex again and has to go on waiting.
WaitAgain(t) == waiting[t] = "notified" /\ WaitAt(t)

-----------------------------------------------------------------------------
(* awaitPhaseStart(block, addTokens) and awaitPhaseEnd(block,              *)
(* removeTokens): the disjuncts are the ways a call can go.  StartsPhase   *)
(* and EndsPhase run the hooks with the mutex held.                        *)

\* Fault: the phase starts when one token is still missing.
StartsPhase_OneTokenShort(addTokens) ==
  /\ currentTokens + addTokens >= requireTokens - 1
  /\ currentTokens' = currentTokens + addTokens
  /\ hookLog' = Append(hookLog, <<"pre", current>>)
  /\ waiting' = NotifyAll
  /\ state' = "PhaseStarted"
  /\ UNCHANGED <<requireTokens, maxPhase, current, errors>>

\* Fault: the waiters are not notified.
StartsPhase_NoNotify(addTokens) ==
  /\ currentTokens + addTokens >= requireTokens
  /\ currentTokens' = currentTokens + addTokens
  /\ hookLog' = Append(hookLog, <<"pre", current>>)
  /\ state' = "PhaseStarted"
  /\ UNCHANGED <<requireTokens, maxPhase, current, errors, waiting>>

StartsPhase(addTokens) ==
  /\ currentTokens + addTokens >= requireTokens
  /\ currentTokens' = currentTokens + addTokens
  /\ hookLog' = Append(hookLog, <<"pre", current>>)
  /\ waiting' = NotifyAll
  /\ state' = "PhaseStarted"
  /\ UNCHANGED <<requireTokens, maxPhase, current, errors>>

\* The caller is not the last: it adds its tokens and waits, unless the loop
\* condition is already false or it asked not to block.
WaitsForStart(block) == block /\ state # "PhaseStarted" /\ ~errors

JoinsPhase(t, block, addTokens) ==
  /\ currentTokens + addTokens < requireTokens
  /\ currentTokens' = currentTokens + addTokens
  /\ IF WaitsForStart(block) THEN WaitAt(t) ELSE UNCHANGED waiting
  /\ UNCHANGED <<requireTokens, maxPhase, current, errors, state, hookLog>>

\* Fault: the phase ends while one thread still holds it.
EndsPhase_OneTokenLeft(removeTokens) ==
  /\ currentTokens - removeTokens <= 1
  /\ currentTokens' = currentTokens - removeTokens
  /\ hookLog' = Append(hookLog, <<"post", current>>)
  /\ current' = current + 1
  /\ waiting' = NotifyAll
  /\ state' = "PhaseEnded"
  /\ UNCHANGED <<requireTokens, maxPhase, errors>>

\* Fault: the hooks run after ++_current instead of before it.
EndsPhase_LateHooks(removeTokens) ==
  /\ currentTokens - removeTokens <= 0
  /\ currentTokens' = currentTokens - removeTokens
  /\ current' = current + 1
  /\ hookLog' = Append(hookLog, <<"post", current'>>)
  /\ waiting' = NotifyAll
  /\ state' = "PhaseEnded"
  /\ UNCHANGED <<requireTokens, maxPhase, errors>>

EndsPhase(removeTokens) ==
  /\ currentTokens - removeTokens <= 0
  /\ currentTokens' = currentTokens - removeTokens
  /\ hookLog' = Append(hookLog, <<"post", current>>)
  /\ current' = current + 1
  /\ waiting' = NotifyAll
  /\ state' = "PhaseEnded"
  /\ UNCHANGED <<requireTokens, maxPhase, errors>>

WaitsForEnd(block) == block /\ state # "PhaseEnded" /\ ~errors

LeavesPhase(t, block, removeTokens) ==
  /\ currentTokens - removeTokens > 0
  /\ currentTokens' = currentTokens - removeTokens
  /\ IF WaitsForEnd(block) THEN WaitAt(t) ELSE UNCHANGED waiting
  /\ UNCHANGED <<requireTokens, maxPhase, current, errors, state, hookLog>>

\* The while loop around _phaseChange.wait() in the two methods.
AwaitPhaseStartWakes(t) ==
  /\ IF WaitsForStart(TRUE) THEN WaitAgain(t) ELSE Resume(t)
  /\ UNCHANGED <<requireTokens, currentTokens, maxPhase, current, errors, state, hookLog>>

AwaitPhaseEndWakes(t) ==
  /\ IF WaitsForEnd(TRUE) THEN WaitAgain(t) ELSE Resume(t)
  /\ UNCHANGED <<requireTokens, currentTokens, maxPhase, current, errors, state, hookLog>>

-----------------------------------------------------------------------------
abort ==
  /\ errors' = TRUE
  /\ waiting' = NotifyAll
  /\ UNCHANGED <<requireTokens, currentTokens, maxPhase, current, state, hookLog>>

(* sleepToPhaseEnd(timeout, pn) and sleepUntilOrPhaseEnd(deadline, pn)     *)
(* differ in how the deadline is given.  The wait does not look at _errors *)
(* and may end by timeout at any time.                                     *)
SleepsOn(pn) == current = pn /\ state # "PhaseEnded"

SleepBegins(t, pn) ==
  /\ IF SleepsOn(pn) THEN WaitAt(t) ELSE UNCHANGED waiting
  /\ UNCHANGED <<requireTokens, currentTokens, maxPhase, current, errors, state, hookLog>>

SleepWakes(t, pn) ==
  /\ IF SleepsOn(pn) THEN WaitAgain(t) ELSE Resume(t)
  /\ UNCHANGED <<requireTokens, currentTokens, maxPhase, current, errors, state, hookLog>>

SleepTimesOut(t) ==
  /\ waiting[t] # "running"
  /\ waiting' = [waiting EXCEPT ![t] = "running"]
  /\ UNCHANGED <<requireTokens, currentTokens, maxPhase, current, errors, state, hookLog>>
=============================================================================
