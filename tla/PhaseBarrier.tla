---------------------------- MODULE PhaseBarrier ----------------------------
(***************************************************************************)
(* What the Orchestrator promises the threads of a workload, as one        *)
(* two-sided barrier: nobody is in a phase before everybody has arrived,   *)
(* the phase ends when the last thread that holds it lets go, and only     *)
(* then may threads arrive for the next one.  An abort ends the promise.   *)
(***************************************************************************)
EXTENDS Naturals

CONSTANT Threads

VARIABLES
  phase,      \* the phase that runs, or the next one to run
  running,    \* whether it runs
  holders,    \* the threads that have arrived and not left
  aborted

vars == <<phase, running, holders, aborted>>

Init ==
  /\ phase = 0
  /\ running = FALSE
  /\ holders = {}
  /\ aborted = FALSE

Arrive(t) ==
  /\ ~aborted /\ ~running
  /\ t \notin holders
  /\ holders' = holders \cup {t}
  /\ running' = (holders' = Threads)
  /\ UNCHANGED <<phase, aborted>>

Leave(t) ==
  /\ ~aborted /\ running
  /\ t \in holders
  /\ holders' = holders \ {t}
  /\ running' = (holders' # {})
  /\ phase' = IF holders' = {} THEN phase + 1 ELSE phase
  /\ UNCHANGED aborted

\* Nothing is promised about the phases of an aborted workload.
Abort == aborted' = TRUE

Next == Abort \/ \E t \in Threads : Arrive(t) \/ Leave(t)

Spec == Init /\ [][Next]_vars
=============================================================================
