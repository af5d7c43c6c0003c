------------------------------ MODULE EventQueue ------------------------------
(***************************************************************************)
(* What an event stream promises: the events of an operation reach the     *)
(* collector in the order they were recorded in, each once, and the stream *)
(* is not closed before the last of them was sent.                         *)
(***************************************************************************)
EXTENDS Naturals, Sequences

CONSTANT Events

VARIABLES
  recorded,      \* the events, in the order of their recording
  sent,          \* the events handed to the collector, in order
  closed         \* whether the stream is closed

queueVars == <<recorded, sent, closed>>

QueueInit == recorded = <<>> /\ sent = <<>> /\ closed = FALSE

Record ==
  /\ ~closed
  /\ \E e \in Events : recorded' = Append(recorded, e)
  /\ UNCHANGED <<sent, closed>>

Send ==
  /\ ~closed
  /\ Len(sent) < Len(recorded)
  /\ sent' = Append(sent, recorded[Len(sent) + 1])
  /\ UNCHANGED <<recorded, closed>>

Close ==
  /\ ~closed /\ closed' = TRUE
  /\ sent = recorded
  /\ UNCHANGED <<recorded, sent>>

QueueNext == Record \/ Send \/ Close

QueueSpec == QueueInit /\ [][QueueNext]_queueVars
=============================================================================
