------------------------------ MODULE EventStream ------------------------------
(***************************************************************************)
(* One metrics stream: the actor threads that record events into its       *)
(* MetricsBuffer, the GrpcThread that drains the buffer into the gRPC      *)
(* stream, and the destructor of the GrpcClient that finishes the thread   *)
(* once the actors are done.  Streams share nothing but channels.          *)
(*                                                                         *)
(* The buffer is double: events are appended to _loading under a mutex,    *)
(* and the GrpcThread alone empties _draining, swapping the two when it    *)
(* has run out and enough, or at the end anything, is loaded.              *)
(*                                                                         *)
(* step, the place of the GrpcThread in run():                             *)
(*   test     while (!_finishing)         pop      sendOne(): pop()        *)
(*   lock     about to wait               write    sendOne(): write()      *)
(*   asleep   in _cv.wait_for             close    _stream.finish()        *)
(*   notified woken, not yet running      closed, terminated               *)
(*   reap     reads _finishing for sendOne()                               *)
(***************************************************************************)
EXTENDS Naturals, Sequences

CONSTANTS
  Producers,            \* the threads that record into this stream
  BufferSize,           \* BUFFER_SIZE
  AssertMetricsBuffer,  \* _assertMetricsBuffer
  MaxEvents             \* bound: events recorded in all

ASSUME SizeAssumption == BufferSize \in Nat \ {0} /\ MaxEvents \in Nat
ASSUME AssertAssumption == AssertMetricsBuffer \in BOOLEAN

VARIABLES
  loading,              \* *_loading
  draining,             \* *_draining
  location,             \* _location
  finishing,            \* _finishing
  inFlight,             \* _inFlight
  step,
  force,                \* sendOne()'s argument, read before the call
  last,                 \* whether run() is past its loop
  hand,                 \* the event popped and not yet written, if any
  waker,                \* per producer: whether it is about to wake()
  main,                 \* the thread that destroys the GrpcClient
  recorded,             \* history: every event, in the order of recording
  sent                  \* history: the events written to the gRPC stream

buffer == <<loading, draining, location>>
vars == <<buffer, finishing, inFlight, step, force, last, hand, waker, main,
          recorded, sent>>

Events == Producers \X (1..MaxEvents)

Step == {"test", "lock", "asleep", "notified", "reap", "pop", "write", "close",
         "closed", "terminated"}

TypeOK ==
  /\ loading \in Seq(Events) /\ draining \in Seq(Events) /\ location \in Nat
  /\ finishing \in BOOLEAN /\ inFlight \in BOOLEAN
  /\ step \in Step /\ force \in BOOLEAN /\ last \in BOOLEAN
  /\ hand \in Seq(Events)
  /\ waker \in [Producers -> BOOLEAN]
  /\ main \in {"running", "finish", "notify", "join", "joined"}
  /\ recorded \in Seq(Events) /\ sent \in Seq(Events)

Init ==
  /\ loading = <<>> /\ draining = <<>> /\ location = 0
  /\ finishing = FALSE /\ inFlight = FALSE
  /\ step = "test" /\ force = FALSE /\ last = FALSE
  /\ hand = <<>>
  /\ waker = [p \in Producers |-> FALSE]
  /\ main = "running"
  /\ recorded = <<>> /\ sent = <<>>

\* An exception that leaves run() ends the process.
Alive == step # "terminated"

\* wake(): the notification reaches a thread that waits, and no other.
Wake == step' = IF step = "asleep" THEN "notified" ELSE step

-----------------------------------------------------------------------------
(* EventStream::addAt.                                                     *)

\* The next event of producer p; its number tells it from every other.
NextEvent(p) == <<p, Len(recorded) + 1>>

AddAt(p) ==
  /\ Alive /\ main = "running" /\ ~waker[p] /\ Len(recorded) < MaxEvents
  /\ loading' = Append(loading, NextEvent(p))
  /\ recorded' = Append(recorded, NextEvent(p))
  /\ waker' = [waker EXCEPT ![p] = 100 * Len(loading') >= 95 * BufferSize]
  /\ UNCHANGED <<draining, location, finishing, inFlight, step, force, last, hand, main, sent>>

WakeSubscriber(p) ==
  /\ Alive /\ waker[p]
  /\ Wake
  /\ waker' = [waker EXCEPT ![p] = FALSE]
  /\ UNCHANGED <<buffer, finishing, inFlight, force, last, hand, main, recorded, sent>>

-----------------------------------------------------------------------------
(* ~GrpcClient, with every producer joined: finish() stores and notifies   *)
(* without _cvLock; the members are destroyed next, threads first.         *)

BeginFinish ==
  /\ Alive /\ main = "running" /\ \A p \in Producers : ~waker[p]
  /\ main' = "finish"
  /\ UNCHANGED <<buffer, finishing, inFlight, step, force, last, hand, waker, recorded, sent>>

StoreFinishing ==
  /\ Alive /\ main = "finish"
  /\ main' = "notify"
  /\ finishing' = TRUE
  /\ UNCHANGED <<buffer, inFlight, step, force, last, hand, waker, recorded, sent>>

NotifyFinishing ==
  /\ Alive /\ main = "notify"
  /\ main' = "join"
  /\ Wake
  /\ UNCHANGED <<buffer, finishing, inFlight, force, last, hand, waker, recorded, sent>>

Join ==
  /\ main = "join" /\ step = "closed"
  /\ main' = "joined"
  /\ UNCHANGED <<buffer, finishing, inFlight, step, force, last, hand, waker, recorded, sent>>

-----------------------------------------------------------------------------
(* GrpcThread::run.                                                        *)

TestFinishing ==
  /\ step = "test"
  /\ step' = IF finishing THEN "reap" ELSE "lock"
  /\ last' = finishing
  /\ UNCHANGED <<buffer, finishing, inFlight, force, hand, waker, main, recorded, sent>>

WaitFor ==
  /\ step = "lock"
  /\ step' = "asleep"
  /\ UNCHANGED <<buffer, finishing, inFlight, force, last, hand, waker, main, recorded, sent>>

\* Fault: wait() instead of wait_for().
WakeUp_NoTimeout ==
  /\ step = "notified"
  /\ step' = "reap"
  /\ UNCHANGED <<buffer, finishing, inFlight, force, last, hand, waker, main, recorded, sent>>

\* The thread was notified, or its time is over; any wakeup is as good.
WakeUp ==
  /\ step \in {"asleep", "notified"}
  /\ step' = "reap"
  /\ UNCHANGED <<buffer, finishing, inFlight, force, last, hand, waker, main, recorded, sent>>

\* reapActor() calls sendOne(_finishing, _assertMetricsBuffer).
ReadFinishing ==
  /\ step = "reap"
  /\ step' = "pop"
  /\ force' = finishing
  /\ UNCHANGED <<buffer, finishing, inFlight, last, hand, waker, main, recorded, sent>>

-----------------------------------------------------------------------------
(* MetricsBuffer::pop.                                                     *)

\* Fault: the buffers are swapped whether or not _draining is used up.
Refresh_Always ==
  IF force \/ 10 * Len(loading) >= 4 * BufferSize
  THEN [draining |-> loading, loading |-> <<>>, location |-> 0]
  ELSE [draining |-> draining, loading |-> loading, location |-> location]

\* The buffers after refresh().
Refresh ==
  IF location < Len(draining)
  THEN [draining |-> draining, loading |-> loading, location |-> location]
  ELSE IF force \/ 10 * Len(loading) >= 4 * BufferSize
       THEN [draining |-> loading, loading |-> <<>>, location |-> 0]
       ELSE [draining |-> <<>>, loading |-> loading, location |-> 0]

\* The size is asserted after a swap: MetricsError.
Overflows(b) == location >= Len(draining) /\ Len(b.draining) > BufferSize /\ AssertMetricsBuffer

\* Fault: an event is left over when the thread runs for the last time.
AfterReap_NoDrain == IF last \/ finishing THEN "close" ELSE "test"

\* reapActor() is over: back to the loop, or on to the end of run().
AfterReap == IF last THEN "close" ELSE "test"

Pop ==
  /\ step = "pop"
  /\ LET b == Refresh IN
       /\ draining' = b.draining /\ loading' = b.loading
       /\ IF Overflows(b)
          THEN step' = "terminated" /\ location' = b.location /\ UNCHANGED hand
          ELSE IF b.location >= Len(b.draining)
          THEN step' = AfterReap /\ location' = b.location /\ UNCHANGED hand
          ELSE /\ step' = "write"
               /\ location' = b.location + 1
               /\ hand' = <<b.draining[b.location + 1]>>
  /\ UNCHANGED <<finishing, inFlight, force, last, waker, main, recorded, sent>>

-----------------------------------------------------------------------------
(* StreamInterfaceImpl.  One call is in flight at a time, so write() first *)
(* waits for the call before; if that failed, PoplarRequestError.          *)

Write ==
  /\ step = "write"
  /\ \/ /\ sent' = sent \o hand
        /\ hand' = <<>>
        /\ inFlight' = TRUE
        /\ step' = "reap"
     \/ /\ inFlight
        /\ inFlight' = FALSE
        /\ step' = "terminated"
        /\ UNCHANGED <<sent, hand>>
  /\ UNCHANGED <<buffer, finishing, force, last, waker, main, recorded>>

\* finish() logs what fails, and goes on.
FinishStream ==
  /\ step = "close"
  /\ step' = "closed"
  /\ inFlight' = FALSE
  /\ UNCHANGED <<buffer, finishing, force, last, hand, waker, main, recorded, sent>>

-----------------------------------------------------------------------------
GrpcThread ==
  \/ TestFinishing \/ WaitFor \/ WakeUp \/ ReadFinishing \/ Pop \/ Write \/ FinishStream

GrpcClient == BeginFinish \/ StoreFinishing \/ NotifyFinishing \/ Join

Next ==
  \/ \E p \in Producers : AddAt(p) \/ WakeSubscriber(p)
  \/ GrpcClient
  \/ GrpcThread

Spec == Init /\ [][Next]_vars

\* The operating system runs every thread, and ends a timed wait.
FairSpec ==
  /\ Spec
  /\ WF_vars(GrpcThread)
  /\ WF_vars(StoreFinishing \/ NotifyFinishing \/ Join)

-----------------------------------------------------------------------------
(* Properties.                                                             *)

\* No event is lost, doubled or overtaken on its way through the two buffers:
\* at every moment the recorded events are those sent, the one in hand, what
\* _draining still holds and what is loaded, in this order.
Conservation ==
  recorded = sent \o hand \o SubSeq(draining, location + 1, Len(draining)) \o loading

Queue == INSTANCE EventQueue WITH closed <- (step = "closed")

\* The stream is the FIFO queue that the collector expects, closed only when
\* everything recorded was sent.
ImplementsQueue == Queue!QueueSpec

\* ~GrpcThread's join() returns although finish() may notify a thread that does
\* not wait yet: nobody is stuck in the destructor, unless the process ended.
JoinReturns == main = "finish" ~> main = "joined" \/ step = "terminated"
=============================================================================
