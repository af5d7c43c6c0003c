-------------------------- MODULE EventStream_proofs --------------------------
(***************************************************************************)
(* The double buffer loses, doubles and reorders no event, for every       *)
(* buffer size and every number of producers, and an event stream          *)
(* implements the FIFO queue.                                              *)
(***************************************************************************)
EXTENDS EventStream, SequenceTheorems, TLAPS

\* What _draining still has to give.
Rest == SubSeq(draining, location + 1, Len(draining))

-----------------------------------------------------------------------------
(* Sequences.                                                              *)

\* A suffix of a sequence is a sequence over the same set.
LEMMA SuffixIsSeq ==
  ASSUME NEW S, NEW s \in Seq(S), NEW i \in Nat
  PROVE  SubSeq(s, i + 1, Len(s)) \in Seq(S)
<1>1. \A j \in i + 1 .. Len(s) : s[j] \in S
  BY LenProperties
<1>2. Len(s) \in Int /\ i + 1 \in Int
  BY LenProperties
<1> QED
  BY <1>1, <1>2, SubSeqProperties

\* Appending to the last of four parts is appending to the whole.
LEMMA AppendToLast ==
  ASSUME NEW S, NEW a \in Seq(S), NEW b \in Seq(S), NEW e \in S
  PROVE  a \o Append(b, e) = Append(a \o b, e)
<1>1. <<e>> \in Seq(S) /\ a \o b \in Seq(S)
  BY ConcatProperties
<1>2. Append(b, e) = b \o <<e>>
  BY AppendIsConcat
<1>3. Append(a \o b, e) = (a \o b) \o <<e>>
  BY <1>1, AppendIsConcat
<1>4. (a \o b) \o <<e>> = a \o (b \o <<e>>)
  BY <1>1, ConcatAssociative
<1> QED
  BY <1>2, <1>3, <1>4

\* Concatenation of event sequences is associative.
LEMMA EventsAssociate ==
  \A s, t, u \in Seq(Events) : (s \o t) \o u = s \o (t \o u)
BY ConcatAssociative

\* A suffix that is not empty is its first element and a shorter suffix.
LEMMA SuffixSplits ==
  ASSUME NEW S, NEW s \in Seq(S), NEW i \in Nat, i < Len(s)
  PROVE  SubSeq(s, i + 1, Len(s)) = <<s[i + 1]>> \o SubSeq(s, i + 1 + 1, Len(s))
<1>1. Len(s) \in Nat
  BY LenProperties
<1>2. i + 1 \in 1 .. Len(s) /\ Len(s) \in i + 1 .. Len(s)
  BY <1>1
<1> DEFINE m == i + 1
<1> HIDE DEF m
<1>3. m \in 1 .. Len(s) /\ Len(s) \in m .. Len(s)
  BY <1>2 DEF m
<1>4. SubSeq(s, m, Len(s)) = <<s[m]>> \o SubSeq(s, m + 1, Len(s))
  BY <1>3, SubSeqRecursiveFirst
<1> QED
  BY <1>4 DEF m

-----------------------------------------------------------------------------
(* Types.                                                                  *)

\* The state has its type; every event in a buffer is an event.
LEMMA TypeInit == Init => TypeOK
<1> SUFFICES ASSUME Init PROVE TypeOK
  OBVIOUS
<1>1. <<>> \in Seq(Events)
  BY EmptySeq
<1>2. waker \in [Producers -> BOOLEAN]
  BY DEF Init
<1>3. step \in Step /\ location \in Nat
  BY DEF Init, Step
<1> QED
  BY <1>1, <1>2, <1>3, Zenon DEF Init, TypeOK

\* TypeOK is kept by every step.
LEMMA TypeNext == TypeOK /\ [Next]_vars => TypeOK'
<1> SUFFICES ASSUME TypeOK, [Next]_vars PROVE TypeOK'
  OBVIOUS
<1> USE DEF TypeOK, Step
<1>1. ASSUME NEW p \in Producers, AddAt(p) PROVE TypeOK'
  <2>1. NextEvent(p) \in Events
    BY <1>1, SizeAssumption DEF AddAt, NextEvent, Events
  <2>2. waker' \in [Producers -> BOOLEAN]
    BY <1>1 DEF AddAt
  <2> QED
    BY <1>1, <2>1, <2>2, AppendProperties DEF AddAt
<1>2. ASSUME NEW p \in Producers, WakeSubscriber(p) PROVE TypeOK'
  BY <1>2 DEF WakeSubscriber, Wake, buffer
<1>3. CASE GrpcClient
  BY <1>3 DEF GrpcClient, BeginFinish, StoreFinishing, NotifyFinishing, Join, Wake, buffer
<1>4. CASE TestFinishing \/ WaitFor \/ WakeUp \/ ReadFinishing \/ FinishStream
  BY <1>4 DEF TestFinishing, WaitFor, WakeUp, ReadFinishing, FinishStream, buffer
<1>5. CASE Pop
  <2>1. /\ Refresh.draining \in Seq(Events) /\ Refresh.loading \in Seq(Events)
        /\ Refresh.location \in Nat
    BY DEF Refresh
  <2>2. draining' \in Seq(Events) /\ loading' \in Seq(Events)
    BY <1>5, <2>1 DEF Pop
  <2>3. location' \in Nat /\ step' \in Step
    BY <1>5, <2>1 DEF Pop, AfterReap
  <2>4. hand' \in Seq(Events)
    <3>1. CASE UNCHANGED hand
      BY <3>1
    <3>2. CASE hand' = <<Refresh.draining[Refresh.location + 1]>> /\ Refresh.location < Len(Refresh.draining)
      <4>1. Refresh.draining[Refresh.location + 1] \in Events
        BY <2>1, <3>2, LenProperties
      <4> QED
        BY <3>2, <4>1
    <3> QED
      BY <1>5, <2>1, <3>1, <3>2, LenProperties DEF Pop
  <2> QED
    BY <1>5, <2>2, <2>3, <2>4 DEF Pop
<1>6. CASE Write
  <2>1. sent \o hand \in Seq(Events) /\ <<>> \in Seq(Events)
    BY ConcatProperties, EmptySeq
  <2>2. sent' \in Seq(Events) /\ hand' \in Seq(Events)
    BY <1>6, <2>1, Zenon DEF Write
  <2>3. inFlight' \in BOOLEAN /\ step' \in Step
    BY <1>6 DEF Write
  <2> QED
    BY <1>6, <2>2, <2>3, Zenon DEF Write, buffer
<1>7. CASE UNCHANGED vars
  BY <1>7 DEF vars, buffer
<1> QED
  BY <1>1, <1>2, <1>3, <1>4, <1>5, <1>6, <1>7 DEF Next, GrpcThread

-----------------------------------------------------------------------------
(* The inductive invariant.                                                *)

\* An event is in hand between pop() and write(), and when write() threw.
HandInv ==
  /\ step \notin {"write", "terminated"} => hand = <<>>
  /\ step = "write" => \E e \in Events : hand = <<e>>

\* The last pass forces the swap, so it ends with both buffers used up; by then
\* nobody records any more.
LastInv ==
  /\ finishing => main # "running"
  /\ last => finishing
  /\ last /\ step \in {"pop", "write"} => force
  /\ step \in {"close", "closed"} => last /\ Rest = <<>> /\ loading = <<>>
  /\ last => step \in {"reap", "pop", "write", "close", "closed", "terminated"}

StreamInv == TypeOK /\ HandInv /\ LastInv /\ Conservation

\* An empty stream.
LEMMA StreamInit == Init => StreamInv
<1> SUFFICES ASSUME Init PROVE StreamInv
  OBVIOUS
<1>1. TypeOK
  BY TypeInit
<1>2. HandInv /\ LastInv
  BY DEF Init, HandInv, LastInv
<1>3. Rest = <<>>
  BY SubSeqEmpty, EmptySeq DEF Init, Rest
<1>4. <<>> \o <<>> = <<>>
  BY EmptySeq, ConcatEmptySeq
<1>5. Conservation
  BY <1>3, <1>4 DEF Init, Conservation, Rest
<1> QED
  BY <1>1, <1>2, <1>5 DEF StreamInv

\* A step that leaves the buffers, the hand and the histories alone.
LEMMA BuffersUntouched ==
  ASSUME Conservation, UNCHANGED <<buffer, hand, recorded, sent>>
  PROVE  Conservation'
BY DEF Conservation, buffer

\* Recording: the event goes to the end of _loading and of the history.
LEMMA AddAtConserves ==
  ASSUME StreamInv, NEW p \in Producers, AddAt(p)
  PROVE  Conservation'
<1> USE DEF StreamInv, TypeOK
<1> DEFINE front == sent \o hand \o Rest
<1>1. NextEvent(p) \in Events
  BY SizeAssumption DEF AddAt, NextEvent, Events
<1>2. Rest \in Seq(Events)
  BY SuffixIsSeq DEF Rest
<1>3. front \in Seq(Events)
  BY <1>2, ConcatProperties
<1>4. recorded = front \o loading
  BY DEF Conservation, Rest
<1>5. recorded' = front \o loading'
  <2> HIDE DEF front
  <2>1. loading' = Append(loading, NextEvent(p)) /\ recorded' = Append(recorded, NextEvent(p))
    BY DEF AddAt
  <2>2. front \o Append(loading, NextEvent(p)) = Append(front \o loading, NextEvent(p))
    BY <1>1, <1>3, AppendToLast
  <2> QED
    BY <1>4, <2>1, <2>2
<1> QED
  BY <1>5 DEF AddAt, Conservation, Rest

\* pop() moves events between the buffers and the hand without a change of
\* their order: the head of _draining is taken, and _loading follows it.
LEMMA PopConserves ==
  ASSUME StreamInv, Pop
  PROVE  Conservation'
<1>1. /\ hand = <<>> /\ sent \in Seq(Events) /\ location \in Nat
      /\ draining \in Seq(Events) /\ loading \in Seq(Events)
  BY DEF StreamInv, TypeOK, HandInv, Pop
<1> DEFINE d == Refresh.draining
           l == Refresh.loading
           n == Refresh.location
           rest == SubSeq(d, n + 1, Len(d))
<1>2. d \in Seq(Events) /\ l \in Seq(Events) /\ n \in Nat /\ Len(d) \in Nat
  BY <1>1, LenProperties DEF Refresh
<1>3. rest \o l = Rest \o loading
  <2>1. CASE location < Len(draining)
    BY <2>1 DEF Refresh, Rest
  <2>2. CASE ~(location < Len(draining))
    <3>1. Rest = <<>>
      <4>1. Len(draining) \in Int /\ Len(draining) < location + 1
        BY <1>1, <2>2, LenProperties
      <4> QED
        BY <1>1, <4>1, SubSeqEmpty DEF Rest
    <3>2. Rest \o loading = loading /\ loading \o <<>> = loading
      BY <1>1, <3>1, ConcatEmptySeq
    <3>3. CASE force \/ 10 * Len(loading) >= 4 * BufferSize
      <4>1. d = loading /\ l = <<>> /\ n = 0
        BY <2>2, <3>3 DEF Refresh
      <4>2. rest = loading
        BY <1>1, <4>1, SubSeqFull
      <4> QED
        BY <3>2, <4>1, <4>2
    <3>4. CASE ~(force \/ 10 * Len(loading) >= 4 * BufferSize)
      <4>1. d = <<>> /\ l = loading /\ n = 0
        BY <2>2, <3>4 DEF Refresh
      <4>2. rest = <<>>
        BY <4>1, SubSeqEmpty, EmptySeq
      <4> QED
        BY <3>1, <4>1, <4>2
    <3> QED
      BY <3>3, <3>4
  <2> QED
    BY <2>1, <2>2
<1>4. rest \in Seq(Events) /\ Rest \in Seq(Events)
  BY <1>1, <1>2, SuffixIsSeq DEF Rest
<1>5. draining' = d /\ loading' = l /\ recorded' = recorded /\ sent' = sent
  BY DEF Pop
<1>6. \/ location' = n /\ hand' = <<>>
      \/ n < Len(d) /\ location' = n + 1 /\ hand' = <<d[n + 1]>>
  BY <1>1, <1>2 DEF Pop
<1>7. Rest' = SubSeq(d, location' + 1, Len(d))
  BY <1>5 DEF Rest
<1>8. rest = hand' \o Rest' /\ hand' \in Seq(Events) /\ Rest' \in Seq(Events)
  <2>1. CASE location' = n /\ hand' = <<>>
    BY <1>4, <1>7, <2>1, ConcatEmptySeq, EmptySeq
  <2>2. CASE n < Len(d) /\ location' = n + 1 /\ hand' = <<d[n + 1]>>
    <3> HIDE DEF d, n
    <3>1. d[n + 1] \in Events /\ n + 1 \in Nat
      BY <1>2, <2>2, LenProperties
    <3>2. hand' \in Seq(Events)
      BY <2>2, <3>1
    <3>3. Rest' \in Seq(Events)
      BY <1>2, <1>7, <2>2, <3>1, SuffixIsSeq
    <3>4. rest = <<d[n + 1]>> \o SubSeq(d, n + 1 + 1, Len(d))
      BY <1>2, <2>2, SuffixSplits
    <3> QED
      BY <1>7, <2>2, <3>2, <3>3, <3>4
  <2> QED
    BY <1>6, <2>1, <2>2
<1>9. recorded = (sent \o Rest) \o loading
  <2>1. sent \o <<>> = sent
    BY <1>1, ConcatEmptySeq
  <2> QED
    BY <1>1, <2>1 DEF StreamInv, Conservation, Rest
<1> DEFINE h == hand'
           r == Rest'
<1> HIDE DEF d, l, n, rest, h, r
<1>10. recorded = ((sent \o h) \o r) \o l
  <2>1. h \in Seq(Events) /\ r \in Seq(Events) /\ rest = h \o r
    BY <1>8 DEF h, r
  <2>2. recorded = sent \o (Rest \o loading)
    <3>1. (sent \o Rest) \o loading = sent \o (Rest \o loading)
      BY <1>1, <1>4, EventsAssociate
    <3> QED
      BY <1>9, <3>1
  <2>3. recorded = (sent \o rest) \o l
    <3>1. recorded = sent \o (rest \o l)
      BY <1>3, <2>2
    <3>2. (sent \o rest) \o l = sent \o (rest \o l)
      <4>1. sent \in Seq(Events) /\ rest \in Seq(Events) /\ l \in Seq(Events)
        BY <1>1, <1>2, <1>4
      <4> QED
        BY <4>1, EventsAssociate, Zenon
    <3> QED
      BY <3>1, <3>2
  <2> QED
    BY <1>1, <2>1, <2>3, EventsAssociate
<1>11. recorded' = sent' \o hand' \o Rest' \o loading'
  BY <1>5, <1>10 DEF h, r
<1> QED
  BY <1>11 DEF Conservation, Rest

\* write(): the event in hand goes to the end of what was sent.
LEMMA WriteConserves ==
  ASSUME StreamInv, Write
  PROVE  Conservation'
<1> USE DEF StreamInv, TypeOK
<1>1. CASE UNCHANGED <<sent, hand>>
  BY <1>1 DEF Write, buffer, Conservation
<1>2. CASE sent' = sent \o hand /\ hand' = <<>>
  <2>1. sent \o hand \in Seq(Events)
    BY ConcatProperties
  <2>2. sent' \o hand' = sent \o hand
    BY <1>2, <2>1, ConcatEmptySeq
  <2> QED
    BY <2>2 DEF Write, buffer, Conservation
<1> QED
  BY <1>1, <1>2 DEF Write

\* The last pass: LastInv is kept by every step.
LEMMA LastNext == StreamInv /\ [Next]_vars => LastInv'
<1> SUFFICES ASSUME StreamInv, [Next]_vars PROVE LastInv'
  OBVIOUS
<1> USE DEF StreamInv, LastInv
<1>1. ASSUME NEW p \in Producers, AddAt(p) PROVE LastInv'
  BY <1>1 DEF AddAt, Alive, Rest
<1>2. ASSUME NEW p \in Producers, WakeSubscriber(p) PROVE LastInv'
  BY <1>2 DEF WakeSubscriber, Wake, Rest, buffer
<1>3. CASE GrpcClient
  BY <1>3 DEF GrpcClient, BeginFinish, StoreFinishing, NotifyFinishing, Join, Wake, Rest, buffer
<1>4. CASE TestFinishing \/ WaitFor \/ WakeUp \/ ReadFinishing \/ FinishStream
  BY <1>4 DEF TestFinishing, WaitFor, WakeUp, ReadFinishing, FinishStream, Rest, buffer
<1>5. CASE Pop
  <2>1. step' \in {"terminated", "write", "close", "test"}
    BY <1>5 DEF Pop, AfterReap
  <2>2. step' = "close" => last /\ Rest' = <<>> /\ loading' = <<>>
    <3> SUFFICES ASSUME step' = "close" PROVE last /\ Rest' = <<>> /\ loading' = <<>>
      OBVIOUS
    <3>1. last /\ force
      BY <1>5 DEF Pop, AfterReap
    <3>2. /\ Refresh.location >= Len(Refresh.draining)
          /\ location' = Refresh.location
          /\ draining' = Refresh.draining /\ loading' = Refresh.loading
      BY <1>5 DEF Pop
    <3>3. /\ Len(draining) \in Nat /\ Len(loading) \in Nat /\ location \in Nat
          /\ draining \in Seq(Events) /\ loading \in Seq(Events)
      BY LenProperties DEF TypeOK
    <3>4. ~(location < Len(draining))
      BY <3>2, <3>3 DEF Refresh
    <3>5. Refresh = [draining |-> loading, loading |-> <<>>, location |-> 0]
      BY <3>1, <3>4 DEF Refresh
    <3>6. draining' = loading /\ loading' = <<>> /\ location' = 0 /\ Len(loading) = 0
      BY <3>2, <3>3, <3>5
    <3>7. Rest' = <<>>
      <4>1. Rest' = SubSeq(loading, 1, 0)
        BY <3>6 DEF Rest
      <4> QED
        BY <4>1, SubSeqEmpty
    <3> QED
      BY <3>1, <3>6, <3>7
  <2>3. step' = "test" => ~last
    BY <1>5 DEF Pop, AfterReap
  <2> QED
    BY <1>5, <2>1, <2>2, <2>3 DEF Pop
<1>6. CASE Write
  BY <1>6 DEF Write, Rest, buffer
<1>7. CASE UNCHANGED vars
  BY <1>7 DEF vars, Rest, buffer
<1> QED
  BY <1>1, <1>2, <1>3, <1>4, <1>5, <1>6, <1>7 DEF Next, GrpcThread

\* HandInv is kept by every step.
LEMMA HandNext == StreamInv /\ [Next]_vars => HandInv'
<1> SUFFICES ASSUME StreamInv, [Next]_vars PROVE HandInv'
  OBVIOUS
<1> USE DEF StreamInv, HandInv
<1>1. CASE \E p \in Producers : AddAt(p) \/ WakeSubscriber(p)
  BY <1>1 DEF AddAt, WakeSubscriber, Wake
<1>2. CASE GrpcClient
  BY <1>2 DEF GrpcClient, BeginFinish, StoreFinishing, NotifyFinishing, Join, Wake
<1>3. CASE TestFinishing \/ WaitFor \/ WakeUp \/ ReadFinishing \/ Write \/ FinishStream
  BY <1>3 DEF TestFinishing, WaitFor, WakeUp, ReadFinishing, Write, FinishStream
<1>4. CASE Pop
  <2>1. CASE step' = "write"
    <3>1. /\ Refresh.draining \in Seq(Events) /\ Refresh.location \in Nat
          /\ Len(Refresh.draining) \in Nat
      BY LenProperties DEF TypeOK, Refresh
    <3>2. /\ ~(Refresh.location >= Len(Refresh.draining))
          /\ hand' = <<Refresh.draining[Refresh.location + 1]>>
      BY <1>4, <2>1 DEF Pop, AfterReap
    <3>3. Refresh.draining[Refresh.location + 1] \in Events
      BY <3>1, <3>2, LenProperties
    <3> QED
      BY <2>1, <3>2, <3>3
  <2>2. CASE step' # "write"
    BY <1>4, <2>2 DEF Pop
  <2> QED
    BY <2>1, <2>2
<1>5. CASE UNCHANGED vars
  BY <1>5 DEF vars
<1> QED
  BY <1>1, <1>2, <1>3, <1>4, <1>5 DEF Next, GrpcThread

\* The invariant is inductive.
LEMMA StreamNext == StreamInv /\ [Next]_vars => StreamInv'
<1> SUFFICES ASSUME StreamInv, [Next]_vars PROVE Conservation'
  BY TypeNext, LastNext, HandNext DEF StreamInv
<1>1. ASSUME NEW p \in Producers, AddAt(p) PROVE Conservation'
  BY <1>1, AddAtConserves
<1>2. CASE \E p \in Producers : WakeSubscriber(p)
  BY <1>2, BuffersUntouched DEF StreamInv, WakeSubscriber
<1>3. CASE GrpcClient
  BY <1>3, BuffersUntouched
     DEF StreamInv, GrpcClient, BeginFinish, StoreFinishing, NotifyFinishing, Join
<1>4. CASE TestFinishing \/ WaitFor \/ WakeUp \/ ReadFinishing \/ FinishStream
  BY <1>4, BuffersUntouched
     DEF StreamInv, TestFinishing, WaitFor, WakeUp, ReadFinishing, FinishStream
<1>5. CASE Pop
  BY <1>5, PopConserves
<1>6. CASE Write
  BY <1>6, WriteConserves
<1>7. CASE UNCHANGED vars
  BY <1>7, BuffersUntouched DEF StreamInv, vars
<1> QED
  BY <1>1, <1>2, <1>3, <1>4, <1>5, <1>6, <1>7 DEF Next, GrpcThread

\* Conservation: whatever the size of the buffer and the number of producers,
\* no event is lost, doubled or overtaken between addAt() and write().
THEOREM NoEventLost == Spec => []Conservation
<1>1. StreamInv => Conservation
  BY DEF StreamInv
<1> QED
  BY StreamInit, StreamNext, <1>1, PTL DEF Spec

-----------------------------------------------------------------------------
(* Refinement.                                                             *)

\* A write() that succeeds sends the next event of the queue.
LEMMA WriteSends ==
  ASSUME StreamInv, Write, sent' # sent
  PROVE  Queue!Send
<1>1. /\ sent \in Seq(Events) /\ hand \in Seq(Events) /\ loading \in Seq(Events)
      /\ Rest \in Seq(Events) /\ recorded \in Seq(Events)
  BY SuffixIsSeq DEF StreamInv, TypeOK, Rest
<1>2. sent' = sent \o hand /\ step = "write" /\ step' = "reap" /\ recorded' = recorded
  BY DEF Write
<1>3. PICK e \in Events : hand = <<e>>
  BY <1>2 DEF StreamInv, HandInv
<1> DEFINE tail == Rest \o loading
<1>4. tail \in Seq(Events)
  BY <1>1, ConcatProperties
<1> HIDE DEF tail
<1>5. recorded = (sent \o hand) \o tail
  <2>1. sent \o hand \in Seq(Events)
    BY <1>1, ConcatProperties
  <2>2. recorded = ((sent \o hand) \o Rest) \o loading
    BY DEF StreamInv, Conservation, Rest
  <2> QED
    <3>1. ((sent \o hand) \o Rest) \o loading = (sent \o hand) \o (Rest \o loading)
      BY <1>1, <2>1, EventsAssociate
    <3> QED
      BY <2>2, <3>1 DEF tail
<1>6. sent \o hand = Append(sent, e)
  BY <1>1, <1>3, AppendIsConcat
<1>7. /\ Append(sent, e) \in Seq(Events)
      /\ Len(Append(sent, e)) = Len(sent) + 1
      /\ Append(sent, e)[Len(sent) + 1] = e
      /\ Len(sent) \in Nat /\ Len(tail) \in Nat
  BY <1>1, <1>4, AppendProperties, LenProperties
<1>8. Len(recorded) = Len(sent) + 1 + Len(tail) /\ recorded[Len(sent) + 1] = e
  BY <1>4, <1>5, <1>6, <1>7, ConcatProperties
<1>9. Len(sent) < Len(recorded)
  BY <1>7, <1>8
<1>10. sent' = Append(sent, recorded[Len(sent) + 1])
  BY <1>2, <1>6, <1>8
<1> QED
  BY <1>2, <1>9, <1>10 DEF Queue!Send

\* finish() closes a stream of which everything was sent.
LEMMA FinishCloses ==
  ASSUME StreamInv, FinishStream
  PROVE  Queue!Close
<1>1. /\ sent \in Seq(Events) /\ hand = <<>> /\ Rest = <<>> /\ loading = <<>>
  BY DEF StreamInv, TypeOK, HandInv, LastInv, FinishStream
<1>2. sent \o <<>> = sent
  BY <1>1, ConcatEmptySeq
<1>3. recorded = sent
  BY <1>1, <1>2 DEF StreamInv, Conservation, Rest
<1> QED
  BY <1>3 DEF FinishStream, Queue!Close

\* ImplementsQueue: every step of the stream is a step of the FIFO queue or
\* leaves it alone.
THEOREM Refinement == Spec => ImplementsQueue
<1>1. Init => Queue!QueueInit
  BY DEF Init, Queue!QueueInit
<1>2. StreamInv /\ [Next]_vars => [Queue!QueueNext]_(Queue!queueVars)
  <2> SUFFICES ASSUME StreamInv, [Next]_vars,
                      ~ UNCHANGED <<recorded, sent, step = "closed">>
               PROVE  Queue!QueueNext
    BY DEF Queue!queueVars
  <2>1. ASSUME NEW p \in Producers, AddAt(p) PROVE Queue!QueueNext
    <3>1. NextEvent(p) \in Events
      BY <2>1, SizeAssumption DEF AddAt, NextEvent, Events, StreamInv, TypeOK
    <3>2. step # "closed"
      BY <2>1 DEF AddAt, StreamInv, LastInv
    <3> QED
      BY <2>1, <3>1, <3>2 DEF AddAt, Queue!QueueNext, Queue!Record
  <2>2. CASE Write
    <3>1. sent' # sent
      BY <2>2 DEF Write
    <3> QED
      BY <2>2, <3>1, WriteSends DEF Queue!QueueNext
  <2>3. CASE FinishStream
    BY <2>3, FinishCloses DEF Queue!QueueNext
  <2>4. CASE \/ \E p \in Producers : WakeSubscriber(p)
             \/ GrpcClient
    BY <2>4 DEF WakeSubscriber, GrpcClient, BeginFinish, StoreFinishing, NotifyFinishing,
                Join, Wake
  <2>5. CASE TestFinishing \/ WaitFor \/ WakeUp \/ ReadFinishing \/ Pop
    BY <2>5 DEF TestFinishing, WaitFor, WakeUp, ReadFinishing, Pop, AfterReap
  <2>6. CASE UNCHANGED vars
    BY <2>6 DEF vars
  <2> QED
    BY <2>1, <2>2, <2>3, <2>4, <2>5, <2>6 DEF Next, GrpcThread
<1> QED
  BY <1>1, <1>2, StreamInit, StreamNext, PTL DEF Spec, ImplementsQueue, Queue!QueueSpec
=============================================================================
